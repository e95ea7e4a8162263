-------------------------- MODULE PaperBookProofs --------------------------
(***************************************************************************)
(* Proofs about PaperBook, for any calls, call lists, quantities, documents*)
(* and openings.                                                           *)
(***************************************************************************)
EXTENDS PaperBook, TLAPS

-----------------------------------------------------------------------------
(* The invariants every step keeps, whatever the paths and the faults.     *)

\* The wallet lock: a call inside its body is the head of the chain.
Turn ==
    \A j \in Calls : pc[j] \in {"tx", "write", "install"} =>
       chain # <<>> /\ Head(chain) = j

\* A closer under way holds the position it read, a trim one it leaves part of.
Held ==
    \A j \in Calls :
       /\ kind[j] \notin {"order", "entry"}
       /\ pc[j] \in {"priced", "saving", "waiting", "tx"}
       => seen[j] # NoPos /\ (kind[j] = "trim" => Qty[j] < seen[j].qty)

\* Only a trim writes a document before it queues; orders have their own steps.
Paths ==
    \A j \in Calls :
       /\ pc[j] = "saving" => kind[j] = "trim"
       /\ pc[j] \in {"write", "install"} => kind[j] = "order"

\* An order about to write is creating a document that does not exist, or
\* keeps to the document of the position it found.
Decided ==
    \A j \in Calls : pc[j] = "write" =>
       /\ seen[j] = NoPos =>
             /\ plan[j] # NoPos
             /\ status[plan[j].doc] = "none"
             /\ plan[j].qty = Qty[j]
       /\ seen[j] # NoPos /\ plan[j] # NoPos => plan[j].doc = seen[j].doc

\* An entry about to commit can still pay.
Funded == \A j \in Calls : kind[j] = "entry" /\ pc[j] = "tx" => Qty[j] <= mem

\* An open trade has a quantity.
Sized == \A d \in Docs : status[d] = "OPEN" => docQty[d] # 0

Inv == TypeOK /\ Turn /\ Held /\ Paths /\ Decided /\ Funded /\ Sized

\* A body that ends leaves lock and position map in their types.
LEMMA ReleaseType ==
  ASSUME TypeOK, NEW j \in Calls, chain # <<>>,
         NEW w \in PaperPosition \cup {NoPos, Nothing}, Release(j, w)
  PROVE  /\ pc' \in [Calls -> Pcs]
         /\ chain' \in Seq(Calls)
         /\ pos' \in PaperPosition \cup {NoPos}
         /\ pending' \in PaperPosition \cup {NoPos, Nothing}
<1>1. pc' \in [Calls -> Pcs] /\ chain' \in Seq(Calls)
  BY DEF TypeOK, Release, Pcs
<1>2. pos' \in PaperPosition \cup {NoPos} /\ pending' \in PaperPosition \cup {NoPos, Nothing}
  BY NullAssumption DEF TypeOK, Release
<1> QED
  BY <1>1, <1>2

\* A decision that can be paid leaves every variable in its type.
LEMMA DecideType ==
  ASSUME TypeOK, UNCHANGED kind, NEW j \in Calls, NEW cost \in Int,
         NEW e \in PaperPosition \cup {NoPos},
         NEW result \in PaperPosition \cup {NoPos}, Decide(j, e, result, cost)
  PROVE  TypeOK'
<1>1. mem' \in Nat
  BY DEF TypeOK, Decide, Affordable
<1>2. /\ pc' \in [Calls -> Pcs]
      /\ seen' \in [Calls -> PaperPosition \cup {NoPos}]
      /\ plan' \in [Calls -> PaperPosition \cup {NoPos}]
  BY DEF TypeOK, Decide, Pcs
<1>3. pos' \in PaperPosition \cup {NoPos} /\ pending' \in PaperPosition \cup {NoPos, Nothing}
  BY DEF TypeOK, Decide, Settle
<1> QED
  BY <1>1, <1>2, <1>3 DEF TypeOK, Decide, trades

\* A new quantity makes another position of the same trade.
LEMMA Resized ==
  ASSUME NEW p \in PaperPosition, NEW q \in Nat \ {0}
  PROVE  [p EXCEPT !.qty = q] \in PaperPosition
BY DEF PaperPosition

\* What a closer under way has read.
LEMMA SeenPosition ==
  ASSUME TypeOK, Held, NEW j \in Calls, kind[j] \notin {"order", "entry"},
         pc[j] \in {"priced", "saving", "waiting", "tx"}
  PROVE  /\ seen[j] \in PaperPosition
         /\ kind[j] = "trim" => Qty[j] < seen[j].qty
BY DEF TypeOK, Held

\* The parts of a position are of their types.
LEMMA PositionParts ==
  ASSUME NEW p \in PaperPosition
  PROVE  p.doc \in Docs /\ p.side \in Sides /\ p.qty \in Nat \ {0}
BY DEF PaperPosition

\* An order that averages in leaves every variable in its type.
LEMMA TypeAdds ==
  ASSUME TypeOK, NEW j \in Calls, OrderAdds(j), UNCHANGED kind
  PROVE  TypeOK'
<1>1. pos \in PaperPosition
  BY DEF OrderAdds, Existing, TypeOK
<1>2. Qty[j] \in Nat \ {0}
  BY BookAssumption
<1>3. pos.qty + Qty[j] \in Nat \ {0}
  BY <1>1, <1>2, PositionParts
<1>4. [pos EXCEPT !.qty = pos.qty + Qty[j]] \in PaperPosition
  BY <1>1, <1>3, Resized
<1>5. Decide(j, pos, [pos EXCEPT !.qty = pos.qty + Qty[j]], Qty[j])
  BY DEF OrderAdds, Existing
<1> QED
  BY <1>1, <1>2, <1>4, <1>5, DecideType

\* So does one that reduces or closes: the quantity left is above zero.
LEMMA TypeReduces ==
  ASSUME TypeOK, NEW j \in Calls, OrderReduces(j), UNCHANGED kind
  PROVE  TypeOK'
<1> DEFINE cut == ReduceQty(j, pos)
           left == IF pos.qty > cut THEN [pos EXCEPT !.qty = pos.qty - cut] ELSE NoPos
<1>1. pos \in PaperPosition
  BY DEF OrderReduces, Existing, TypeOK
<1>2. cut \in Nat /\ pos.qty \in Nat
  BY <1>1, BookAssumption, PositionParts DEF ReduceQty
<1>3. left \in PaperPosition \cup {NoPos}
  BY <1>1, <1>2, Resized
<1>4. Decide(j, pos, left, - cut)
  BY DEF OrderReduces, Existing
<1>5. - cut \in Int
  BY <1>2
<1> HIDE DEF cut, left
<1> QED
  BY <1>1, <1>3, <1>4, <1>5, DecideType

\* So does the write of an order's document.
LEMMA TypeWrite ==
  ASSUME TypeOK, Decided, NEW j \in Calls, OrderWrite(j), UNCHANGED kind
  PROVE  TypeOK'
<1>1. Save(j) /\ pc' = [pc EXCEPT ![j] = "install"]
      /\ UNCHANGED <<mem, pos, seen, plan, chain, pending>>
  BY DEF OrderWrite
<1>2. /\ seen[j] \in PaperPosition \cup {NoPos} /\ plan[j] \in PaperPosition \cup {NoPos}
      /\ plan[j] = NoPos => seen[j] # NoPos
  BY DEF OrderWrite, At, TypeOK, Decided
<1>3. status' \in [Docs -> {"none", "OPEN", "CLOSED"}] /\ docQty' \in [Docs -> Nat]
  <2>1. CASE plan[j] = NoPos
    BY <1>1, <1>2, <2>1, PositionParts DEF Save, TypeOK
  <2>2. CASE plan[j] # NoPos
    BY <1>1, <1>2, <2>2, PositionParts DEF Save, TypeOK
  <2> QED
    BY <2>1, <2>2
<1>4. pc' \in [Calls -> Pcs]
  BY <1>1 DEF TypeOK, Pcs
<1> QED
  BY <1>1, <1>3, <1>4 DEF TypeOK

\* So does the end of a closer, whether it claimed the trade or not.
LEMMA TypeCommit ==
  ASSUME TypeOK, Turn, Held, NEW j \in Calls, CloseCommit(j), UNCHANGED kind
  PROVE  TypeOK'
<1>1. seen[j] \in PaperPosition
  BY SeenPosition DEF CloseCommit, At
<1>2. chain # <<>> /\ Release(j, NoPos) /\ UNCHANGED <<docQty, seen, plan>>
  BY DEF CloseCommit, At, ClosedPosition, Turn
<1>3. mem' \in Nat /\ status' \in [Docs -> {"none", "OPEN", "CLOSED"}]
  <2>1. CASE Claimed(j)
    <3>1. /\ status' = [status EXCEPT ![seen[j].doc] = "CLOSED"]
          /\ mem' = mem + seen[j].qty
      BY <2>1 DEF CloseCommit
    <3>2. seen[j].qty \in Nat
      BY <1>1, PositionParts
    <3>3. mem' \in Nat
      BY <3>1, <3>2 DEF TypeOK
    <3>4. status' \in [Docs -> {"none", "OPEN", "CLOSED"}]
      BY <3>1 DEF TypeOK
    <3> QED
      BY <3>3, <3>4
  <2>2. CASE ~Claimed(j)
    BY <2>2 DEF CloseCommit, TypeOK
  <2> QED
    BY <2>1, <2>2
<1>4. /\ pc' \in [Calls -> Pcs] /\ chain' \in Seq(Calls)
      /\ pos' \in PaperPosition \cup {NoPos}
      /\ pending' \in PaperPosition \cup {NoPos, Nothing}
  BY <1>2, ReleaseType
<1> QED
  BY <1>2, <1>3, <1>4 DEF TypeOK

\* So does a trim's write of the position map.
LEMMA TypeTrimSet ==
  ASSUME TypeOK, Held, NEW j \in Calls, TrimSet(j), UNCHANGED kind
  PROVE  TypeOK'
<1>1. seen[j] \in PaperPosition /\ Qty[j] < seen[j].qty
  BY SeenPosition DEF TrimSet, At
<1>2. seen[j].qty - Qty[j] \in Nat \ {0}
  BY <1>1, BookAssumption, PositionParts
<1>3. [seen[j] EXCEPT !.qty = seen[j].qty - Qty[j]] \in PaperPosition
  BY <1>1, <1>2, Resized
<1>4. pc' \in [Calls -> Pcs]
  BY DEF TrimSet, TypeOK, Pcs
<1> QED
  BY <1>3, <1>4 DEF TrimSet, TypeOK, trades

\* A trim that was allowed to start leaves part of what it read.
LEMMA RemainingPositive ==
  ASSUME TypeOK, Held, Paths, NEW j \in Calls, pc[j] = "saving"
  PROVE  Remaining(j) \in Nat \ {0} /\ seen[j].doc \in Docs
<1>1. seen[j] \in PaperPosition /\ Qty[j] < seen[j].qty
  BY SeenPosition DEF Paths
<1> QED
  BY <1>1, BookAssumption, PositionParts DEF Remaining

\* So a trim's write of the document leaves it a quantity.
LEMMA TypeTrimWrite ==
  ASSUME TypeOK, Held, Paths, NEW j \in Calls, TrimWrite(j), UNCHANGED kind
  PROVE  TypeOK'
<1>1. Remaining(j) \in Nat
  BY RemainingPositive DEF TrimWrite, At
<1>2. docQty' \in [Docs -> Nat]
  BY <1>1 DEF TrimWrite, TypeOK
<1>3. pc' \in [Calls -> Pcs] /\ chain' \in Seq(Calls)
  BY DEF TrimWrite, Enqueue, TypeOK, Pcs
<1> QED
  BY <1>2, <1>3 DEF TrimWrite, TypeOK

\* An engine entry that looks at the book leaves every variable in its type.
LEMMA TypeEntryCall ==
  ASSUME TypeOK, NEW j \in Calls, EntryCall(j), UNCHANGED kind
  PROVE  TypeOK'
<1>1. pc' = [pc EXCEPT ![j] = "priced"] \/ pc' = [pc EXCEPT ![j] = "done"]
  BY Zenon DEF EntryCall
<1>2. pc' \in [Calls -> Pcs]
  BY <1>1 DEF TypeOK, Pcs
<1>3. UNCHANGED <<mem, pos, trades, seen, plan, chain, pending>>
  BY DEF EntryCall
<1> QED
  BY <1>2, <1>3 DEF TypeOK, trades

\* So does one that gets the lock, whether it can pay or not.
LEMMA TypeEntryStart ==
  ASSUME TypeOK, NEW j \in Calls, EntryStart(j), UNCHANGED kind
  PROVE  TypeOK'
<1>1. chain # <<>> /\ Settle /\ UNCHANGED <<mem, trades, seen, plan>>
  BY DEF EntryStart, MyTurn
<1>2. pc' \in [Calls -> Pcs] /\ chain' \in Seq(Calls)
  <2>1. CASE Affordable(Qty[j])
    BY <2>1 DEF EntryStart, TypeOK, Pcs
  <2>2. CASE ~Affordable(Qty[j])
    <3>1. pc' = [pc EXCEPT ![j] = "done"] /\ chain' = Tail(chain)
      BY <2>2 DEF EntryStart
    <3> QED
      BY <1>1, <3>1 DEF TypeOK, Pcs
  <2> QED
    BY <2>1, <2>2
<1>3. pos' \in PaperPosition \cup {NoPos} /\ pending' \in PaperPosition \cup {NoPos, Nothing}
  BY <1>1 DEF Settle, TypeOK
<1> QED
  BY <1>1, <1>2, <1>3 DEF TypeOK, trades

\* So does one that pays, since the wallet still holds the money.
LEMMA TypeEntryCommit ==
  ASSUME TypeOK, Turn, Funded, NEW j \in Calls, EntryCommit(j), UNCHANGED kind
  PROVE  TypeOK'
<1>1. PICK d \in Docs :
         /\ status' = [status EXCEPT ![d] = "OPEN"]
         /\ docQty' = [docQty EXCEPT ![d] = Qty[j]]
         /\ Release(j, [doc |-> d, side |-> Side[j], qty |-> Qty[j]])
  BY DEF EntryCommit
<1>2. Qty[j] \in Nat \ {0} /\ Side[j] \in Sides
  BY BookAssumption
<1>3. [doc |-> d, side |-> Side[j], qty |-> Qty[j]] \in PaperPosition
  BY <1>2 DEF PaperPosition
<1>4. chain # <<>> /\ mem' \in Nat /\ UNCHANGED <<seen, plan>>
  BY <1>2 DEF EntryCommit, At, Turn, Funded, TypeOK
<1>5. status' \in [Docs -> {"none", "OPEN", "CLOSED"}] /\ docQty' \in [Docs -> Nat]
  BY <1>1, <1>2 DEF TypeOK
<1>6. /\ pc' \in [Calls -> Pcs] /\ chain' \in Seq(Calls)
      /\ pos' \in PaperPosition \cup {NoPos}
      /\ pending' \in PaperPosition \cup {NoPos, Nothing}
  BY <1>1, <1>3, <1>4, ReleaseType
<1> QED
  BY <1>4, <1>5, <1>6 DEF TypeOK

\* A close that reads an open document has a position of its own to close.
LEMMA HeldCloseCall ==
  ASSUME TypeOK, Held, Sized, NEW j \in Calls, CloseCall(j), UNCHANGED kind
  PROVE  Held'
<1>1. PICK d \in Docs : /\ Read(j, [doc |-> d, side |-> Side[j], qty |-> docQty[d]])
                       /\ status[d] = "OPEN"
  BY DEF CloseCall
<1>2. kind[j] = "close"
  BY DEF CloseCall
<1>3. seen' = [seen EXCEPT ![j] = [doc |-> d, side |-> Side[j], qty |-> docQty[d]]]
      /\ pc' = [pc EXCEPT ![j] = "priced"]
  BY <1>1 DEF Read
<1>4. [doc |-> d, side |-> Side[j], qty |-> docQty[d]] \in PaperPosition
  BY <1>1, BookAssumption DEF TypeOK, Sized, PaperPosition
<1>5. [doc |-> d, side |-> Side[j], qty |-> docQty[d]] # NoPos
  BY <1>4, NullAssumption, Zenon
<1> QED
  BY <1>2, <1>3, <1>5 DEF TypeOK, Held

\* Every step keeps the variables in their types, the wallet in Nat.
LEMMA NextType ==
  ASSUME TypeOK, Turn, Held, Paths, Decided, Funded, Sized, [Next]_vars
  PROVE  TypeOK'
<1> USE BookAssumption, NullAssumption
<1>1. ASSUME NEW j \in Calls, OrderCall(j), UNCHANGED kind PROVE TypeOK'
  BY <1>1 DEF OrderCall, Idle, Enqueue, TypeOK, Turn, Paths, Decided, Sized, PaperPosition, Pcs, trades
<1>2. ASSUME NEW j \in Calls, OrderOpens(j), UNCHANGED kind PROVE TypeOK'
  BY <1>2 DEF OrderOpens, MyTurn, Decide, Settle, Existing, Affordable, TypeOK, Turn, Paths, Decided, Sized, PaperPosition, Pcs, trades
<1>3. ASSUME NEW j \in Calls, OrderAdds(j), UNCHANGED kind PROVE TypeOK'
  BY <1>3, TypeAdds
<1>4. ASSUME NEW j \in Calls, OrderReduces(j), UNCHANGED kind PROVE TypeOK'
  BY <1>4, TypeReduces
<1>5. ASSUME NEW j \in Calls, OrderRejected(j), UNCHANGED kind PROVE TypeOK'
  BY <1>5 DEF OrderRejected, MyTurn, Settle, TypeOK, Turn, Paths, Decided, Sized, PaperPosition, Pcs, trades
<1>6. ASSUME NEW j \in Calls, OrderWrite(j), UNCHANGED kind PROVE TypeOK'
  BY <1>6, TypeWrite
<1>7. ASSUME NEW j \in Calls, OrderCreateFails(j), UNCHANGED kind PROVE TypeOK'
  BY <1>7 DEF OrderCreateFails, At, Refunded, Release, TypeOK, Turn, Paths, Decided, Sized, PaperPosition, Pcs, trades
<1>8. ASSUME NEW j \in Calls, OrderUpdateFails(j), UNCHANGED kind PROVE TypeOK'
  BY <1>8 DEF OrderUpdateFails, At, Release, TypeOK, Turn, Paths, Decided, Sized, PaperPosition, Pcs, trades
<1>9. ASSUME NEW j \in Calls, OrderInstall(j), UNCHANGED kind PROVE TypeOK'
  BY <1>9 DEF OrderInstall, At, TypeOK, Turn, Paths, Decided, Sized, PaperPosition, Pcs, trades
<1>10. ASSUME NEW j \in Calls, OrderInstallFails(j), UNCHANGED kind PROVE TypeOK'
  BY <1>10 DEF OrderInstallFails, At, Release, TypeOK, Turn, Paths, Decided, Sized, PaperPosition, Pcs, trades
<1>11. ASSUME NEW j \in Calls, CloseCall(j), UNCHANGED kind PROVE TypeOK'
  BY <1>11 DEF CloseCall, Idle, Read, TypeOK, Turn, Paths, Decided, Sized, PaperPosition, Pcs, trades
<1>12. ASSUME NEW j \in Calls, MonitorCall(j), UNCHANGED kind PROVE TypeOK'
  BY <1>12 DEF MonitorCall, Idle, Read, TypeOK, Turn, Paths, Decided, Sized, PaperPosition, Pcs, trades
<1>13. ASSUME NEW j \in Calls, ExitCall(j), UNCHANGED kind PROVE TypeOK'
  BY <1>13 DEF ExitCall, Idle, Read, TypeOK, Turn, Paths, Decided, Sized, PaperPosition, Pcs, trades
<1>14. ASSUME NEW j \in Calls, ExitSkipped(j), UNCHANGED kind PROVE TypeOK'
  BY <1>14 DEF ExitSkipped, Idle, Return, TypeOK, Turn, Paths, Decided, Sized, PaperPosition, Pcs, trades
<1>15. ASSUME NEW j \in Calls, CloseQueue(j), UNCHANGED kind PROVE TypeOK'
  BY <1>15 DEF CloseQueue, At, Enqueue, TypeOK, Turn, Paths, Decided, Sized, PaperPosition, Pcs, trades
<1>16. ASSUME NEW j \in Calls, CloseStart(j), UNCHANGED kind PROVE TypeOK'
  BY <1>16 DEF CloseStart, MyTurn, Settle, TypeOK, Turn, Paths, Decided, Sized, PaperPosition, Pcs, trades
<1>17. ASSUME NEW j \in Calls, CloseCommit(j), UNCHANGED kind PROVE TypeOK'
  BY <1>17, TypeCommit
<1>18. ASSUME NEW j \in Calls, CloseFails(j), UNCHANGED kind PROVE TypeOK'
  BY <1>18 DEF CloseFails, At, Release, TypeOK, Turn, Paths, Decided, Sized, PaperPosition, Pcs, trades
<1>19. ASSUME NEW j \in Calls, TrimSet(j), UNCHANGED kind PROVE TypeOK'
  BY <1>19, TypeTrimSet
<1>20. ASSUME NEW j \in Calls, TrimWrite(j), UNCHANGED kind PROVE TypeOK'
  BY <1>20, TypeTrimWrite
<1>21. ASSUME NEW j \in Calls, TrimWriteFails(j), UNCHANGED kind PROVE TypeOK'
  BY <1>21 DEF TrimWriteFails, At, Return, TypeOK, Turn, Paths, Decided, Sized, PaperPosition, Pcs, trades
<1>22. ASSUME NEW j \in Calls, TrimCredit(j), UNCHANGED kind PROVE TypeOK'
  BY <1>22 DEF TrimCredit, MyTurn, Settle, TypeOK, Turn, Paths, Decided, Sized, PaperPosition, Pcs, trades
<1>23. ASSUME NEW j \in Calls, RatchetSet(j), UNCHANGED kind PROVE TypeOK'
  BY <1>23 DEF RatchetSet, At, TypeOK, Turn, Paths, Decided, Sized, PaperPosition, Pcs, trades
<1>24. ASSUME NEW j \in Calls, EntryCall(j), UNCHANGED kind PROVE TypeOK'
  BY <1>24, TypeEntryCall
<1>25. ASSUME NEW j \in Calls, EntryQueue(j), UNCHANGED kind PROVE TypeOK'
  BY <1>25 DEF EntryQueue, At, Enqueue, TypeOK, Turn, Paths, Decided, Sized, PaperPosition, Pcs, trades
<1>26. ASSUME NEW j \in Calls, EntryStart(j), UNCHANGED kind PROVE TypeOK'
  BY <1>26, TypeEntryStart
<1>27. ASSUME NEW j \in Calls, EntryCommit(j), UNCHANGED kind PROVE TypeOK'
  BY <1>27, TypeEntryCommit
<1>28. ASSUME NEW j \in Calls, EntryFails(j), UNCHANGED kind PROVE TypeOK'
  BY <1>28 DEF EntryFails, At, Release, TypeOK, Turn, Paths, Decided, Sized, PaperPosition, Pcs, trades
<1>29. CASE UNCHANGED vars
  BY <1>29 DEF vars, trades, TypeOK, Turn, Paths, Decided, Sized, PaperPosition, Pcs
<1> QED
  BY <1>1, <1>2, <1>3, <1>4, <1>5, <1>6, <1>7, <1>8, <1>9, <1>10, <1>11,
     <1>12, <1>13, <1>14, <1>15, <1>16, <1>17, <1>18, <1>19, <1>20,
     <1>21, <1>22, <1>23, <1>24, <1>25, <1>26, <1>27, <1>28, <1>29
     DEF Next, Order, Close, Trim, Entry

\* Bodies start at the head of the chain, and it moves on when they end.
LEMMA NextTurn ==
  ASSUME TypeOK, Turn, [Next]_vars
  PROVE  Turn'
<1> USE BookAssumption DEF TypeOK, Turn, trades
<1>1. ASSUME NEW j \in Calls, OrderCall(j), UNCHANGED kind PROVE Turn'
  BY <1>1 DEF OrderCall, Idle, Enqueue
<1>2. ASSUME NEW j \in Calls, OrderOpens(j), UNCHANGED kind PROVE Turn'
  BY <1>2 DEF OrderOpens, MyTurn, Decide, Settle, Existing, Affordable
<1>3. ASSUME NEW j \in Calls, OrderAdds(j), UNCHANGED kind PROVE Turn'
  BY <1>3 DEF OrderAdds, MyTurn, Decide, Settle, Existing, Affordable
<1>4. ASSUME NEW j \in Calls, OrderReduces(j), UNCHANGED kind PROVE Turn'
  BY <1>4 DEF OrderReduces, MyTurn, Decide, Settle, Existing, Affordable, ReduceQty
<1>5. ASSUME NEW j \in Calls, OrderRejected(j), UNCHANGED kind PROVE Turn'
  BY <1>5 DEF OrderRejected, MyTurn, Settle
<1>6. ASSUME NEW j \in Calls, OrderWrite(j), UNCHANGED kind PROVE Turn'
  BY <1>6 DEF OrderWrite, At, Save
<1>7. ASSUME NEW j \in Calls, OrderCreateFails(j), UNCHANGED kind PROVE Turn'
  BY <1>7 DEF OrderCreateFails, At, Refunded, Release
<1>8. ASSUME NEW j \in Calls, OrderUpdateFails(j), UNCHANGED kind PROVE Turn'
  BY <1>8 DEF OrderUpdateFails, At, Release
<1>9. ASSUME NEW j \in Calls, OrderInstall(j), UNCHANGED kind PROVE Turn'
  BY <1>9 DEF OrderInstall, At
<1>10. ASSUME NEW j \in Calls, OrderInstallFails(j), UNCHANGED kind PROVE Turn'
  BY <1>10 DEF OrderInstallFails, At, Release
<1>11. ASSUME NEW j \in Calls, CloseCall(j), UNCHANGED kind PROVE Turn'
  BY <1>11 DEF CloseCall, Idle, Read
<1>12. ASSUME NEW j \in Calls, MonitorCall(j), UNCHANGED kind PROVE Turn'
  BY <1>12 DEF MonitorCall, Idle, Read
<1>13. ASSUME NEW j \in Calls, ExitCall(j), UNCHANGED kind PROVE Turn'
  BY <1>13 DEF ExitCall, Idle, Read
<1>14. ASSUME NEW j \in Calls, ExitSkipped(j), UNCHANGED kind PROVE Turn'
  BY <1>14 DEF ExitSkipped, Idle, Return
<1>15. ASSUME NEW j \in Calls, CloseQueue(j), UNCHANGED kind PROVE Turn'
  BY <1>15 DEF CloseQueue, At, Enqueue
<1>16. ASSUME NEW j \in Calls, CloseStart(j), UNCHANGED kind PROVE Turn'
  BY <1>16 DEF CloseStart, MyTurn, Settle
<1>17. ASSUME NEW j \in Calls, CloseCommit(j), UNCHANGED kind PROVE Turn'
  <2>1. At(j, "tx") /\ Release(j, ClosedPosition)
    BY <1>17 DEF CloseCommit
  <2> QED
    BY <2>1 DEF At, Release
<1>18. ASSUME NEW j \in Calls, CloseFails(j), UNCHANGED kind PROVE Turn'
  BY <1>18 DEF CloseFails, At, Release
<1>19. ASSUME NEW j \in Calls, TrimSet(j), UNCHANGED kind PROVE Turn'
  BY <1>19 DEF TrimSet, At
<1>20. ASSUME NEW j \in Calls, TrimWrite(j), UNCHANGED kind PROVE Turn'
  BY <1>20 DEF TrimWrite, At, Remaining, Enqueue
<1>21. ASSUME NEW j \in Calls, TrimWriteFails(j), UNCHANGED kind PROVE Turn'
  BY <1>21 DEF TrimWriteFails, At, Return
<1>22. ASSUME NEW j \in Calls, TrimCredit(j), UNCHANGED kind PROVE Turn'
  BY <1>22 DEF TrimCredit, MyTurn, Settle
<1>23. ASSUME NEW j \in Calls, RatchetSet(j), UNCHANGED kind PROVE Turn'
  BY <1>23 DEF RatchetSet, At
<1>24. ASSUME NEW j \in Calls, EntryCall(j), UNCHANGED kind PROVE Turn'
  BY <1>24 DEF EntryCall, Idle
<1>25. ASSUME NEW j \in Calls, EntryQueue(j), UNCHANGED kind PROVE Turn'
  BY <1>25 DEF EntryQueue, At, Enqueue
<1>26. ASSUME NEW j \in Calls, EntryStart(j), UNCHANGED kind PROVE Turn'
  BY <1>26 DEF EntryStart, MyTurn, Affordable, Settle
<1>27. ASSUME NEW j \in Calls, EntryCommit(j), UNCHANGED kind PROVE Turn'
  BY <1>27 DEF EntryCommit, At, Release
<1>28. ASSUME NEW j \in Calls, EntryFails(j), UNCHANGED kind PROVE Turn'
  BY <1>28 DEF EntryFails, At, Release
<1>29. CASE UNCHANGED vars
  BY <1>29 DEF vars, trades
<1> QED
  BY <1>1, <1>2, <1>3, <1>4, <1>5, <1>6, <1>7, <1>8, <1>9, <1>10, <1>11,
     <1>12, <1>13, <1>14, <1>15, <1>16, <1>17, <1>18, <1>19, <1>20,
     <1>21, <1>22, <1>23, <1>24, <1>25, <1>26, <1>27, <1>28, <1>29
     DEF Next, Order, Close, Trim, Entry

\* What a closer read stays with it.
LEMMA NextHeld ==
  ASSUME TypeOK, Held, Sized, [Next]_vars
  PROVE  Held'
<1> USE BookAssumption, NullAssumption DEF TypeOK, Held, PaperPosition, trades
<1>1. ASSUME NEW j \in Calls, OrderCall(j), UNCHANGED kind PROVE Held'
  BY <1>1 DEF OrderCall, Idle, Enqueue
<1>2. ASSUME NEW j \in Calls, OrderOpens(j), UNCHANGED kind PROVE Held'
  BY <1>2 DEF OrderOpens, MyTurn, Decide, Settle, Existing, Affordable
<1>3. ASSUME NEW j \in Calls, OrderAdds(j), UNCHANGED kind PROVE Held'
  BY <1>3 DEF OrderAdds, MyTurn, Decide, Settle, Existing, Affordable
<1>4. ASSUME NEW j \in Calls, OrderReduces(j), UNCHANGED kind PROVE Held'
  BY <1>4 DEF OrderReduces, MyTurn, Decide, Settle, Existing, Affordable, ReduceQty
<1>5. ASSUME NEW j \in Calls, OrderRejected(j), UNCHANGED kind PROVE Held'
  BY <1>5 DEF OrderRejected, MyTurn, Settle
<1>6. ASSUME NEW j \in Calls, OrderWrite(j), UNCHANGED kind PROVE Held'
  BY <1>6 DEF OrderWrite, At, Save
<1>7. ASSUME NEW j \in Calls, OrderCreateFails(j), UNCHANGED kind PROVE Held'
  BY <1>7 DEF OrderCreateFails, At, Refunded, Release
<1>8. ASSUME NEW j \in Calls, OrderUpdateFails(j), UNCHANGED kind PROVE Held'
  BY <1>8 DEF OrderUpdateFails, At, Release
<1>9. ASSUME NEW j \in Calls, OrderInstall(j), UNCHANGED kind PROVE Held'
  BY <1>9 DEF OrderInstall, At
<1>10. ASSUME NEW j \in Calls, OrderInstallFails(j), UNCHANGED kind PROVE Held'
  BY <1>10 DEF OrderInstallFails, At, Release
<1>11. ASSUME NEW j \in Calls, CloseCall(j), UNCHANGED kind PROVE Held'
  BY <1>11, HeldCloseCall
<1>12. ASSUME NEW j \in Calls, MonitorCall(j), UNCHANGED kind PROVE Held'
  BY <1>12 DEF MonitorCall, Idle, Read
<1>13. ASSUME NEW j \in Calls, ExitCall(j), UNCHANGED kind PROVE Held'
  BY <1>13 DEF ExitCall, Idle, Read
<1>14. ASSUME NEW j \in Calls, ExitSkipped(j), UNCHANGED kind PROVE Held'
  BY <1>14 DEF ExitSkipped, Idle, Return
<1>15. ASSUME NEW j \in Calls, CloseQueue(j), UNCHANGED kind PROVE Held'
  BY <1>15 DEF CloseQueue, At, Enqueue
<1>16. ASSUME NEW j \in Calls, CloseStart(j), UNCHANGED kind PROVE Held'
  BY <1>16 DEF CloseStart, MyTurn, Settle
<1>17. ASSUME NEW j \in Calls, CloseCommit(j), UNCHANGED kind PROVE Held'
  BY <1>17 DEF CloseCommit, At, Claimed, Release, ClosedPosition
<1>18. ASSUME NEW j \in Calls, CloseFails(j), UNCHANGED kind PROVE Held'
  BY <1>18 DEF CloseFails, At, Release
<1>19. ASSUME NEW j \in Calls, TrimSet(j), UNCHANGED kind PROVE Held'
  BY <1>19 DEF TrimSet, At
<1>20. ASSUME NEW j \in Calls, TrimWrite(j), UNCHANGED kind PROVE Held'
  BY <1>20 DEF TrimWrite, At, Remaining, Enqueue
<1>21. ASSUME NEW j \in Calls, TrimWriteFails(j), UNCHANGED kind PROVE Held'
  BY <1>21 DEF TrimWriteFails, At, Return
<1>22. ASSUME NEW j \in Calls, TrimCredit(j), UNCHANGED kind PROVE Held'
  BY <1>22 DEF TrimCredit, MyTurn, Settle
<1>23. ASSUME NEW j \in Calls, RatchetSet(j), UNCHANGED kind PROVE Held'
  BY <1>23 DEF RatchetSet, At
<1>24. ASSUME NEW j \in Calls, EntryCall(j), UNCHANGED kind PROVE Held'
  BY <1>24 DEF EntryCall, Idle
<1>25. ASSUME NEW j \in Calls, EntryQueue(j), UNCHANGED kind PROVE Held'
  BY <1>25 DEF EntryQueue, At, Enqueue
<1>26. ASSUME NEW j \in Calls, EntryStart(j), UNCHANGED kind PROVE Held'
  BY <1>26 DEF EntryStart, MyTurn, Affordable, Settle
<1>27. ASSUME NEW j \in Calls, EntryCommit(j), UNCHANGED kind PROVE Held'
  BY <1>27 DEF EntryCommit, At, Release
<1>28. ASSUME NEW j \in Calls, EntryFails(j), UNCHANGED kind PROVE Held'
  BY <1>28 DEF EntryFails, At, Release
<1>29. CASE UNCHANGED vars
  BY <1>29 DEF vars, trades
<1> QED
  BY <1>1, <1>2, <1>3, <1>4, <1>5, <1>6, <1>7, <1>8, <1>9, <1>10, <1>11,
     <1>12, <1>13, <1>14, <1>15, <1>16, <1>17, <1>18, <1>19, <1>20,
     <1>21, <1>22, <1>23, <1>24, <1>25, <1>26, <1>27, <1>28, <1>29
     DEF Next, Order, Close, Trim, Entry

\* Each path has its own steps.
LEMMA NextPaths ==
  ASSUME TypeOK, Paths, [Next]_vars
  PROVE  Paths'
<1> USE BookAssumption DEF TypeOK, Paths, Kinds, trades
<1>1. ASSUME NEW j \in Calls, OrderCall(j), UNCHANGED kind PROVE Paths'
  BY <1>1 DEF OrderCall, Idle, Enqueue
<1>2. ASSUME NEW j \in Calls, OrderOpens(j), UNCHANGED kind PROVE Paths'
  BY <1>2 DEF OrderOpens, MyTurn, Decide, Settle, Existing, Affordable
<1>3. ASSUME NEW j \in Calls, OrderAdds(j), UNCHANGED kind PROVE Paths'
  BY <1>3 DEF OrderAdds, MyTurn, Decide, Settle, Existing, Affordable
<1>4. ASSUME NEW j \in Calls, OrderReduces(j), UNCHANGED kind PROVE Paths'
  BY <1>4 DEF OrderReduces, MyTurn, Decide, Settle, Existing, Affordable, ReduceQty
<1>5. ASSUME NEW j \in Calls, OrderRejected(j), UNCHANGED kind PROVE Paths'
  BY <1>5 DEF OrderRejected, MyTurn, Settle
<1>6. ASSUME NEW j \in Calls, OrderWrite(j), UNCHANGED kind PROVE Paths'
  BY <1>6 DEF OrderWrite, At, Save
<1>7. ASSUME NEW j \in Calls, OrderCreateFails(j), UNCHANGED kind PROVE Paths'
  BY <1>7 DEF OrderCreateFails, At, Refunded, Release
<1>8. ASSUME NEW j \in Calls, OrderUpdateFails(j), UNCHANGED kind PROVE Paths'
  BY <1>8 DEF OrderUpdateFails, At, Release
<1>9. ASSUME NEW j \in Calls, OrderInstall(j), UNCHANGED kind PROVE Paths'
  BY <1>9 DEF OrderInstall, At
<1>10. ASSUME NEW j \in Calls, OrderInstallFails(j), UNCHANGED kind PROVE Paths'
  BY <1>10 DEF OrderInstallFails, At, Release
<1>11. ASSUME NEW j \in Calls, CloseCall(j), UNCHANGED kind PROVE Paths'
  BY <1>11 DEF CloseCall, Idle, Read
<1>12. ASSUME NEW j \in Calls, MonitorCall(j), UNCHANGED kind PROVE Paths'
  BY <1>12 DEF MonitorCall, Idle, Read
<1>13. ASSUME NEW j \in Calls, ExitCall(j), UNCHANGED kind PROVE Paths'
  BY <1>13 DEF ExitCall, Idle, Read
<1>14. ASSUME NEW j \in Calls, ExitSkipped(j), UNCHANGED kind PROVE Paths'
  BY <1>14 DEF ExitSkipped, Idle, Return
<1>15. ASSUME NEW j \in Calls, CloseQueue(j), UNCHANGED kind PROVE Paths'
  BY <1>15 DEF CloseQueue, At, Enqueue
<1>16. ASSUME NEW j \in Calls, CloseStart(j), UNCHANGED kind PROVE Paths'
  BY <1>16 DEF CloseStart, MyTurn, Settle
<1>17. ASSUME NEW j \in Calls, CloseCommit(j), UNCHANGED kind PROVE Paths'
  BY <1>17 DEF CloseCommit, At, Claimed, Release, ClosedPosition
<1>18. ASSUME NEW j \in Calls, CloseFails(j), UNCHANGED kind PROVE Paths'
  BY <1>18 DEF CloseFails, At, Release
<1>19. ASSUME NEW j \in Calls, TrimSet(j), UNCHANGED kind PROVE Paths'
  BY <1>19 DEF TrimSet, At
<1>20. ASSUME NEW j \in Calls, TrimWrite(j), UNCHANGED kind PROVE Paths'
  BY <1>20 DEF TrimWrite, At, Remaining, Enqueue
<1>21. ASSUME NEW j \in Calls, TrimWriteFails(j), UNCHANGED kind PROVE Paths'
  BY <1>21 DEF TrimWriteFails, At, Return
<1>22. ASSUME NEW j \in Calls, TrimCredit(j), UNCHANGED kind PROVE Paths'
  BY <1>22 DEF TrimCredit, MyTurn, Settle
<1>23. ASSUME NEW j \in Calls, RatchetSet(j), UNCHANGED kind PROVE Paths'
  BY <1>23 DEF RatchetSet, At
<1>24. ASSUME NEW j \in Calls, EntryCall(j), UNCHANGED kind PROVE Paths'
  BY <1>24 DEF EntryCall, Idle
<1>25. ASSUME NEW j \in Calls, EntryQueue(j), UNCHANGED kind PROVE Paths'
  BY <1>25 DEF EntryQueue, At, Enqueue
<1>26. ASSUME NEW j \in Calls, EntryStart(j), UNCHANGED kind PROVE Paths'
  BY <1>26 DEF EntryStart, MyTurn, Affordable, Settle
<1>27. ASSUME NEW j \in Calls, EntryCommit(j), UNCHANGED kind PROVE Paths'
  BY <1>27 DEF EntryCommit, At, Release
<1>28. ASSUME NEW j \in Calls, EntryFails(j), UNCHANGED kind PROVE Paths'
  BY <1>28 DEF EntryFails, At, Release
<1>29. CASE UNCHANGED vars
  BY <1>29 DEF vars, trades
<1> QED
  BY <1>1, <1>2, <1>3, <1>4, <1>5, <1>6, <1>7, <1>8, <1>9, <1>10, <1>11,
     <1>12, <1>13, <1>14, <1>15, <1>16, <1>17, <1>18, <1>19, <1>20,
     <1>21, <1>22, <1>23, <1>24, <1>25, <1>26, <1>27, <1>28, <1>29
     DEF Next, Order, Close, Trim, Entry

\* Nobody creates a document, or takes the lock, under an order.
LEMMA NextDecided ==
  ASSUME TypeOK, Turn, Paths, Decided, [Next]_vars
  PROVE  Decided'
<1> USE BookAssumption, NullAssumption DEF TypeOK, Turn, Paths, Decided, PaperPosition, trades
<1>1. ASSUME NEW j \in Calls, OrderCall(j), UNCHANGED kind PROVE Decided'
  BY <1>1 DEF OrderCall, Idle, Enqueue
<1>2. ASSUME NEW j \in Calls, OrderOpens(j), UNCHANGED kind PROVE Decided'
  BY <1>2 DEF OrderOpens, MyTurn, Decide, Settle, Existing, Affordable
<1>3. ASSUME NEW j \in Calls, OrderAdds(j), UNCHANGED kind PROVE Decided'
  BY <1>3 DEF OrderAdds, MyTurn, Decide, Settle, Existing, Affordable
<1>4. ASSUME NEW j \in Calls, OrderReduces(j), UNCHANGED kind PROVE Decided'
  BY <1>4 DEF OrderReduces, MyTurn, Decide, Settle, Existing, Affordable, ReduceQty
<1>5. ASSUME NEW j \in Calls, OrderRejected(j), UNCHANGED kind PROVE Decided'
  BY <1>5 DEF OrderRejected, MyTurn, Settle
<1>6. ASSUME NEW j \in Calls, OrderWrite(j), UNCHANGED kind PROVE Decided'
  BY <1>6 DEF OrderWrite, At, Save
<1>7. ASSUME NEW j \in Calls, OrderCreateFails(j), UNCHANGED kind PROVE Decided'
  BY <1>7 DEF OrderCreateFails, At, Refunded, Release
<1>8. ASSUME NEW j \in Calls, OrderUpdateFails(j), UNCHANGED kind PROVE Decided'
  BY <1>8 DEF OrderUpdateFails, At, Release
<1>9. ASSUME NEW j \in Calls, OrderInstall(j), UNCHANGED kind PROVE Decided'
  BY <1>9 DEF OrderInstall, At
<1>10. ASSUME NEW j \in Calls, OrderInstallFails(j), UNCHANGED kind PROVE Decided'
  BY <1>10 DEF OrderInstallFails, At, Release
<1>11. ASSUME NEW j \in Calls, CloseCall(j), UNCHANGED kind PROVE Decided'
  BY <1>11 DEF CloseCall, Idle, Read
<1>12. ASSUME NEW j \in Calls, MonitorCall(j), UNCHANGED kind PROVE Decided'
  BY <1>12 DEF MonitorCall, Idle, Read
<1>13. ASSUME NEW j \in Calls, ExitCall(j), UNCHANGED kind PROVE Decided'
  BY <1>13 DEF ExitCall, Idle, Read
<1>14. ASSUME NEW j \in Calls, ExitSkipped(j), UNCHANGED kind PROVE Decided'
  BY <1>14 DEF ExitSkipped, Idle, Return
<1>15. ASSUME NEW j \in Calls, CloseQueue(j), UNCHANGED kind PROVE Decided'
  BY <1>15 DEF CloseQueue, At, Enqueue
<1>16. ASSUME NEW j \in Calls, CloseStart(j), UNCHANGED kind PROVE Decided'
  BY <1>16 DEF CloseStart, MyTurn, Settle
<1>17. ASSUME NEW j \in Calls, CloseCommit(j), UNCHANGED kind PROVE Decided'
  BY <1>17 DEF CloseCommit, At, Claimed, Release, ClosedPosition
<1>18. ASSUME NEW j \in Calls, CloseFails(j), UNCHANGED kind PROVE Decided'
  BY <1>18 DEF CloseFails, At, Release
<1>19. ASSUME NEW j \in Calls, TrimSet(j), UNCHANGED kind PROVE Decided'
  BY <1>19 DEF TrimSet, At
<1>20. ASSUME NEW j \in Calls, TrimWrite(j), UNCHANGED kind PROVE Decided'
  BY <1>20 DEF TrimWrite, At, Remaining, Enqueue
<1>21. ASSUME NEW j \in Calls, TrimWriteFails(j), UNCHANGED kind PROVE Decided'
  BY <1>21 DEF TrimWriteFails, At, Return
<1>22. ASSUME NEW j \in Calls, TrimCredit(j), UNCHANGED kind PROVE Decided'
  BY <1>22 DEF TrimCredit, MyTurn, Settle
<1>23. ASSUME NEW j \in Calls, RatchetSet(j), UNCHANGED kind PROVE Decided'
  BY <1>23 DEF RatchetSet, At
<1>24. ASSUME NEW j \in Calls, EntryCall(j), UNCHANGED kind PROVE Decided'
  BY <1>24 DEF EntryCall, Idle
<1>25. ASSUME NEW j \in Calls, EntryQueue(j), UNCHANGED kind PROVE Decided'
  BY <1>25 DEF EntryQueue, At, Enqueue
<1>26. ASSUME NEW j \in Calls, EntryStart(j), UNCHANGED kind PROVE Decided'
  BY <1>26 DEF EntryStart, MyTurn, Affordable, Settle
<1>27. ASSUME NEW j \in Calls, EntryCommit(j), UNCHANGED kind PROVE Decided'
  <2>1. pc[j] = "tx" /\ pc' = [pc EXCEPT ![j] = "done"]
    BY <1>27 DEF EntryCommit, At, Release
  <2>2. \A i \in Calls : pc[i] # "write"
    BY <2>1
  <2>3. \A i \in Calls : pc'[i] # "write"
    BY <2>1, <2>2
  <2> QED
    BY <2>3
<1>28. ASSUME NEW j \in Calls, EntryFails(j), UNCHANGED kind PROVE Decided'
  BY <1>28 DEF EntryFails, At, Release
<1>29. CASE UNCHANGED vars
  BY <1>29 DEF vars, trades
<1> QED
  BY <1>1, <1>2, <1>3, <1>4, <1>5, <1>6, <1>7, <1>8, <1>9, <1>10, <1>11,
     <1>12, <1>13, <1>14, <1>15, <1>16, <1>17, <1>18, <1>19, <1>20,
     <1>21, <1>22, <1>23, <1>24, <1>25, <1>26, <1>27, <1>28, <1>29
     DEF Next, Order, Close, Trim, Entry

\* Nobody takes money from the wallet under an entry.
LEMMA NextFunded ==
  ASSUME TypeOK, Turn, Paths, Decided, Funded, [Next]_vars
  PROVE  Funded'
<1> USE BookAssumption, NullAssumption DEF TypeOK, Turn, Paths, Decided, Funded, trades
<1>1. ASSUME NEW j \in Calls, OrderCall(j), UNCHANGED kind PROVE Funded'
  BY <1>1 DEF OrderCall, Idle, Enqueue
<1>2. ASSUME NEW j \in Calls, OrderOpens(j), UNCHANGED kind PROVE Funded'
  BY <1>2 DEF OrderOpens, MyTurn, Decide, Settle, Existing, Affordable
<1>3. ASSUME NEW j \in Calls, OrderAdds(j), UNCHANGED kind PROVE Funded'
  BY <1>3 DEF OrderAdds, MyTurn, Decide, Settle, Existing, Affordable
<1>4. ASSUME NEW j \in Calls, OrderReduces(j), UNCHANGED kind PROVE Funded'
  BY <1>4 DEF OrderReduces, MyTurn, Decide, Settle, Existing, Affordable, ReduceQty
<1>5. ASSUME NEW j \in Calls, OrderRejected(j), UNCHANGED kind PROVE Funded'
  BY <1>5 DEF OrderRejected, MyTurn, Settle
<1>6. ASSUME NEW j \in Calls, OrderWrite(j), UNCHANGED kind PROVE Funded'
  BY <1>6 DEF OrderWrite, At, Save
<1>7. ASSUME NEW j \in Calls, OrderCreateFails(j), UNCHANGED kind PROVE Funded'
  BY <1>7 DEF OrderCreateFails, At, Refunded, Release
<1>8. ASSUME NEW j \in Calls, OrderUpdateFails(j), UNCHANGED kind PROVE Funded'
  BY <1>8 DEF OrderUpdateFails, At, Release
<1>9. ASSUME NEW j \in Calls, OrderInstall(j), UNCHANGED kind PROVE Funded'
  BY <1>9 DEF OrderInstall, At
<1>10. ASSUME NEW j \in Calls, OrderInstallFails(j), UNCHANGED kind PROVE Funded'
  BY <1>10 DEF OrderInstallFails, At, Release
<1>11. ASSUME NEW j \in Calls, CloseCall(j), UNCHANGED kind PROVE Funded'
  BY <1>11 DEF CloseCall, Idle, Read
<1>12. ASSUME NEW j \in Calls, MonitorCall(j), UNCHANGED kind PROVE Funded'
  BY <1>12 DEF MonitorCall, Idle, Read
<1>13. ASSUME NEW j \in Calls, ExitCall(j), UNCHANGED kind PROVE Funded'
  BY <1>13 DEF ExitCall, Idle, Read
<1>14. ASSUME NEW j \in Calls, ExitSkipped(j), UNCHANGED kind PROVE Funded'
  BY <1>14 DEF ExitSkipped, Idle, Return
<1>15. ASSUME NEW j \in Calls, CloseQueue(j), UNCHANGED kind PROVE Funded'
  BY <1>15 DEF CloseQueue, At, Enqueue
<1>16. ASSUME NEW j \in Calls, CloseStart(j), UNCHANGED kind PROVE Funded'
  BY <1>16 DEF CloseStart, MyTurn, Settle
<1>17. ASSUME NEW j \in Calls, CloseCommit(j), UNCHANGED kind PROVE Funded'
  BY <1>17 DEF CloseCommit, At, Claimed, Release, ClosedPosition
<1>18. ASSUME NEW j \in Calls, CloseFails(j), UNCHANGED kind PROVE Funded'
  BY <1>18 DEF CloseFails, At, Release
<1>19. ASSUME NEW j \in Calls, TrimSet(j), UNCHANGED kind PROVE Funded'
  BY <1>19 DEF TrimSet, At
<1>20. ASSUME NEW j \in Calls, TrimWrite(j), UNCHANGED kind PROVE Funded'
  BY <1>20 DEF TrimWrite, At, Remaining, Enqueue
<1>21. ASSUME NEW j \in Calls, TrimWriteFails(j), UNCHANGED kind PROVE Funded'
  BY <1>21 DEF TrimWriteFails, At, Return
<1>22. ASSUME NEW j \in Calls, TrimCredit(j), UNCHANGED kind PROVE Funded'
  BY <1>22 DEF TrimCredit, MyTurn, Settle
<1>23. ASSUME NEW j \in Calls, RatchetSet(j), UNCHANGED kind PROVE Funded'
  BY <1>23 DEF RatchetSet, At
<1>24. ASSUME NEW j \in Calls, EntryCall(j), UNCHANGED kind PROVE Funded'
  BY <1>24 DEF EntryCall, Idle
<1>25. ASSUME NEW j \in Calls, EntryQueue(j), UNCHANGED kind PROVE Funded'
  BY <1>25 DEF EntryQueue, At, Enqueue
<1>26. ASSUME NEW j \in Calls, EntryStart(j), UNCHANGED kind PROVE Funded'
  BY <1>26 DEF EntryStart, MyTurn, Affordable, Settle
<1>27. ASSUME NEW j \in Calls, EntryCommit(j), UNCHANGED kind PROVE Funded'
  BY <1>27 DEF EntryCommit, At, Release
<1>28. ASSUME NEW j \in Calls, EntryFails(j), UNCHANGED kind PROVE Funded'
  BY <1>28 DEF EntryFails, At, Release
<1>29. CASE UNCHANGED vars
  BY <1>29 DEF vars, trades
<1> QED
  BY <1>1, <1>2, <1>3, <1>4, <1>5, <1>6, <1>7, <1>8, <1>9, <1>10, <1>11,
     <1>12, <1>13, <1>14, <1>15, <1>16, <1>17, <1>18, <1>19, <1>20,
     <1>21, <1>22, <1>23, <1>24, <1>25, <1>26, <1>27, <1>28, <1>29
     DEF Next, Order, Close, Trim, Entry

\* No write leaves an open trade without quantity.
LEMMA NextSized ==
  ASSUME TypeOK, Turn, Held, Paths, Decided, Funded, Sized, [Next]_vars
  PROVE  Sized'
<1> USE BookAssumption, NullAssumption
<1>1. ASSUME NEW j \in Calls, OrderCall(j), UNCHANGED kind PROVE Sized'
  BY <1>1 DEF OrderCall, Idle, Enqueue, TypeOK, Turn, Paths, Decided, Sized, PaperPosition, trades
<1>2. ASSUME NEW j \in Calls, OrderOpens(j), UNCHANGED kind PROVE Sized'
  BY <1>2 DEF OrderOpens, MyTurn, Decide, Settle, Existing, Affordable, TypeOK, Turn, Paths, Decided, Sized, PaperPosition, trades
<1>3. ASSUME NEW j \in Calls, OrderAdds(j), UNCHANGED kind PROVE Sized'
  BY <1>3 DEF OrderAdds, MyTurn, Decide, Settle, Existing, Affordable, TypeOK, Turn, Paths, Decided, Sized, PaperPosition, trades
<1>4. ASSUME NEW j \in Calls, OrderReduces(j), UNCHANGED kind PROVE Sized'
  BY <1>4 DEF OrderReduces, MyTurn, Decide, Settle, Existing, Affordable, ReduceQty, TypeOK, Turn, Paths, Decided, Sized, PaperPosition, trades
<1>5. ASSUME NEW j \in Calls, OrderRejected(j), UNCHANGED kind PROVE Sized'
  BY <1>5 DEF OrderRejected, MyTurn, Settle, TypeOK, Turn, Paths, Decided, Sized, PaperPosition, trades
<1>6. ASSUME NEW j \in Calls, OrderWrite(j), UNCHANGED kind PROVE Sized'
  BY <1>6 DEF OrderWrite, At, Save, TypeOK, Turn, Paths, Decided, Sized, PaperPosition, trades
<1>7. ASSUME NEW j \in Calls, OrderCreateFails(j), UNCHANGED kind PROVE Sized'
  BY <1>7 DEF OrderCreateFails, At, Refunded, Release, TypeOK, Turn, Paths, Decided, Sized, PaperPosition, trades
<1>8. ASSUME NEW j \in Calls, OrderUpdateFails(j), UNCHANGED kind PROVE Sized'
  BY <1>8 DEF OrderUpdateFails, At, Release, TypeOK, Turn, Paths, Decided, Sized, PaperPosition, trades
<1>9. ASSUME NEW j \in Calls, OrderInstall(j), UNCHANGED kind PROVE Sized'
  BY <1>9 DEF OrderInstall, At, TypeOK, Turn, Paths, Decided, Sized, PaperPosition, trades
<1>10. ASSUME NEW j \in Calls, OrderInstallFails(j), UNCHANGED kind PROVE Sized'
  BY <1>10 DEF OrderInstallFails, At, Release, TypeOK, Turn, Paths, Decided, Sized, PaperPosition, trades
<1>11. ASSUME NEW j \in Calls, CloseCall(j), UNCHANGED kind PROVE Sized'
  BY <1>11 DEF CloseCall, Idle, Read, TypeOK, Turn, Paths, Decided, Sized, PaperPosition, trades
<1>12. ASSUME NEW j \in Calls, MonitorCall(j), UNCHANGED kind PROVE Sized'
  BY <1>12 DEF MonitorCall, Idle, Read, TypeOK, Turn, Paths, Decided, Sized, PaperPosition, trades
<1>13. ASSUME NEW j \in Calls, ExitCall(j), UNCHANGED kind PROVE Sized'
  BY <1>13 DEF ExitCall, Idle, Read, TypeOK, Turn, Paths, Decided, Sized, PaperPosition, trades
<1>14. ASSUME NEW j \in Calls, ExitSkipped(j), UNCHANGED kind PROVE Sized'
  BY <1>14 DEF ExitSkipped, Idle, Return, TypeOK, Turn, Paths, Decided, Sized, PaperPosition, trades
<1>15. ASSUME NEW j \in Calls, CloseQueue(j), UNCHANGED kind PROVE Sized'
  BY <1>15 DEF CloseQueue, At, Enqueue, TypeOK, Turn, Paths, Decided, Sized, PaperPosition, trades
<1>16. ASSUME NEW j \in Calls, CloseStart(j), UNCHANGED kind PROVE Sized'
  BY <1>16 DEF CloseStart, MyTurn, Settle, TypeOK, Turn, Paths, Decided, Sized, PaperPosition, trades
<1>17. ASSUME NEW j \in Calls, CloseCommit(j), UNCHANGED kind PROVE Sized'
  BY <1>17 DEF CloseCommit, At, Claimed, Release, ClosedPosition, TypeOK, Turn, Paths, Decided, Sized, PaperPosition, trades
<1>18. ASSUME NEW j \in Calls, CloseFails(j), UNCHANGED kind PROVE Sized'
  BY <1>18 DEF CloseFails, At, Release, TypeOK, Turn, Paths, Decided, Sized, PaperPosition, trades
<1>19. ASSUME NEW j \in Calls, TrimSet(j), UNCHANGED kind PROVE Sized'
  BY <1>19 DEF TrimSet, At, TypeOK, Turn, Paths, Decided, Sized, PaperPosition, trades
<1>20. ASSUME NEW j \in Calls, TrimWrite(j), UNCHANGED kind PROVE Sized'
  BY <1>20, RemainingPositive DEF TrimWrite, At, Enqueue, TypeOK, Sized
<1>21. ASSUME NEW j \in Calls, TrimWriteFails(j), UNCHANGED kind PROVE Sized'
  BY <1>21 DEF TrimWriteFails, At, Return, TypeOK, Turn, Paths, Decided, Sized, PaperPosition, trades
<1>22. ASSUME NEW j \in Calls, TrimCredit(j), UNCHANGED kind PROVE Sized'
  BY <1>22 DEF TrimCredit, MyTurn, Settle, TypeOK, Turn, Paths, Decided, Sized, PaperPosition, trades
<1>23. ASSUME NEW j \in Calls, RatchetSet(j), UNCHANGED kind PROVE Sized'
  BY <1>23 DEF RatchetSet, At, TypeOK, Turn, Paths, Decided, Sized, PaperPosition, trades
<1>24. ASSUME NEW j \in Calls, EntryCall(j), UNCHANGED kind PROVE Sized'
  BY <1>24 DEF EntryCall, Idle, TypeOK, Turn, Paths, Decided, Sized, PaperPosition, trades
<1>25. ASSUME NEW j \in Calls, EntryQueue(j), UNCHANGED kind PROVE Sized'
  BY <1>25 DEF EntryQueue, At, Enqueue, TypeOK, Turn, Paths, Decided, Sized, PaperPosition, trades
<1>26. ASSUME NEW j \in Calls, EntryStart(j), UNCHANGED kind PROVE Sized'
  BY <1>26 DEF EntryStart, MyTurn, Affordable, Settle, TypeOK, Turn, Paths, Decided, Sized, PaperPosition, trades
<1>27. ASSUME NEW j \in Calls, EntryCommit(j), UNCHANGED kind PROVE Sized'
  BY <1>27 DEF EntryCommit, At, Release, TypeOK, Turn, Paths, Decided, Sized, PaperPosition, trades
<1>28. ASSUME NEW j \in Calls, EntryFails(j), UNCHANGED kind PROVE Sized'
  BY <1>28 DEF EntryFails, At, Release, TypeOK, Turn, Paths, Decided, Sized, PaperPosition, trades
<1>29. CASE UNCHANGED vars
  BY <1>29 DEF vars, trades, TypeOK, Turn, Paths, Decided, Sized, PaperPosition
<1> QED
  BY <1>1, <1>2, <1>3, <1>4, <1>5, <1>6, <1>7, <1>8, <1>9, <1>10, <1>11,
     <1>12, <1>13, <1>14, <1>15, <1>16, <1>17, <1>18, <1>19, <1>20,
     <1>21, <1>22, <1>23, <1>24, <1>25, <1>26, <1>27, <1>28, <1>29
     DEF Next, Order, Close, Trim, Entry

-----------------------------------------------------------------------------
(* Type correctness, and the life of a trade.                              *)

\* The invariant holds of every book a run may start from.
LEMMA InitInv == Init => Inv
<1> SUFFICES ASSUME Init PROVE Inv
  OBVIOUS
<1>1. PICK q \in Openings, d \in Docs :
         /\ mem = Equity - q
         /\ pos = IF q = 0 THEN NoPos ELSE [doc |-> d, side |-> "BUY", qty |-> q]
         /\ status = [x \in Docs |-> IF x = d /\ q # 0 THEN "OPEN" ELSE "none"]
         /\ docQty = [x \in Docs |-> IF x = d THEN q ELSE 0]
  BY DEF Init
<1>2. q \in Nat /\ q <= Equity /\ Equity \in Nat
  BY BookAssumption
<1>3. pos \in PaperPosition \cup {NoPos}
  BY <1>1, <1>2 DEF PaperPosition, Sides
<1>4. mem \in Nat /\ docQty \in [Docs -> Nat]
  BY <1>1, <1>2
<1>5. status \in [Docs -> {"none", "OPEN", "CLOSED"}]
  BY <1>1
<1>6. Sized
  BY <1>1, <1>2 DEF Sized
<1> QED
  BY <1>3, <1>4, <1>5, <1>6
  DEF Init, Inv, TypeOK, Turn, Held, Paths, Decided, Funded, Pcs

\* Every step of every path keeps the invariant.
LEMMA NextInv == Inv /\ [Next]_vars => Inv'
BY NextType, NextTurn, NextHeld, NextPaths, NextDecided, NextFunded, NextSized DEF Inv

\* The invariant holds throughout, whatever interleaves and fails.
LEMMA Invariance == Spec => []Inv
BY InitInv, NextInv, PTL DEF Spec

\* Every variable keeps its type; in particular no call that checks its funds
\* overdraws the wallet, whatever runs between its check and its debit.
THEOREM TypeCorrect == Spec => []TypeOK
BY Invariance, PTL DEF Inv

\* No step of any path opens a closed trade again, under every fault.
LEMMA NextClosed ==
  ASSUME Inv, [Next]_vars
  PROVE  \A d \in Docs : status[d] = "CLOSED" => status'[d] = "CLOSED"
<1> USE DEF Inv, TypeOK
<1>1. ASSUME NEW j \in Calls, OrderWrite(j) PROVE \A d \in Docs : status[d] = "CLOSED" => status'[d] = "CLOSED"
  BY <1>1, PositionParts DEF OrderWrite, At, Save, Decided
<1>2. ASSUME NEW j \in Calls, CloseCommit(j) PROVE \A d \in Docs : status[d] = "CLOSED" => status'[d] = "CLOSED"
  BY <1>2 DEF CloseCommit
<1>3. ASSUME NEW j \in Calls, EntryCommit(j) PROVE \A d \in Docs : status[d] = "CLOSED" => status'[d] = "CLOSED"
  BY <1>3 DEF EntryCommit
<1>4. ASSUME NEW j \in Calls, OrderCall(j) PROVE UNCHANGED status
  BY <1>4 DEF OrderCall, trades
<1>5. ASSUME NEW j \in Calls, OrderOpens(j) PROVE UNCHANGED status
  BY <1>5 DEF OrderOpens, trades, Decide
<1>6. ASSUME NEW j \in Calls, OrderAdds(j) PROVE UNCHANGED status
  BY <1>6 DEF OrderAdds, trades, Decide
<1>7. ASSUME NEW j \in Calls, OrderReduces(j) PROVE UNCHANGED status
  BY <1>7 DEF OrderReduces, trades, Decide
<1>8. ASSUME NEW j \in Calls, OrderRejected(j) PROVE UNCHANGED status
  BY <1>8 DEF OrderRejected, trades
<1>9. ASSUME NEW j \in Calls, OrderCreateFails(j) PROVE UNCHANGED status
  BY <1>9 DEF OrderCreateFails, trades
<1>10. ASSUME NEW j \in Calls, OrderUpdateFails(j) PROVE UNCHANGED status
  BY <1>10 DEF OrderUpdateFails, trades
<1>11. ASSUME NEW j \in Calls, OrderInstall(j) PROVE UNCHANGED status
  BY <1>11 DEF OrderInstall, trades
<1>12. ASSUME NEW j \in Calls, OrderInstallFails(j) PROVE UNCHANGED status
  BY <1>12 DEF OrderInstallFails, trades
<1>13. ASSUME NEW j \in Calls, CloseCall(j) PROVE UNCHANGED status
  BY <1>13 DEF CloseCall, trades, Read
<1>14. ASSUME NEW j \in Calls, MonitorCall(j) PROVE UNCHANGED status
  BY <1>14 DEF MonitorCall, trades, Read
<1>15. ASSUME NEW j \in Calls, ExitCall(j) PROVE UNCHANGED status
  BY <1>15 DEF ExitCall, trades, Read
<1>16. ASSUME NEW j \in Calls, ExitSkipped(j) PROVE UNCHANGED status
  BY <1>16 DEF ExitSkipped, trades
<1>17. ASSUME NEW j \in Calls, CloseQueue(j) PROVE UNCHANGED status
  BY <1>17 DEF CloseQueue, trades
<1>18. ASSUME NEW j \in Calls, CloseStart(j) PROVE UNCHANGED status
  BY <1>18 DEF CloseStart, trades
<1>19. ASSUME NEW j \in Calls, CloseFails(j) PROVE UNCHANGED status
  BY <1>19 DEF CloseFails, trades
<1>20. ASSUME NEW j \in Calls, TrimSet(j) PROVE UNCHANGED status
  BY <1>20 DEF TrimSet, trades
<1>21. ASSUME NEW j \in Calls, TrimWrite(j) PROVE UNCHANGED status
  BY <1>21 DEF TrimWrite, trades
<1>22. ASSUME NEW j \in Calls, TrimWriteFails(j) PROVE UNCHANGED status
  BY <1>22 DEF TrimWriteFails, trades
<1>23. ASSUME NEW j \in Calls, TrimCredit(j) PROVE UNCHANGED status
  BY <1>23 DEF TrimCredit, trades
<1>24. ASSUME NEW j \in Calls, RatchetSet(j) PROVE UNCHANGED status
  BY <1>24 DEF RatchetSet, trades
<1>25. ASSUME NEW j \in Calls, EntryCall(j) PROVE UNCHANGED status
  BY <1>25 DEF EntryCall, trades
<1>26. ASSUME NEW j \in Calls, EntryQueue(j) PROVE UNCHANGED status
  BY <1>26 DEF EntryQueue, trades
<1>27. ASSUME NEW j \in Calls, EntryStart(j) PROVE UNCHANGED status
  BY <1>27 DEF EntryStart, trades
<1>28. ASSUME NEW j \in Calls, EntryFails(j) PROVE UNCHANGED status
  BY <1>28 DEF EntryFails, trades
<1>29. CASE UNCHANGED vars
  BY <1>29 DEF vars, trades
<1> QED
  BY <1>1, <1>2, <1>3, <1>4, <1>5, <1>6, <1>7, <1>8, <1>9, <1>10, <1>11,
     <1>12, <1>13, <1>14, <1>15, <1>16, <1>17, <1>18, <1>19, <1>20,
     <1>21, <1>22, <1>23, <1>24, <1>25, <1>26, <1>27, <1>28, <1>29 DEF
     Next, Order, Close, Trim, Entry

\* A closed trade stays closed, whatever paths interleave and fail.
THEOREM ClosedStaysClosed == Spec => ClosedForGood
<1>1. Inv /\ [Next]_vars => [\A d \in Docs : status[d] = "CLOSED" => status'[d] = "CLOSED"]_vars
  BY NextClosed
<1> QED
  BY <1>1, Invariance, PTL DEF Spec, ClosedForGood

-----------------------------------------------------------------------------
(* Orders only: the book and the equity, at every step.                    *)

\* The open trades are exactly what p shows.
BookIs(p) ==
    /\ \A d \in Docs : status[d] = "OPEN" <=> p # NoPos /\ p.doc = d
    /\ p # NoPos => docQty[p.doc] = p.qty

InBody(j) == pc[j] \in {"write", "install"}

\* With nobody in the lock the position is the book; an order in the lock has
\* moved the wallet already, then the documents, and the position comes last.
OrderBook ==
    /\ pending = Nothing
    /\ \A j \in Calls : pc[j] \in {"idle", "waiting", "write", "install", "done"}
    /\ (\A j \in Calls : ~InBody(j)) => BookIs(pos) /\ mem + Margin(pos) = Equity
    /\ \A j \in Calls : pc[j] = "write" =>
          BookIs(pos) /\ seen[j] = pos /\ mem + Margin(plan[j]) = Equity
    /\ \A j \in Calls : pc[j] = "install" =>
          BookIs(plan[j]) /\ mem + Margin(plan[j]) = Equity

OrdersAlone ==
    /\ \A j \in Calls : kind[j] = "order"
    /\ "updateFails" \notin Faults
    /\ "snapshotFails" \notin Faults

\* The paths an account with orders only takes.
LEMMA OrderSteps ==
  ASSUME TypeOK, OrdersAlone, [Next]_vars
  PROVE  \/ \E j \in Calls :
               \/ OrderCall(j) \/ OrderOpens(j) \/ OrderAdds(j) \/ OrderReduces(j)
               \/ OrderRejected(j) \/ OrderWrite(j) \/ OrderCreateFails(j)
               \/ OrderInstall(j) \/ At(j, "priced") \/ At(j, "saving") \/ At(j, "tx")
         \/ UNCHANGED vars
<1>1. \A j \in Calls : kind[j] = "order"
  BY DEF OrdersAlone
<1>2. ASSUME NEW j \in Calls, Order(j)
      PROVE  \/ OrderCall(j) \/ OrderOpens(j) \/ OrderAdds(j) \/ OrderReduces(j)
             \/ OrderRejected(j) \/ OrderWrite(j) \/ OrderCreateFails(j) \/ OrderInstall(j)
  BY <1>2 DEF Order, OrdersAlone, OrderUpdateFails, OrderInstallFails
<1>3. ASSUME NEW j \in Calls, Close(j) PROVE FALSE
  BY <1>1, <1>3 DEF Close, CloseCall, MonitorCall, ExitCall, ExitSkipped, CloseQueue,
                    CloseStart, CloseCommit, CloseFails
<1>4. ASSUME NEW j \in Calls, Trim(j) PROVE At(j, "saving")
  BY <1>1, <1>4 DEF Trim, TrimSet, TrimWrite, TrimWriteFails, TrimCredit
<1>5. ASSUME NEW j \in Calls, RatchetSet(j) \/ Entry(j) PROVE FALSE
  BY <1>1, <1>5 DEF RatchetSet, Entry, EntryCall, EntryQueue, EntryStart, EntryCommit, EntryFails
<1> QED
  BY <1>2, <1>3, <1>4, <1>5 DEF Next

\* In the body, a call is alone.
LEMMA Alone ==
  ASSUME Turn, NEW i \in Calls, NEW j \in Calls, InBody(i), InBody(j) \/ MyTurn(j)
  PROVE  i = j /\ ~MyTurn(j)
BY DEF Turn, InBody, MyTurn

\* The order that starts finds the book in the position.
LEMMA DecideBook ==
  ASSUME TypeOK, Turn, OrderBook, NEW j \in Calls, MyTurn(j), NEW cost \in Int,
         NEW result \in PaperPosition \cup {NoPos},
         Decide(j, pos, result, cost), Margin(result) = Margin(pos) + cost
  PROVE  OrderBook'
<1>1. \A i \in Calls : ~InBody(i)
  BY Alone
<1>2. BookIs(pos) /\ mem + Margin(pos) = Equity /\ pending = Nothing
  BY <1>1 DEF OrderBook
<1>3. UNCHANGED <<pos, pending, status, docQty>>
  BY <1>2 DEF Decide, Settle, trades
<1>4. BookIs(pos)'
  BY <1>2, <1>3 DEF BookIs
<1>5. pc' = [pc EXCEPT ![j] = "write"] /\ seen'[j] = pos /\ plan'[j] = result
  BY DEF Decide, TypeOK
<1>6. Margin(pos) \in Nat /\ Margin(result) \in Nat
  BY PositionParts DEF TypeOK, Margin
<1>7. mem' + Margin(result) = Equity
  BY <1>2, <1>6 DEF Decide, TypeOK
<1>8. (mem + Margin(plan[j]))' = Equity
  BY <1>5, <1>7 DEF Margin
<1>9. \A i \in Calls : pc'[i] = "write" => i = j
  BY <1>1, <1>5 DEF InBody, TypeOK
<1>10. \A i \in Calls : pc'[i] # "install" /\ pc'[i] \in {"idle", "waiting", "write", "install", "done"}
  BY <1>1, <1>5 DEF InBody, TypeOK, OrderBook
<1>11. InBody(j)'
  BY <1>5 DEF InBody, TypeOK
<1> QED
  BY <1>2, <1>3, <1>4, <1>5, <1>8, <1>9, <1>10, <1>11 DEF OrderBook

\* A step that leaves body, book, wallet and map alone keeps the rest.
LEMMA StillBook ==
  ASSUME TypeOK, OrderBook, UNCHANGED <<mem, trades, plan, pos, pending>>,
         NEW j \in Calls, NEW label \in {"waiting", "done"}, ~InBody(j),
         pc' = [pc EXCEPT ![j] = label],
         \A i \in Calls : InBody(i) => seen'[i] = seen[i]
  PROVE  OrderBook'
<1>1. UNCHANGED <<mem, status, docQty, plan, pos, pending>>
  BY DEF trades
<1>2. \A i \in Calls : pc'[i] = pc[i] \/ (i = j /\ pc'[i] = label)
  BY DEF TypeOK
<1>3. \A i \in Calls : InBody(i)' <=> InBody(i)
  BY <1>2 DEF InBody
<1>4. BookIs(pos)' <=> BookIs(pos)
  BY <1>1 DEF BookIs
<1>5. \A i \in Calls : BookIs(plan[i])' <=> BookIs(plan[i])
  BY <1>1 DEF BookIs
<1>6. Margin(pos)' = Margin(pos) /\ \A i \in Calls : Margin(plan[i])' = Margin(plan[i])
  BY <1>1 DEF Margin
<1> QED
  BY <1>1, <1>2, <1>3, <1>4, <1>5, <1>6 DEF OrderBook, InBody

\* An order that leaves the body, with the book in the position.
LEMMA LeaveBook ==
  ASSUME TypeOK, Turn, OrderBook, NEW j \in Calls, InBody(j),
         pc' = [pc EXCEPT ![j] = "done"], pending' = Nothing,
         BookIs(pos)', (mem + Margin(pos))' = Equity
  PROVE  OrderBook'
<1>1. \A i \in Calls : ~InBody(i)'
  BY Alone DEF InBody, TypeOK
<1>2. \A i \in Calls : pc'[i] \in {"idle", "waiting", "write", "install", "done"}
  BY DEF OrderBook, TypeOK
<1> QED
  BY <1>1, <1>2 DEF OrderBook, InBody

\* Each step of an order keeps its book: position, documents and wallet agree
\* outside the body, and with what the body has read and plans inside it.
LEMMA OrderBookNext ==
  ASSUME Inv, OrdersAlone, OrderBook, [Next]_vars
  PROVE  OrderBook'
<1> USE BookAssumption, NullAssumption DEF Inv
<1>1. ASSUME NEW j \in Calls, OrderCall(j) PROVE OrderBook'
  <2>1. /\ ~InBody(j) /\ pc' = [pc EXCEPT ![j] = "waiting"]
        /\ UNCHANGED <<mem, trades, plan, pos, pending>>
        /\ \A i \in Calls : i # j => seen'[i] = seen[i]
    BY <1>1 DEF OrderCall, Idle, Enqueue, InBody, TypeOK
  <2> QED
    BY <2>1, StillBook
<1>2. ASSUME NEW j \in Calls, OrderRejected(j) PROVE OrderBook'
  <2>1. /\ ~InBody(j) /\ pc' = [pc EXCEPT ![j] = "done"]
        /\ UNCHANGED <<mem, trades, plan, pos, pending, seen>>
    BY <1>2 DEF OrderRejected, MyTurn, Settle, InBody, OrderBook
  <2> QED
    BY <2>1, StillBook
<1>3. ASSUME NEW j \in Calls, OrderOpens(j) PROVE OrderBook'
  <2>1. PICK d \in Docs :
           Decide(j, NoPos, [doc |-> d, side |-> Side[j], qty |-> Qty[j]], Qty[j])
    BY <1>3 DEF OrderOpens
  <2> DEFINE result == [doc |-> d, side |-> Side[j], qty |-> Qty[j]]
  <2>2. result \in PaperPosition /\ result.qty = Qty[j] /\ Qty[j] \in Int
    BY DEF PaperPosition
  <2>3. pos = NoPos /\ MyTurn(j)
    BY <1>3 DEF OrderOpens, Existing
  <2>4. result # NoPos
    BY <2>2, Zenon
  <2>5. Margin(result) = Margin(pos) + Qty[j]
    BY <2>2, <2>3, <2>4 DEF Margin
  <2>6. Decide(j, pos, result, Qty[j])
    BY <2>1, <2>3
  <2> HIDE DEF result
  <2> QED
    BY <2>2, <2>3, <2>5, <2>6, DecideBook
<1>4. ASSUME NEW j \in Calls, OrderAdds(j) PROVE OrderBook'
  <2> DEFINE result == [pos EXCEPT !.qty = pos.qty + Qty[j]]
  <2>1. pos \in PaperPosition /\ MyTurn(j) /\ Decide(j, pos, result, Qty[j])
    BY <1>4 DEF OrderAdds, Existing, TypeOK
  <2>2. pos.qty \in Nat \ {0} /\ Qty[j] \in Nat \ {0}
    BY <2>1, PositionParts
  <2>3. result \in PaperPosition /\ result.qty = pos.qty + Qty[j]
    BY <2>1, <2>2, Resized DEF PaperPosition
  <2>4. result # NoPos /\ pos # NoPos
    BY <2>1, <2>3, Zenon
  <2>5. Margin(result) = Margin(pos) + Qty[j]
    BY <2>3, <2>4 DEF Margin
  <2> HIDE DEF result
  <2> QED
    BY <2>1, <2>2, <2>3, <2>5, DecideBook
<1>5. ASSUME NEW j \in Calls, OrderReduces(j) PROVE OrderBook'
  <2> DEFINE cut == ReduceQty(j, pos)
             part == [pos EXCEPT !.qty = pos.qty - cut]
             result == IF pos.qty > cut THEN part ELSE NoPos
  <2>1. pos \in PaperPosition /\ MyTurn(j) /\ Decide(j, pos, result, - cut)
    BY <1>5 DEF OrderReduces, Existing, TypeOK
  <2>2. pos.qty \in Nat \ {0} /\ cut \in Nat /\ cut <= pos.qty
    BY <2>1, PositionParts DEF ReduceQty
  <2>3. pos # NoPos
    BY <2>1, Zenon
  <2>4. /\ result \in PaperPosition \cup {NoPos}
        /\ Margin(result) = Margin(pos) + (- cut)
    <3>1. CASE pos.qty > cut
      <4>1. part \in PaperPosition /\ part.qty = pos.qty - cut
        BY <2>1, <2>2, <3>1, Resized DEF PaperPosition
      <4>2. part # NoPos
        BY <4>1, Zenon
      <4>3. result = part
        BY <3>1
      <4> QED
        BY <2>2, <2>3, <4>1, <4>2, <4>3 DEF Margin
    <3>2. CASE ~(pos.qty > cut)
      <4>1. result = NoPos /\ cut = pos.qty
        BY <2>2, <3>2
      <4> QED
        BY <2>2, <2>3, <4>1 DEF Margin
    <3> QED
      BY <3>1, <3>2
  <2>5. - cut \in Int
    BY <2>2
  <2> HIDE DEF cut, result, part
  <2> QED
    BY <2>1, <2>4, <2>5, DecideBook
<1>6. ASSUME NEW j \in Calls, OrderWrite(j) PROVE OrderBook'
  <2>1. /\ InBody(j) /\ BookIs(pos) /\ seen[j] = pos /\ mem + Margin(plan[j]) = Equity
        /\ pc' = [pc EXCEPT ![j] = "install"]
        /\ UNCHANGED <<mem, pos, seen, plan, pending>>
        /\ Save(j)
    BY <1>6 DEF OrderWrite, At, OrderBook, InBody
  <2>2. plan[j] \in PaperPosition \cup {NoPos} /\ pos \in PaperPosition \cup {NoPos}
    BY DEF TypeOK
  <2>3. /\ pos = NoPos => plan[j] # NoPos /\ status[plan[j].doc] = "none"
        /\ pos # NoPos /\ plan[j] # NoPos => plan[j].doc = pos.doc
    BY <1>6, <2>1 DEF OrderWrite, At, Decided
  <2>4. BookIs(plan[j])'
    <3>1. CASE plan[j] = NoPos
      BY <2>1, <2>2, <2>3, <3>1, PositionParts DEF BookIs, Save, TypeOK
    <3>2. CASE plan[j] # NoPos /\ pos = NoPos
      BY <2>1, <2>2, <2>3, <3>2, PositionParts DEF BookIs, Save, TypeOK
    <3>3. CASE plan[j] # NoPos /\ pos # NoPos
      BY <2>1, <2>2, <2>3, <3>3, PositionParts DEF BookIs, Save, TypeOK
    <3> QED
      BY <3>1, <3>2, <3>3
  <2>5. (mem + Margin(plan[j]))' = Equity
    BY <2>1 DEF Margin
  <2>6. \A i \in Calls : InBody(i)' => i = j
    BY <2>1, Alone DEF InBody, TypeOK
  <2>7. \A i \in Calls : pc'[i] \in {"idle", "waiting", "write", "install", "done"}
    BY <2>1 DEF OrderBook, TypeOK
  <2>8. pc'[j] = "install" /\ pending' = Nothing
    BY <2>1 DEF OrderBook, TypeOK
  <2> QED
    BY <2>4, <2>5, <2>6, <2>7, <2>8 DEF OrderBook, InBody
<1>7. ASSUME NEW j \in Calls, OrderCreateFails(j) PROVE OrderBook'
  <2>1. /\ InBody(j) /\ BookIs(pos) /\ pos = NoPos /\ mem + Margin(plan[j]) = Equity
        /\ mem' = mem + Qty[j] /\ plan[j] # NoPos /\ plan[j].qty = Qty[j]
        /\ pc' = [pc EXCEPT ![j] = "done"] /\ UNCHANGED trades
    BY <1>7 DEF OrderCreateFails, Refunded, Release, At, OrderBook, InBody, Decided
  <2>2. UNCHANGED pos /\ pending' = Nothing
    BY <1>7 DEF OrderCreateFails, Release
  <2>3. BookIs(pos)'
    BY <2>1, <2>2 DEF BookIs, trades
  <2>4. (mem + Margin(pos))' = Equity
    BY <2>1, <2>2 DEF Margin, TypeOK
  <2> QED
    BY <2>1, <2>2, <2>3, <2>4, LeaveBook
<1>8. ASSUME NEW j \in Calls, OrderInstall(j) PROVE OrderBook'
  <2>1. /\ InBody(j) /\ BookIs(plan[j]) /\ mem + Margin(plan[j]) = Equity
        /\ pos' = plan[j] /\ pending' = Nothing
        /\ pc' = [pc EXCEPT ![j] = "done"] /\ UNCHANGED <<mem, trades>>
    BY <1>8 DEF OrderInstall, At, OrderBook, InBody
  <2>2. BookIs(pos)'
    BY <2>1 DEF BookIs, trades
  <2>3. (mem + Margin(pos))' = Equity
    BY <2>1 DEF Margin
  <2> QED
    BY <2>1, <2>2, <2>3, LeaveBook
<1>9. ASSUME NEW j \in Calls, At(j, "priced") \/ At(j, "saving") \/ At(j, "tx")
      PROVE  FALSE
  BY <1>9 DEF At, OrderBook
<1>10. CASE UNCHANGED vars
  <2>1. UNCHANGED <<mem, pos, status, docQty, pc, seen, plan, pending>>
    BY <1>10 DEF vars, trades
  <2> QED
    BY <2>1 DEF OrderBook, BookIs, Margin, InBody
<1> QED
  BY <1>1, <1>2, <1>3, <1>4, <1>5, <1>6, <1>7, <1>8, <1>9, <1>10, OrderSteps

\* The book a run starts from agrees with itself.
LEMMA OrderBookInit == Init => OrderBook
<1> SUFFICES ASSUME Init PROVE OrderBook
  OBVIOUS
<1>1. PICK q \in Openings, d \in Docs :
         /\ mem = Equity - q
         /\ pos = IF q = 0 THEN NoPos ELSE [doc |-> d, side |-> "BUY", qty |-> q]
         /\ status = [x \in Docs |-> IF x = d /\ q # 0 THEN "OPEN" ELSE "none"]
         /\ docQty = [x \in Docs |-> IF x = d THEN q ELSE 0]
  BY DEF Init
<1>2. q \in Nat /\ Equity \in Nat
  BY BookAssumption
<1>3. BookIs(pos) /\ mem + Margin(pos) = Equity
  <2>1. CASE q = 0
    BY <1>1, <1>2, <2>1 DEF BookIs, Margin
  <2>2. CASE q # 0
    <3>1. pos \in PaperPosition
      BY <1>1, <1>2, <2>2 DEF PaperPosition, Sides
    <3>2. pos # NoPos
      BY <3>1, NullAssumption, Zenon
    <3> QED
      BY <1>1, <1>2, <2>2, <3>2 DEF BookIs, Margin
  <2> QED
    BY <2>1, <2>2
<1> QED
  BY <1>3 DEF Init, OrderBook, InBody

\* The path of a call stays.
LEMMA KindStays == [Next]_vars => kind' = kind
BY DEF Next, vars

\* Orders alone keep the book throughout.
LEMMA OrderBookInvariance == Spec => [](OrdersAlone => OrderBook)
<1>1. Inv /\ (OrdersAlone => OrderBook) /\ [Next]_vars => (OrdersAlone => OrderBook)'
  BY OrderBookNext, KindStays DEF OrdersAlone
<1> QED
  BY <1>1, OrderBookInit, Invariance, PTL DEF Spec

\* Orders alone, however many run at once and whichever fail to create their
\* document, neither lose, make nor double-spend margin.
THEOREM OrdersKeepEquity == Spec => [](OrdersAlone => EquityKept)
<1>1. OrderBook => EquityKept
  BY DEF OrderBook, EquityKept, AtRest, InBody
<1> QED
  BY <1>1, OrderBookInvariance, PTL

\* And they never have two trades of the symbol open, in or out of the lock.
THEOREM OrdersShareOneTrade == Spec => [](OrdersAlone => OneTradePerSymbol)
<1>1. OrderBook => OneTradePerSymbol
  BY DEF OrderBook, OneTradePerSymbol, InBody, BookIs
<1> QED
  BY <1>1, OrderBookInvariance, PTL

\* And between them the map shows the open trade, with its quantity.
THEOREM OrdersKeepWatch == Spec => [](OrdersAlone => TradesWatched)
<1>1. OrderBook => TradesWatched
  BY DEF OrderBook, TradesWatched, AtRest, InBody, BookIs
<1> QED
  BY <1>1, OrderBookInvariance, PTL

\* And between them a position in the map has an open trade: no order leaves a
\* ghost behind, whether or not its document could be written.
THEOREM OrdersLeaveNoGhost == Spec => [](OrdersAlone => NoGhost)
<1>1. TypeOK /\ OrderBook => NoGhost
  <2> SUFFICES ASSUME TypeOK, OrderBook, AtRest, pos # NoPos
               PROVE  status[pos.doc] = "OPEN"
    BY DEF NoGhost
  <2>1. pos.doc \in Docs
    BY DEF TypeOK, PaperPosition
  <2>2. BookIs(pos)
    BY DEF OrderBook, AtRest, InBody
  <2> QED
    BY <2>1, <2>2 DEF BookIs
<1> QED
  BY <1>1, OrderBookInvariance, TypeCorrect, PTL

-----------------------------------------------------------------------------
(* Closers only: whoever claims the trade pays out all of it.              *)

ClosersAlone == \A j \in Calls : kind[j] \in {"close", "exit", "monitor"}

\* A closer reads the one trade there is, with its quantity.
Reading(j) ==
    pc[j] \in {"priced", "waiting", "tx"} =>
        /\ status[seen[j].doc] # "none"
        /\ status[seen[j].doc] = "OPEN" => seen[j].qty = docQty[seen[j].doc]

\* The position is the book, or it is owed the removal of a trade paid out.
ClosersBook ==
    /\ \A j \in Calls : Reading(j)
    /\ \A d, e \in Docs : status[d] # "none" /\ status[e] # "none" => d = e
    /\ \/ pending = Nothing /\ BookIs(pos) /\ mem + Margin(pos) = Equity
       \/ pending = NoPos /\ BookIs(NoPos) /\ mem = Equity

\* The paths an account with closers only takes.
LEMMA CloserSteps ==
  ASSUME Paths, ClosersAlone, [Next]_vars
  PROVE  \/ \E j \in Calls :
               \/ CloseCall(j) \/ MonitorCall(j) \/ ExitCall(j) \/ ExitSkipped(j)
               \/ CloseQueue(j) \/ CloseStart(j) \/ CloseCommit(j) \/ CloseFails(j)
         \/ UNCHANGED vars
<1>1. ASSUME NEW j \in Calls PROVE ~(Order(j) \/ Trim(j) \/ RatchetSet(j) \/ Entry(j))
  <2>1. kind[j] \notin {"order", "trim", "ratchet", "entry"}
    BY DEF ClosersAlone
  <2>2. ~Order(j)
    BY <2>1 DEF Order, OrderCall, OrderOpens, OrderAdds, OrderReduces, OrderRejected, OrderWrite,
                OrderCreateFails, OrderUpdateFails, OrderInstall, OrderInstallFails, At, Paths
  <2>3. ~Trim(j)
    BY <2>1 DEF Trim, TrimSet, TrimWrite, TrimWriteFails, TrimCredit, At, Paths
  <2>4. ~RatchetSet(j) /\ ~Entry(j)
    BY <2>1 DEF RatchetSet, Entry, EntryCall, EntryQueue, EntryStart, EntryCommit, EntryFails
  <2> QED
    BY <2>2, <2>3, <2>4
<1> QED
  BY <1>1 DEF Next, Close

\* What a closer reads is the trade of the book.
LEMMA ReadsTheTrade ==
  ASSUME Inv, ClosersBook, NEW j \in Calls, CloseCall(j) \/ MonitorCall(j) \/ ExitCall(j)
  PROVE  ClosersBook'
<1> USE DEF Inv
<1>1. PICK p \in PaperPosition :
         /\ Read(j, p) /\ status[p.doc] = "OPEN" /\ p.qty = docQty[p.doc] /\ p.doc \in Docs
  <2>1. CASE CloseCall(j)
    <3>1. PICK d \in Docs :
             status[d] = "OPEN" /\ Read(j, [doc |-> d, side |-> Side[j], qty |-> docQty[d]])
      BY <2>1 DEF CloseCall
    <3>2. [doc |-> d, side |-> Side[j], qty |-> docQty[d]] \in PaperPosition
      BY <3>1, BookAssumption DEF Sized, TypeOK, PaperPosition
    <3> QED
      BY <3>1, <3>2
  <2>2. CASE MonitorCall(j) \/ ExitCall(j)
    <3>1. pos # NoPos /\ Read(j, pos) /\ pending = Nothing
      BY <2>2 DEF MonitorCall, ExitCall, Idle
    <3>2. pos \in PaperPosition /\ pos.doc \in Docs
      BY <3>1, PositionParts DEF TypeOK
    <3> QED
      BY <3>1, <3>2, NullAssumption DEF ClosersBook, BookIs
  <2> QED
    BY <2>1, <2>2
<1>2. /\ UNCHANGED <<mem, pos, status, docQty, pending>>
      /\ \A i \in Calls \ {j} : pc'[i] = pc[i] /\ seen'[i] = seen[i]
      /\ seen'[j] = p
  BY <1>1 DEF Read, trades, TypeOK
<1>3. \A i \in Calls : Reading(i)'
  BY <1>1, <1>2 DEF Reading, ClosersBook
<1>4. (BookIs(pos)' <=> BookIs(pos)) /\ (BookIs(NoPos)' <=> BookIs(NoPos)) /\ Margin(pos)' = Margin(pos)
  BY <1>2 DEF BookIs, Margin
<1> QED
  BY <1>2, <1>3, <1>4 DEF ClosersBook

\* Closers keep their book.
LEMMA ClosersBookNext ==
  ASSUME Inv, ClosersAlone, ClosersBook, [Next]_vars
  PROVE  ClosersBook'
<1> USE DEF Inv
<1>1. ASSUME UNCHANGED <<mem, status, docQty, seen>>, NEW j \in Calls,
             NEW l \in {"waiting", "tx", "done"}, pc' = [pc EXCEPT ![j] = l],
             pc[j] \in {"idle", "done"} => l = "done",
             \/ pos' = pos /\ pending' = pending
             \/ pos' = (IF pending = Nothing THEN pos ELSE pending) /\ pending' = Nothing
      PROVE  ClosersBook'
  <2>1. pc[j] \in Pcs /\ kind[j] \in {"close", "exit", "monitor"}
    BY DEF TypeOK, ClosersAlone
  <2>2. pc[j] \notin {"saving", "write", "install"}
    BY <2>1 DEF Paths
  <2>3. ASSUME NEW i \in Calls, pc'[i] \in {"priced", "waiting", "tx"}
        PROVE  pc[i] \in {"priced", "waiting", "tx"}
    BY <1>1, <2>1, <2>2, <2>3 DEF TypeOK, Pcs
  <2>4. \A i \in Calls : Reading(i)'
    BY <1>1, <2>3 DEF Reading, ClosersBook
  <2>5. /\ \A p : BookIs(p)' <=> BookIs(p)
        /\ Margin(NoPos) = 0
    BY <1>1 DEF BookIs, Margin
  <2>6. \/ pending' = Nothing /\ BookIs(pos)' /\ (mem + Margin(pos))' = Equity
        \/ pending' = NoPos /\ BookIs(NoPos)' /\ mem' = Equity
    <3>1. CASE pending = Nothing /\ BookIs(pos) /\ mem + Margin(pos) = Equity
      <4>1. pos' = pos /\ pending' = Nothing
        BY <1>1, <3>1
      <4> QED
        BY <1>1, <3>1, <4>1 DEF BookIs, Margin
    <3>2. CASE pending = NoPos /\ BookIs(NoPos) /\ mem = Equity
      <4>1. mem \in Nat /\ NoPos # Nothing
        BY NullAssumption DEF TypeOK
      <4>2. \/ pending' = NoPos
            \/ pending' = Nothing /\ pos' = NoPos
        BY <1>1, <3>2, <4>1
      <4> QED
        BY <1>1, <2>5, <3>2, <4>1, <4>2 DEF Margin, BookIs
    <3> QED
      BY <3>1, <3>2 DEF ClosersBook
  <2> QED
    BY <1>1, <2>4, <2>6 DEF ClosersBook
<1>2. ASSUME NEW j \in Calls, ExitSkipped(j) PROVE ClosersBook'
  <2>1. UNCHANGED <<mem, status, docQty, seen, pos, pending>> /\ pc' = [pc EXCEPT ![j] = "done"]
    BY <1>2 DEF ExitSkipped, Return, trades
  <2> QED
    BY <1>1, <2>1
<1>3. ASSUME NEW j \in Calls, CloseQueue(j) PROVE ClosersBook'
  <2>1. /\ UNCHANGED <<mem, status, docQty, seen, pos, pending>>
        /\ pc' = [pc EXCEPT ![j] = "waiting"] /\ pc[j] = "priced"
    BY <1>3 DEF CloseQueue, Enqueue, At, trades
  <2> QED
    BY <1>1, <2>1
<1>4. ASSUME NEW j \in Calls, CloseStart(j) PROVE ClosersBook'
  <2>1. /\ UNCHANGED <<mem, status, docQty, seen>> /\ Settle
        /\ pc' = [pc EXCEPT ![j] = "tx"] /\ pc[j] = "waiting"
    BY <1>4 DEF CloseStart, MyTurn, trades
  <2> QED
    BY <1>1, <2>1 DEF Settle
<1>5. ASSUME NEW j \in Calls, CloseFails(j) PROVE ClosersBook'
  <2>1. /\ UNCHANGED <<mem, status, docQty, seen>> /\ pending = Nothing
        /\ pc' = [pc EXCEPT ![j] = "done"] /\ pos' = pos /\ pending' = pending
    BY <1>5 DEF CloseFails, Release, At, trades
  <2> QED
    BY <1>1, <2>1
<1>6. ASSUME NEW j \in Calls, CloseCommit(j) PROVE ClosersBook'
  <2> DEFINE d == seen[j].doc
  <2>1. /\ pc[j] = "tx" /\ pending = Nothing /\ kind[j] \in {"close", "exit", "monitor"}
        /\ BookIs(pos) /\ mem + Margin(pos) = Equity
        /\ UNCHANGED <<docQty, seen>>
        /\ Release(j, NoPos)
    BY <1>6, NullAssumption DEF CloseCommit, At, ClosersBook, ClosedPosition
  <2>2. seen[j] \in PaperPosition /\ d \in Docs /\ seen[j].qty \in Nat /\ mem \in Nat
    BY <2>1, SeenPosition, PositionParts DEF TypeOK
  <2>3. status[d] # "none" /\ (status[d] = "OPEN" => seen[j].qty = docQty[d])
    BY <2>1 DEF ClosersBook, Reading
  <2> HIDE DEF d
  <2>4. BookIs(NoPos)' /\ mem' = Equity
    <3>1. CASE status[d] = "OPEN"
      <4>1. status' = [status EXCEPT ![d] = "CLOSED"] /\ mem' = mem + seen[j].qty
        BY <1>6, <3>1 DEF CloseCommit, Claimed, d
      <4>2. pos # NoPos /\ pos.doc = d /\ docQty[d] = pos.qty
        BY <2>1, <2>2, <3>1 DEF BookIs
      <4>3. mem' = Equity
        BY <2>1, <2>2, <2>3, <3>1, <4>1, <4>2 DEF Margin
      <4>4. \A e \in Docs : status'[e] # "OPEN"
        BY <2>1, <4>1, <4>2 DEF BookIs, TypeOK
      <4> QED
        BY <4>3, <4>4 DEF BookIs
    <3>2. CASE status[d] # "OPEN"
      <4>1. status' = status /\ mem' = mem
        BY <1>6, <3>2 DEF CloseCommit, Claimed, d
      <4>2. \A e \in Docs : status[e] # "OPEN"
        BY <2>2, <2>3, <3>2 DEF ClosersBook
      <4>3. pos = NoPos
        <5>1. pos # NoPos => pos.doc \in Docs
          BY PositionParts DEF TypeOK
        <5> QED
          BY <2>1, <4>2, <5>1 DEF BookIs
      <4> QED
        BY <2>1, <2>2, <4>1, <4>2, <4>3 DEF BookIs, Margin
    <3> QED
      BY <3>1, <3>2
  <2>5. \A e \in Docs : status'[e] = status[e] \/ (e = d /\ status[e] = "OPEN" /\ status'[e] = "CLOSED")
    BY <1>6, <2>2 DEF CloseCommit, Claimed, TypeOK, d
  <2>6. \A i \in Calls : Reading(i)'
    <3>1. ASSUME NEW i \in Calls, pc'[i] \in {"priced", "waiting", "tx"} PROVE Reading(i)'
      <4>1. pc'[i] = pc[i]
        BY <2>1, <3>1 DEF Release, TypeOK
      <4>2. seen[i] \in PaperPosition /\ seen[i].doc \in Docs
        BY <3>1, <4>1, SeenPosition, PositionParts DEF ClosersAlone
      <4> QED
        BY <2>1, <2>5, <3>1, <4>1, <4>2 DEF Reading, ClosersBook
    <3> QED
      BY <3>1 DEF Reading
  <2>7. \/ pending' = Nothing /\ pos' = NoPos
        \/ pending' = NoPos
    BY <2>1, NullAssumption DEF Release
  <2>8. \A e, g \in Docs : status'[e] # "none" /\ status'[g] # "none" => e = g
    BY <2>5 DEF ClosersBook
  <2>9. mem' \in Nat
    BY <2>4, BookAssumption
  <2>10. mem' + 0 = Equity
    BY <2>4, <2>9
  <2> QED
    BY <2>4, <2>6, <2>7, <2>8, <2>9, <2>10 DEF ClosersBook, BookIs, Margin
<1>7. CASE UNCHANGED vars
  BY <1>7 DEF vars, trades, ClosersBook, Reading, BookIs, Margin
<1> QED
  BY <1>2, <1>3, <1>4, <1>5, <1>6, <1>7, CloserSteps, ReadsTheTrade

LEMMA ClosersBookInvariance == Spec => [](ClosersAlone => ClosersBook)
<1>1. Init => ClosersBook
  <2> SUFFICES ASSUME Init PROVE ClosersBook
    OBVIOUS
  <2>1. BookIs(pos) /\ mem + Margin(pos) = Equity /\ pending = Nothing
    BY OrderBookInit DEF OrderBook, InBody, Init
  <2>2. \A d, e \in Docs : status[d] # "none" /\ status[e] # "none" => d = e
    BY DEF Init
  <2>3. \A j \in Calls : Reading(j)
    BY DEF Init, Reading
  <2> QED
    BY <2>1, <2>2, <2>3 DEF ClosersBook
<1>2. Inv /\ (ClosersAlone => ClosersBook) /\ [Next]_vars => (ClosersAlone => ClosersBook)'
  BY ClosersBookNext, KindStays DEF ClosersAlone
<1> QED
  BY <1>1, <1>2, Invariance, PTL DEF Spec

\* Close routes, engine exits and monitor closes, however many race for the trade
\* and whichever fail to claim it: its margin comes back once, whole, and until
\* then the map shows the trade.
THEOREM ClosersKeepBook ==
  Spec => [](ClosersAlone => EquityKept /\ OneTradePerSymbol /\ TradesWatched /\ NoGhost)
<1>1. Inv /\ ClosersBook => EquityKept /\ OneTradePerSymbol /\ TradesWatched /\ NoGhost
  <2> SUFFICES ASSUME Inv, ClosersBook
               PROVE  EquityKept /\ OneTradePerSymbol /\ TradesWatched /\ NoGhost
    OBVIOUS
  <2>1. OneTradePerSymbol
    BY DEF ClosersBook, OneTradePerSymbol
  <2>2. AtRest => BookIs(pos) /\ mem + Margin(pos) = Equity
    BY NullAssumption DEF AtRest, ClosersBook
  <2>3. pos # NoPos => pos.doc \in Docs
    BY PositionParts DEF Inv, TypeOK
  <2> QED
    BY <2>1, <2>2, <2>3 DEF EquityKept, TradesWatched, NoGhost, BookIs
<1> QED
  BY <1>1, ClosersBookInvariance, Invariance, PTL

-----------------------------------------------------------------------------
(* The engine only: one of its calls at a time.                            *)

EngineAlone ==
    /\ \A j \in Calls : kind[j] \in {"entry", "exit", "trim"}
    /\ "updateFails" \notin Faults

Working(j) == pc[j] \notin {"idle", "done"}

\* What a trim leaves of the position it read.
Left(j) == [seen[j] EXCEPT !.qty = seen[j].qty - Qty[j]]

\* What the call under way has done to the book so far.
EntryBook == pos = NoPos /\ BookIs(NoPos) /\ mem = Equity

ExitBook(j) ==
    /\ pos = IF pc[j] \in {"saving", "waiting"} /\ kind[j] = "trim" THEN Left(j) ELSE seen[j]
    /\ IF pc[j] = "waiting" /\ kind[j] = "trim" THEN BookIs(pos) ELSE BookIs(seen[j])
    /\ mem + seen[j].qty = Equity

EngineBook ==
    /\ pending = Nothing
    /\ \A i, j \in Calls : Working(i) /\ Working(j) => i = j
    /\ \A j \in Calls : pc[j] \in {"waiting", "tx"} => chain = <<j>>
    /\ (\A j \in Calls : pc[j] \notin {"waiting", "tx"}) => chain = <<>>
    /\ (\A j \in Calls : ~Working(j)) => BookIs(pos) /\ mem + Margin(pos) = Equity
    /\ \A j \in Calls : Working(j) =>
          IF kind[j] = "entry" THEN EntryBook ELSE ExitBook(j)

\* The paths an account with the engine only takes.
LEMMA EngineSteps ==
  ASSUME Inv, EngineAlone, [Next]_vars
  PROVE  \/ \E j \in Calls :
               \/ ExitCall(j) \/ ExitSkipped(j) \/ CloseQueue(j) \/ CloseStart(j)
               \/ CloseCommit(j) \/ CloseFails(j)
               \/ TrimSet(j) \/ TrimWrite(j) \/ TrimCredit(j)
               \/ EntryCall(j) \/ EntryQueue(j) \/ EntryStart(j) \/ EntryCommit(j)
               \/ EntryFails(j)
         \/ UNCHANGED vars
<1>1. ASSUME NEW j \in Calls
      PROVE  ~(Order(j) \/ RatchetSet(j) \/ CloseCall(j) \/ MonitorCall(j) \/ TrimWriteFails(j))
  <2>1. kind[j] \notin {"order", "ratchet", "close", "monitor"}
    BY DEF EngineAlone
  <2>2. ~Order(j)
    BY <2>1 DEF Order, OrderCall, OrderOpens, OrderAdds, OrderReduces, OrderRejected, OrderWrite,
                OrderCreateFails, OrderUpdateFails, OrderInstall, OrderInstallFails, At, Paths,
                Inv
  <2>3. ~(RatchetSet(j) \/ CloseCall(j) \/ MonitorCall(j) \/ TrimWriteFails(j))
    BY <2>1 DEF RatchetSet, CloseCall, MonitorCall, TrimWriteFails, EngineAlone
  <2> QED
    BY <2>2, <2>3
<1> QED
  BY <1>1 DEF Next, Close, Trim, Entry

\* A call that works has the account to itself; when it is done, the book is in the
\* position again.
LEMMA EngineEnds ==
  ASSUME Inv, EngineBook, NEW j \in Calls, \A i \in Calls \ {j} : ~Working(i),
         pc' = [pc EXCEPT ![j] = "done"],
         pending' = Nothing, chain' = <<>>, BookIs(pos)', (mem + Margin(pos))' = Equity
  PROVE  EngineBook'
<1>1. \A i \in Calls : ~Working(i)'
  BY DEF Working, Inv, TypeOK
<1> QED
  BY <1>1 DEF EngineBook, Working

LEMMA EngineGoes ==
  ASSUME Inv, EngineBook, NEW j \in Calls, \A i \in Calls \ {j} : ~Working(i), kind' = kind,
         NEW l \in {"priced", "saving", "waiting", "tx"},
         pc' = [pc EXCEPT ![j] = l], pending' = Nothing,
         chain' = (IF l \in {"waiting", "tx"} THEN <<j>> ELSE <<>>),
         (IF kind[j] = "entry" THEN EntryBook ELSE ExitBook(j))'
  PROVE  EngineBook'
<1>1. pc'[j] = l /\ \A i \in Calls \ {j} : pc'[i] = pc[i] /\ pc[i] \in {"idle", "done"}
  BY DEF Working, Inv, TypeOK
<1>2. \A i \in Calls : Working(i)' <=> i = j
  BY <1>1 DEF Working
<1>3. /\ \A i \in Calls : pc'[i] \in {"waiting", "tx"} => chain' = <<i>>
      /\ (\A i \in Calls : pc'[i] \notin {"waiting", "tx"}) => chain' = <<>>
  BY <1>1
<1>4. \A i, k \in Calls : Working(i)' /\ Working(k)' => i = k
  BY <1>2
<1>5. \A i \in Calls : Working(i)' => (IF kind[i] = "entry" THEN EntryBook ELSE ExitBook(i))'
  BY <1>2
<1> QED
  BY <1>2, <1>3, <1>4, <1>5 DEF EngineBook

\* The engine's exits and entries.
LEMMA EngineBookNext ==
  ASSUME Inv, EngineAlone, EngineBook, [Next]_vars
  PROVE  EngineBook'
<1> USE BookAssumption, NullAssumption DEF Inv
<1>0. kind' = kind /\ mem \in Nat /\ Equity \in Nat
  BY KindStays DEF TypeOK
<1>1. ASSUME NEW j \in Calls, Working(j)
      PROVE  /\ \A i \in Calls \ {j} : ~Working(i)
             /\ chain = IF pc[j] \in {"waiting", "tx"} THEN <<j>> ELSE <<>>
             /\ IF kind[j] = "entry" THEN EntryBook ELSE ExitBook(j)
             /\ pc[j] \in {"priced", "saving", "waiting", "tx"}
             /\ kind[j] # "entry" => /\ seen[j] \in PaperPosition /\ seen[j].doc \in Docs
                                     /\ seen[j].qty \in Nat \ {0} /\ seen[j] # NoPos
             /\ kind[j] = "trim" => /\ Left(j) \in PaperPosition /\ Left(j) # NoPos
                                    /\ Left(j).qty = seen[j].qty - Qty[j]
                                    /\ Left(j).doc = seen[j].doc
                                    /\ Qty[j] \in Nat \ {0}
  <2>1. /\ \A i \in Calls \ {j} : ~Working(i)
        /\ IF kind[j] = "entry" THEN EntryBook ELSE ExitBook(j)
    BY <1>1 DEF EngineBook
  <2>2. pc[j] \in {"priced", "saving", "waiting", "tx"}
    BY <1>1 DEF Working, TypeOK, Pcs, Paths, EngineAlone
  <2>3. chain = IF pc[j] \in {"waiting", "tx"} THEN <<j>> ELSE <<>>
    BY <2>1, <2>2 DEF EngineBook, Working
  <2>4. kind[j] # "entry" => /\ seen[j] \in PaperPosition /\ seen[j].doc \in Docs
                             /\ seen[j].qty \in Nat \ {0} /\ seen[j] # NoPos
                             /\ kind[j] = "trim" => Qty[j] < seen[j].qty
    BY <2>2, SeenPosition, PositionParts DEF EngineAlone
  <2>5. kind[j] = "trim" => /\ Left(j) \in PaperPosition /\ Left(j) # NoPos
                            /\ Left(j).qty = seen[j].qty - Qty[j]
                            /\ Left(j).doc = seen[j].doc
                            /\ Qty[j] \in Nat \ {0}
    <3>1. ASSUME kind[j] = "trim"
          PROVE  Qty[j] \in Nat \ {0} /\ seen[j].qty - Qty[j] \in Nat \ {0}
      BY <2>4, <3>1
    <3>2. ASSUME kind[j] = "trim"
          PROVE  /\ Left(j) \in PaperPosition
                 /\ Left(j).qty = seen[j].qty - Qty[j] /\ Left(j).doc = seen[j].doc
      BY <2>4, <3>1, <3>2, Resized DEF Left, PaperPosition
    <3>3. ASSUME kind[j] = "trim" PROVE Left(j) # NoPos
      BY <3>2, <3>3, Zenon
    <3> QED
      BY <3>1, <3>2, <3>3
  <2> QED
    BY <2>1, <2>2, <2>3, <2>4, <2>5
<1>2. ASSUME NEW j \in Calls, ExitSkipped(j) PROVE EngineBook'
  <2>1. /\ pc[j] = "idle" /\ pc' = [pc EXCEPT ![j] = "done"]
        /\ UNCHANGED <<mem, status, docQty, seen, pos, pending, chain>>
    BY <1>2 DEF ExitSkipped, Idle, Return, trades
  <2>2. \A i \in Calls : /\ Working(i)' <=> Working(i)
                         /\ pc'[i] = pc[i] \/ (pc[i] = "idle" /\ pc'[i] = "done")
    BY <2>1 DEF Working, TypeOK
  <2>3. \A i \in Calls : Working(i) => (ExitBook(i)' <=> ExitBook(i)) /\ (EntryBook' <=> EntryBook)
    BY <1>0, <2>1, <2>2 DEF Working, ExitBook, EntryBook, BookIs, Left
  <2> QED
    BY <1>0, <2>1, <2>2, <2>3 DEF EngineBook, BookIs, Margin
<1>3. CASE UNCHANGED vars
  BY <1>3 DEF vars, trades, EngineBook, Working, EntryBook, ExitBook, BookIs, Margin, Left
<1>4. ASSUME NEW j \in Calls, ExitCall(j) PROVE EngineBook'
  <2>1. /\ kind[j] \in {"exit", "trim"} /\ pos # NoPos /\ Read(j, pos) /\ pc[j] = "idle"
        /\ \A i \in Calls \ {j} : kind[i] \in {"exit", "trim"} => ~Working(i)
    BY <1>4 DEF ExitCall, Idle, ExitInFlight, Working
  <2>2. \A i \in Calls : ~Working(i)
    BY <1>1, <2>1 DEF EngineAlone, EntryBook, Working
  <2>3. BookIs(pos) /\ mem + pos.qty = Equity /\ chain = <<>> /\ pending = Nothing
    BY <2>1, <2>2 DEF EngineBook, Margin, Working
  <2>4. /\ pc' = [pc EXCEPT ![j] = "priced"] /\ seen'[j] = pos
        /\ UNCHANGED <<mem, pos, status, docQty, chain, pending>>
    BY <2>1 DEF Read, trades, TypeOK
  <2>5. BookIs(pos)'
    BY <2>3, <2>4 DEF BookIs
  <2>6. ExitBook(j)'
    BY <2>3, <2>4, <2>5 DEF ExitBook, TypeOK
  <2> QED
    BY <1>0, <2>1, <2>2, <2>3, <2>4, <2>6, EngineGoes
<1>5. ASSUME NEW j \in Calls, CloseQueue(j) PROVE EngineBook'
  <2>1. /\ pc[j] = "priced" /\ kind[j] = "exit" /\ pending = Nothing
        /\ pc' = [pc EXCEPT ![j] = "waiting"] /\ chain' = Append(chain, j)
        /\ UNCHANGED <<mem, pos, status, docQty, seen, pending>>
    BY <1>5 DEF CloseQueue, At, Enqueue, trades, EngineAlone
  <2>2. /\ \A i \in Calls \ {j} : ~Working(i)
        /\ chain = <<>> /\ ExitBook(j)
    BY <1>1, <2>1 DEF Working
  <2>3. chain' = <<j>>
    BY <2>1, <2>2
  <2>4. ExitBook(j)'
    BY <1>0, <2>1, <2>2 DEF ExitBook, BookIs, TypeOK
  <2> QED
    BY <1>0, <2>1, <2>2, <2>3, <2>4, EngineGoes
<1>6. ASSUME NEW j \in Calls, CloseStart(j) PROVE EngineBook'
  <2>1. /\ pc[j] = "waiting" /\ kind[j] = "exit" /\ pending = Nothing
        /\ pc' = [pc EXCEPT ![j] = "tx"]
        /\ UNCHANGED <<mem, pos, status, docQty, seen, chain, pending>>
    BY <1>6 DEF CloseStart, MyTurn, Settle, trades, EngineAlone, EngineBook
  <2>2. /\ \A i \in Calls \ {j} : ~Working(i)
        /\ chain = <<j>> /\ ExitBook(j)
    BY <1>1, <2>1 DEF Working
  <2>3. ExitBook(j)'
    BY <1>0, <2>1, <2>2 DEF ExitBook, BookIs, TypeOK
  <2> QED
    BY <1>0, <2>1, <2>2, <2>3, EngineGoes
<1>7. ASSUME NEW j \in Calls, CloseCommit(j) PROVE EngineBook'
  <2>1. /\ pc[j] = "tx" /\ kind[j] = "exit" /\ pending = Nothing
        /\ Release(j, NoPos) /\ UNCHANGED docQty
    BY <1>7 DEF CloseCommit, At, EngineAlone, ClosedPosition
  <2>2. /\ \A i \in Calls \ {j} : ~Working(i)
        /\ chain = <<j>> /\ pos = seen[j] /\ BookIs(seen[j]) /\ mem + seen[j].qty = Equity
        /\ seen[j] # NoPos /\ seen[j].doc \in Docs /\ seen[j].qty \in Nat
    BY <1>1, <2>1 DEF Working, ExitBook
  <2>3. status' = [status EXCEPT ![seen[j].doc] = "CLOSED"] /\ mem' = mem + seen[j].qty
    BY <1>7, <2>2 DEF CloseCommit, Claimed, BookIs
  <2>4. chain' = <<>> /\ pos' = NoPos /\ pending' = Nothing
    BY <2>1, <2>2 DEF Release
  <2>5. BookIs(pos)'
    BY <2>2, <2>3, <2>4 DEF BookIs, TypeOK
  <2>6. (mem + Margin(pos))' = Equity
    BY <1>0, <2>2, <2>3, <2>4 DEF Margin
  <2>7. pc' = [pc EXCEPT ![j] = "done"]
    BY <2>1 DEF Release
  <2> QED
    BY <2>2, <2>4, <2>5, <2>6, <2>7, EngineEnds
<1>8. ASSUME NEW j \in Calls, CloseFails(j) PROVE EngineBook'
  <2>1. /\ pc[j] = "tx" /\ kind[j] = "exit" /\ pending = Nothing
        /\ Release(j, Nothing) /\ UNCHANGED <<mem, status, docQty>>
    BY <1>8 DEF CloseFails, At, EngineAlone, trades
  <2>2. /\ \A i \in Calls \ {j} : ~Working(i)
        /\ chain = <<j>> /\ pos = seen[j] /\ BookIs(seen[j]) /\ mem + seen[j].qty = Equity
        /\ seen[j] # NoPos
    BY <1>1, <2>1 DEF Working, ExitBook
  <2>3. chain' = <<>> /\ pos' = pos /\ pending' = Nothing /\ pc' = [pc EXCEPT ![j] = "done"]
    BY <2>1, <2>2 DEF Release
  <2>4. BookIs(pos)' /\ (mem + Margin(pos))' = Equity
    BY <2>1, <2>2, <2>3 DEF BookIs, Margin
  <2> QED
    BY <2>2, <2>3, <2>4, EngineEnds
<1>9. ASSUME NEW j \in Calls, TrimSet(j) PROVE EngineBook'
  <2>1. /\ pc[j] = "priced" /\ kind[j] = "trim" /\ pending = Nothing
        /\ pos' = Left(j) /\ pc' = [pc EXCEPT ![j] = "saving"]
        /\ UNCHANGED <<mem, status, docQty, seen, chain, pending>>
    BY <1>9 DEF TrimSet, At, Left, trades
  <2>2. /\ \A i \in Calls \ {j} : ~Working(i)
        /\ chain = <<>> /\ BookIs(seen[j]) /\ mem + seen[j].qty = Equity
    BY <1>1, <2>1 DEF Working, ExitBook
  <2>3. ExitBook(j)'
    BY <1>0, <2>1, <2>2 DEF ExitBook, BookIs, TypeOK, Left
  <2> QED
    BY <1>0, <2>1, <2>2, <2>3, EngineGoes
<1>10. ASSUME NEW j \in Calls, TrimWrite(j) PROVE EngineBook'
  <2>1. /\ pc[j] = "saving" /\ kind[j] = "trim" /\ pending = Nothing
        /\ docQty' = [docQty EXCEPT ![seen[j].doc] = seen[j].qty - Qty[j]]
        /\ pc' = [pc EXCEPT ![j] = "waiting"] /\ chain' = Append(chain, j)
        /\ UNCHANGED <<mem, pos, status, seen, pending>>
    BY <1>10 DEF TrimWrite, At, Enqueue, Remaining, Paths
  <2>2. /\ \A i \in Calls \ {j} : ~Working(i)
        /\ chain = <<>> /\ BookIs(seen[j]) /\ mem + seen[j].qty = Equity /\ pos = Left(j)
        /\ Left(j) # NoPos /\ Left(j).qty = seen[j].qty - Qty[j] /\ Left(j).doc = seen[j].doc
        /\ seen[j].doc \in Docs /\ seen[j] # NoPos
    BY <1>1, <2>1 DEF Working, ExitBook
  <2>3. chain' = <<j>>
    BY <2>1, <2>2
  <2>4. pos' = Left(j) /\ Left(j)' = Left(j)
    BY <2>1, <2>2 DEF Left
  <2>5. BookIs(pos)'
    BY <2>1, <2>2, <2>4 DEF BookIs, TypeOK
  <2>6. ExitBook(j)'
    BY <1>0, <2>1, <2>2, <2>4, <2>5 DEF ExitBook, TypeOK
  <2> QED
    BY <1>0, <2>1, <2>2, <2>3, <2>6, EngineGoes
<1>11. ASSUME NEW j \in Calls, TrimCredit(j) PROVE EngineBook'
  <2>1. /\ pc[j] = "waiting" /\ kind[j] = "trim" /\ pending = Nothing
        /\ mem' = mem + Qty[j] /\ chain' = Tail(chain) /\ pc' = [pc EXCEPT ![j] = "done"]
        /\ UNCHANGED <<pos, status, docQty, pending>>
    BY <1>11 DEF TrimCredit, MyTurn, Settle, trades, EngineBook
  <2>2. /\ \A i \in Calls \ {j} : ~Working(i)
        /\ chain = <<j>> /\ BookIs(pos) /\ mem + seen[j].qty = Equity /\ pos = Left(j)
        /\ Left(j) # NoPos /\ Left(j).qty = seen[j].qty - Qty[j]
        /\ seen[j].qty \in Nat /\ Qty[j] \in Nat
    BY <1>1, <2>1 DEF Working, ExitBook
  <2>3. chain' = <<>>
    BY <2>1, <2>2
  <2>4. BookIs(pos)'
    BY <2>1, <2>2 DEF BookIs
  <2>5. Margin(pos)' = seen[j].qty - Qty[j]
    BY <2>1, <2>2 DEF Margin
  <2>6. (mem + Margin(pos))' = Equity
    BY <1>0, <2>1, <2>2, <2>5
  <2> QED
    BY <2>1, <2>2, <2>3, <2>4, <2>6, EngineEnds
<1>12. ASSUME NEW j \in Calls, EntryCall(j) PROVE EngineBook'
  <2>1. /\ kind[j] = "entry" /\ pc[j] = "idle" /\ pending = Nothing
        /\ UNCHANGED <<mem, pos, status, docQty, seen, chain, pending>>
    BY <1>12 DEF EntryCall, Idle, trades
  <2>2. CASE pc' = [pc EXCEPT ![j] = "priced"] /\ pos = NoPos /\ ~EntryInFlight(j)
    <3>1. \A i \in Calls : ~Working(i)
      <4>1. ASSUME NEW i \in Calls, Working(i), kind[i] # "entry" PROVE pos # NoPos
        BY <1>1, <4>1 DEF ExitBook, EngineAlone
      <4> QED
        BY <2>1, <2>2, <4>1 DEF EntryInFlight, Working
    <3>2. BookIs(pos) /\ mem + Margin(pos) = Equity /\ chain = <<>>
      BY <3>1 DEF EngineBook, Working
    <3>3. EntryBook'
      BY <1>0, <2>1, <2>2, <3>2 DEF EntryBook, BookIs, Margin
    <3> QED
      BY <1>0, <2>1, <2>2, <3>1, <3>2, <3>3, EngineGoes
  <2>3. CASE pc' = [pc EXCEPT ![j] = "done"]
    <3>1. \A i \in Calls : /\ Working(i)' <=> Working(i)
                           /\ pc'[i] = pc[i] \/ (pc[i] = "idle" /\ pc'[i] = "done")
      BY <2>1, <2>3 DEF Working, TypeOK
    <3>2. \A i \in Calls :
             Working(i) => (ExitBook(i)' <=> ExitBook(i)) /\ (EntryBook' <=> EntryBook)
      BY <1>0, <2>1, <3>1 DEF Working, ExitBook, EntryBook, BookIs, Left
    <3> QED
      BY <1>0, <2>1, <3>1, <3>2 DEF EngineBook, BookIs, Margin
  <2> QED
    BY <1>12, <2>2, <2>3 DEF EntryCall
<1>13. ASSUME NEW j \in Calls, EntryQueue(j) PROVE EngineBook'
  <2>1. /\ pc[j] = "priced" /\ kind[j] = "entry" /\ pending = Nothing
        /\ pc' = [pc EXCEPT ![j] = "waiting"] /\ chain' = Append(chain, j)
        /\ UNCHANGED <<mem, pos, status, docQty, pending>>
    BY <1>13 DEF EntryQueue, At, Enqueue, trades
  <2>2. /\ \A i \in Calls \ {j} : ~Working(i)
        /\ chain = <<>> /\ EntryBook
    BY <1>1, <2>1 DEF Working
  <2>3. chain' = <<j>> /\ EntryBook'
    BY <2>1, <2>2 DEF EntryBook, BookIs
  <2> QED
    BY <1>0, <2>1, <2>2, <2>3, EngineGoes
<1>14. ASSUME NEW j \in Calls, EntryStart(j) PROVE EngineBook'
  <2>1. /\ pc[j] = "waiting" /\ kind[j] = "entry" /\ pending = Nothing
        /\ \/ pc' = [pc EXCEPT ![j] = "tx"] /\ chain' = chain
           \/ pc' = [pc EXCEPT ![j] = "done"] /\ chain' = Tail(chain)
        /\ UNCHANGED <<mem, pos, status, docQty, pending>>
    BY <1>14 DEF EntryStart, MyTurn, Settle, trades, EngineBook
  <2>2. /\ \A i \in Calls \ {j} : ~Working(i)
        /\ chain = <<j>> /\ EntryBook
    BY <1>1, <2>1 DEF Working
  <2>3. EntryBook'
    BY <2>1, <2>2 DEF EntryBook, BookIs
  <2>4. CASE pc' = [pc EXCEPT ![j] = "tx"] /\ chain' = chain
    BY <1>0, <2>1, <2>2, <2>3, <2>4, EngineGoes
  <2>5. CASE pc' = [pc EXCEPT ![j] = "done"] /\ chain' = Tail(chain)
    <3>1. chain' = <<>> /\ pending' = Nothing
      BY <2>1, <2>2, <2>5
    <3>2. BookIs(pos)' /\ (mem + Margin(pos))' = Equity
      BY <1>0, <2>3 DEF EntryBook, Margin
    <3> QED
      BY <2>2, <2>5, <3>1, <3>2, EngineEnds
  <2> QED
    BY <2>1, <2>4, <2>5
<1>15. ASSUME NEW j \in Calls, EntryCommit(j) PROVE EngineBook'
  <2>1. PICK d \in Docs :
           /\ status[d] = "none" /\ status' = [status EXCEPT ![d] = "OPEN"]
           /\ docQty' = [docQty EXCEPT ![d] = Qty[j]]
           /\ Release(j, [doc |-> d, side |-> Side[j], qty |-> Qty[j]])
    BY <1>15 DEF EntryCommit
  <2> DEFINE new == [doc |-> d, side |-> Side[j], qty |-> Qty[j]]
  <2>2. /\ new \in PaperPosition /\ new.qty = Qty[j] /\ new.doc = d /\ Qty[j] \in Nat
    BY DEF PaperPosition
  <2>3. new # NoPos /\ new # Nothing
    BY <2>2, Zenon
  <2> HIDE DEF new
  <2>4. pc[j] = "tx" /\ kind[j] = "entry" /\ mem' = mem - Qty[j]
    BY <1>15 DEF EntryCommit, At
  <2>5. /\ \A i \in Calls \ {j} : ~Working(i)
        /\ chain = <<j>> /\ EntryBook
    BY <1>1, <2>4 DEF Working
  <2>6. Release(j, new)
    BY <2>1 DEF new
  <2>7. chain' = <<>> /\ pos' = new /\ pending' = Nothing /\ pc' = [pc EXCEPT ![j] = "done"]
    BY <2>3, <2>5, <2>6 DEF Release
  <2>8. BookIs(pos)'
    BY <2>1, <2>2, <2>3, <2>5, <2>7 DEF BookIs, EntryBook, TypeOK
  <2>9. Margin(pos)' = Qty[j]
    BY <2>2, <2>3, <2>7 DEF Margin
  <2>10. (mem + Margin(pos))' = Equity
    BY <1>0, <2>2, <2>4, <2>5, <2>9 DEF EntryBook
  <2> QED
    BY <2>5, <2>7, <2>8, <2>10, EngineEnds
<1>16. ASSUME NEW j \in Calls, EntryFails(j) PROVE EngineBook'
  <2>1. /\ pc[j] = "tx" /\ kind[j] = "entry" /\ pending = Nothing
        /\ Release(j, Nothing) /\ UNCHANGED <<mem, status, docQty>>
    BY <1>16 DEF EntryFails, At, trades
  <2>2. /\ \A i \in Calls \ {j} : ~Working(i)
        /\ chain = <<j>> /\ EntryBook
    BY <1>1, <2>1 DEF Working
  <2>3. chain' = <<>> /\ pos' = pos /\ pending' = Nothing /\ pc' = [pc EXCEPT ![j] = "done"]
    BY <2>1, <2>2 DEF Release
  <2>4. BookIs(pos)' /\ (mem + Margin(pos))' = Equity
    BY <1>0, <2>1, <2>2, <2>3 DEF EntryBook, BookIs, Margin
  <2> QED
    BY <2>2, <2>3, <2>4, EngineEnds
<1> QED
  BY <1>2, <1>3, <1>4, <1>5, <1>6, <1>7, <1>8, <1>9, <1>10, <1>11, <1>12, <1>13, <1>14,
     <1>15, <1>16, EngineSteps

LEMMA EngineBookInvariance == Spec => [](EngineAlone => EngineBook)
<1>1. Init => EngineBook
  <2> SUFFICES ASSUME Init PROVE EngineBook
    OBVIOUS
  <2>1. BookIs(pos) /\ mem + Margin(pos) = Equity
    BY OrderBookInit DEF OrderBook, InBody, Init
  <2>2. pending = Nothing /\ chain = <<>> /\ \A j \in Calls : pc[j] = "idle"
    BY DEF Init
  <2> QED
    BY <2>1, <2>2 DEF EngineBook, Working
<1>2. Inv /\ (EngineAlone => EngineBook) /\ [Next]_vars => (EngineAlone => EngineBook)'
  BY EngineBookNext, KindStays DEF EngineAlone
<1> QED
  BY <1>1, <1>2, Invariance, PTL DEF Spec

\* The engine's entries, exits and partial exits: exitsInFlight and the scheduler's
\* keys leave one call at work on the symbol, so that margin is taken and returned
\* once, one trade is open, and map and documents agree between calls, though
\* entries and claims may fail. If the document of a partial exit cannot be updated
\* they do not agree, and that is left out.
THEOREM EngineKeepsBook ==
  Spec => [](EngineAlone => EquityKept /\ OneTradePerSymbol /\ TradesWatched /\ NoGhost)
<1>1. Inv /\ EngineAlone /\ EngineBook
      => EquityKept /\ OneTradePerSymbol /\ TradesWatched /\ NoGhost
  <2> SUFFICES ASSUME Inv, EngineAlone, EngineBook
               PROVE  EquityKept /\ OneTradePerSymbol /\ TradesWatched /\ NoGhost
    OBVIOUS
  <2>1. \E p : BookIs(p)
    BY DEF EngineBook, EntryBook, ExitBook
  <2>2. OneTradePerSymbol
    BY <2>1 DEF OneTradePerSymbol, BookIs
  <2>3. AtRest => BookIs(pos) /\ mem + Margin(pos) = Equity
    BY DEF AtRest, EngineBook, Working
  <2>4. pos # NoPos => pos.doc \in Docs
    BY PositionParts DEF Inv, TypeOK
  <2> QED
    BY <2>2, <2>3, <2>4 DEF EquityKept, TradesWatched, NoGhost, BookIs
<1> QED
  BY <1>1, EngineBookInvariance, Invariance, PTL

-----------------------------------------------------------------------------
(* A closed trade under each of the three families.                        *)

\* One family of paths has the account, as in the run book_separate.
Separate == OrdersAlone \/ ClosersAlone \/ EngineAlone

\* An order in the lock works on the trade that is open, or on a new one.
LEMMA OrderSpares ==
  ASSUME Inv, OrdersAlone, OrderBook, [Next]_vars, NEW d \in Docs, status[d] = "CLOSED"
  PROVE  docQty'[d] = docQty[d]
<1> USE DEF Inv
<1>1. ASSUME NEW j \in Calls, OrderWrite(j) PROVE docQty'[d] = docQty[d]
  <2>1. pc[j] = "write" /\ Save(j) /\ BookIs(pos) /\ seen[j] = pos
    BY <1>1 DEF OrderWrite, At, OrderBook
  <2>2. seen[j] # NoPos => status[seen[j].doc] = "OPEN"
    BY <2>1, PositionParts DEF BookIs, TypeOK
  <2>3. plan[j] # NoPos => status[plan[j].doc] # "CLOSED"
    BY <2>1, <2>2 DEF Decided
  <2>4. docQty' = docQty \/ (plan[j] # NoPos /\ docQty' = [docQty EXCEPT ![plan[j].doc] = plan[j].qty])
    BY <2>1 DEF Save
  <2> QED
    BY <2>3, <2>4 DEF TypeOK
<1>2. ASSUME NEW j \in Calls,
             \/ OrderCall(j) \/ OrderOpens(j) \/ OrderAdds(j) \/ OrderReduces(j)
             \/ OrderRejected(j) \/ OrderCreateFails(j) \/ OrderInstall(j)
      PROVE  docQty' = docQty
  BY <1>2 DEF OrderCall, OrderOpens, OrderAdds, OrderReduces, OrderRejected, OrderCreateFails,
              OrderInstall, Decide, trades
<1>3. ASSUME NEW j \in Calls PROVE ~(At(j, "priced") \/ At(j, "saving") \/ At(j, "tx"))
  BY DEF At, OrderBook
<1> QED
  BY <1>1, <1>2, <1>3, OrderSteps DEF vars, trades

\* A closer writes no quantity at all.
LEMMA CloserSpares ==
  ASSUME Inv, ClosersAlone, [Next]_vars
  PROVE  docQty' = docQty
<1>1. ASSUME NEW j \in Calls,
             \/ CloseCall(j) \/ MonitorCall(j) \/ ExitCall(j) \/ ExitSkipped(j)
             \/ CloseQueue(j) \/ CloseStart(j) \/ CloseCommit(j) \/ CloseFails(j)
      PROVE  docQty' = docQty
  BY <1>1 DEF CloseCall, MonitorCall, ExitCall, ExitSkipped, CloseQueue, CloseStart, CloseCommit,
              CloseFails, Read, trades
<1> QED
  BY <1>1, CloserSteps DEF Inv, vars, trades

\* A partial exit writes the document of the trade it holds, which nobody else can
\* have closed, and an entry a new one.
LEMMA EngineSpares ==
  ASSUME Inv, EngineAlone, EngineBook, [Next]_vars, NEW d \in Docs, status[d] = "CLOSED"
  PROVE  docQty'[d] = docQty[d]
<1> USE DEF Inv
<1>1. ASSUME NEW j \in Calls, TrimWrite(j) PROVE docQty'[d] = docQty[d]
  <2>1. pc[j] = "saving" /\ kind[j] = "trim"
    BY <1>1 DEF TrimWrite, At, Paths
  <2>2. seen[j] \in PaperPosition /\ seen[j].doc \in Docs
    BY <2>1, SeenPosition, PositionParts
  <2>3. seen[j] # NoPos
    BY <2>2, NullAssumption
  <2>4. ExitBook(j)
    BY <2>1 DEF EngineBook, Working
  <2>5. BookIs(seen[j])
    BY <2>1, <2>4 DEF ExitBook
  <2>6. seen[j].doc # d
    BY <2>3, <2>5 DEF BookIs
  <2> QED
    BY <1>1, <2>6 DEF TrimWrite, TypeOK
<1>2. ASSUME NEW j \in Calls, EntryCommit(j) PROVE docQty'[d] = docQty[d]
  BY <1>2 DEF EntryCommit, TypeOK
<1>3. ASSUME NEW j \in Calls,
             \/ ExitCall(j) \/ ExitSkipped(j) \/ CloseQueue(j) \/ CloseStart(j)
             \/ CloseCommit(j) \/ CloseFails(j) \/ TrimSet(j) \/ TrimCredit(j)
             \/ EntryCall(j) \/ EntryQueue(j) \/ EntryStart(j) \/ EntryFails(j)
      PROVE  docQty' = docQty
  BY <1>3 DEF ExitCall, ExitSkipped, CloseQueue, CloseStart, CloseCommit, CloseFails, TrimSet,
              TrimCredit, EntryCall, EntryQueue, EntryStart, EntryFails, Read, trades
<1> QED
  BY <1>1, <1>2, <1>3, EngineSteps DEF vars, trades

\* Orders by themselves, closers by themselves and the engine by itself: each
\* writes to the trade that is open, so a closed one stays closed with the quantity
\* it was paid for.
THEOREM SeparateUntouched == Spec /\ Separate => ClosedUntouched
<1>1. /\ Inv
      /\ OrdersAlone => OrderBook
      /\ EngineAlone => EngineBook
      /\ Separate
      /\ [Next]_vars
      => [\A d \in Docs : status[d] = "CLOSED" =>
            status'[d] = "CLOSED" /\ docQty'[d] = docQty[d]]_vars
  BY NextClosed, OrderSpares, CloserSpares, EngineSpares DEF Separate
<1>2. Separate /\ [Next]_vars => Separate'
  BY KindStays DEF Separate, OrdersAlone, ClosersAlone, EngineAlone
<1> QED
  BY <1>1, <1>2, Invariance, OrderBookInvariance, EngineBookInvariance, PTL
     DEF Spec, ClosedUntouched

=============================================================================
