-------------------------- MODULE LiveOrdersProofs --------------------------
(***************************************************************************)
(* Proofs about LiveOrders, for any calls, documents and scenes.           *)
(***************************************************************************)
EXTENDS LiveOrders, SumProofs, TLAPS, WellFoundedInduction, FiniteSetTheorems

-----------------------------------------------------------------------------
(* The least and the latest of some documents; what an order can fill.     *)

\* Documents are numbers.
LEMMA DocsAreNats == Docs \subseteq Nat /\ NoDoc \notin Docs
BY LiveAssumption DEF Docs, NoDoc

\* A set of naturals has a least element.
LEMMA LeastOfNats ==
  ASSUME NEW S \in SUBSET Nat, S # {}
  PROVE  Least(S) \in S /\ \A y \in S : Least(S) <= y
<1> DEFINE less == {ss \in Nat \X Nat : ss[1] < ss[2]}
<1>1. IsWellFoundedOn(less, Nat)
  BY NatLessThanWellFounded DEF OpToRel
<1>2. PICK x \in S : \A y \in S : ~ (<<y, x>> \in less)
  BY <1>1, WFMin
<1>3. ASSUME NEW y \in S PROVE x <= y
  <2>1. x \in Nat /\ y \in Nat
    OBVIOUS
  <2>2. ~ (<<y, x>> \in less)
    BY <1>2
  <2> QED
    BY <2>1, <2>2
<1> QED
  BY <1>3 DEF Least

\* Some documents have a latest one.
LEMMA LatestOfDocs ==
  ASSUME NEW S \in SUBSET Docs, S # {}
  PROVE  Latest(S) \in S /\ \A y \in S : Latest(S) >= y
<1> DEFINE T == {MaxDocs - d : d \in S}
<1>1. T \in SUBSET Nat /\ T # {}
  BY LiveAssumption DEF Docs
<1>2. PICK t \in T : \A y \in T : t <= y
  BY <1>1, LeastOfNats
<1>3. PICK x \in S : t = MaxDocs - x
  BY <1>2
<1>4. \A y \in S : x >= y
  <2>1. MaxDocs \in Nat /\ S \subseteq Nat
    BY LiveAssumption DEF Docs
  <2> QED
    BY <1>2, <1>3, <2>1
<1> QED
  BY <1>4 DEF Latest

\* The lesser of two numbers.
LEMMA LeastOfTwo ==
  ASSUME NEW m \in Int, NEW n \in Int
  PROVE  /\ Least({m, n}) \in {m, n}
         /\ Least({m, n}) <= m
         /\ Least({m, n}) <= n
BY DEF Least

\* The parts of a scene.
LEMMA SceneParts ==
  ASSUME TypeOK
  PROVE  /\ scene.amount \in [Calls -> Int]
         /\ scene.kind \in [Calls -> Kinds]
         /\ scene.start \in Nat
         /\ scene.spot \in BOOLEAN
BY LiveAssumption DEF TypeOK, SceneType

\* What is filled is a number with the sign of the order, and not above it.
LEMMA FillsBounded ==
  ASSUME held \in Int, Spare \in Nat, NEW n \in Int, NEW r \in BOOLEAN, NEW f \in Fills(n, r)
  PROVE  /\ f \in Int
         /\ Abs(f) <= Room(n, r)
         /\ n < 0 => f < 0
         /\ n >= 0 => f > 0
<1>1. Room(n, r) \in Int /\ Abs(n) \in Int
  BY DEF Room, Abs
<1> DEFINE most == Least({Abs(n), Room(n, r)})
<1>2. most \in Int /\ most <= Room(n, r)
  BY <1>1, LeastOfTwo
<1>3. PICK g \in 1 .. most : f = (IF n < 0 THEN -1 ELSE 1) * g
  BY <1>2 DEF Fills
<1>4. CASE n < 0
  <2>1. f = -g
    BY <1>3, <1>4
  <2> QED
    BY <2>1, <1>2, <1>3, <1>1, <1>4 DEF Abs
<1>5. CASE ~(n < 0)
  <2>1. f = g
    BY <1>3, <1>5
  <2> QED
    BY <2>1, <1>2, <1>3, <1>1, <1>5 DEF Abs
<1> QED
  BY <1>4, <1>5
-----------------------------------------------------------------------------
(* Type correctness.                                                       *)

\* Values a call may have in hand.
LEMMA NoMemTyped == NoMem \in Memory
BY DEF NoMem, Memory

\* What a call has in hand, with another fill or one more attempt.
LEMMA MemoryChanged ==
  ASSUME TypeOK, NEW c \in Calls
  PROVE  /\ \A f \in Int : [mem EXCEPT ![c].fill = f] \in [Calls -> Memory]
         /\ \A d \in Docs \cup {NoDoc} : [mem EXCEPT ![c].doc = d] \in [Calls -> Memory]
         /\ \A t \in 0 .. 2 : [mem EXCEPT ![c].tries = t] \in [Calls -> Memory]
<1>1. mem \in [Calls -> Memory] /\ mem[c] \in Memory
  BY DEF TypeOK
<1>2. \A m \in Memory :
         /\ \A f \in Int : [m EXCEPT !.fill = f] \in Memory
         /\ \A d \in Docs \cup {NoDoc} : [m EXCEPT !.doc = d] \in Memory
         /\ \A t \in 0 .. 2 : [m EXCEPT !.tries = t] \in Memory
  BY DEF Memory
<1> QED
  BY <1>1, <1>2

\* A call that ends leaves pc and mem in their types.
LEMMA EndTyped ==
  ASSUME TypeOK, NEW c \in Calls, End(c)
  PROVE  pc' \in [Calls -> Pcs] /\ mem' \in [Calls -> Memory]
BY NoMemTyped DEF TypeOK, End, Go, AtEnd, Pcs

\* So does one that goes on.
LEMMA GoTyped ==
  ASSUME TypeOK, NEW c \in Calls, NEW l \in Pcs, Go(c, l)
  PROVE  pc' \in [Calls -> Pcs]
BY DEF TypeOK, Go

\* An amount is a number.
LEMMA AmountTyped ==
  ASSUME TypeOK, NEW c \in Calls
  PROVE  Amount(c) \in Int
BY SceneParts DEF Amount

\* An order that fills moves the position by a number, and is remembered.
LEMMA FilledTyped ==
  ASSUME TypeOK, NEW c \in Calls, NEW n \in Int, NEW r \in BOOLEAN, NEW l \in Pcs,
         OrderFilled(c, n, r, l)
  PROVE  held' \in Int /\ mem' \in [Calls -> Memory] /\ pc' \in [Calls -> Pcs]
<1>1. PICK f \in Fills(n, r) :
         held' = held + f /\ mem' = [mem EXCEPT ![c].fill = f] /\ Go(c, l)
  BY DEF OrderFilled
<1>2. f \in Int
  BY FillsBounded, LiveAssumption DEF TypeOK
<1>3. [mem EXCEPT ![c].fill = f] \in [Calls -> Memory]
  BY <1>2, MemoryChanged
<1>4. pc' \in [Calls -> Pcs]
  BY <1>1, GoTyped
<1> QED
  BY <1>1, <1>2, <1>3, <1>4 DEF TypeOK

\* Nothing, or a fill, may come of an order whose answer is lost.
LEMMA LostTyped ==
  ASSUME TypeOK, NEW n \in Int, NEW r \in BOOLEAN, NEW g
  PROVE  LostFills(n, r, g) \subseteq Int /\ UnknownFills(n, r) \subseteq Int
<1>1. \A f \in Fills(n, r) : f \in Int
  BY FillsBounded, LiveAssumption DEF TypeOK
<1> QED
  BY <1>1 DEF LostFills, UnknownFills

\* The orphan journal touches the guards alone.
LEMMA JournalTyped ==
  ASSUME TypeOK, JournalOrphan
  PROVE  blocked' \in BOOLEAN /\ journal' \in BOOLEAN
BY DEF TypeOK, JournalOrphan

\* A document is created in a place that is free.
LEMMA CreatedTyped ==
  ASSUME TypeOK, NEW c \in Calls, Created(c)
  PROVE  docs' \in [Docs -> Document] /\ Least(Unused) \in Unused
<1>1. Least(Unused) \in Unused
  BY LeastOfNats, DocsAreNats DEF Created, Unused
<1>2. mem[c].fill \in Int
  BY DEF TypeOK, Memory
<1> QED
  BY <1>1, <1>2 DEF TypeOK, Created, Document

\* Recording a fill.
LEMMA RecordTyped ==
  ASSUME TypeOK, NEW c \in Calls, NEW next \in Pcs, Record(c, next)
  PROVE  /\ docs' \in [Docs -> Document]
         /\ mem' \in [Calls -> Memory]
         /\ pc' \in [Calls -> Pcs]
         /\ blocked' \in BOOLEAN /\ journal' \in BOOLEAN
<1> DEFINE RecordGoal == /\ docs' \in [Docs -> Document]
                         /\ mem' \in [Calls -> Memory]
                         /\ pc' \in [Calls -> Pcs]
                         /\ blocked' \in BOOLEAN /\ journal' \in BOOLEAN
<1>1. ASSUME NEW d \in Written(c), mem' = [mem EXCEPT ![c].doc = d], Go(c, next),
             UNCHANGED <<docs, guards>>
      PROVE  RecordGoal
  BY <1>1, MemoryChanged, GoTyped DEF TypeOK, Written, guards
<1>2. ASSUME Created(c), mem' = [mem EXCEPT ![c].doc = Least(Unused)], Go(c, next),
             UNCHANGED guards
      PROVE  RecordGoal
  <2>1. Least(Unused) \in Docs
    BY <1>2, CreatedTyped DEF Unused
  <2> QED
    BY <1>2, <2>1, CreatedTyped, MemoryChanged, GoTyped DEF TypeOK, guards
<1>3. ASSUME Created(c) \/ UNCHANGED docs,
             IF MoreAttempts(c)
             THEN mem' = [mem EXCEPT ![c].tries = @ + 1] /\ UNCHANGED <<pc, guards>>
             ELSE JournalOrphan /\ End(c)
      PROVE  RecordGoal
  <2>1. docs' \in [Docs -> Document]
    BY <1>3, CreatedTyped DEF TypeOK
  <2>2. CASE MoreAttempts(c)
    <3>1. mem[c].tries \in 0 .. 2 /\ mem[c].tries < 2
      BY <2>2 DEF TypeOK, Memory, MoreAttempts
    <3>2. mem' = [mem EXCEPT ![c].tries = mem[c].tries + 1] /\ UNCHANGED <<pc, guards>>
      BY <1>3, <2>2 DEF TypeOK
    <3>3. mem[c].tries + 1 \in 0 .. 2
      BY <3>1
    <3>4. mem' \in [Calls -> Memory]
      BY <3>2, <3>3, MemoryChanged
    <3> QED
      BY <3>2, <3>4, <2>1 DEF TypeOK, guards
  <2>3. CASE ~MoreAttempts(c)
    BY <1>3, <2>1, <2>3, EndTyped, JournalTyped
  <2> QED
    BY <2>2, <2>3
<1> QED
  BY <1>1, <1>2, <1>3 DEF Record

\* Manual orders and entries.
LEMMA OrderTyped ==
  ASSUME TypeOK, NEW c \in Calls, Order(c) \/ Entry(c)
  PROVE  TypeOK'
<1> USE LiveAssumption
<1>1. CASE OrderCall(c) \/ EntryCheck(c)
  BY <1>1 DEF OrderCall, EntryCheck, NotBlocked, Go, TypeOK, Pcs, guards, monitoring, flags
<1>2. CASE Send(c)
  <2>1. UNCHANGED <<scene, docs, pos, guards, monitoring, flags>>
    BY <1>2 DEF Send
  <2>2. CASE OrderFilled(c, Amount(c), FALSE, "filled")
    <3>1. held' \in Int /\ mem' \in [Calls -> Memory] /\ pc' \in [Calls -> Pcs]
      BY <2>2, AmountTyped, FilledTyped DEF Pcs
    <3> QED
      BY <2>1, <3>1 DEF TypeOK, guards, monitoring, flags
  <2>3. ASSUME Refused(c), held' \in Int
        PROVE  TypeOK'
    BY <2>1, <2>3 DEF Refused, TypeOK, Go, Pcs, guards, monitoring, flags
  <2>5. ASSUME NEW f \in LostFills(Amount(c), FALSE, "http"), held' = held + f
        PROVE  held' \in Int
    <3>1. f \in Int
      BY AmountTyped, LostTyped
    <3> QED
      BY <2>5, <3>1 DEF TypeOK
  <2>6. held \in Int
    BY DEF TypeOK
  <2>4. ASSUME NEW f \in LostFills(Amount(c), FALSE, "lost"), held' = held + f,
               mem' = [mem EXCEPT ![c].fill = f], Go(c, "query")
        PROVE  TypeOK'
    <3>1. f \in Int
      BY AmountTyped, LostTyped
    <3>2. mem' \in [Calls -> Memory]
      BY <2>4, <3>1, MemoryChanged
    <3>3. pc' \in [Calls -> Pcs]
      BY <2>4, GoTyped DEF Pcs
    <3> QED
      BY <2>1, <2>4, <3>1, <3>2, <3>3 DEF TypeOK, guards, monitoring, flags
  <2> QED
    BY <1>2, <2>2, <2>3, <2>4, <2>5, <2>6 DEF Send
<1>3. CASE Query(c)
  <2>1. pc' \in [Calls -> Pcs] /\ mem' \in [Calls -> Memory]
    BY <1>3, EndTyped, GoTyped DEF Query, TypeOK, Pcs
  <2>2. blocked' \in BOOLEAN /\ journal' \in BOOLEAN
    BY <1>3, JournalTyped DEF Query, Unconfirmed, TypeOK, guards
  <2> QED
    BY <1>3, <2>1, <2>2 DEF Query, TypeOK, monitoring, flags
<1>4. CASE Convert(c)
  <2>2. \A f \in LostFills(Amount(c), FALSE, "quote") : held + f \in Int
    <3>1. LostFills(Amount(c), FALSE, "quote") \subseteq Int /\ held \in Int
      BY AmountTyped, LostTyped DEF TypeOK
    <3>2. ASSUME NEW f \in LostFills(Amount(c), FALSE, "quote") PROVE held + f \in Int
      <4>1. f \in Int
        BY <3>1
      <4> QED
        BY <3>1, <4>1
    <3> QED
      BY <3>2
  <2>1. held' \in Int /\ mem' \in [Calls -> Memory] /\ pc' \in [Calls -> Pcs]
    BY <1>4, <2>2, AmountTyped, FilledTyped, EndTyped DEF Convert, Pcs, TypeOK
  <2> QED
    BY <1>4, <2>1 DEF Convert, TypeOK, guards, monitoring, flags
<1>5. CASE OrderLock(c)
  BY <1>5, EndTyped DEF OrderLock, Go, TypeOK, Pcs, guards, monitoring
<1>6. CASE OrderFind(c)
  <2>1. ASSUME NEW d \in IF Open = {} THEN {NoDoc} ELSE Open,
               mem' = [mem EXCEPT ![c].doc = d,
                                  ![c].qty = IF d = NoDoc THEN 0 ELSE docs[d].qty],
               Go(c, "write"), UNCHANGED <<guards, lock>>
        PROVE  TypeOK'
    <3>1. d \in Docs \cup {NoDoc}
      BY <2>1 DEF Open
    <3>2. (IF d = NoDoc THEN 0 ELSE docs[d].qty) \in Int
      BY <3>1 DEF TypeOK, Document
    <3>3. mem' \in [Calls -> Memory]
      BY <2>1, <3>1, <3>2 DEF TypeOK, Memory
    <3>4. pc' \in [Calls -> Pcs]
      BY <2>1, GoTyped DEF Pcs
    <3> QED
      BY <1>6, <2>1, <3>3, <3>4 DEF OrderFind, TypeOK, guards, monitoring
  <2>2. CASE JournalOrphan /\ End(c) /\ lock' = NoCall
    <3>1. pc' \in [Calls -> Pcs] /\ mem' \in [Calls -> Memory]
      BY <2>2, EndTyped
    <3>2. blocked' \in BOOLEAN /\ journal' \in BOOLEAN
      BY <2>2, JournalTyped
    <3> QED
      BY <1>6, <2>2, <3>1, <3>2 DEF OrderFind, TypeOK, monitoring
  <2> QED
    BY <1>6, <2>1, <2>2 DEF OrderFind
<1>7. CASE OrderSave(c)
  <2>1. pc' \in [Calls -> Pcs] /\ mem' \in [Calls -> Memory]
    BY <1>7, EndTyped DEF OrderSave
  <2>2. AddedOrReduced(mem[c].qty, mem[c].fill) \in Int
    BY DEF TypeOK, Memory, AddedOrReduced
  <2>3. docs' \in [Docs -> Document] /\ blocked' \in BOOLEAN /\ journal' \in BOOLEAN
    BY <1>7, <2>2, JournalTyped DEF OrderSave, TypeOK, Document, guards
  <2> QED
    BY <1>7, <2>1, <2>3 DEF OrderSave, TypeOK, monitoring
<1>8. CASE OrderCreate(c)
  <2>1. /\ docs' \in [Docs -> Document] /\ mem' \in [Calls -> Memory]
        /\ pc' \in [Calls -> Pcs] /\ blocked' \in BOOLEAN /\ journal' \in BOOLEAN
    BY <1>8, RecordTyped DEF OrderCreate, Pcs
  <2> QED
    BY <1>8, <2>1 DEF OrderCreate, TypeOK, monitoring
<1>9. CASE EntryCall(c)
  BY <1>9 DEF EntryCall, Go, TypeOK, Pcs, guards, monitoring, flags
<1>10. CASE EntryRecord(c)
  <2>1. /\ docs' \in [Docs -> Document] /\ mem' \in [Calls -> Memory]
        /\ pc' \in [Calls -> Pcs] /\ blocked' \in BOOLEAN /\ journal' \in BOOLEAN
    BY <1>10, RecordTyped DEF EntryRecord, Pcs
  <2> QED
    BY <1>10, <2>1 DEF EntryRecord, TypeOK, monitoring, flags
<1>11. CASE EntryInstall(c)
  <2>1. pc' \in [Calls -> Pcs] /\ mem' \in [Calls -> Memory]
    BY <1>11, EndTyped DEF EntryInstall
  <2>2. pos' \in Position
    BY <1>11 DEF EntryInstall, TypeOK, Memory, Position
  <2> QED
    BY <1>11, <2>1, <2>2 DEF EntryInstall, TypeOK, guards, monitoring, flags
<1> QED
  BY <1>1, <1>2, <1>3, <1>4, <1>5, <1>6, <1>7, <1>8, <1>9, <1>10, <1>11 DEF Order, Entry

\* An exit that is over leaves its call, and the set, in their types.
LEMMA ExitOverTyped ==
  ASSUME TypeOK, NEW c \in Calls, NEW l \in Pcs, ExitOver(c, l)
  PROVE  /\ exiting' \in BOOLEAN
         /\ pc' \in [Calls -> Pcs] /\ mem' \in [Calls -> Memory]
BY NoMemTyped, EndTyped DEF ExitOver, Go, TypeOK

\* The engine's exits.
LEMMA ExitTyped ==
  ASSUME TypeOK, NEW c \in Calls, Exit(c)
  PROVE  TypeOK'
<1> USE LiveAssumption
<1>0. mem[c].fill \in Int /\ mem[c].qty \in Int /\ mem[c].doc \in Docs \cup {NoDoc}
  BY DEF TypeOK, Memory
<1>1. CASE ExitSkipped(c)
  BY <1>1 DEF ExitSkipped, Go, TypeOK, Pcs, guards, monitoring, flags
<1>2. CASE ExitCall(c)
  <2>1. pos.qty \in Int /\ pos.doc \in Docs \cup {NoDoc} /\ Wanted(c) \in Int
    BY DEF TypeOK, Position, Wanted
  <2>2. mem' \in [Calls -> Memory]
    <3>1. -Wanted(c) \in Int
      BY <2>1
    <3>2. ASSUME NEW d \in Docs \cup {NoDoc}, NEW q \in Int, NEW f \in Int
          PROVE  [mem EXCEPT ![c].doc = d, ![c].qty = q, ![c].fill = f] \in [Calls -> Memory]
      <4>1. mem \in [Calls -> Memory] /\ mem[c] \in Memory
        BY DEF TypeOK
      <4>2. [mem[c] EXCEPT !.doc = d, !.qty = q, !.fill = f] \in Memory
        BY <4>1 DEF Memory
      <4>3. [mem EXCEPT ![c].doc = d, ![c].qty = q, ![c].fill = f]
            = [mem EXCEPT ![c] = [mem[c] EXCEPT !.doc = d, !.qty = q, !.fill = f]]
        BY <4>1 DEF Memory
      <4> QED
        BY <4>1, <4>2, <4>3
    <3> QED
      BY <1>2, <2>1, <3>1, <3>2 DEF ExitCall
  <2>3. pc' \in [Calls -> Pcs]
    BY <1>2 DEF ExitCall, Go, TypeOK, Pcs
  <2> QED
    BY <1>2, <2>2, <2>3 DEF ExitCall, TypeOK, guards, monitoring
<1>3. CASE CapSell(c)
  <2> DEFINE least == Least({held + Spare, -mem[c].fill})
  <2>1. -least \in Int
    <3>1. held + Spare \in Int /\ -mem[c].fill \in Int
      BY <1>0 DEF TypeOK
    <3>2. \A m, n \in Int : Least({m, n}) \in Int
      BY LeastOfTwo
    <3> QED
      BY <3>1, <3>2
  <2>2. [mem EXCEPT ![c].fill = -least] \in [Calls -> Memory]
    BY <2>1, MemoryChanged
  <2>3. exiting' \in BOOLEAN /\ pc' \in [Calls -> Pcs] /\ mem' \in [Calls -> Memory]
    BY <1>3, <2>2, ExitOverTyped, GoTyped DEF CapSell, TypeOK, Pcs
  <2> QED
    BY <1>3, <2>3 DEF CapSell, TypeOK, guards, monitoring
<1>4. CASE Sell(c) \/ SellConvert(c)
  <2>1. UNCHANGED <<scene, docs, pos, guards, monitoring, closing, lock>>
    BY <1>4 DEF Sell, SellConvert
  <2>2. ASSUME OrderFilled(c, mem[c].fill, TRUE, "sold"), UNCHANGED exiting
        PROVE  TypeOK'
    <3>1. held' \in Int /\ mem' \in [Calls -> Memory] /\ pc' \in [Calls -> Pcs]
      BY <2>2, <1>0, FilledTyped DEF Pcs
    <3> QED
      BY <2>1, <2>2, <3>1 DEF TypeOK, guards, monitoring
  <2>3. ASSUME ExitOver(c, "failed"), held' \in Int
        PROVE  TypeOK'
    <3>1. /\ exiting' \in BOOLEAN
          /\ pc' \in [Calls -> Pcs] /\ mem' \in [Calls -> Memory]
      BY <2>3, ExitOverTyped DEF Pcs
    <3> QED
      BY <2>1, <2>3, <3>1 DEF TypeOK, guards, monitoring
  <2>4. ASSUME Go(c, "sellConvert"), UNCHANGED <<held, mem, exiting>>
        PROVE  TypeOK'
    <3>1. pc' \in [Calls -> Pcs]
      BY <2>4, GoTyped DEF Pcs
    <3> QED
      BY <2>1, <2>4, <3>1 DEF TypeOK, guards, monitoring
  <2>5. ASSUME NEW f \in UnknownFills(mem[c].fill, TRUE)
                           \cup LostFills(mem[c].fill, TRUE, "quote")
        PROVE  held + f \in Int
    <3>1. f \in Int
      BY <1>0, LostTyped
    <3>2. held \in Int
      BY DEF TypeOK
    <3> QED
      BY <3>1, <3>2
  <2>6. held \in Int
    BY DEF TypeOK
  <2>7. CASE Sell(c)
    BY <2>2, <2>3, <2>4, <2>5, <2>6, <2>7 DEF Sell
  <2>8. CASE SellConvert(c)
    BY <2>2, <2>3, <2>5, <2>6, <2>8 DEF SellConvert
  <2> QED
    BY <1>4, <2>7, <2>8
<1>5. CASE ExitTrim(c)
  <2>1. pos' \in Position
    BY <1>5, <1>0 DEF ExitTrim, Rest, Position
  <2> QED
    BY <1>5, <2>1 DEF ExitTrim, Go, TypeOK, Pcs, guards, monitoring, flags
<1>6. CASE TrimSave(c)
  <2>1. exiting' \in BOOLEAN /\ pc' \in [Calls -> Pcs] /\ mem' \in [Calls -> Memory]
    BY <1>6, ExitOverTyped DEF TrimSave, Pcs
  <2>2. docs' \in [Docs -> Document]
    BY <1>6, <1>0 DEF TrimSave, Rest, TypeOK, Document
  <2> QED
    BY <1>6, <2>1, <2>2 DEF TrimSave, TypeOK, guards, monitoring
<1>7. CASE ExitClaim(c)
  <2>1. 0 \in Int
    OBVIOUS
  <2>2. [mem EXCEPT ![c].fill = 0] \in [Calls -> Memory]
    BY <2>1, MemoryChanged
  <2>4. exiting' \in BOOLEAN /\ pc' \in [Calls -> Pcs] /\ mem' \in [Calls -> Memory]
    BY <1>7, <2>2, ExitOverTyped, GoTyped DEF ExitClaim, TypeOK, Pcs
  <2>3. docs' \in [Docs -> Document]
    BY <1>7 DEF ExitClaim, TypeOK, Document
  <2> QED
    BY <1>7, <2>4, <2>3 DEF ExitClaim, TypeOK, guards, monitoring
<1>8. CASE ExitRemove(c)
  <2>1. exiting' \in BOOLEAN /\ pc' \in [Calls -> Pcs] /\ mem' \in [Calls -> Memory]
    BY <1>8, ExitOverTyped DEF ExitRemove, Pcs
  <2> QED
    BY <1>8, <2>1 DEF ExitRemove, NoPos, Position, TypeOK, guards, monitoring
<1> QED
  BY <1>1, <1>2, <1>3, <1>4, <1>5, <1>6, <1>7, <1>8 DEF Exit

\* The monitor, and its back-off.
LEMMA MonitorTyped ==
  ASSUME TypeOK, RetryDue \/ \E c \in Calls : Monitor(c)
  PROVE  TypeOK'
<1>1. CASE RetryDue
  BY <1>1 DEF RetryDue, TypeOK, guards, flags
<1>2. ASSUME NEW c \in Calls, Monitor(c)
      PROVE  TypeOK'
  BY <1>2 DEF Monitor, MonitorStart, MonitorTick, Verify, Go, TypeOK, Pcs, guards,
              monitoring, flags
<1> QED
  BY <1>1, <1>2

\* A close that is over leaves its call, and the set, in their types.
LEMMA CloseOverTyped ==
  ASSUME TypeOK, NEW c \in Calls, CloseOver(c)
  PROVE  /\ closing' \subseteq Docs
         /\ pc' \in [Calls -> Pcs] /\ mem' \in [Calls -> Memory]
BY EndTyped DEF CloseOver, TypeOK

\* The close route.
LEMMA CloseTyped ==
  ASSUME TypeOK, NEW c \in Calls, Close(c)
  PROVE  TypeOK'
<1>0. mem[c].fill \in Int /\ mem[c].qty \in Int /\ mem[c].doc \in Docs \cup {NoDoc}
  BY DEF TypeOK, Memory
<1>1. CASE CloseFind(c)
  <2>1. UNCHANGED <<scene, held, docs, pos, guards, monitoring, exiting, lock>>
    BY <1>1 DEF CloseFind
  <2>2. ASSUME NEW d \in Open \ closing, closing' = closing \cup {d},
               mem' = [mem EXCEPT ![c].doc = d, ![c].qty = docs[d].qty],
               Go(c, IF scene.kind[c] = "force" THEN "closeSave" ELSE "closeSend")
        PROVE  TypeOK'
    <3>1. d \in Docs /\ docs[d].qty \in Int
      BY DEF Open, TypeOK, Document
    <3>2. mem' \in [Calls -> Memory]
      BY <2>2, <3>1 DEF TypeOK, Memory
    <3>3. pc' \in [Calls -> Pcs]
      BY <2>2 DEF Go, TypeOK, Pcs
    <3> QED
      BY <2>1, <2>2, <3>1, <3>2, <3>3 DEF TypeOK, guards, monitoring
  <2>3. CASE Go(c, "done") /\ UNCHANGED <<closing, mem>>
    BY <2>1, <2>3 DEF Go, TypeOK, Pcs, guards, monitoring
  <2> QED
    BY <1>1, <2>2, <2>3 DEF CloseFind
<1>2. CASE CloseSend(c) \/ CloseConvert(c)
  <2>1. UNCHANGED <<scene, docs, pos, guards, monitoring, exiting, lock>>
    BY <1>2 DEF CloseSend, CloseConvert
  <2>2. ASSUME NEW n \in Int, OrderFilled(c, n, TRUE, "closeSave"), UNCHANGED closing
        PROVE  TypeOK'
    <3>1. held' \in Int /\ mem' \in [Calls -> Memory] /\ pc' \in [Calls -> Pcs]
      BY <2>2, FilledTyped DEF Pcs
    <3> QED
      BY <2>1, <2>2, <3>1 DEF TypeOK, guards, monitoring
  <2>3. ASSUME held' \in Int, \/ CloseOver(c)
                              \/ Go(c, "closeConvert") /\ UNCHANGED <<mem, closing>>
        PROVE  TypeOK'
    <3>1. /\ closing' \subseteq Docs
          /\ pc' \in [Calls -> Pcs] /\ mem' \in [Calls -> Memory]
      BY <2>3, CloseOverTyped, GoTyped DEF TypeOK, Pcs
    <3> QED
      BY <2>1, <2>3, <3>1 DEF TypeOK, guards, monitoring
  <2>4. held \in Int /\ -mem[c].qty \in Int
    BY <1>0 DEF TypeOK
  <2>5. ASSUME NEW f \in UnknownFills(-mem[c].qty, TRUE)
        PROVE  held + f \in Int
    <3>1. f \in Int
      BY <2>4, LostTyped
    <3> QED
      BY <2>4, <3>1
  <2>6. -Least({mem[c].qty, held + Spare}) \in Int
    <3>1. held + Spare \in Int
      BY <2>4, LiveAssumption
    <3>2. \A m, n \in Int : Least({m, n}) \in Int
      BY LeastOfTwo
    <3> QED
      BY <1>0, <3>1, <3>2
  <2>7. CASE CloseSend(c)
    BY <2>2, <2>3, <2>4, <2>5, <2>7 DEF CloseSend
  <2>9. ASSUME NEW n \in Int, NEW f \in LostFills(n, TRUE, "quote")
        PROVE  held + f \in Int
    <3>1. f \in Int
      BY <2>9, LostTyped
    <3> QED
      BY <2>4, <3>1
  <2>8. CASE CloseConvert(c)
    BY <2>2, <2>3, <2>4, <2>6, <2>8, <2>9 DEF CloseConvert
  <2> QED
    BY <1>2, <2>7, <2>8
<1>3. CASE CloseSave(c)
  <2>1. /\ closing' \subseteq Docs
        /\ pc' \in [Calls -> Pcs] /\ mem' \in [Calls -> Memory]
    BY <1>3, CloseOverTyped, GoTyped DEF CloseSave, TypeOK, Pcs
  <2>2. docs' \in [Docs -> Document]
    BY <1>3, <1>0 DEF CloseSave, Rest, TypeOK, Document
  <2> QED
    BY <1>3, <2>1, <2>2 DEF CloseSave, TypeOK, guards, monitoring
<1>4. CASE CloseMap(c)
  <2>1. /\ closing' \subseteq Docs
        /\ pc' \in [Calls -> Pcs] /\ mem' \in [Calls -> Memory]
    BY <1>4, CloseOverTyped DEF CloseMap
  <2>2. pos' \in Position
    BY <1>4, <1>0 DEF CloseMap, Rest, TypeOK, Position, NoPos
  <2> QED
    BY <1>4, <2>1, <2>2 DEF CloseMap, TypeOK, guards, monitoring
<1> QED
  BY <1>1, <1>2, <1>3, <1>4 DEF Close

\* The reconciliation with the exchange.
LEMMA ReconTyped ==
  ASSUME TypeOK, NEW c \in Calls, Recon(c)
  PROVE  TypeOK'
<1>1. CASE ReconRead(c)
  <2>1. mem' \in [Calls -> Memory]
    BY <1>1 DEF ReconRead, TypeOK, Memory
  <2> QED
    BY <1>1, <2>1 DEF ReconRead, Go, TypeOK, Pcs, guards, monitoring, flags
<1>2. CASE ReconFind(c)
  <2>1. mem' \in [Calls -> Memory]
    BY <1>2 DEF ReconFind, TypeOK, Memory, Open
  <2> QED
    BY <1>2, <2>1 DEF ReconFind, Go, TypeOK, Pcs, guards, monitoring, flags
<1>3. CASE ReconClose(c)
  <2>1. docs' \in [Docs -> Document]
    BY <1>3 DEF ReconClose, TypeOK, Document
  <2> QED
    BY <1>3, <2>1, EndTyped DEF ReconClose, TypeOK, guards, monitoring, flags
<1>4. CASE ReconLook(c)
  <2>1. pc' \in [Calls -> Pcs] /\ mem' \in [Calls -> Memory]
    BY <1>4, EndTyped, GoTyped DEF ReconLook, TypeOK, Pcs
  <2> QED
    BY <1>4, <2>1 DEF ReconLook, TypeOK, guards, monitoring, flags
<1>5. CASE ReconAdd(c)
  <2>1. mem[c].qty \in Int
    BY DEF TypeOK, Memory
  <2>2. docs' \in [Docs -> Document]
    BY <1>5, <2>1 DEF ReconAdd, TypeOK, Document
  <2> QED
    BY <1>5, <2>2, EndTyped DEF ReconAdd, TypeOK, guards, monitoring, flags
<1> QED
  BY <1>1, <1>2, <1>3, <1>4, <1>5 DEF Recon

\* An audit that sells trades has at least two in hand.
Flattening ==
    \A c \in Calls : pc[c] \in {"flatten", "flattened"} =>
        \E d, e \in mem[c].open : d # e

\* A set of more than one element has two that differ.
LEMMA TwoOf ==
  ASSUME NEW S, Cardinality(S) > 1
  PROVE  \E d, e \in S : d # e
<1>1. SUFFICES ASSUME \A d, e \in S : d = e
               PROVE  FALSE
  OBVIOUS
<1>2. CASE S = {}
  BY <1>2, FS_EmptySet
<1>3. CASE \E x : S = {x}
  BY <1>3, FS_Singleton
<1> QED
  BY <1>1, <1>2, <1>3

\* The audit.
LEMMA AuditTyped ==
  ASSUME TypeOK, Flattening, NEW c \in Calls, Audit(c)
  PROVE  TypeOK'
<1>0. /\ mem[c].open \subseteq Docs
      /\ mem[c].read \in [Docs -> Int]
      /\ mem[c] \in Memory
  BY DEF TypeOK, Memory
<1>1. \A d \in Docs : PositionRead(c, d) \in Position
  BY <1>0 DEF PositionRead, Position
<1>2. CASE AuditFind(c)
  <2>1. mem' \in [Calls -> Memory]
    BY <1>2 DEF AuditFind, TypeOK, Memory, Document, Open
  <2> QED
    BY <1>2, <2>1 DEF AuditFind, Go, TypeOK, Pcs, guards, monitoring, flags
<1>3. CASE AuditFix(c)
  <2>1. Converged(c) \in Position
    <3>1. mem[c].open \ {pos.doc} # {} => Latest(mem[c].open \ {pos.doc}) \in Docs
      BY <1>0, LatestOfDocs
    <3> QED
      BY <1>1, <3>1 DEF Converged, TypeOK, Position, NoPos
  <2>2. pc' \in [Calls -> Pcs] /\ mem' \in [Calls -> Memory]
    BY <1>3, EndTyped, GoTyped DEF AuditFix, TypeOK, Pcs
  <2> QED
    BY <1>3, <2>1, <2>2 DEF AuditFix, TypeOK, guards, monitoring, flags
<1>4. CASE AuditFlatten(c)
  <2>0. mem[c].open # {}
    BY <1>4 DEF AuditFlatten, Flattening
  <2>1. Least(mem[c].open) \in Docs
    BY <1>0, <2>0, LeastOfNats, DocsAreNats
  <2>2. -mem[c].read[Least(mem[c].open)] \in Int
    BY <1>0, <2>1
  <2>3. ASSUME NEW f \in Fills(-mem[c].read[Least(mem[c].open)], FALSE)
                           \cup UnknownFills(-mem[c].read[Least(mem[c].open)], FALSE)
        PROVE  held + f \in Int
    <3>1. f \in Int
      BY <2>2, LostTyped, FillsBounded, LiveAssumption DEF TypeOK
    <3> QED
      BY <3>1 DEF TypeOK
  <2>4. held' \in Int
    BY <1>4, <2>3 DEF AuditFlatten, TypeOK
  <2> QED
    BY <1>4, <2>4 DEF AuditFlatten, Go, TypeOK, Pcs, guards, monitoring, flags
<1>5. CASE AuditClose(c)
  <2> DEFINE rest == mem[c].open \ {Least(mem[c].open)}
  <2>1. docs' \in [Docs -> Document]
    BY <1>5 DEF AuditClose, TypeOK, Document
  <2>2. rest \subseteq Docs /\ rest # {}
    BY <1>0, <1>5 DEF AuditClose, Flattening
  <2>3. Latest(rest) \in Docs
    BY <2>2, LatestOfDocs
  <2>4. [mem EXCEPT ![c].open = rest] \in [Calls -> Memory]
    BY <1>0, <2>2 DEF TypeOK, Memory
  <2>5. pos' \in Position /\ pc' \in [Calls -> Pcs] /\ mem' \in [Calls -> Memory]
    BY <1>1, <1>5, <2>3, <2>4, EndTyped, GoTyped DEF AuditClose, TypeOK, Pcs
  <2> QED
    BY <1>5, <2>1, <2>5 DEF AuditClose, TypeOK, guards, monitoring, flags
<1> QED
  BY <1>2, <1>3, <1>4, <1>5 DEF Audit

\* The operator's clearing, and a restart.
LEMMA RestartTyped ==
  ASSUME TypeOK, Restart \/ \E c \in Calls : Clear(c)
  PROVE  TypeOK'
<1>1. ASSUME NEW c \in Calls, Clear(c)
      PROVE  TypeOK'
  BY <1>1 DEF Clear, TypeOK, Go, Pcs, monitoring, flags
<1>2. CASE Restart
  <2>1. docs' \in [Docs -> Document]
    BY <1>2 DEF Restart, TypeOK, Document
  <2>2. pos' \in Position
    <3>1. Open # {} => Latest(Open) \in Docs
      BY LatestOfDocs DEF Open
    <3> QED
      BY <1>2, <3>1 DEF Restart, NoPos, Position, TypeOK, Document
  <2>3. pc' \in [Calls -> Pcs]
    BY <1>2 DEF Restart, TypeOK, AtEnd, Pcs
  <2> QED
    BY <1>2, <2>1, <2>2, <2>3, NoMemTyped DEF Restart, BlocksLoaded, TypeOK
<1> QED
  BY <1>1, <1>2

-----------------------------------------------------------------------------
(* What a step of a call leaves to the others, and where it leads.         *)

\* A step of a call leaves what the others have in hand.
LEMMA StepApart ==
  ASSUME TypeOK, NEW c \in Calls, Step(c)
  PROVE  \A b \in Calls \ {c} : pc'[b] = pc[b] /\ mem'[b] = mem[b]
<1> DEFINE Apart == \A b \in Calls \ {c} : pc'[b] = pc[b] /\ mem'[b] = mem[b]
<1>0. ASSUME NEW l, Go(c, l)
      PROVE  \A b \in Calls \ {c} : pc'[b] = pc[b]
  BY <1>0 DEF Go, TypeOK
<1>1. ASSUME End(c) PROVE Apart
  BY <1>0, <1>1 DEF End, TypeOK
<1>2. ASSUME NEW n, NEW r, NEW l, OrderFilled(c, n, r, l) PROVE Apart
  BY <1>0, <1>2 DEF OrderFilled, TypeOK
<1>3. ASSUME NEW l, Record(c, l) PROVE Apart
  BY <1>0, <1>1, <1>3 DEF Record, TypeOK
<1>4. CASE Order(c)
  BY <1>0, <1>1, <1>2, <1>3, <1>4
     DEF Order, OrderCall, NotBlocked, Send, Refused, Query, Convert, OrderLock, OrderFind,
         OrderSave, OrderCreate, TypeOK
<1>5. CASE Entry(c)
  BY <1>0, <1>1, <1>2, <1>3, <1>5
     DEF Entry, EntryCall, EntryCheck, NotBlocked, Send, Refused, Query, EntryRecord,
         EntryInstall, TypeOK
<1>6. ASSUME NEW l, ExitOver(c, l) PROVE Apart
  BY <1>0, <1>1, <1>6 DEF ExitOver, TypeOK
<1>7. CASE Exit(c)
  BY <1>0, <1>1, <1>2, <1>6, <1>7
     DEF Exit, ExitSkipped, ExitCall, CapSell, Sell, SellConvert, ExitTrim, TrimSave,
         ExitClaim, ExitRemove, TypeOK
<1>8. CASE Monitor(c)
  BY <1>0, <1>8 DEF Monitor, MonitorStart, MonitorTick, Verify
<1>9. ASSUME CloseOver(c) PROVE Apart
  BY <1>1, <1>9 DEF CloseOver
<1>10. CASE Close(c)
  BY <1>0, <1>2, <1>9, <1>10
     DEF Close, CloseFind, CloseSend, CloseConvert, CloseSave, CloseMap, TypeOK
<1>11. CASE Recon(c)
  BY <1>0, <1>1, <1>11
     DEF Recon, ReconRead, ReconFind, ReconClose, ReconLook, ReconAdd, TypeOK
<1>12. CASE Audit(c)
  BY <1>0, <1>1, <1>12 DEF Audit, AuditFind, AuditFix, AuditFlatten, AuditClose, TypeOK
<1>13. CASE Clear(c)
  BY <1>0, <1>13 DEF Clear
<1> QED
  BY <1>4, <1>5, <1>7, <1>8, <1>10, <1>11, <1>12, <1>13 DEF Step

-----------------------------------------------------------------------------
(* OneRecord.  A document that names a call is found where that call is: at *)
(* its end, past the recording, or between two attempts at it.              *)

\* What orders, entries and reconciliations pass through, and the monitor not.
Placing == {"check", "send", "query", "convert", "filled", "find", "write", "install",
            "compare", "look", "add", "repair"}

PlacedByOthers == \A c \in Calls : pc[c] \in Placing => scene.kind[c] # "monitor"

Recording(c) ==
    \/ pc[c] \in {"install", "done"}
    \/ pc[c] = "write" /\ mem[c].tries > 0
    \/ pc[c] = "filled" /\ scene.kind[c] = "entry" /\ mem[c].tries > 0

RecordedByCall == \A c \in Calls, d \in Docs : docs[d].by = c => Recording(c)

IInv == TypeOK /\ Flattening /\ PlacedByOthers /\ RecordedByCall /\ OneRecord

\* Where the step of a call leads it.
Leads(c) ==
    /\ scene' = scene
    /\ pc'[c] \in Placing => scene.kind[c] # "monitor"
    /\ pc'[c] \in {"flatten", "flattened"} => \E d, e \in mem'[c].open : d # e

\* The end of a call is no label of another group.
LEMMA EndLeads ==
  ASSUME TypeOK, NEW c \in Calls, End(c)
  PROVE  pc'[c] = AtEnd(c) /\ AtEnd(c) \notin Placing \cup {"flatten", "flattened"}
BY DEF End, Go, AtEnd, Placing, TypeOK

LEMMA StepLeads ==
  ASSUME TypeOK, Flattening, PlacedByOthers, NEW c \in Calls, Step(c)
  PROVE  Leads(c)
<1>0. ASSUME NEW l, Go(c, l)
      PROVE  pc'[c] = l
  BY <1>0 DEF Go, TypeOK
<1>1. ASSUME NEW n, NEW r, NEW l, OrderFilled(c, n, r, l)
      PROVE  pc'[c] = l
  BY <1>0, <1>1 DEF OrderFilled
<1>2. ASSUME NEW l, Record(c, l)
      PROVE  \/ pc'[c] = l
             \/ pc'[c] = pc[c]
             \/ pc'[c] \notin Placing \cup {"flatten", "flattened"}
  BY <1>0, <1>2, EndLeads DEF Record
<1>3. CASE Order(c)
  <2>1. OrderCall(c) => scene.kind[c] # "monitor"
    BY DEF OrderCall, Starts
  <2>2. scene' = scene
    BY <1>3 DEF Order, OrderCall, NotBlocked, Send, Query, Convert, OrderLock, OrderFind,
                OrderSave, OrderCreate
  <2>3. OrderCall(c) \/ pc[c] \in {"send", "query", "convert", "filled", "find", "write"}
    BY <1>3 DEF Order, Send, Query, Convert, OrderLock, OrderFind, OrderSave, OrderCreate
  <2>4. scene.kind[c] # "monitor"
    BY <2>1, <2>3 DEF PlacedByOthers, Placing
  <2>5. pc'[c] \notin {"flatten", "flattened"}
    BY <1>0, <1>1, <1>2, <1>3, EndLeads
       DEF Order, OrderCall, NotBlocked, Send, Refused, Query, Convert, OrderLock, OrderFind,
           OrderSave, OrderCreate
  <2> QED
    BY <2>2, <2>4, <2>5 DEF Leads
<1>4. CASE Entry(c)
  <2>1. EntryCall(c) => scene.kind[c] # "monitor"
    BY DEF EntryCall, Starts
  <2>2. scene' = scene
    BY <1>4 DEF Entry, EntryCall, EntryCheck, NotBlocked, Send, Query, EntryRecord, EntryInstall
  <2>3. EntryCall(c) \/ pc[c] \in {"check", "send", "query", "filled", "install"}
    BY <1>4 DEF Entry, EntryCheck, Send, Query, EntryRecord, EntryInstall
  <2>4. scene.kind[c] # "monitor"
    BY <2>1, <2>3 DEF PlacedByOthers, Placing
  <2>5. pc'[c] \notin {"flatten", "flattened"}
    BY <1>0, <1>1, <1>2, <1>4, EndLeads
       DEF Entry, EntryCall, EntryCheck, NotBlocked, Send, Refused, Query, EntryRecord,
           EntryInstall
  <2> QED
    BY <2>2, <2>4, <2>5 DEF Leads
<1>5. CASE Exit(c)
  <2>1. ASSUME NEW l \in {"failed", "verify"}, ExitOver(c, l)
        PROVE  pc'[c] \notin Placing \cup {"flatten", "flattened"}
    BY <1>0, <2>1, EndLeads DEF ExitOver, Placing
  <2>2. pc'[c] \notin Placing \cup {"flatten", "flattened"}
    BY <1>0, <1>1, <1>5, <2>1
       DEF Exit, ExitSkipped, ExitCall, CapSell, Sell, SellConvert, ExitTrim, TrimSave,
           ExitClaim, ExitRemove, Placing
  <2>3. scene' = scene
    BY <1>5
       DEF Exit, ExitSkipped, ExitCall, CapSell, Sell, SellConvert, ExitTrim, TrimSave,
           ExitClaim, ExitRemove
  <2> QED
    BY <2>2, <2>3 DEF Leads
<1>6. CASE Monitor(c)
  BY <1>0, <1>6 DEF Monitor, MonitorStart, MonitorTick, Verify, Leads, Placing
<1>7. CASE Close(c)
  <2>1. pc'[c] \notin Placing \cup {"flatten", "flattened"}
    BY <1>0, <1>1, <1>7, EndLeads
       DEF Close, CloseFind, CloseSend, CloseConvert, CloseSave, CloseMap, CloseOver, Placing
  <2>2. scene' = scene
    BY <1>7 DEF Close, CloseFind, CloseSend, CloseConvert, CloseSave, CloseMap
  <2> QED
    BY <2>1, <2>2 DEF Leads
<1>8. CASE Recon(c)
  <2>1. scene' = scene
    BY <1>8 DEF Recon, ReconRead, ReconFind, ReconClose, ReconLook, ReconAdd
  <2>2. scene.kind[c] # "monitor"
    BY <1>8 DEF Recon, ReconRead, ReconFind, ReconClose, ReconLook, ReconAdd, Starts,
                PlacedByOthers, Placing
  <2>3. pc'[c] \notin {"flatten", "flattened"}
    BY <1>0, <1>8, EndLeads DEF Recon, ReconRead, ReconFind, ReconClose, ReconLook, ReconAdd
  <2> QED
    BY <2>1, <2>2, <2>3 DEF Leads
<1>9. CASE Audit(c)
  <2>1. scene' = scene
    BY <1>9 DEF Audit, AuditFind, AuditFix, AuditFlatten, AuditClose
  <2>2. pc'[c] \notin Placing
    BY <1>0, <1>9, EndLeads DEF Audit, AuditFind, AuditFix, AuditFlatten, AuditClose, Placing
  <2>3. ASSUME pc'[c] \in {"flatten", "flattened"}
        PROVE  \E d, e \in mem'[c].open : d # e
    <3>1. CASE AuditFind(c)
      BY <1>0, <2>3, <3>1 DEF AuditFind
    <3>2. CASE AuditFix(c)
      BY <2>3, <3>2, EndLeads, TwoOf DEF AuditFix
    <3>3. CASE AuditFlatten(c)
      BY <3>3 DEF AuditFlatten, Flattening
    <3>4. CASE AuditClose(c)
      <4> DEFINE rest == mem[c].open \ {Least(mem[c].open)}
      <4>1. Cardinality(rest) > 1 /\ mem' = [mem EXCEPT ![c].open = rest]
        BY <2>3, <3>4, EndLeads DEF AuditClose
      <4>2. mem'[c].open = rest
        BY <4>1 DEF TypeOK, Memory
      <4> QED
        BY <4>1, <4>2, TwoOf
    <3> QED
      BY <1>9, <3>1, <3>2, <3>3, <3>4 DEF Audit
  <2> QED
    BY <2>1, <2>2, <2>3 DEF Leads
<1>10. CASE Clear(c)
  BY <1>0, <1>10 DEF Clear, Leads, Placing
<1> QED
  BY <1>3, <1>4, <1>5, <1>6, <1>7, <1>8, <1>9, <1>10 DEF Step

\* A call that records a fill, or has recorded it, names itself once, as long as
\* the look for what it has written does not throw.
Attributed(c) ==
    /\ \A d \in Docs : docs'[d].by # docs[d].by =>
          /\ docs'[d].by = c
          /\ Fault("lookup") \/ \A e \in Docs : docs[e].by # c
          /\ \A e \in Docs \ {d} : docs'[e].by = docs[e].by
    /\ (\E d \in Docs : docs'[d].by = c) =>
          \/ pc'[c] \in {"install", "done"}
          \/ pc'[c] = "write" /\ mem'[c].tries > 0
          \/ pc'[c] = "filled" /\ scene.kind[c] = "entry" /\ mem'[c].tries > 0

\* What a recording does: the document is found, created, or asked for again.
LEMMA RecordAttributes ==
  ASSUME IInv, NEW c \in Calls, NEW l \in {"install", "done"}, Record(c, l),
         scene' = scene,
         \/ pc[c] = "write"
         \/ pc[c] = "filled" /\ scene.kind[c] = "entry"
  PROVE  Attributed(c)
<1> USE DEF IInv
<1>1. AtEnd(c) = "done"
  BY DEF AtEnd, PlacedByOthers, Placing
<1>2. Written(c) = {} => \A d \in Docs : docs[d].by # c
  BY DEF Written, RecordedByCall, Recording
<1>3. ASSUME UNCHANGED docs, pc'[c] \in {"install", "done"}
      PROVE  Attributed(c)
  BY <1>3 DEF Attributed
<1>4. ASSUME Created(c), Missed(c)
      PROVE  /\ \A d \in Docs : docs'[d].by # docs[d].by =>
                  /\ docs'[d].by = c
                  /\ Fault("lookup") \/ \A e \in Docs : docs[e].by # c
                  /\ \A e \in Docs \ {d} : docs'[e].by = docs[e].by
  BY <1>2, <1>4 DEF Created, Missed, TypeOK, Document
<1>5. ASSUME UNCHANGED docs
      PROVE  \A d \in Docs : docs'[d].by = docs[d].by
  BY <1>5
<1>6. ASSUME NEW d \in Written(c), Go(c, l), UNCHANGED <<docs, guards>>
      PROVE  Attributed(c)
  BY <1>3, <1>6 DEF Go, TypeOK
<1>7. ASSUME Missed(c), Created(c), Go(c, l)
      PROVE  Attributed(c)
  BY <1>4, <1>7 DEF Attributed, Go, TypeOK
<1>8. ASSUME Missed(c), Created(c) \/ UNCHANGED docs,
             IF MoreAttempts(c)
             THEN mem' = [mem EXCEPT ![c].tries = @ + 1] /\ UNCHANGED <<pc, guards>>
             ELSE JournalOrphan /\ End(c)
      PROVE  Attributed(c)
  <2>1. CASE MoreAttempts(c)
    <3>1. mem'[c].tries = mem[c].tries + 1 /\ mem[c].tries \in 0 .. 2 /\ pc' = pc
      BY <1>8, <2>1 DEF TypeOK, Memory
    <3> QED
      BY <1>4, <1>5, <1>8, <3>1 DEF Attributed
  <2>2. CASE ~MoreAttempts(c)
    <3>1. pc'[c] = "done"
      BY <1>1, <1>8, <2>2, EndLeads
    <3> QED
      BY <1>4, <1>5, <1>8, <3>1 DEF Attributed
  <2> QED
    BY <2>1, <2>2
<1> QED
  BY <1>6, <1>7, <1>8 DEF Record

\* Where a document is not created, none changes the call that it names.
SameNames == \A d \in Docs : docs'[d].by = docs[d].by

\* A change of a document's status or quantity leaves the names.
LEMMA NamesKept ==
  ASSUME TypeOK, NEW x, NEW v,
         \/ docs' = [docs EXCEPT ![x].status = v]
         \/ docs' = [docs EXCEPT ![x].qty = v]
  PROVE  SameNames
<1>1. docs \in [Docs -> Document]
  BY DEF TypeOK
<1>2. ASSUME NEW d \in Docs PROVE docs'[d].by = docs[d].by
  <2>1. docs[d] \in Document
    BY <1>1
  <2>2. CASE d = x
    <3>1. docs'[d] = [docs[d] EXCEPT !.status = v] \/ docs'[d] = [docs[d] EXCEPT !.qty = v]
      BY <1>1, <2>2
    <3> QED
      BY <2>1, <3>1 DEF Document
  <2>3. CASE d # x
    BY <1>1, <2>3
  <2> QED
    BY <2>2, <2>3
<1> QED
  BY <1>2 DEF SameNames

LEMMA StepAttributes ==
  ASSUME IInv, NEW c \in Calls, Step(c)
  PROVE  Attributed(c)
<1> USE DEF IInv
<1>1. ASSUME SameNames, \A d \in Docs : docs[d].by # c
      PROVE  Attributed(c)
  BY <1>1 DEF SameNames, Attributed
<1>2. ASSUME SameNames, pc'[c] \in {"install", "done"}
      PROVE  Attributed(c)
  BY <1>2 DEF SameNames, Attributed
<1>3. ASSUME \/ pc[c] \notin {"install", "done", "write", "filled"}
             \/ pc[c] = "filled" /\ scene.kind[c] = "order"
      PROVE  \A d \in Docs : docs[d].by # c
  BY <1>3 DEF RecordedByCall, Recording
<1>4. CASE Order(c)
  <2>1. CASE OrderCreate(c)
    BY <2>1, RecordAttributes DEF OrderCreate
  <2>2. CASE OrderSave(c)
    <3>1. pc[c] = "write" /\ End(c)
      BY <2>2 DEF OrderSave
    <3>2. AtEnd(c) = "done"
      BY <3>1 DEF AtEnd, PlacedByOthers, Placing
    <3>3. SameNames
      BY <2>2 DEF OrderSave, SameNames, TypeOK, Document
    <3> QED
      BY <1>2, <3>1, <3>2, <3>3, EndLeads
  <2>3. ASSUME ~OrderCreate(c), ~OrderSave(c)
        PROVE  /\ SameNames
               /\ \/ pc[c] \in {"idle", "send", "query", "convert", "find"}
                  \/ pc[c] = "filled" /\ scene.kind[c] = "order"
    BY <1>4, <2>3 DEF Order, OrderCall, Starts, NotBlocked, Send, Query, Convert, OrderLock,
                      OrderFind, SameNames
  <2> QED
    BY <1>1, <1>3, <2>1, <2>2, <2>3
<1>5. CASE Entry(c)
  <2>1. CASE EntryRecord(c)
    BY <2>1, RecordAttributes DEF EntryRecord
  <2>2. CASE EntryInstall(c)
    <3>1. pc[c] = "install" /\ End(c) /\ UNCHANGED docs
      BY <2>2 DEF EntryInstall
    <3>2. AtEnd(c) = "done"
      BY <3>1 DEF AtEnd, PlacedByOthers, Placing
    <3> QED
      BY <1>2, <3>1, <3>2, EndLeads DEF SameNames
  <2>3. ASSUME ~EntryRecord(c), ~EntryInstall(c)
        PROVE  SameNames /\ pc[c] \in {"idle", "check", "send", "query"}
    BY <1>5, <2>3 DEF Entry, EntryCall, EntryCheck, Starts, NotBlocked, Send, Query, SameNames
  <2> QED
    BY <1>1, <1>3, <2>1, <2>2, <2>3
<1>6. CASE Exit(c)
  <2>1. SameNames
    <3>1. ASSUME UNCHANGED docs PROVE SameNames
      BY <3>1 DEF SameNames
    <3> QED
      BY <1>6, <3>1, NamesKept
         DEF Exit, ExitSkipped, ExitCall, CapSell, Sell, SellConvert, ExitTrim, TrimSave,
             ExitClaim, ExitRemove
  <2>2. pc[c] \in {"idle", "call", "cap", "sell", "sellConvert", "sold", "trimSave", "remove"}
    BY <1>6
       DEF Exit, ExitSkipped, ExitCall, ExitsHere, Starts, CapSell, Sell, SellConvert, ExitTrim,
           TrimSave, ExitClaim, ExitRemove
  <2> QED
    BY <1>1, <1>3, <2>1, <2>2
<1>7. CASE Monitor(c)
  BY <1>1, <1>3, <1>7 DEF Monitor, MonitorStart, Starts, MonitorTick, Verify, SameNames
<1>8. CASE Close(c)
  <2>1. SameNames
    <3>1. ASSUME UNCHANGED docs PROVE SameNames
      BY <3>1 DEF SameNames
    <3> QED
      BY <1>8, <3>1, NamesKept
         DEF Close, CloseFind, CloseSend, CloseConvert, CloseSave, CloseMap
  <2>2. pc[c] \in {"idle", "closeSend", "closeConvert", "closeSave", "closeMap"}
    BY <1>8 DEF Close, CloseFind, Starts, CloseSend, CloseConvert, CloseSave, CloseMap
  <2> QED
    BY <1>1, <1>3, <2>1, <2>2
<1>9. CASE Recon(c)
  <2>1. pc[c] \in {"idle", "compare", "repair", "look", "add"}
    BY <1>9 DEF Recon, ReconRead, Starts, ReconFind, ReconClose, ReconLook, ReconAdd
  <2>2. \A d \in Docs : docs[d].by # c
    BY <1>3, <2>1
  <2>3. CASE ReconAdd(c)
    <3>1. pc'[c] = "done"
      BY <2>3, EndLeads DEF ReconAdd, AtEnd, PlacedByOthers, Placing
    <3> QED
      BY <2>2, <2>3, <3>1 DEF ReconAdd, Attributed, TypeOK, Document
  <2>4. ASSUME ~ReconAdd(c)
        PROVE  SameNames
    BY <1>9, <2>4 DEF Recon, ReconRead, ReconFind, ReconClose, ReconLook, SameNames, TypeOK,
                      Document
  <2> QED
    BY <1>1, <2>2, <2>3, <2>4
<1>10. CASE Audit(c)
  <2>1. SameNames
    <3>1. ASSUME UNCHANGED docs PROVE SameNames
      BY <3>1 DEF SameNames
    <3> QED
      BY <1>10, <3>1, NamesKept DEF Audit, AuditFind, AuditFix, AuditFlatten, AuditClose
  <2>2. pc[c] \in {"idle", "audit", "flatten", "flattened"}
    BY <1>10 DEF Audit, AuditFind, Starts, AuditFix, AuditFlatten, AuditClose
  <2> QED
    BY <1>1, <1>3, <2>1, <2>2
<1>11. CASE Clear(c)
  BY <1>1, <1>3, <1>11 DEF Clear, Starts, SameNames
<1> QED
  BY <1>4, <1>5, <1>6, <1>7, <1>8, <1>9, <1>10, <1>11 DEF Step

-----------------------------------------------------------------------------
(* BlockKept.  While the disk takes what the journal is given, a symbol that *)
(* is blocked is so in the journal too.                                    *)

Journaled == Fault("disk") \/ (blocked => journal)

\* Nobody but the operator and a restart frees a symbol.
LEMMA GuardsOnlyBlock ==
  ASSUME TypeOK, NEW c \in Calls, Step(c), ~Clear(c)
  PROVE  UNCHANGED guards \/ JournalOrphan
<1>1. CASE Order(c)
  BY <1>1 DEF Order, OrderCall, NotBlocked, Send, Query, Unconfirmed, Convert, OrderLock,
              OrderFind, OrderSave, OrderCreate, Record
<1>2. CASE Entry(c)
  BY <1>2 DEF Entry, EntryCall, EntryCheck, NotBlocked, Send, Query, Unconfirmed, EntryRecord,
              EntryInstall, Record
<1>3. CASE Exit(c) \/ Monitor(c)
  BY <1>3 DEF Exit, ExitSkipped, ExitCall, CapSell, Sell, SellConvert, ExitTrim, TrimSave,
              ExitClaim, ExitRemove, Monitor, MonitorStart, MonitorTick, Verify
<1>4. CASE Close(c)
  BY <1>4 DEF Close, CloseFind, CloseSend, CloseConvert, CloseSave, CloseMap
<1>5. CASE Recon(c) \/ Audit(c)
  BY <1>5 DEF Recon, ReconRead, ReconFind, ReconClose, ReconLook, ReconAdd, Audit, AuditFind,
              AuditFix, AuditFlatten, AuditClose
<1> QED
  BY <1>1, <1>2, <1>3, <1>4, <1>5 DEF Step

-----------------------------------------------------------------------------
(* The theorems.                                                           *)

\* A step of any call keeps the invariant.
LEMMA StepInvariant ==
  ASSUME IInv, NEW c \in Calls, Step(c)
  PROVE  IInv'
<1> USE DEF IInv
<1>1. TypeOK'
  BY OrderTyped, ExitTyped, MonitorTyped, CloseTyped, ReconTyped, AuditTyped, RestartTyped
     DEF Step
<1>2. \A b \in Calls \ {c} : pc'[b] = pc[b] /\ mem'[b] = mem[b]
  BY StepApart
<1>3. Leads(c)
  BY StepLeads
<1>4. Attributed(c)
  BY StepAttributes
<1>5. Flattening' /\ PlacedByOthers'
  BY <1>2, <1>3 DEF Leads, Flattening, PlacedByOthers
<1>6. RecordedByCall'
  BY <1>2, <1>3, <1>4 DEF Leads, Attributed, RecordedByCall, Recording
<1>7. OneRecord'
  BY <1>3, <1>4 DEF Leads, Attributed, OneRecord, Fault
<1> QED
  BY <1>1, <1>5, <1>6, <1>7

\* So does a restart, and the back-off that runs out.
LEMMA RestartInvariant ==
  ASSUME IInv, Restart \/ RetryDue
  PROVE  IInv'
<1> USE DEF IInv
<1>1. TypeOK'
  BY RestartTyped, MonitorTyped
<1>2. CASE RetryDue
  BY <1>1, <1>2 DEF RetryDue, Flattening, PlacedByOthers, RecordedByCall, Recording, OneRecord,
                    Fault
<1>3. CASE Restart
  <2>1. \A c \in Calls : pc'[c] = IF Busy(c) THEN AtEnd(c) ELSE pc[c]
    BY <1>3 DEF Restart
  <2>2. SameNames /\ scene' = scene
    BY <1>3 DEF Restart, SameNames, TypeOK, Document
  <2>3. \A c \in Calls : pc'[c] \in {"idle", "done"}
    BY <2>1 DEF Busy, AtEnd
  <2>4. \A c \in Calls : Recording(c) => pc'[c] = "done"
    BY <2>1 DEF Recording, Busy, AtEnd, PlacedByOthers, Placing
  <2>5. Flattening' /\ PlacedByOthers'
    BY <2>3 DEF Flattening, PlacedByOthers, Placing
  <2>6. RecordedByCall'
    BY <2>2, <2>4 DEF SameNames, RecordedByCall, Recording
  <2>7. OneRecord'
    BY <2>2 DEF SameNames, OneRecord, Fault
  <2> QED
    BY <1>1, <2>5, <2>6, <2>7
<1> QED
  BY <1>2, <1>3

\* The invariant holds at the start, and every step keeps it.
LEMMA Inductive == Spec => []IInv
<1>1. Init => IInv
  <2> SUFFICES ASSUME Init PROVE IInv
    OBVIOUS
  <2>1. scene \in SceneType
    BY LiveAssumption DEF Init
  <2>2. scene.start \in Nat
    BY <2>1 DEF SceneType
  <2>3. TypeOK
    <3>1. docs \in [Docs -> Document]
      BY <2>2 DEF Init, NoTrade, Document
    <3>2. pos \in Position
      BY <2>2, LiveAssumption DEF Init, NoPos, Position, Docs
    <3>3. pc \in [Calls -> Pcs] /\ mem \in [Calls -> Memory]
      BY NoMemTyped DEF Init, Pcs
    <3>4. scene \in Scenes /\ held \in Int
      BY <2>2 DEF Init
    <3>5. /\ blocked \in BOOLEAN /\ journal \in BOOLEAN
          /\ latch \in BOOLEAN /\ backoff \in BOOLEAN
          /\ exiting \in BOOLEAN /\ closing \subseteq Docs /\ lock \in Calls \cup {NoCall}
      BY DEF Init
    <3> QED
      BY <3>1, <3>2, <3>3, <3>4, <3>5 DEF TypeOK
  <2>4. Flattening /\ PlacedByOthers /\ RecordedByCall /\ OneRecord
    BY LiveAssumption
       DEF Init, Flattening, PlacedByOthers, Placing, RecordedByCall, OneRecord, NoTrade
  <2> QED
    BY <2>3, <2>4 DEF IInv
<1>2. IInv /\ [Next]_vars => IInv'
  <2> SUFFICES ASSUME IInv, [Next]_vars PROVE IInv'
    OBVIOUS
  <2>1. CASE Next
    BY <2>1, StepInvariant, RestartInvariant DEF Next
  <2>2. CASE UNCHANGED vars
    BY <2>2 DEF vars, guards, monitoring, flags, IInv, TypeOK, Flattening, PlacedByOthers,
                RecordedByCall, Recording, OneRecord, Fault
  <2> QED
    BY <2>1, <2>2
<1> QED
  BY <1>1, <1>2, PTL DEF Spec

\* The variables of the model keep their types, whatever the calls and faults.
THEOREM TypeCorrect == Spec => []TypeOK
<1>1. IInv => TypeOK
  BY DEF IInv
<1> QED
  BY <1>1, Inductive, PTL

\* A fill is recorded by one document: however often Trade.create throws after
\* it has written, the retry finds what is there and makes no second one, unless
\* its look for it throws as well, which counts as nothing there.
THEOREM FillRecordedOnce == Spec => []OneRecord
<1>1. IInv => OneRecord
  BY DEF IInv
<1> QED
  BY <1>1, Inductive, PTL

\* A blocked symbol is freed by the operator alone, once exchange and records
\* agree, and not by a restart, unless the journal could not be written.
THEOREM BlockStays == Spec => BlockKept
<1>1. Init => Journaled
  BY DEF Init, Journaled
<1>2. IInv /\ Journaled /\ [Next]_vars
      => /\ Journaled'
         /\ [Fault("disk") \/ (blocked /\ ~blocked' => held = Recorded)]_vars
  <2> SUFFICES ASSUME IInv, Journaled, [Next]_vars
               PROVE  /\ Journaled'
                      /\ Fault("disk") \/ (blocked /\ ~blocked' => held = Recorded)
    OBVIOUS
  <2> USE DEF IInv
  <2>1. ASSUME NEW c \in Calls, Step(c), ~Clear(c)
        PROVE  /\ Journaled'
               /\ Fault("disk") \/ (blocked /\ ~blocked' => held = Recorded)
    <3>1. UNCHANGED guards \/ JournalOrphan
      BY <2>1, GuardsOnlyBlock
    <3>2. scene' = scene
      BY <2>1, StepLeads DEF Leads
    <3> QED
      BY <3>1, <3>2 DEF JournalOrphan, Journaled, Fault, guards
  <2>2. ASSUME NEW c \in Calls, Clear(c)
        PROVE  /\ Journaled'
               /\ Fault("disk") \/ (blocked /\ ~blocked' => held = Recorded)
    BY <2>2 DEF Clear, Journaled, Fault
  <2>3. CASE Restart
    BY <2>3 DEF Restart, BlocksLoaded, Journaled, Fault
  <2>4. CASE RetryDue
    BY <2>4 DEF RetryDue, guards, Journaled, Fault
  <2>5. CASE UNCHANGED vars
    BY <2>5 DEF vars, guards, Journaled, Fault
  <2> QED
    BY <2>1, <2>2, <2>3, <2>4, <2>5 DEF Next
<1> QED
  BY <1>1, <1>2, Inductive, PTL DEF Spec, BlockKept

-----------------------------------------------------------------------------
(* Where the calls of a kind may be, and how they take turns.              *)

Selling == {"cap", "sell", "sellConvert", "sold", "trimSave", "remove"}
Closing == {"closeSend", "closeConvert", "closeSave", "closeMap"}

Labels(k) ==
    CASE k = "order" -> {"send", "query", "convert", "filled", "find", "write"}
      [] k = "entry" -> {"check", "send", "query", "filled", "install"}
      [] k \in {"exit", "trim"} -> Selling
      [] k = "monitor" -> Selling \cup {"tick", "call", "verify", "failed"}
      [] k \in {"close", "force"} -> Closing
      [] k = "recon" -> {"compare", "repair", "look", "add"}
      [] k = "audit" -> {"audit", "flatten", "flattened"}
      [] OTHER -> {}

KindPaths == \A c \in Calls : pc[c] \in {"idle", "done"} \cup Labels(scene.kind[c])

\* The scheduler's calls come one at a time.
Turns ==
    \A b, c \in Calls :
        Busy(b) /\ Busy(c) /\ Scheduled(scene.kind[b]) /\ Scheduled(scene.kind[c]) => b = c

\* A free document names nobody.
Slots == \A d \in Docs : docs[d].status = "none" => docs[d].by = NoCall

\* An entry buys.
Bought ==
    \A c \in Calls : scene.kind[c] = "entry" =>
        /\ pc[c] \in {"filled", "install"} => mem[c].fill > 0
        /\ pc[c] = "query" => mem[c].fill >= 0

General == IInv /\ KindPaths /\ Turns /\ Slots /\ Bought

\* A label tells the kind.
LEMMA KindOf ==
  ASSUME TypeOK, KindPaths, NEW c \in Calls
  PROVE  /\ pc[c] \in {"convert", "find", "write"} => scene.kind[c] = "order"
         /\ pc[c] \in {"check", "install"} => scene.kind[c] = "entry"
         /\ pc[c] \in {"send", "query", "filled"} => scene.kind[c] \in {"order", "entry"}
         /\ pc[c] \in Selling => scene.kind[c] \in {"exit", "trim", "monitor"}
         /\ pc[c] \in {"tick", "call", "verify", "failed"} => scene.kind[c] = "monitor"
         /\ pc[c] \in Closing => scene.kind[c] \in {"close", "force"}
         /\ pc[c] \in {"compare", "repair", "look", "add"} => scene.kind[c] = "recon"
         /\ pc[c] \in {"audit", "flatten", "flattened"} => scene.kind[c] = "audit"
<1>1. pc[c] \in {"idle", "done"} \cup Labels(scene.kind[c]) /\ scene.kind[c] \in Kinds
  BY SceneParts DEF KindPaths
<1> QED
  BY <1>1 DEF Labels, Selling, Closing, Kinds

\* Where Go, End and the end of an exit lead.
LEMMA Goes ==
  ASSUME TypeOK, NEW c \in Calls, NEW l, Go(c, l)
  PROVE  pc'[c] = l
BY DEF Go, TypeOK

LEMMA Ended ==
  ASSUME TypeOK, NEW c \in Calls, End(c)
  PROVE  /\ pc'[c] = AtEnd(c) /\ pc'[c] \in {"idle", "done"}
         /\ mem'[c] = NoMem
         /\ scene.kind[c] # "monitor" => pc'[c] = "done"
BY Goes DEF End, AtEnd, TypeOK

LEMMA FilledGoes ==
  ASSUME TypeOK, NEW c \in Calls, NEW n, NEW r, NEW l, OrderFilled(c, n, r, l)
  PROVE  /\ pc'[c] = l
         /\ \E f \in Fills(n, r) : held' = held + f /\ mem' = [mem EXCEPT ![c].fill = f]
BY Goes DEF OrderFilled

LEMMA ExitOverGoes ==
  ASSUME TypeOK, NEW c \in Calls, NEW l, ExitOver(c, l)
  PROVE  /\ exiting' = FALSE /\ mem'[c] = NoMem
         /\ scene.kind[c] = "monitor" => pc'[c] = l
         /\ scene.kind[c] # "monitor" => pc'[c] = "done"
BY Goes, Ended DEF ExitOver, TypeOK

LEMMA RecordGoes ==
  ASSUME TypeOK, NEW c \in Calls, NEW l, Record(c, l)
  PROVE  pc'[c] \in {l, pc[c], "idle", "done"}
BY Goes, Ended DEF Record

\* The step of a call is one of its kind.
LEMMA StepOfKind ==
  ASSUME TypeOK, KindPaths, NEW c \in Calls, Step(c)
  PROVE  /\ scene.kind[c] # "none"
         /\ scene.kind[c] = "order" =>
                \/ OrderCall(c) \/ Send(c) \/ Query(c) \/ Convert(c) \/ OrderLock(c)
                \/ OrderFind(c) \/ OrderSave(c) \/ OrderCreate(c)
         /\ scene.kind[c] = "entry" =>
                \/ EntryCall(c) \/ EntryCheck(c) \/ Send(c) \/ Query(c) \/ EntryRecord(c)
                \/ EntryInstall(c)
         /\ scene.kind[c] \in {"exit", "trim"} => Exit(c)
         /\ scene.kind[c] = "monitor" => Exit(c) \/ Monitor(c)
         /\ scene.kind[c] \in {"close", "force"} => Close(c)
         /\ scene.kind[c] = "recon" => Recon(c)
         /\ scene.kind[c] = "audit" => Audit(c)
         /\ scene.kind[c] = "clear" => Clear(c)
<1>0. scene.kind[c] \in Kinds
  BY SceneParts
<1>1. OrderCall(c) \/ Convert(c) \/ OrderLock(c) \/ OrderFind(c) \/ OrderSave(c) \/ OrderCreate(c)
      => scene.kind[c] = "order"
  BY KindOf DEF OrderCall, Starts, Convert, OrderLock, OrderFind, OrderSave, OrderCreate
<1>2. EntryCall(c) \/ EntryCheck(c) \/ EntryRecord(c) \/ EntryInstall(c)
      => scene.kind[c] = "entry"
  BY KindOf DEF EntryCall, Starts, EntryCheck, EntryRecord, EntryInstall
<1>3. Send(c) \/ Query(c) => scene.kind[c] \in {"order", "entry"}
  BY KindOf DEF Send, Query
<1>4. Exit(c) => scene.kind[c] \in {"exit", "trim", "monitor"}
  BY KindOf DEF Exit, ExitSkipped, ExitCall, ExitsHere, Starts, CapSell, Sell, SellConvert,
                ExitTrim, TrimSave, ExitClaim, ExitRemove, Selling
<1>5. Monitor(c) => scene.kind[c] = "monitor"
  BY KindOf DEF Monitor, MonitorStart, Starts, MonitorTick, Verify
<1>6. Close(c) => scene.kind[c] \in {"close", "force"}
  BY KindOf DEF Close, CloseFind, Starts, CloseSend, CloseConvert, CloseSave, CloseMap, Closing
<1>7. Recon(c) => scene.kind[c] = "recon"
  BY KindOf DEF Recon, ReconRead, Starts, ReconFind, ReconClose, ReconLook, ReconAdd
<1>8. Audit(c) => scene.kind[c] = "audit"
  BY KindOf DEF Audit, AuditFind, Starts, AuditFix, AuditFlatten, AuditClose
<1>9. Clear(c) => scene.kind[c] = "clear"
  BY DEF Clear, Starts
<1> QED
  BY <1>0, <1>1, <1>2, <1>3, <1>4, <1>5, <1>6, <1>7, <1>8, <1>9 DEF Step, Order, Entry

\* A step leads a call where its kind may be.
LEMMA StepPaths ==
  ASSUME TypeOK, KindPaths, NEW c \in Calls, Step(c)
  PROVE  pc'[c] \in {"idle", "done"} \cup Labels(scene.kind[c])
<1> DEFINE PathGoal == pc'[c] \in {"idle", "done"} \cup Labels(scene.kind[c])
<1>0. scene.kind[c] \in Kinds
  BY SceneParts
<1>1. CASE scene.kind[c] = "order"
  <2>1. pc'[c] \in {"idle", "done", "send", "query", "convert", "filled", "find", "write"}
    <3>1. CASE OrderCall(c) \/ OrderLock(c) \/ OrderFind(c) \/ OrderSave(c)
      BY <3>1, Goes, Ended DEF OrderCall, NotBlocked, OrderLock, OrderFind, OrderSave
    <3>2. CASE Send(c)
      BY <3>2, Goes, FilledGoes DEF Send, Refused
    <3>3. CASE Query(c)
      BY <3>3, Goes, Ended DEF Query
    <3>4. CASE Convert(c)
      BY <3>4, Ended, FilledGoes DEF Convert
    <3>5. CASE OrderCreate(c)
      BY <3>5, RecordGoes DEF OrderCreate
    <3> QED
      BY <1>1, <3>1, <3>2, <3>3, <3>4, <3>5, StepOfKind
  <2> QED
    BY <1>1, <2>1 DEF Labels
<1>2. CASE scene.kind[c] = "entry"
  <2>1. pc'[c] \in {"idle", "done", "check", "send", "query", "filled", "install"}
    <3>1. CASE EntryCall(c) \/ EntryCheck(c) \/ EntryInstall(c)
      BY <3>1, Goes, Ended DEF EntryCall, EntryCheck, NotBlocked, EntryInstall
    <3>2. CASE Send(c)
      BY <1>2, <3>2, Goes, FilledGoes DEF Send, Refused
    <3>3. CASE Query(c)
      BY <3>3, Goes, Ended DEF Query
    <3>4. CASE EntryRecord(c)
      BY <3>4, RecordGoes DEF EntryRecord
    <3> QED
      BY <1>2, <3>1, <3>2, <3>3, <3>4, StepOfKind
  <2> QED
    BY <1>2, <2>1 DEF Labels
<1>3. ASSUME Exit(c), scene.kind[c] \in {"exit", "trim", "monitor"}
      PROVE  PathGoal
  <2>1. ASSUME NEW l \in {"failed", "verify"}, ExitOver(c, l)
        PROVE  PathGoal
    BY <1>3, <2>1, ExitOverGoes DEF Labels
  <2>2. \/ pc'[c] \in Selling \cup {"done"}
        \/ pc'[c] = "verify" /\ scene.kind[c] = "monitor"
        \/ ExitOver(c, "failed") \/ ExitOver(c, "verify")
    BY <1>3, Goes, FilledGoes
       DEF Exit, ExitSkipped, ExitCall, CapSell, Sell, SellConvert, ExitTrim, TrimSave,
           ExitClaim, ExitRemove, Selling
  <2> QED
    BY <1>3, <2>1, <2>2 DEF Labels
<1>4. CASE Monitor(c) /\ scene.kind[c] = "monitor"
  <2>1. pc'[c] \in {"idle", "tick", "call"}
    BY <1>4, Goes DEF Monitor, MonitorStart, MonitorTick, Verify
  <2> QED
    BY <1>4, <2>1 DEF Labels
<1>5. CASE scene.kind[c] \in {"close", "force"}
  <2>1. pc'[c] \in {"idle", "done"} \cup Closing
    <3>0. Close(c)
      BY <1>5, StepOfKind
    <3>1. CASE CloseFind(c) \/ CloseSave(c) \/ CloseMap(c)
      BY <3>1, Goes, Ended DEF CloseFind, CloseSave, CloseMap, CloseOver, Closing
    <3>2. CASE CloseSend(c)
      BY <3>2, Goes, Ended, FilledGoes DEF CloseSend, CloseOver, Closing
    <3>3. CASE CloseConvert(c)
      BY <3>3, Ended, FilledGoes DEF CloseConvert, CloseOver, Closing
    <3> QED
      BY <3>0, <3>1, <3>2, <3>3 DEF Close
  <2> QED
    BY <1>5, <2>1 DEF Labels
<1>6. CASE scene.kind[c] = "recon"
  <2>1. pc'[c] \in {"idle", "done", "compare", "repair", "look", "add"}
    BY <1>6, StepOfKind, Goes, Ended
       DEF Recon, ReconRead, ReconFind, ReconClose, ReconLook, ReconAdd
  <2> QED
    BY <1>6, <2>1 DEF Labels
<1>7. CASE scene.kind[c] = "audit"
  <2>1. pc'[c] \in {"idle", "done", "audit", "flatten", "flattened"}
    BY <1>7, StepOfKind, Goes, Ended
       DEF Audit, AuditFind, AuditFix, AuditFlatten, AuditClose
  <2> QED
    BY <1>7, <2>1 DEF Labels
<1>8. CASE scene.kind[c] = "clear"
  BY <1>8, StepOfKind, Goes DEF Clear
<1> QED
  BY <1>0, <1>1, <1>2, <1>3, <1>4, <1>5, <1>6, <1>7, <1>8, StepOfKind DEF Kinds

\* Who of the scheduler's calls begins finds no other under way.
LEMMA StepTurns ==
  ASSUME TypeOK, KindPaths, NEW c \in Calls, Step(c), ~Busy(c), Scheduled(scene.kind[c])
  PROVE  pc[c] = "idle" /\ \A b \in Calls : Busy(b) => ~Scheduled(scene.kind[b])
<1>1. scene.kind[c] \in {"entry", "exit", "trim"} /\ pc[c] \in {"idle", "done"}
  BY DEF Scheduled, Busy
<1>2. CASE scene.kind[c] = "entry"
  BY <1>1, <1>2, StepOfKind
     DEF EntryCall, EntryCheck, Send, Query, EntryRecord, EntryInstall, Starts, Scheduled
<1>3. CASE scene.kind[c] \in {"exit", "trim"}
  <2>1. ExitsHere(c)
    BY <1>1, <1>3, StepOfKind
       DEF Exit, ExitSkipped, ExitCall, CapSell, Sell, SellConvert, ExitTrim, TrimSave,
           ExitClaim, ExitRemove
  <2> QED
    BY <1>1, <1>3, <2>1 DEF ExitsHere, Starts, Scheduled
<1> QED
  BY <1>1, <1>2, <1>3

\* A write of some documents' status or quantity frees none, and names nobody.
NothingFreed ==
    \A d \in Docs : docs'[d].status = "none" =>
        docs[d].status = "none" /\ docs'[d].by = docs[d].by

LEMMA WriteFreesNone ==
  ASSUME TypeOK, NEW x, NEW v,
         \/ docs' = [docs EXCEPT ![x].status = "CLOSED"]
         \/ docs' = [docs EXCEPT ![x].qty = v]
         \/ docs' = docs
  PROVE  NothingFreed
<1>1. ASSUME NEW d \in Docs PROVE docs[d] \in Document
  BY DEF TypeOK
<1>2. ASSUME NEW d \in Docs
      PROVE  docs'[d] \in {docs[d], [docs[d] EXCEPT !.status = "CLOSED"], [docs[d] EXCEPT !.qty = v]}
  BY DEF TypeOK
<1> QED
  BY <1>1, <1>2 DEF NothingFreed, Document

LEMMA StepFreesNone ==
  ASSUME TypeOK, NEW c \in Calls, Step(c)
  PROVE  NothingFreed
<1>0. UNCHANGED docs => NothingFreed
  BY DEF NothingFreed
<1>1. ASSUME Created(c) PROVE NothingFreed
  BY <1>1 DEF Created, TypeOK, NothingFreed
<1>2. CASE Order(c) \/ Entry(c)
  <2>1. CASE OrderSave(c)
    BY <2>1, WriteFreesNone DEF OrderSave
  <2>2. CASE ~OrderSave(c)
    BY <1>0, <1>1, <1>2, <2>2
       DEF Order, OrderCall, NotBlocked, Send, Query, Convert, OrderLock, OrderFind,
           OrderCreate, Record, Entry, EntryCall, EntryCheck, EntryRecord, EntryInstall
  <2> QED
    BY <2>1, <2>2
<1>3. CASE Exit(c) \/ Monitor(c)
  BY <1>0, <1>3, WriteFreesNone
     DEF Exit, ExitSkipped, ExitCall, CapSell, Sell, SellConvert, ExitTrim, TrimSave,
         ExitClaim, ExitRemove, Monitor, MonitorStart, MonitorTick, Verify
<1>4. CASE Close(c)
  BY <1>0, <1>4, WriteFreesNone
     DEF Close, CloseFind, CloseSend, CloseConvert, CloseSave, CloseMap
<1>5. CASE Recon(c)
  <2>1. CASE ReconClose(c)
    BY <2>1 DEF ReconClose, TypeOK, Document, NothingFreed
  <2>2. CASE ReconAdd(c)
    BY <2>2 DEF ReconAdd, TypeOK, Document, NothingFreed
  <2> QED
    BY <1>0, <1>5, <2>1, <2>2 DEF Recon, ReconRead, ReconFind, ReconLook
<1>6. CASE Audit(c)
  BY <1>0, <1>6, WriteFreesNone DEF Audit, AuditFind, AuditFix, AuditFlatten, AuditClose
<1>7. CASE Clear(c)
  BY <1>0, <1>7 DEF Clear
<1> QED
  BY <1>2, <1>3, <1>4, <1>5, <1>6, <1>7 DEF Step

\* What one lot fills.
LEMMA BuyFills ==
  ASSUME TypeOK
  PROVE  /\ \A f \in Fills(1, FALSE) : f \in Int /\ f > 0
         /\ \A g : \A f \in LostFills(1, FALSE, g) : f \in Int /\ f >= 0
<1>1. ASSUME NEW f \in Fills(1, FALSE) PROVE f \in Int /\ f > 0
  <2>1. held \in Int /\ Spare \in Nat /\ 1 \in Int /\ 1 >= 0 /\ FALSE \in BOOLEAN
    BY LiveAssumption DEF TypeOK
  <2> QED
    BY <2>1, FillsBounded
<1>2. ASSUME NEW g, NEW f \in LostFills(1, FALSE, g) PROVE f \in Int /\ f >= 0
  <2>1. f \in Fills(1, FALSE) \/ f = 0
    BY DEF LostFills
  <2>2. CASE f \in Fills(1, FALSE)
    <3>1. f \in Int /\ f > 0
      BY <1>1, <2>2
    <3> QED
      BY <3>1
  <2>3. CASE f = 0
    BY <2>3
  <2> QED
    BY <2>1, <2>2, <2>3
<1> QED
  BY <1>1, <1>2

\* A step of an entry buys, or keeps what was bought.
LEMMA StepBought ==
  ASSUME TypeOK, KindPaths, Bought, NEW c \in Calls, Step(c), scene.kind[c] = "entry"
  PROVE  /\ pc'[c] \in {"filled", "install"} => mem'[c].fill > 0
         /\ pc'[c] = "query" => mem'[c].fill >= 0
<1>0. mem[c] \in Memory /\ mem \in [Calls -> Memory]
  BY DEF TypeOK
<1>1. CASE EntryCall(c) \/ EntryCheck(c) \/ EntryInstall(c)
  BY <1>1, Goes, Ended DEF EntryCall, EntryCheck, NotBlocked, EntryInstall
<1>2. CASE Send(c)
  <2>1. Amount(c) = 1
    BY DEF Amount
  <2>2. ASSUME NEW f \in Int, mem' = [mem EXCEPT ![c].fill = f]
        PROVE  mem'[c].fill = f
    BY <1>0, <2>2 DEF Memory
  <2>3. CASE OrderFilled(c, 1, FALSE, "filled")
    <3>1. PICK f \in Fills(1, FALSE) : mem' = [mem EXCEPT ![c].fill = f]
      BY <2>3 DEF OrderFilled
    <3>2. f \in Int /\ f > 0
      BY BuyFills
    <3>3. mem'[c].fill = f
      BY <2>2, <3>1, <3>2
    <3> QED
      BY <3>2, <3>3
  <2>4. CASE Refused(c)
    BY <2>4, Goes DEF Refused
  <2>5. ASSUME NEW f \in LostFills(1, FALSE, "lost"), mem' = [mem EXCEPT ![c].fill = f], Go(c, "query")
        PROVE  pc'[c] = "query" /\ mem'[c].fill >= 0
    BY <2>2, <2>5, Goes, BuyFills
  <2> QED
    BY <1>2, <2>1, <2>3, <2>4, <2>5 DEF Send
<1>3. CASE Query(c)
  <2>1. pc[c] = "query" /\ mem[c].fill >= 0
    BY <1>3 DEF Query, Bought
  <2>2. CASE mem[c].fill # 0 /\ Go(c, "filled") /\ UNCHANGED mem
    BY <1>0, <2>1, <2>2, Goes DEF Memory
  <2>3. CASE End(c)
    BY <2>3, Ended
  <2> QED
    BY <1>3, <2>2, <2>3 DEF Query
<1>4. CASE EntryRecord(c)
  <2>1. pc[c] = "filled" /\ mem[c].fill > 0 /\ Record(c, "install")
    BY <1>4 DEF EntryRecord, Bought
  <2>2. End(c) \/ mem'[c].fill = mem[c].fill
    BY <1>0, <2>1 DEF Record, Memory
  <2>3. pc'[c] \in {"install", "filled", "idle", "done"}
    BY <2>1, RecordGoes
  <2> QED
    BY <2>1, <2>2, <2>3, Ended
<1> QED
  BY <1>1, <1>2, <1>3, <1>4, StepOfKind

LEMMA StepGeneral ==
  ASSUME General, NEW c \in Calls, Step(c)
  PROVE  General'
<1> USE DEF General
<1>1. IInv' /\ TypeOK
  BY StepInvariant DEF IInv
<1>2. /\ scene' = scene
      /\ \A b \in Calls \ {c} : pc'[b] = pc[b] /\ mem'[b] = mem[b]
  BY <1>1, StepApart, StepLeads DEF IInv, Leads
<1>3. KindPaths'
  BY <1>1, <1>2, StepPaths DEF KindPaths
<1>4. Turns'
  <2>1. Busy(c) \/ ~Scheduled(scene.kind[c]) \/ \A b \in Calls : Busy(b) => ~Scheduled(scene.kind[b])
    BY <1>1, StepTurns
  <2>2. \A b \in Calls \ {c} : Busy(b)' <=> Busy(b)
    BY <1>2 DEF Busy
  <2> QED
    BY <1>2, <2>1, <2>2 DEF Turns
<1>5. Slots'
  BY <1>1, StepFreesNone DEF Slots, NothingFreed
<1>6. Bought'
  BY <1>1, <1>2, StepBought DEF Bought
<1> QED
  BY <1>1, <1>3, <1>4, <1>5, <1>6

LEMMA RestartGeneral ==
  ASSUME General, Restart \/ RetryDue
  PROVE  General'
<1> USE DEF General
<1>1. IInv' /\ TypeOK
  BY RestartInvariant DEF IInv
<1>2. CASE RetryDue
  BY <1>1, <1>2 DEF RetryDue, KindPaths, Turns, Busy, Slots, Bought
<1>3. CASE Restart
  <2>1. scene' = scene /\ \A c \in Calls : pc'[c] \in {"idle", "done"}
    BY <1>3 DEF Restart, Busy, AtEnd
  <2>2. NothingFreed
    BY <1>1, <1>3 DEF Restart, NothingFreed, TypeOK, Document
  <2> QED
    BY <1>1, <2>1, <2>2 DEF KindPaths, Turns, Busy, Slots, NothingFreed, Bought
<1> QED
  BY <1>2, <1>3

\* Any call's way holds in every scene.
LEMMA AlwaysGeneral == Spec => []General
<1>1. Init /\ IInv => General
  BY DEF Init, General, KindPaths, Turns, Busy, Slots, NoTrade, Bought
<1>2. General /\ [Next]_vars => General'
  <2> SUFFICES ASSUME General, [Next]_vars PROVE General'
    OBVIOUS
  <2>1. CASE Next
    BY <2>1, StepGeneral, RestartGeneral DEF Next
  <2>2. CASE UNCHANGED vars
    BY <2>2 DEF vars, guards, monitoring, flags, General, IInv, TypeOK, Flattening,
                PlacedByOthers, RecordedByCall, Recording, OneRecord, Fault, KindPaths, Turns, Busy,
                Slots, Bought
  <2> QED
    BY <2>1, <2>2
<1> QED
  BY <1>1, <1>2, Inductive, PTL DEF Spec

-----------------------------------------------------------------------------
(* What is recorded and what is in hand, and how a step moves them.        *)

LEMMA FiniteParts == IsFiniteSet(Calls) /\ IsFiniteSet(Docs)
<1>1. IsFiniteSet(1 .. MaxDocs)
  BY LiveAssumption, FS_Interval
<1> QED
  BY <1>1, LiveAssumption DEF Docs

AreNumbers ==
    /\ \A d \in Docs : Lots(d) \in Int
    /\ \A c \in Calls : InHand(c) \in Int

LEMMA LotsTyped == TypeOK => AreNumbers
<1> SUFFICES ASSUME TypeOK PROVE AreNumbers
  OBVIOUS
<1>1. ASSUME NEW d \in Docs PROVE Lots(d) \in Int
  <2>1. docs[d] \in Document
    BY DEF TypeOK
  <2> QED
    BY <2>1 DEF Lots, Document
<1>2. ASSUME NEW c \in Calls PROVE InHand(c) \in Int
  <2>1. mem[c] \in Memory
    BY DEF TypeOK
  <2> QED
    BY <2>1 DEF InHand, Memory
<1> QED
  BY <1>1, <1>2 DEF AreNumbers

LEMMA SumsTyped == TypeOK => Recorded \in Int /\ InHands \in Int
<1> SUFFICES ASSUME TypeOK PROVE Recorded \in Int /\ InHands \in Int
  OBVIOUS
<1>1. Total([d \in Docs |-> Lots(d)], Docs) \in Int
  BY FiniteParts, LotsTyped, TotalType DEF AreNumbers
<1>2. Total([c \in Calls |-> InHand(c)], Calls) \in Int
  BY FiniteParts, LotsTyped, TotalType DEF AreNumbers
<1> QED
  BY <1>1, <1>2 DEF Recorded, InHands

\* What is recorded moves with the one document that is written.
LEMMA RecordedMoves ==
  ASSUME TypeOK, TypeOK', NEW d \in Docs, \A e \in Docs \ {d} : docs'[e] = docs[e]
  PROVE  Recorded' = Recorded - Lots(d) + Lots(d)'
<1> DEFINE f == [e \in Docs |-> Lots(e)]
           g == [e \in Docs |-> Lots(e)']
<1>1. \A e \in Docs : f[e] \in Int /\ g[e] \in Int
  <2>1. AreNumbers /\ AreNumbers'
    BY LotsTyped, PTL
  <2> QED
    BY <2>1 DEF AreNumbers
<1>2. \A e \in Docs \ {d} : g[e] = f[e]
  BY DEF Lots
<1>3. f[d] = Lots(d) /\ g[d] = Lots(d)'
  OBVIOUS
<1>4. Recorded = Total(f, Docs) /\ Recorded' = Total(g, Docs)
  BY DEF Recorded
<1> HIDE DEF f, g
<1>5. Total(g, Docs) = Total(f, Docs) - f[d] + g[d]
  BY <1>1, <1>2, FiniteParts, TotalChange
<1> QED
  BY <1>3, <1>4, <1>5

LEMMA RecordedSame == UNCHANGED docs => Recorded' = Recorded
BY DEF Recorded, Lots

\* A document is named once, when it is made of a free one.
NamedOnce ==
    \A d \in Docs : docs'[d].by # docs[d].by => docs[d].status = "none"

LEMMA StepNames ==
  ASSUME TypeOK, NEW c \in Calls, Step(c)
  PROVE  NamedOnce
<1>0. SameNames => NamedOnce
  BY DEF SameNames, NamedOnce
<1>1. UNCHANGED docs => SameNames
  BY DEF SameNames
<1>2. ASSUME NEW v, Unused # {}, docs' = [docs EXCEPT ![Least(Unused)] = v]
      PROVE  NamedOnce
  <2>1. Least(Unused) \in Unused
    BY <1>2, LeastOfNats, DocsAreNats DEF Unused
  <2> QED
    BY <1>2, <2>1 DEF NamedOnce, Unused, TypeOK
<1>3. Created(c) => NamedOnce
  BY <1>2 DEF Created
<1>4. CASE Order(c) \/ Entry(c)
  <2>1. CASE OrderSave(c)
    BY <1>0, <1>1, <2>1, NamesKept DEF OrderSave
  <2>2. CASE ~OrderSave(c)
    BY <1>0, <1>1, <1>3, <1>4, <2>2
       DEF Order, OrderCall, NotBlocked, Send, Query, Convert, OrderLock, OrderFind,
           OrderCreate, Record, Entry, EntryCall, EntryCheck, EntryRecord, EntryInstall
  <2> QED
    BY <2>1, <2>2
<1>5. CASE Exit(c) \/ Monitor(c)
  BY <1>0, <1>1, <1>5, NamesKept
     DEF Exit, ExitSkipped, ExitCall, CapSell, Sell, SellConvert, ExitTrim, TrimSave,
         ExitClaim, ExitRemove, Monitor, MonitorStart, MonitorTick, Verify
<1>6. CASE Close(c)
  BY <1>0, <1>1, <1>6, NamesKept
     DEF Close, CloseFind, CloseSend, CloseConvert, CloseSave, CloseMap
<1>7. CASE Recon(c)
  <2>1. CASE ReconClose(c)
    <3>1. SameNames
      BY <2>1 DEF ReconClose, TypeOK, Document, SameNames
    <3> QED
      BY <1>0, <3>1
  <2>2. CASE ReconAdd(c)
    BY <1>2, <2>2 DEF ReconAdd
  <2> QED
    BY <1>0, <1>1, <1>7, <2>1, <2>2 DEF Recon, ReconRead, ReconFind, ReconLook
<1>8. CASE Audit(c)
  BY <1>0, <1>1, <1>8, NamesKept DEF Audit, AuditFind, AuditFix, AuditFlatten, AuditClose
<1>9. CASE Clear(c)
  BY <1>0, <1>1, <1>9 DEF Clear
<1> QED
  BY <1>4, <1>5, <1>6, <1>7, <1>8, <1>9 DEF Step

\* A step of a call leaves what others have written and have in hand.
LEMMA OthersHands ==
  ASSUME General, NEW c \in Calls, Step(c), NEW b \in Calls \ {c}
  PROVE  /\ pc'[b] = pc[b] /\ mem'[b] = mem[b]
         /\ Written(b)' = Written(b) /\ InHand(b)' = InHand(b)
<1> USE DEF General, IInv
<1>1. pc'[b] = pc[b] /\ mem'[b] = mem[b]
  BY StepApart
<1>2. \A d \in Docs : docs'[d].by = b <=> docs[d].by = b
  <2>1. \A d \in Docs : docs'[d].by # docs[d].by => docs'[d].by = c
    BY StepAttributes DEF Attributed
  <2>2. \A d \in Docs : docs'[d].by # docs[d].by => docs[d].by = NoCall
    BY StepNames DEF NamedOnce, Slots
  <2> QED
    BY <2>1, <2>2, LiveAssumption
<1>3. Written(b)' = Written(b)
  BY <1>1, <1>2 DEF Written
<1> QED
  BY <1>1, <1>3 DEF InHand

\* What is in hand moves with the call that steps.
LEMMA HandsMove ==
  ASSUME General, General', NEW c \in Calls, Step(c)
  PROVE  InHands' = InHands - InHand(c) + InHand(c)'
<1> DEFINE f == [b \in Calls |-> InHand(b)]
           g == [b \in Calls |-> InHand(b)']
<1>1. \A b \in Calls : f[b] \in Int /\ g[b] \in Int
  <2>1. TypeOK /\ TypeOK'
    BY DEF General, IInv
  <2>2. AreNumbers /\ AreNumbers'
    BY <2>1, LotsTyped, PTL
  <2> QED
    BY <2>2 DEF AreNumbers
<1>2. \A b \in Calls \ {c} : g[b] = f[b]
  BY OthersHands
<1>3. f[c] = InHand(c) /\ g[c] = InHand(c)'
  OBVIOUS
<1>4. InHands = Total(f, Calls) /\ InHands' = Total(g, Calls)
  BY DEF InHands
<1> HIDE DEF f, g
<1>5. Total(g, Calls) = Total(f, Calls) - f[c] + g[c]
  BY <1>1, <1>2, FiniteParts, TotalChange
<1> QED
  BY <1>3, <1>4, <1>5

\* A call that has not come to its recording has written nothing.
LEMMA NothingWritten ==
  ASSUME General, NEW c \in Calls,
         \/ pc[c] \notin {"install", "done", "write", "filled"}
         \/ pc[c] = "filled" /\ scene.kind[c] = "order"
         \/ mem[c].tries = 0 /\ pc[c] \in {"write", "filled"}
  PROVE  Written(c) = {} /\ \A d \in Docs : docs[d].by # c
<1>1. mem[c].tries \in 0 .. 2
  BY DEF General, IInv, TypeOK, Memory
<1> QED
  BY <1>1 DEF General, IInv, RecordedByCall, Recording, Written

-----------------------------------------------------------------------------
(* NoHidden.  What is held is recorded or in hand, or the symbol is blocked: *)
(* each step moves as much from one to the other.                          *)

Covered == blocked \/ held <= Recorded + InHands

\* Without the faults of Unnoticed a call learns of every fill, and of its trade.
LEMMA Noticed ==
  ASSUME ~Unnoticed
  PROVE  /\ \A n, r : LostFills(n, r, "http") = {} /\ LostFills(n, r, "quote") = {}
         /\ \A n, r : UnknownFills(n, r) = LostFills(n, r, "lost")
         /\ \A c \in Calls : Missed(c) <=> Written(c) = {}
         /\ ~Fault("pending") /\ ~Fault("offline")
BY DEF Unnoticed, LostFills, UnknownFills, Missed, Fault

\* A step that hides no more, and frees nothing, keeps everything covered.
LEMMA CoveredKept ==
  ASSUME General, General', Covered, NEW c \in Calls, Step(c), blocked => blocked',
         blocked' \/ held' - Recorded' - InHand(c)' <= held - Recorded - InHand(c)
  PROVE  Covered'
<1>1. TypeOK /\ TypeOK'
  BY DEF General, IInv
<1>2. /\ Recorded \in Int /\ InHands \in Int /\ held \in Int
      /\ Recorded' \in Int /\ InHands' \in Int /\ held' \in Int
  <2>1. (Recorded \in Int /\ InHands \in Int)'
    BY <1>1, SumsTyped, PTL
  <2> QED
    BY <1>1, <2>1, SumsTyped DEF TypeOK
<1>3. InHand(c) \in Int /\ InHand(c)' \in Int
  <2>1. AreNumbers /\ AreNumbers'
    BY <1>1, LotsTyped, PTL
  <2> QED
    BY <2>1 DEF AreNumbers
<1>4. InHands' = InHands - InHand(c) + InHand(c)'
  BY HandsMove
<1> QED
  BY <1>2, <1>3, <1>4 DEF Covered

\* Awaits at which no fill is in hand.
LEMMA NothingInHand ==
  ASSUME NEW c \in Calls,
         pc[c] \notin {"query", "filled", "find", "write", "sold", "trimSave", "closeSave"}
  PROVE  InHand(c) = 0
BY DEF InHand

\* What is sent is in hand, if it fills.
LEMMA SendCovered ==
  ASSUME General, General', ~Unnoticed, NEW c \in Calls, Send(c) \/ Convert(c)
  PROVE  /\ UNCHANGED <<docs, guards>>
         /\ held' - InHand(c)' = held - InHand(c)
<1> USE DEF General, IInv
<1>1. UNCHANGED <<docs, guards>> /\ pc[c] \in {"send", "convert"} /\ TypeOK /\ TypeOK'
  BY DEF Send, Convert
<1>2. InHand(c) = 0 /\ held \in Int
  BY <1>1, NothingInHand DEF TypeOK
<1>3. \A d \in Docs : docs'[d].by # c
  BY <1>1, NothingWritten
<1>4. ASSUME NEW f \in Int, held' = held + f, mem' = [mem EXCEPT ![c].fill = f],
             pc'[c] \in {"query", "filled"}
      PROVE  held' - InHand(c)' = held - InHand(c)
  <2>1. mem'[c].fill = f
    BY <1>1, <1>4 DEF TypeOK, Memory
  <2>2. Written(c)' = {}
    BY <1>3 DEF Written
  <2>3. InHand(c)' = f
    BY <1>4, <2>1, <2>2 DEF InHand
  <2> QED
    BY <1>2, <1>4, <2>3
<1>5. ASSUME held' = held, pc'[c] \in {"convert", "done", "idle"}
      PROVE  held' - InHand(c)' = held - InHand(c)
  <2>1. InHand(c)' = 0
    BY <1>5 DEF InHand
  <2> QED
    BY <1>2, <1>5, <2>1
<1>6. ASSUME OrderFilled(c, Amount(c), FALSE, "filled")
      PROVE  held' - InHand(c)' = held - InHand(c)
  <2>1. PICK f \in Fills(Amount(c), FALSE) : held' = held + f /\ mem' = [mem EXCEPT ![c].fill = f]
    BY <1>6 DEF OrderFilled
  <2>2. f \in Int
    BY <1>1, AmountTyped, FillsBounded, LiveAssumption DEF TypeOK
  <2>3. pc'[c] = "filled"
    BY <1>1, <1>6, Goes DEF OrderFilled
  <2> QED
    BY <1>4, <2>1, <2>2, <2>3
<1>7. CASE Send(c)
  <2>1. ASSUME NEW f \in LostFills(Amount(c), FALSE, "lost"), held' = held + f,
               mem' = [mem EXCEPT ![c].fill = f], Go(c, "query")
        PROVE  held' - InHand(c)' = held - InHand(c)
    <3>1. f \in Int /\ pc'[c] = "query"
      BY <1>1, <2>1, AmountTyped, LostTyped, Goes
    <3> QED
      BY <1>4, <2>1, <3>1
  <2>2. CASE UNCHANGED held /\ Refused(c)
    BY <1>1, <1>5, <2>2, Goes DEF Refused
  <2> QED
    BY <1>1, <1>6, <1>7, <2>1, <2>2, Noticed DEF Send
<1>8. CASE Convert(c)
  BY <1>1, <1>5, <1>6, <1>8, Noticed, Ended DEF Convert
<1> QED
  BY <1>1, <1>7, <1>8

\* An order that is asked for is in hand, was nothing, or blocks.
LEMMA QueryCovered ==
  ASSUME General, ~Unnoticed, NEW c \in Calls, Query(c)
  PROVE  /\ UNCHANGED <<docs, held>>
         /\ UNCHANGED guards \/ JournalOrphan
         /\ blocked' \/ InHand(c)' = InHand(c)
<1> USE DEF General, IInv
<1>1. pc[c] = "query" /\ UNCHANGED <<docs, held>> /\ TypeOK
  BY DEF Query
<1>2. Written(c) = {} /\ \A d \in Docs : docs[d].by # c
  BY <1>1, NothingWritten
<1>3. InHand(c) = mem[c].fill
  BY <1>1, <1>2 DEF InHand
<1>4. CASE mem[c].fill # 0 /\ Go(c, "filled") /\ UNCHANGED <<guards, mem>>
  <2>1. Written(c)' = {}
    BY <1>1, <1>2 DEF Written
  <2>2. InHand(c)' = mem[c].fill
    BY <1>1, <1>4, <2>1, Goes DEF InHand
  <2> QED
    BY <1>1, <1>3, <1>4, <2>2
<1>5. CASE mem[c].fill = 0 /\ End(c) /\ UNCHANGED guards
  <2>1. InHand(c)' = 0
    BY <1>1, <1>5, Ended DEF InHand
  <2> QED
    BY <1>1, <1>3, <1>5, <2>1
<1>6. CASE Unconfirmed
  BY <1>1, <1>6 DEF Unconfirmed, JournalOrphan
<1> QED
  BY <1>4, <1>5, <1>6, Noticed DEF Query

\* A document is made of a free one and of what is in hand.
LEMMA CreatedRecorded ==
  ASSUME TypeOK, TypeOK', NEW c \in Calls, Created(c)
  PROVE  /\ Recorded' = Recorded + mem[c].fill
         /\ Least(Unused) \in Unused /\ docs'[Least(Unused)].by = c
         /\ \A e \in Docs \ {Least(Unused)} : docs'[e] = docs[e]
<1>0. Least(Unused) \in Unused /\ Least(Unused) \in Docs
  BY CreatedTyped DEF Unused
<1>1. PICK d \in Docs : d = Least(Unused)
  BY <1>0
<1>2. /\ docs'[d] = [status |-> "OPEN", qty |-> mem[c].fill, by |-> c]
      /\ \A e \in Docs \ {d} : docs'[e] = docs[e]
  BY <1>1 DEF Created, TypeOK
<1>3. Lots(d) = 0 /\ Lots(d)' = mem[c].fill
  BY <1>0, <1>1, <1>2 DEF Lots, Unused
<1>4. Recorded \in Int /\ mem[c].fill \in Int
  BY SumsTyped DEF TypeOK, Memory
<1>5. Recorded' = Recorded - Lots(d) + Lots(d)'
  BY <1>2, RecordedMoves
<1> QED
  BY <1>0, <1>1, <1>2, <1>3, <1>4, <1>5

\* What is recorded is not in hand any more, or it blocks.
LEMMA RecordCovered ==
  ASSUME General, General', ~Unnoticed, NEW c \in Calls, NEW l \in {"install", "done"},
         Record(c, l),
         pc[c] = "write" \/ (pc[c] = "filled" /\ scene.kind[c] = "entry"), scene' = scene
  PROVE  /\ UNCHANGED guards \/ JournalOrphan
         /\ blocked' \/ Recorded' + InHand(c)' = Recorded + InHand(c)
<1> USE DEF General, IInv
<1>1. /\ TypeOK /\ TypeOK' /\ Recorded \in Int
      /\ mem[c] \in Memory /\ mem[c].fill \in Int /\ mem[c].tries \in 0 .. 2
  BY SumsTyped DEF TypeOK, Memory
<1>2. Written(c) = {} => InHand(c) = mem[c].fill
  BY DEF InHand
<1>3. Written(c) # {} => InHand(c) = 0
  BY DEF InHand
<1>4. ASSUME NEW d \in Written(c), Go(c, l), UNCHANGED <<docs, guards>>
      PROVE  Recorded' + InHand(c)' = Recorded + InHand(c)
  <2>1. InHand(c)' = 0
    BY <1>1, <1>4, Goes DEF InHand
  <2>2. Recorded' = Recorded
    BY <1>4, RecordedSame
  <2> QED
    BY <1>3, <1>4, <2>1, <2>2
<1>5. ASSUME Written(c) = {}, Created(c), Go(c, l)
      PROVE  Recorded' + InHand(c)' = Recorded + InHand(c)
  <2>1. InHand(c)' = 0
    BY <1>1, <1>5, Goes DEF InHand
  <2> QED
    BY <1>1, <1>2, <1>5, <2>1, CreatedRecorded
<1>6. ASSUME Written(c) = {}, Created(c) \/ UNCHANGED docs, MoreAttempts(c),
             mem' = [mem EXCEPT ![c].tries = @ + 1], UNCHANGED pc
      PROVE  Recorded' + InHand(c)' = Recorded + InHand(c)
  <2>1. mem'[c].fill = mem[c].fill /\ mem'[c].tries > 0 /\ pc'[c] = pc[c]
    BY <1>1, <1>6 DEF TypeOK, Memory
  <2>2. CASE Created(c)
    <3>1. PICK d \in Docs : docs'[d].by = c
      BY <1>1, <2>2, CreatedRecorded DEF Unused
    <3>2. d \in Written(c)'
      BY <2>1, <3>1 DEF Written
    <3>3. InHand(c)' = 0
      BY <3>2 DEF InHand
    <3> QED
      BY <1>1, <1>2, <1>6, <2>2, <3>3, CreatedRecorded
  <2>3. CASE UNCHANGED docs
    <3>1. \A d \in Docs : docs[d].by # c
      <4>1. CASE mem[c].tries = 0
        BY <4>1, NothingWritten
      <4>2. CASE mem[c].tries > 0
        BY <1>6, <4>2 DEF Written
      <4> QED
        BY <1>1, <4>1, <4>2
    <3>2. Written(c)' = {}
      BY <2>3, <3>1 DEF Written
    <3>3. InHand(c)' = mem[c].fill
      BY <2>1, <3>2 DEF InHand
    <3> QED
      BY <1>2, <1>6, <2>3, <3>3, RecordedSame
  <2> QED
    BY <1>6, <2>2, <2>3
<1>7. Record(c, l) => UNCHANGED guards \/ JournalOrphan
  BY DEF Record
<1>8. JournalOrphan => blocked'
  BY DEF JournalOrphan
<1> QED
  BY <1>4, <1>5, <1>6, <1>7, <1>8, Noticed DEF Record

\* An entry covers what it buys.
LEMMA EntryCovered ==
  ASSUME General, General', ~Unnoticed, Covered, NEW c \in Calls, Step(c),
         scene.kind[c] = "entry"
  PROVE  Covered'
<1> USE DEF General, IInv
<1>0. /\ TypeOK /\ TypeOK' /\ scene' = scene
      /\ Recorded \in Int /\ held \in Int /\ InHand(c) \in Int
      /\ Recorded' \in Int /\ held' \in Int /\ InHand(c)' \in Int
  <2>1. TypeOK /\ TypeOK'
    OBVIOUS
  <2>2. (Recorded \in Int /\ InHands \in Int)' /\ AreNumbers /\ AreNumbers'
    BY <2>1, SumsTyped, LotsTyped, PTL
  <2> QED
    BY <2>1, <2>2, SumsTyped, StepLeads DEF TypeOK, AreNumbers, Leads
<1>1. CASE EntryCall(c) \/ EntryCheck(c) \/ EntryInstall(c)
  <2>1. UNCHANGED <<docs, held, guards>>
    BY <1>1 DEF EntryCall, EntryCheck, NotBlocked, EntryInstall
  <2>2. InHand(c) = 0 /\ InHand(c)' = 0
    BY <1>0, <1>1, Goes, Ended
       DEF EntryCall, Starts, EntryCheck, NotBlocked, EntryInstall, InHand
  <2> QED
    BY <1>0, <2>1, <2>2, RecordedSame, CoveredKept DEF guards
<1>2. CASE Send(c)
  BY <1>0, <1>2, SendCovered, RecordedSame, CoveredKept DEF guards
<1>3. CASE Query(c)
  <2>1. /\ UNCHANGED <<docs, held>> /\ (UNCHANGED guards \/ JournalOrphan)
        /\ blocked' \/ InHand(c)' = InHand(c)
    BY <1>3, QueryCovered
  <2>2. Recorded' = Recorded /\ held' = held /\ (blocked => blocked')
    BY <2>1, RecordedSame DEF guards, JournalOrphan
  <2> QED
    BY <1>0, <2>1, <2>2, CoveredKept
<1>4. CASE EntryRecord(c)
  <2>1. /\ Record(c, "install") /\ pc[c] = "filled" /\ scene.kind[c] = "entry"
        /\ UNCHANGED <<scene, held>>
    BY <1>4 DEF EntryRecord
  <2>2. /\ UNCHANGED guards \/ JournalOrphan
        /\ blocked' \/ Recorded' + InHand(c)' = Recorded + InHand(c)
    BY <2>1, RecordCovered
  <2> QED
    BY <1>0, <2>1, <2>2, CoveredKept DEF guards, JournalOrphan
<1> QED
  BY <1>1, <1>2, <1>3, <1>4, StepOfKind

\* The operator frees what agrees.
LEMMA ClearCovered ==
  ASSUME General, General', NEW c \in Calls, Clear(c)
  PROVE  Covered'
<1> USE DEF General, IInv
<1>1. /\ TypeOK /\ TypeOK' /\ UNCHANGED <<docs, held, mem>> /\ held = Recorded
      /\ \A b \in Calls : ~Busy(b)
      /\ \A b \in Calls : pc'[b] \in {pc[b], "done"}
  BY DEF Clear, Go, TypeOK
<1> DEFINE g == [b \in Calls |-> InHand(b)']
<1>2. \A b \in Calls : g[b] = 0
  BY <1>1 DEF Busy, InHand
<1>3. InHands' = Total(g, Calls)
  BY DEF InHands
<1> HIDE DEF g
<1>4. InHands' = 0
  BY <1>2, <1>3, FiniteParts, TotalZero
<1>5. held' = Recorded' /\ held \in Int
  BY <1>1, RecordedSame DEF TypeOK
<1> QED
  BY <1>1, <1>4, <1>5 DEF Covered

-----------------------------------------------------------------------------
(* Orders and entries.  Orders write one after the other, each what it has *)
(* found; a book with a short in it is not covered, because an order that  *)
(* buys more than the short closes it and records nothing of the rest.     *)

KindsIn(K) == \A c \in Calls : scene.kind[c] \in K

OrderScene ==
    KindsIn({"order", "entry", "clear", "none"}) /\ ~Fault("crash") /\ ~Unnoticed

LongBook == \A d \in Open : docs[d].qty > 0

Locked == \A c \in Calls : pc[c] \in {"find", "write"} => lock = c

FirstTry ==
    \A c \in Calls : scene.kind[c] = "order" =>
        /\ pc[c] \in {"idle", "send", "query", "convert", "filled", "find"} => mem[c].tries = 0
        /\ pc[c] = "write" /\ mem[c].doc # NoDoc => mem[c].tries = 0

Found ==
    \A c \in Calls : pc[c] = "write" /\ mem[c].doc # NoDoc =>
        mem[c].doc \in Open /\ docs[mem[c].doc].qty = mem[c].qty

OrderInv == Locked /\ FirstTry /\ Found /\ Covered

\* A long trade is left with no less than trade and fill come to.
LEMMA NothingDropped ==
  ASSUME NEW q \in Int, q > 0, NEW n \in Int
  PROVE  AddedOrReduced(q, n) \in Int /\ AddedOrReduced(q, n) >= q + n
<1>1. CASE n > 0
  <2>1. q * n > 0
    BY <1>1
  <2> QED
    BY <2>1 DEF AddedOrReduced
<1>2. CASE n <= 0
  BY <1>2 DEF AddedOrReduced, Abs
<1> QED
  BY <1>1, <1>2

\* A document that is open stays as it is when another is made.
LEMMA CreatedApart ==
  ASSUME TypeOK, TypeOK', NEW c \in Calls, Created(c), NEW d \in Docs, docs[d].status # "none"
  PROVE  docs'[d] = docs[d]
BY CreatedRecorded DEF Unused

\* What an order saves is what it had in hand.
LEMMA SaveCovered ==
  ASSUME General, General', LongBook, OrderInv, NEW c \in Calls, OrderSave(c)
  PROVE  /\ UNCHANGED guards \/ JournalOrphan
         /\ blocked' \/ Recorded' - Recorded >= InHand(c) - InHand(c)'
<1> USE DEF General, IInv
<1>1. /\ TypeOK /\ TypeOK' /\ pc[c] = "write" /\ mem[c].doc \in Open /\ mem[c].doc \in Docs
      /\ docs[mem[c].doc].qty = mem[c].qty /\ mem[c].qty > 0 /\ mem[c].tries = 0
      /\ mem[c].qty \in Int /\ mem[c].fill \in Int
  <2>1. /\ pc[c] = "write" /\ mem[c].doc # NoDoc /\ mem[c] \in Memory
        /\ scene.kind[c] = "order"
    BY KindOf DEF OrderSave, TypeOK
  <2> QED
    BY <2>1 DEF OrderInv, Found, FirstTry, LongBook, Open, Memory
<1>2. PICK d \in Docs : d = mem[c].doc
  BY <1>1
<1>3. InHand(c) = mem[c].fill /\ InHand(c)' = 0
  <2>1. Written(c) = {}
    BY <1>1, NothingWritten
  <2>2. pc'[c] \in {"idle", "done"}
    BY <1>1, Ended DEF OrderSave
  <2> QED
    BY <1>1, <2>1, <2>2 DEF InHand
<1>4. CASE Fault("save") /\ JournalOrphan
  BY <1>4 DEF JournalOrphan
<1>5. CASE UNCHANGED guards
  <2> DEFINE q == AddedOrReduced(mem[c].qty, mem[c].fill)
  <2>1. \/ docs' = IF q = 0 THEN [docs EXCEPT ![d].status = "CLOSED"]
                   ELSE [docs EXCEPT ![d].qty = q]
        \/ JournalOrphan
    BY <1>2 DEF OrderSave
  <2>2. CASE JournalOrphan
    BY <1>5, <2>2 DEF JournalOrphan
  <2>3. CASE ~JournalOrphan
    <3>1. q \in Int /\ q >= mem[c].qty + mem[c].fill
      BY <1>1, NothingDropped
    <3>2. docs[d] \in Document /\ docs \in [Docs -> Document] /\ docs[d].status = "OPEN"
      BY <1>1, <1>2 DEF TypeOK, Open
    <3>3. Lots(d) = mem[c].qty
      BY <1>1, <1>2, <3>2 DEF Lots
    <3> HIDE DEF q
    <3>4. Lots(d)' = q
      BY <2>1, <2>3, <3>2 DEF Lots, Document
    <3>5. \A e \in Docs \ {d} : docs'[e] = docs[e]
      BY <2>1, <2>3, <3>2
    <3>6. Recorded' = Recorded - Lots(d) + Lots(d)' /\ Recorded \in Int
      BY <1>1, <3>5, RecordedMoves, SumsTyped
    <3> QED
      BY <1>1, <1>3, <1>5, <3>1, <3>3, <3>4, <3>6
  <2> QED
    BY <2>2, <2>3
<1> QED
  BY <1>4, <1>5 DEF OrderSave

\* Every step of an order keeps what is held covered.
LEMMA OrderCovered ==
  ASSUME General, General', ~Unnoticed, LongBook, OrderInv, NEW c \in Calls, Step(c),
         scene.kind[c] = "order"
  PROVE  Covered'
<1> USE DEF General, IInv
<1>0. /\ TypeOK /\ TypeOK' /\ scene' = scene /\ Covered
      /\ Recorded \in Int /\ held \in Int /\ InHand(c) \in Int
      /\ Recorded' \in Int /\ held' \in Int /\ InHand(c)' \in Int
  <2>1. TypeOK /\ TypeOK'
    OBVIOUS
  <2>2. (Recorded \in Int /\ InHands \in Int)' /\ AreNumbers /\ AreNumbers'
    BY <2>1, SumsTyped, LotsTyped, PTL
  <2> QED
    BY <2>1, <2>2, SumsTyped, StepLeads DEF TypeOK, AreNumbers, Leads, OrderInv
<1>1. CASE OrderCall(c)
  <2>1. UNCHANGED <<docs, held, guards>>
    BY <1>1 DEF OrderCall, NotBlocked
  <2>2. InHand(c) = 0 /\ InHand(c)' = 0
    BY <1>0, <1>1, Goes DEF OrderCall, Starts, NotBlocked, InHand
  <2> QED
    BY <1>0, <2>1, <2>2, RecordedSame, CoveredKept DEF guards
<1>2. CASE Send(c) \/ Convert(c)
  BY <1>0, <1>2, SendCovered, RecordedSame, CoveredKept DEF guards
<1>3. CASE Query(c)
  <2>1. /\ UNCHANGED <<docs, held>> /\ (UNCHANGED guards \/ JournalOrphan)
        /\ blocked' \/ InHand(c)' = InHand(c)
    BY <1>3, QueryCovered
  <2>2. Recorded' = Recorded /\ held' = held /\ (blocked => blocked')
    BY <2>1, RecordedSame DEF guards, JournalOrphan
  <2> QED
    BY <1>0, <2>1, <2>2, CoveredKept
<1>4. CASE OrderLock(c) \/ OrderFind(c)
  <2>1. /\ UNCHANGED <<docs, held>> /\ (UNCHANGED guards \/ JournalOrphan)
        /\ pc[c] \in {"filled", "find"}
    BY <1>4, Noticed DEF OrderLock, OrderFind
  <2>2. blocked' \/ InHand(c)' = InHand(c)
    <3>1. CASE JournalOrphan
      BY <3>1 DEF JournalOrphan
    <3>2. CASE ~JournalOrphan
      <4>1. pc'[c] \in {"find", "write"}
        BY <1>0, <1>4, <3>2, Noticed, Goes DEF OrderLock, OrderFind
      <4>2. mem'[c].fill = mem[c].fill /\ mem'[c].tries = mem[c].tries
        <5>1. mem \in [Calls -> Memory]
          BY <1>0 DEF TypeOK
        <5>2. CASE OrderLock(c)
          BY <5>2, Noticed DEF OrderLock
        <5>3. CASE OrderFind(c)
          <6>1. PICK e \in Docs \cup {NoDoc}, q \in Int :
                   mem' = [mem EXCEPT ![c].doc = e, ![c].qty = q]
            <7>1. PICK e \in (IF Open = {} THEN {NoDoc} ELSE Open) :
                     mem' = [mem EXCEPT ![c].doc = e,
                                        ![c].qty = IF e = NoDoc THEN 0 ELSE docs[e].qty]
              BY <3>2, <5>3 DEF OrderFind
            <7>2. e \in Docs \cup {NoDoc}
              BY DEF Open
            <7>3. (IF e = NoDoc THEN 0 ELSE docs[e].qty) \in Int
              BY <1>0, <7>2 DEF TypeOK, Document
            <7> QED
              BY <7>1, <7>2, <7>3
          <6> QED
            BY <5>1, <6>1 DEF Memory
        <5> QED
          BY <1>4, <5>2, <5>3
      <4>3. Written(c)' = Written(c)
        BY <2>1, <4>2 DEF Written
      <4> QED
        BY <2>1, <4>1, <4>2, <4>3 DEF InHand
    <3> QED
      BY <3>1, <3>2
  <2>3. Recorded' = Recorded /\ held' = held /\ (blocked => blocked')
    BY <2>1, RecordedSame DEF guards, JournalOrphan
  <2> QED
    BY <1>0, <2>2, <2>3, CoveredKept
<1>5. CASE OrderSave(c)
  <2>1. /\ UNCHANGED guards \/ JournalOrphan
        /\ blocked' \/ Recorded' - Recorded >= InHand(c) - InHand(c)'
    BY <1>5, SaveCovered
  <2>2. held' = held
    BY <1>5 DEF OrderSave
  <2> QED
    BY <1>0, <2>1, <2>2, CoveredKept DEF guards, JournalOrphan
<1>6. CASE OrderCreate(c)
  <2>1. /\ Record(c, "done") /\ pc[c] = "write"
        /\ UNCHANGED <<scene, held>>
    BY <1>6 DEF OrderCreate
  <2>2. /\ UNCHANGED guards \/ JournalOrphan
        /\ blocked' \/ Recorded' + InHand(c)' = Recorded + InHand(c)
    BY <2>1, RecordCovered
  <2> QED
    BY <1>0, <2>1, <2>2, CoveredKept DEF guards, JournalOrphan
<1> QED
  BY <1>1, <1>2, <1>3, <1>4, <1>5, <1>6, StepOfKind

\* A step of an order keeps to the lock, and to what it has found.
LEMMA OrderKeeps ==
  ASSUME General, General', ~Unnoticed, OrderInv, NEW c \in Calls, Step(c),
         scene.kind[c] = "order"
  PROVE  Locked' /\ FirstTry' /\ Found'
<1> USE DEF General, IInv
<1> DEFINE Mine ==
      /\ pc'[c] \in {"find", "write"} => lock' = c
      /\ pc'[c] \in {"idle", "send", "query", "convert", "filled", "find"} => mem'[c].tries = 0
      /\ pc'[c] = "write" /\ mem'[c].doc # NoDoc =>
            mem'[c].tries = 0 /\ mem'[c].doc \in Open' /\ docs'[mem'[c].doc].qty = mem'[c].qty
<1>0. /\ TypeOK /\ TypeOK' /\ scene' = scene
      /\ \A b \in Calls \ {c} : pc'[b] = pc[b] /\ mem'[b] = mem[b]
      /\ mem \in [Calls -> Memory] /\ mem[c] \in Memory
  BY StepLeads, StepApart DEF Leads, TypeOK
<1>1. ASSUME Mine, lock' = lock, docs' = docs
      PROVE  Locked' /\ FirstTry' /\ Found'
  BY <1>0, <1>1 DEF OrderInv, Locked, FirstTry, Found, Open
<1>2. ASSUME Mine, pc[c] \in {"find", "write"}
      PROVE  Locked' /\ FirstTry' /\ Found'
  <2>1. \A b \in Calls \ {c} : pc[b] \notin {"find", "write"}
    BY <1>2 DEF OrderInv, Locked
  <2> QED
    BY <1>0, <1>2, <2>1 DEF OrderInv, Locked, FirstTry, Found
<1>3. End(c) => Mine
  BY <1>0, Ended
<1>4. CASE OrderCall(c)
  <2>1. /\ pc'[c] \in {"done", "send"} /\ pc[c] = "idle"
        /\ UNCHANGED <<docs, mem, lock>>
    BY <1>0, <1>4, Goes DEF OrderCall, Starts, NotBlocked, flags
  <2> QED
    BY <1>0, <1>1, <2>1 DEF OrderInv, FirstTry
<1>5. CASE Send(c) \/ Convert(c) \/ Query(c)
  <2>1. UNCHANGED <<docs, lock>> /\ pc[c] \in {"send", "convert", "query"}
    BY <1>5 DEF Send, Convert, Query, flags
  <2>2. mem[c].tries = 0
    BY <2>1 DEF OrderInv, FirstTry
  <2>3. \/ End(c)
        \/ pc'[c] \in {"filled", "query", "convert", "done"} /\ mem'[c].tries = mem[c].tries
    <3>1. CASE Send(c)
      <4>1. \/ pc'[c] \in {"done", "convert"} /\ mem' = mem
            \/ pc'[c] \in {"filled", "query"} /\ \E f : mem' = [mem EXCEPT ![c].fill = f]
        BY <1>0, <3>1, Goes, FilledGoes DEF Send, Refused
      <4> QED
        BY <1>0, <4>1 DEF Memory
    <3>2. CASE Convert(c)
      <4>1. \/ End(c)
            \/ pc'[c] = "filled" /\ \E f : mem' = [mem EXCEPT ![c].fill = f]
        BY <1>0, <3>2, Goes DEF Convert, OrderFilled
      <4> QED
        BY <1>0, <4>1 DEF Memory
    <3>3. CASE Query(c)
      BY <1>0, <3>3, Goes DEF Query
    <3> QED
      BY <1>5, <3>1, <3>2, <3>3
  <2> QED
    BY <1>1, <1>3, <2>1, <2>2, <2>3
<1>6. CASE OrderLock(c)
  <2>1. /\ pc'[c] = "find" /\ pc[c] = "filled" /\ lock = NoCall /\ lock' = c
        /\ UNCHANGED <<docs, mem>>
    BY <1>0, <1>6, Noticed, Goes DEF OrderLock
  <2>2. \A b \in Calls : pc[b] \notin {"find", "write"}
    BY <2>1, LiveAssumption DEF OrderInv, Locked
  <2> QED
    BY <1>0, <2>1, <2>2 DEF OrderInv, Locked, FirstTry, Found
<1>7. CASE OrderFind(c)
  <2>1. pc[c] = "find" /\ mem[c].tries = 0 /\ lock = c /\ docs' = docs
    BY <1>7 DEF OrderFind, OrderInv, FirstTry, Locked
  <2>2. CASE End(c)
    BY <1>2, <1>3, <2>1, <2>2
  <2>3. CASE ~End(c)
    <3>1. /\ pc'[c] = "write" /\ lock' = lock
          /\ \E d \in (IF Open = {} THEN {NoDoc} ELSE Open) :
                mem' = [mem EXCEPT ![c].doc = d,
                                   ![c].qty = IF d = NoDoc THEN 0 ELSE docs[d].qty]
      BY <1>0, <1>7, <2>3, Goes DEF OrderFind
    <3>2. PICK d \in (IF Open = {} THEN {NoDoc} ELSE Open) :
             mem' = [mem EXCEPT ![c].doc = d,
                                ![c].qty = IF d = NoDoc THEN 0 ELSE docs[d].qty]
      BY <3>1
    <3>3. /\ mem'[c].doc = d /\ mem'[c].tries = 0
          /\ mem'[c].qty = IF d = NoDoc THEN 0 ELSE docs[d].qty
      BY <1>0, <2>1, <3>2 DEF Memory
    <3>4. d # NoDoc => d \in Open
      BY DEF Open
    <3>5. Open' = Open
      BY <2>1 DEF Open
    <3>6. Mine
      BY <2>1, <3>1, <3>3, <3>4, <3>5
    <3> QED
      BY <1>2, <2>1, <3>6
  <2> QED
    BY <2>2, <2>3
<1>8. CASE OrderSave(c)
  BY <1>2, <1>3, <1>8 DEF OrderSave
<1>9. CASE OrderCreate(c)
  <2>1. /\ pc[c] = "write" /\ mem[c].doc = NoDoc /\ lock = c /\ Record(c, "done")
        /\ lock' = IF pc'[c] = "done" THEN NoCall ELSE lock
    BY <1>9 DEF OrderCreate, OrderInv, Locked
  <2>2. pc'[c] = "done" \/ (pc'[c] = pc[c] /\ mem'[c].doc = mem[c].doc)
    <3>1. \/ pc'[c] = "done"
          \/ UNCHANGED pc /\ mem' = [mem EXCEPT ![c].tries = @ + 1]
      BY <1>0, <2>1, Goes, Ended DEF Record
    <3> QED
      BY <1>0, <3>1 DEF Memory
  <2> QED
    BY <1>2, <2>1, <2>2
<1> QED
  BY <1>4, <1>5, <1>6, <1>7, <1>8, <1>9, StepOfKind

\* What an entry writes is a document that nobody has found.
LEMMA EntryApart ==
  ASSUME General, General', OrderInv, NEW c \in Calls, Step(c),
         scene.kind[c] \in {"entry", "clear"}
  PROVE  Locked' /\ FirstTry' /\ Found'
<1> USE DEF General, IInv
<1>0. /\ TypeOK /\ TypeOK' /\ scene' = scene
      /\ \A b \in Calls \ {c} : pc'[b] = pc[b] /\ mem'[b] = mem[b]
  BY StepLeads, StepApart DEF Leads
<1>1. pc'[c] \notin {"find", "write"}
  BY <1>0, StepPaths DEF Labels
<1>2. lock' = lock /\ (docs' = docs \/ Created(c))
  <2>1. CASE scene.kind[c] = "entry"
    <3>1. CASE EntryRecord(c)
      BY <3>1 DEF EntryRecord, Record, flags
    <3> QED
      BY <2>1, <3>1, StepOfKind
         DEF EntryCall, EntryCheck, NotBlocked, Send, Query, EntryInstall, flags
  <2>2. CASE scene.kind[c] = "clear"
    BY <2>2, StepOfKind DEF Clear, flags
  <2> QED
    BY <2>1, <2>2
<1>3. \A d \in Open : d \in Open' /\ docs'[d] = docs[d]
  <2>1. ASSUME NEW d \in Open PROVE docs'[d] = docs[d]
    <3>1. d \in Docs /\ docs[d].status # "none"
      BY DEF Open
    <3> QED
      BY <1>0, <1>2, <3>1, CreatedApart
  <2> QED
    BY <2>1 DEF Open
<1> QED
  BY <1>0, <1>1, <1>2, <1>3 DEF OrderInv, Locked, FirstTry, Found

\* Orders and entries keep what is held covered.
LEMMA OrdersKeep ==
  General /\ General' /\ OrderScene /\ LongBook /\ OrderInv /\ [Next]_vars => OrderInv'
<1> SUFFICES ASSUME General, General', OrderScene, LongBook, OrderInv, [Next]_vars
             PROVE  OrderInv'
  OBVIOUS
<1>0. ~Unnoticed
  BY DEF OrderScene
<1>1. ASSUME NEW c \in Calls, Step(c) PROVE OrderInv'
  <2>1. scene.kind[c] \in {"order", "entry", "clear"}
    BY <1>1, StepOfKind DEF General, IInv, OrderScene, KindsIn
  <2>2. Covered
    BY DEF OrderInv
  <2>3. CASE scene.kind[c] = "order"
    BY <1>0, <1>1, <2>3, OrderCovered, OrderKeeps DEF OrderInv
  <2>4. CASE scene.kind[c] = "entry"
    BY <1>0, <1>1, <2>2, <2>4, EntryCovered, EntryApart DEF OrderInv
  <2>5. CASE scene.kind[c] = "clear"
    BY <1>1, <2>5, StepOfKind, ClearCovered, EntryApart DEF OrderInv, General, IInv
  <2> QED
    BY <2>1, <2>3, <2>4, <2>5
<1>2. CASE RetryDue
  BY <1>2 DEF RetryDue, OrderInv, Locked, FirstTry, Found, Covered, Open, Recorded, InHands,
              InHand, Written, Lots, guards, flags
<1>3. CASE UNCHANGED vars
  BY <1>3 DEF vars, OrderInv, Locked, FirstTry, Found, Covered, Open, Recorded, InHands,
              InHand, Written, Lots, guards, flags
<1>4. ~Restart
  BY DEF Restart, OrderScene
<1> QED
  BY <1>1, <1>2, <1>3, <1>4 DEF Next

-----------------------------------------------------------------------------
(* How it starts, and that a scene lasts.                                  *)

\* One open trade is all that is recorded.
LEMMA RecordedOne ==
  ASSUME TypeOK, NEW d \in Docs, Open \subseteq {d}
  PROVE  Recorded = Lots(d)
<1> DEFINE f == [e \in Docs |-> Lots(e)]
<1>1. \A e \in Docs : f[e] \in Int
  BY LotsTyped DEF AreNumbers
<1>2. \A e \in Docs \ {d} : f[e] = 0
  BY DEF Lots, Open
<1>3. Recorded = Total(f, Docs)
  BY DEF Recorded
<1>4. f[d] = Lots(d)
  OBVIOUS
<1> HIDE DEF f
<1>5. Total(f, Docs) = f[d] + Total(f, Docs \ {d})
  BY <1>1, FiniteParts, TotalRemove
<1>6. IsFiniteSet(Docs \ {d})
  BY FiniteParts, FS_Subset
<1>7. Total(f, Docs \ {d}) = 0
  BY <1>2, <1>6, TotalZero
<1> QED
  BY <1>1, <1>3, <1>4, <1>5, <1>7

\* What one call has in hand is all, if no other has anything.
LEMMA HandsOne ==
  ASSUME TypeOK, NEW c \in Calls, \A b \in Calls \ {c} : InHand(b) = 0
  PROVE  InHands = InHand(c)
<1> DEFINE f == [b \in Calls |-> InHand(b)]
<1>1. \A b \in Calls : f[b] \in Int
  BY LotsTyped DEF AreNumbers
<1>2. \A b \in Calls \ {c} : f[b] = 0
  OBVIOUS
<1>3. InHands = Total(f, Calls)
  BY DEF InHands
<1>4. f[c] = InHand(c)
  OBVIOUS
<1> HIDE DEF f
<1>5. Total(f, Calls) = f[c] + Total(f, Calls \ {c})
  BY <1>1, FiniteParts, TotalRemove
<1>6. IsFiniteSet(Calls \ {c})
  BY FiniteParts, FS_Subset
<1>7. Total(f, Calls \ {c}) = 0
  BY <1>2, <1>6, TotalZero
<1> QED
  BY <1>1, <1>3, <1>4, <1>5, <1>7

HandsNone == \A b \in Calls : InHand(b) = 0

LEMMA HandsEmpty == HandsNone => InHands = 0
<1> SUFFICES ASSUME HandsNone PROVE InHands = 0
  OBVIOUS
<1> DEFINE f == [b \in Calls |-> InHand(b)]
<1>1. \A b \in Calls : f[b] = 0
  BY DEF HandsNone
<1>2. InHands = Total(f, Calls)
  BY DEF InHands
<1> HIDE DEF f
<1> QED
  BY <1>1, <1>2, FiniteParts, TotalZero

\* At the start the first trade holds what there is.
LEMMA StartsCovered ==
  ASSUME Init, TypeOK
  PROVE  /\ Open = IF scene.start > 0 THEN {1} ELSE {}
         /\ \A d \in Open : docs[d].qty = scene.start
         /\ Recorded = held /\ InHands = 0 /\ held = scene.start /\ held \in Nat
<1>1. scene.start \in Nat /\ 1 \in Docs
  BY SceneParts, LiveAssumption DEF Docs
<1>2. /\ Open = IF scene.start > 0 THEN {1} ELSE {}
      /\ \A d \in Open : docs[d].qty = scene.start
  BY <1>1 DEF Init, Open, NoTrade
<1>3. Lots(1) = scene.start
  BY <1>1 DEF Init, Lots, NoTrade
<1>4. Recorded = Lots(1)
  BY <1>1, <1>2, RecordedOne
<1>5. \A b \in Calls : InHand(b) = 0
  BY DEF Init, InHand
<1> QED
  BY <1>1, <1>2, <1>3, <1>4, <1>5, HandsEmpty DEF Init, HandsNone

\* The scene of a run stays.
LEMMA SceneStays == General /\ [Next]_vars => scene' = scene
<1> SUFFICES ASSUME General, [Next]_vars PROVE scene' = scene
  OBVIOUS
<1>1. ASSUME NEW c \in Calls, Step(c) PROVE scene' = scene
  BY <1>1, StepLeads DEF Leads, General, IInv
<1> QED
  BY <1>1 DEF Next, Restart, RetryDue, vars

-----------------------------------------------------------------------------
\* Manual orders and entries hide no lot, whatever the exchange and the database
\* do to them, the faults of Unnoticed apart: a fill that no trade records is in
\* hand, or blocks the symbol.
\* On a book that is long: of an order that buys more than an open short, the
\* route closes the short and records nothing of the rest.
THEOREM OrdersHideNothing ==
  Spec /\ []LongBook => [](KindsIn({"order", "entry", "clear", "none"}) => NoHidden)
<1> DEFINE OInv == OrderScene => OrderInv
<1>1. Init /\ General => OInv
  <2> SUFFICES ASSUME Init, General PROVE OrderInv
    OBVIOUS
  <2>1. Covered
    BY StartsCovered DEF Covered, General, IInv
  <2> QED
    BY <2>1 DEF Init, OrderInv, Locked, FirstTry, Found, NoMem
<1>2. General /\ General' /\ LongBook /\ OInv /\ [Next]_vars => OInv'
  <2> SUFFICES ASSUME General, General', LongBook, OInv, [Next]_vars, OrderScene'
               PROVE  OrderInv'
    OBVIOUS
  <2>1. OrderScene
    BY SceneStays DEF OrderScene, KindsIn, Fault, Unnoticed
  <2> QED
    BY <2>1, OrdersKeep
<1>3. OInv => (KindsIn({"order", "entry", "clear", "none"}) => NoHidden)
  BY DEF OrderInv, Covered, OrderScene, NoHidden, LeftToOperator
<1> QED
  BY <1>1, <1>2, <1>3, AlwaysGeneral, PTL DEF Spec

-----------------------------------------------------------------------------
(* The engine and the monitor.  One call at a time buys or sells, and the   *)
(* position of the map, the trade and the exchange go together.            *)

EngineScene ==
    /\ KindsIn({"entry", "exit", "trim", "monitor", "clear", "none"})
    /\ ~Fault("crash") /\ ~Fault("lookup")

Acting(c) == pc[c] \in Selling \/ (scene.kind[c] = "entry" /\ Busy(c))

OneActs == \A b, c \in Calls : Acting(b) /\ Acting(c) => b = c

\* What an exit has read is what the map says, until it has sold.
SellerAt(c) ==
    pc[c] \in Selling =>
        /\ exiting /\ pos # NoPos /\ pos.doc = mem[c].doc
        /\ pc[c] \in {"cap", "sell", "sellConvert", "sold"} =>
              mem[c].qty = pos.qty /\ -mem[c].qty <= mem[c].fill /\ mem[c].fill < 0
        /\ pc[c] = "trimSave" => pos.qty = Rest(c) /\ docs[mem[c].doc].qty >= mem[c].qty
        /\ pc[c] = "remove" => Open = {}

\* An entry finds nothing open but what it has written itself.
EntrantAt(c) ==
    scene.kind[c] = "entry" /\ Busy(c) =>
        /\ pos = NoPos
        /\ pc[c] \in {"check", "send", "query"} => Open = {}
        /\ pc[c] = "filled" => Open = Written(c) /\ \A d \in Open : docs[d].qty = mem[c].fill
        /\ pc[c] = "install" => Open = {mem[c].doc} /\ docs[mem[c].doc].qty = mem[c].fill

\* While the symbol is blocked there is no position, and nobody enters one.
BlockAt(c) ==
    blocked => pos = NoPos /\ pc[c] \notin {"send", "query", "filled", "install"}

\* The position of the map is that of the one trade that is open.
FitsAt(c) ==
    pos # NoPos =>
        /\ pos.qty > 0 /\ pos.doc \in Docs
        /\ pc[c] # "remove" => Open = {pos.doc} /\ pos.qty <= docs[pos.doc].qty

Followed ==
    pos # NoPos =>
        /\ pos.qty > 0 /\ pos.doc \in Docs
        /\ (\A c \in Calls : pc[c] # "remove") =>
              Open = {pos.doc} /\ pos.qty <= docs[pos.doc].qty

EngineInv ==
    /\ OneActs
    /\ \A c \in Calls : SellerAt(c) /\ EntrantAt(c) /\ BlockAt(c)
    /\ Followed

\* Where the calls of the engine may be, and those that do not act.
LEMMA EngineLabels ==
  ASSUME General, EngineScene, NEW c \in Calls
  PROVE  /\ pc[c] \in {"check", "send", "query", "filled", "install"} => scene.kind[c] = "entry"
         /\ ~Acting(c) => pc[c] \in {"idle", "done", "tick", "call", "verify", "failed"}
         /\ ~Acting(c) => InHand(c) = 0
         /\ scene.kind[c] = "entry" => pc[c] \notin Selling
<1>1. /\ pc[c] \in {"idle", "done"} \cup Labels(scene.kind[c])
      /\ scene.kind[c] \in {"entry", "exit", "trim", "monitor", "clear", "none"}
  BY DEF General, KindPaths, EngineScene, KindsIn
<1>2. /\ scene.kind[c] = "entry" =>
            pc[c] \in {"idle", "done", "check", "send", "query", "filled", "install"}
      /\ scene.kind[c] # "entry" =>
            pc[c] \in {"idle", "done", "tick", "call", "verify", "failed"} \cup Selling
  BY <1>1 DEF Labels
<1>3. ~Acting(c) => pc[c] \in {"idle", "done", "tick", "call", "verify", "failed"}
  BY <1>2 DEF Acting, Busy
<1> QED
  BY <1>2, <1>3, NothingInHand DEF Selling

\* After the step of a call that alone acts, only its own part is to be looked at.
LEMMA ActorKeeps ==
  ASSUME General, General', EngineScene, NEW c \in Calls, Step(c),
         \A b \in Calls \ {c} : ~Acting(b),
         SellerAt(c)', EntrantAt(c)', BlockAt(c)', FitsAt(c)'
  PROVE  EngineInv'
<1>1. /\ scene' = scene
      /\ \A b \in Calls \ {c} : pc'[b] = pc[b] /\ mem'[b] = mem[b]
  BY StepLeads, StepApart DEF Leads, General, IInv
<1>2. \A b \in Calls \ {c} : ~Acting(b)'
  BY <1>1 DEF Acting, Busy
<1>3. ASSUME NEW b \in Calls \ {c} PROVE SellerAt(b)' /\ EntrantAt(b)' /\ BlockAt(b)'
  <2>1. pc'[b] \in {"idle", "done", "tick", "call", "verify", "failed"}
    BY <1>1, EngineLabels
  <2> QED
    BY <1>2, <2>1 DEF SellerAt, EntrantAt, BlockAt, Acting
<1>4. Followed'
  BY <1>1 DEF FitsAt, Followed
<1> QED
  BY <1>2, <1>3, <1>4 DEF EngineInv, OneActs

\* A step of a call that does not act, and goes on not to.
Still(c) ==
    /\ UNCHANGED <<docs, held, pos, mem, exiting>>
    /\ ~Acting(c) /\ ~Acting(c)'
    /\ UNCHANGED guards \/ Clear(c)

LEMMA StillLeads ==
  ASSUME General, EngineScene, NEW c \in Calls, Step(c), Still(c)
  PROVE  pc'[c] \in {"idle", "done", "tick", "call", "verify", "failed"}
<1>1. scene' = scene
  BY StepLeads DEF Leads, General, IInv
<1>2. /\ pc'[c] \in {"idle", "done"} \cup Labels(scene.kind[c])
      /\ scene.kind[c] \in {"entry", "exit", "trim", "monitor", "clear", "none"}
  BY StepPaths DEF General, IInv, EngineScene, KindsIn
<1>3. /\ scene.kind[c] = "entry" =>
            pc'[c] \in {"idle", "done", "check", "send", "query", "filled", "install"}
      /\ scene.kind[c] # "entry" =>
            pc'[c] \in {"idle", "done", "tick", "call", "verify", "failed"} \cup Selling
  BY <1>2 DEF Labels
<1> QED
  BY <1>1, <1>3 DEF Still, Acting, Busy

LEMMA StillKeeps ==
  ASSUME General, General', EngineScene, EngineInv, NEW c \in Calls, Step(c), Still(c)
  PROVE  EngineInv'
<1>1. /\ scene' = scene
      /\ \A b \in Calls \ {c} : pc'[b] = pc[b] /\ mem'[b] = mem[b]
  BY StepLeads, StepApart DEF Leads, General, IInv
<1>2. blocked' => blocked
  BY DEF Still, guards, Clear
<1>3. pc'[c] \in {"idle", "done", "tick", "call", "verify", "failed"}
  BY StillLeads
<1>4. Open' = Open /\ pos' = pos /\ docs' = docs /\ mem' = mem /\ exiting' = exiting
  BY DEF Still, Open
<1>5. ASSUME NEW b \in Calls \ {c} PROVE SellerAt(b)' /\ EntrantAt(b)' /\ BlockAt(b)'
  BY <1>1, <1>2, <1>4 DEF EngineInv, SellerAt, EntrantAt, BlockAt, Busy, Written, Rest
<1>6. SellerAt(c)' /\ EntrantAt(c)'
  BY DEF Still, SellerAt, EntrantAt, Acting
<1>7. BlockAt(c)'
  BY <1>2, <1>3, <1>4 DEF EngineInv, BlockAt
<1>8. OneActs'
  BY <1>1 DEF Still, EngineInv, OneActs, Acting, Busy
<1>9. Followed'
  <2>1. pc[c] # "remove"
    BY DEF Still, Acting, Selling
  <2> QED
    BY <1>1, <1>4, <2>1 DEF EngineInv, Followed
<1> QED
  BY <1>5, <1>6, <1>7, <1>8, <1>9 DEF EngineInv

\* A call that acts acts alone.
LEMMA ActsAlone ==
  ASSUME General, EngineScene, EngineInv, NEW c \in Calls,
         Acting(c) \/ ExitCall(c) \/ (EntryCall(c) /\ NothingOpen), Step(c)
  PROVE  \A b \in Calls \ {c} : ~Acting(b)
<1>1. CASE Acting(c)
  BY <1>1 DEF EngineInv, OneActs
<1>2. CASE ExitCall(c)
  BY <1>2 DEF ExitCall, InFlight, EngineInv, SellerAt, EntrantAt, Acting
<1>3. CASE EntryCall(c) /\ NothingOpen
  <2>1. pos = NoPos /\ Scheduled("entry") /\ \A b \in Calls : Busy(b) => ~Scheduled(scene.kind[b])
    BY <1>3 DEF EntryCall, NothingOpen, Starts, Scheduled
  <2> QED
    BY <2>1 DEF EngineInv, SellerAt, Acting
<1> QED
  BY <1>1, <1>2, <1>3

\* The entry.
LEMMA EntrantKeeps ==
  ASSUME General, General', EngineScene, EngineInv, NEW c \in Calls, Step(c),
         scene.kind[c] = "entry"
  PROVE  EngineInv'
<1> USE DEF General, IInv
<1>0. /\ TypeOK /\ TypeOK' /\ scene' = scene /\ mem \in [Calls -> Memory] /\ mem[c] \in Memory
      /\ pc[c] \notin Selling /\ pc'[c] \notin Selling
      /\ \A b \in Calls \ {c} : pc'[b] = pc[b] /\ mem'[b] = mem[b]
      /\ BlockAt(c) /\ EntrantAt(c)
  <2>1. pc'[c] \notin Selling
    BY StepPaths DEF Labels, Selling
  <2> QED
    BY <2>1, StepLeads, StepApart, EngineLabels DEF Leads, TypeOK, EngineInv
<1>1. ASSUME Busy(c) \/ NothingOpen
      PROVE  \A b \in Calls \ {c} : ~Acting(b)
  <2>1. EntryCall(c) \/ Busy(c)
    BY StepOfKind DEF EntryCheck, Send, Query, EntryRecord, EntryInstall, Busy
  <2> QED
    BY <1>1, <2>1, ActsAlone DEF Acting
<1>2. ASSUME Busy(c) \/ NothingOpen, EntrantAt(c)', BlockAt(c)', FitsAt(c)'
      PROVE  EngineInv'
  BY <1>0, <1>1, <1>2, ActorKeeps DEF SellerAt
<1>3. pos' = NoPos => FitsAt(c)'
  BY DEF FitsAt
<1>4. Written(c)' = {d \in Docs : docs'[d].by = c /\ mem'[c].tries > 0}
  BY DEF Written
<1>5. CASE EntryCall(c)
  <2>1. CASE NothingOpen
    <3>1. pc'[c] = "check" /\ UNCHANGED <<pos, docs>>
      BY <1>0, <1>5, <2>1, Goes DEF EntryCall
    <3>2. Open' = Open
      BY <3>1 DEF Open
    <3> QED
      BY <1>2, <1>3, <2>1, <3>1, <3>2 DEF NothingOpen, EntrantAt, BlockAt
  <2>2. CASE ~NothingOpen
    <3>1. /\ pc'[c] = "done" /\ pc[c] = "idle"
          /\ UNCHANGED <<pos, docs, held, mem, exiting, guards>>
      BY <1>0, <1>5, <2>2, Goes DEF EntryCall, Starts, flags
    <3>2. Still(c)
      BY <1>0, <3>1 DEF Still, Acting, Busy
    <3> QED
      BY <3>2, StillKeeps
  <2> QED
    BY <2>1, <2>2
<1>6. CASE EntryCheck(c)
  <2>1. /\ pc[c] = "check" /\ pc'[c] = (IF blocked THEN "done" ELSE "send")
        /\ UNCHANGED <<pos, docs, guards>>
    BY <1>0, <1>6, Goes DEF EntryCheck, NotBlocked
  <2>2. Open' = Open /\ pos = NoPos /\ Open = {} /\ blocked' = blocked
    BY <1>0, <2>1 DEF Open, EntrantAt, Busy, guards
  <2> QED
    BY <1>0, <1>2, <1>3, <2>1, <2>2 DEF EntrantAt, BlockAt, Busy
<1>7. CASE Send(c)
  <2>1. /\ pc[c] = "send" /\ pc'[c] \in {"done", "query", "filled"}
        /\ UNCHANGED <<pos, docs, guards>>
    <3>1. pc'[c] \in {"done", "query", "filled"}
      BY <1>0, <1>7, Goes DEF Send, Refused, OrderFilled
    <3> QED
      BY <1>7, <3>1 DEF Send
  <2>2. Open' = Open /\ pos = NoPos /\ Open = {} /\ blocked' = blocked /\ ~blocked
    BY <1>0, <2>1 DEF Open, EntrantAt, Busy, guards, BlockAt
  <2>3. Written(c)' = {}
    BY <1>4, <2>1, NothingWritten
  <2> QED
    BY <1>0, <1>2, <1>3, <2>1, <2>2, <2>3 DEF EntrantAt, BlockAt, Busy
<1>8. CASE Query(c)
  <2>1. /\ pc[c] = "query" /\ UNCHANGED <<pos, docs>>
        /\ \/ pc'[c] = "done"
           \/ pc'[c] = "filled" /\ blocked' = blocked
    BY <1>0, <1>8, Goes, Ended DEF Query, guards
  <2>2. Open' = Open /\ pos = NoPos /\ Open = {} /\ ~blocked
    BY <1>0, <2>1 DEF Open, EntrantAt, Busy, BlockAt
  <2>3. Written(c)' = {}
    BY <1>4, <2>1, NothingWritten
  <2> QED
    BY <1>0, <1>2, <1>3, <2>1, <2>2, <2>3 DEF EntrantAt, BlockAt, Busy
<1>9. CASE EntryRecord(c)
  <2>1. /\ pc[c] = "filled" /\ Record(c, "install") /\ pos' = pos
        /\ Open = Written(c) /\ (\A d \in Open : docs[d].qty = mem[c].fill)
        /\ pos = NoPos /\ ~blocked
    BY <1>0, <1>9 DEF EntryRecord, EntrantAt, BlockAt, Busy
  <2>2. CASE \E d \in Written(c) :
                mem' = [mem EXCEPT ![c].doc = d] /\ Go(c, "install") /\ UNCHANGED <<docs, guards>>
    <3>1. PICK d \in Written(c) :
             mem' = [mem EXCEPT ![c].doc = d] /\ Go(c, "install") /\ UNCHANGED <<docs, guards>>
      BY <2>2
    <3>2. /\ pc'[c] = "install" /\ mem'[c].doc = d /\ mem'[c].fill = mem[c].fill
          /\ Open' = Open /\ blocked' = blocked
      BY <1>0, <3>1, Goes DEF Memory, Open, guards
    <3>3. Open = {d}
      <4>1. \A e \in Written(c) : e = d
        BY <1>0, <3>1, LiveAssumption DEF Written, OneRecord, EngineScene
      <4> QED
        BY <2>1, <4>1
    <3> QED
      BY <1>2, <1>3, <2>1, <3>1, <3>2, <3>3 DEF EntrantAt, BlockAt, Busy
  <2>3. ASSUME Written(c) = {}, Created(c)
        PROVE  /\ Open' = {Least(Unused)} /\ docs'[Least(Unused)].qty = mem[c].fill
               /\ docs'[Least(Unused)].by = c
    <3>1. PICK d \in Docs : d = Least(Unused) /\ d \in Unused
      BY <1>0, <2>3, CreatedTyped DEF Unused
    <3>2. /\ docs'[d] = [status |-> "OPEN", qty |-> mem[c].fill, by |-> c]
          /\ \A e \in Docs \ {d} : docs'[e] = docs[e]
      BY <1>0, <2>3, <3>1 DEF Created, TypeOK
    <3>3. Open = {}
      BY <2>1, <2>3
    <3>4. Open' = {d}
      BY <3>2, <3>3 DEF Open
    <3> QED
      BY <3>1, <3>2, <3>4
  <2>4. CASE /\ Written(c) = {} /\ Created(c) /\ mem' = [mem EXCEPT ![c].doc = Least(Unused)]
             /\ Go(c, "install") /\ UNCHANGED guards
    <3>1. PICK d \in Docs : d = Least(Unused) /\ d \in Unused
      BY <1>0, <2>4, CreatedTyped DEF Unused
    <3>2. /\ pc'[c] = "install" /\ mem'[c].doc = d /\ mem'[c].fill = mem[c].fill
          /\ blocked' = blocked
      BY <1>0, <2>4, <3>1, Goes DEF Memory, guards
    <3>3. Open' = {d} /\ docs'[d].qty = mem[c].fill
      BY <2>3, <2>4, <3>1
    <3> QED
      BY <1>2, <1>3, <2>1, <3>2, <3>3 DEF EntrantAt, BlockAt, Busy
  <2>5. CASE /\ Written(c) = {}
             /\ Created(c) \/ UNCHANGED docs
             /\ mem' = [mem EXCEPT ![c].tries = @ + 1] /\ UNCHANGED <<pc, guards>>
    <3>1. /\ pc'[c] = "filled" /\ mem'[c].fill = mem[c].fill /\ mem'[c].tries > 0
          /\ blocked' = blocked
      BY <1>0, <2>1, <2>5 DEF Memory, guards
    <3>2. Open' = Written(c)' /\ \A d \in Open' : docs'[d].qty = mem[c].fill
      <4>1. \A d \in Docs : docs[d].by # c
        <5>1. CASE mem[c].tries = 0
          BY <2>1, <5>1, NothingWritten
        <5>2. CASE mem[c].tries # 0
          BY <1>0, <2>5, <5>2 DEF Written, Memory
        <5> QED
          BY <5>1, <5>2
      <4>2. CASE Created(c)
        <5>1. PICK d \in Docs : d = Least(Unused) /\ d \in Unused
          BY <1>0, <4>2, CreatedTyped DEF Unused
        <5>2. /\ Open' = {d} /\ docs'[d].qty = mem[c].fill /\ docs'[d].by = c
              /\ \A e \in Docs \ {d} : docs'[e] = docs[e]
          BY <1>0, <2>3, <2>5, <4>2, <5>1, CreatedRecorded
        <5> QED
          BY <1>4, <3>1, <4>1, <5>2
      <4>3. CASE UNCHANGED docs
        BY <1>4, <2>1, <2>5, <4>1, <4>3 DEF Open
      <4> QED
        BY <2>5, <4>2, <4>3
    <3> QED
      BY <1>2, <1>3, <2>1, <3>1, <3>2 DEF EntrantAt, BlockAt, Busy
  <2>6. CASE JournalOrphan /\ End(c)
    <3>1. pc'[c] = "done"
      BY <1>0, <2>6, Ended
    <3> QED
      BY <1>2, <1>3, <2>1, <3>1 DEF EntrantAt, BlockAt, Busy
  <2> QED
    BY <2>1, <2>2, <2>4, <2>5, <2>6 DEF Record, Missed, EngineScene
<1>10. CASE EntryInstall(c)
  <2>1. /\ pc[c] = "install" /\ pos' = [doc |-> mem[c].doc, qty |-> mem[c].fill]
        /\ pc'[c] = "done" /\ UNCHANGED <<docs, guards>> /\ mem[c].fill > 0
        /\ Open = {mem[c].doc} /\ docs[mem[c].doc].qty = mem[c].fill /\ ~blocked
    BY <1>0, <1>10, Ended DEF EntryInstall, EntrantAt, BlockAt, Busy, Bought
  <2>2. Open' = Open /\ mem[c].fill \in Int /\ ~blocked' /\ mem[c].doc \in Docs
    BY <1>0, <2>1 DEF Open, Memory, guards
  <2> QED
    BY <1>2, <2>1, <2>2 DEF EntrantAt, BlockAt, FitsAt, Busy
<1> QED
  BY <1>5, <1>6, <1>7, <1>8, <1>9, <1>10, StepOfKind

\* No order fills more than was asked for.
LEMMA FillsWithin ==
  ASSUME held \in Int, NEW n \in Int, NEW r \in BOOLEAN, NEW f \in Fills(n, r)
  PROVE  /\ f \in Int
         /\ n < 0 => n <= f /\ f < 0
         /\ n >= 0 => 0 < f /\ f <= n
<1>1. Room(n, r) \in Int /\ Abs(n) \in Int
  BY LiveAssumption DEF Room, Abs
<1> DEFINE most == Least({Abs(n), Room(n, r)})
           sign == IF n < 0 THEN -1 ELSE 1
<1>2. most \in Int /\ most <= Abs(n)
  BY <1>1, LeastOfTwo
<1>3. most > 0 /\ f \in {sign * g : g \in IF Fault("part") THEN 1 .. most ELSE {most}}
  BY <1>2 DEF Fills
<1> HIDE DEF most
<1>4. PICK g \in 1 .. most : f = sign * g
  BY <1>2, <1>3
<1> QED
  BY <1>2, <1>4 DEF Abs

\* Orders that may fill without the call's knowledge.
Astray == scene.faults \cap {"lost", "http", "quote"} # {}

LEMMA LostAstray ==
  ASSUME NEW n, NEW r, NEW f,
         f \in UnknownFills(n, r) \/ f \in LostFills(n, r, "quote")
  PROVE  Astray /\ (f \in Fills(n, r) \/ f = 0)
<1>1. PICK x \in {"lost", "http", "quote"} : f \in LostFills(n, r, x)
  BY DEF UnknownFills
<1> QED
  BY <1>1 DEF LostFills, Fault, Astray

\* What becomes of the order of an exit.
Sold(c, f) ==
    /\ held' = held + f
    /\ \/ f < 0 /\ pc'[c] = "sold" /\ mem' = [mem EXCEPT ![c].fill = f] /\ exiting' = exiting
       \/ f = 0 /\ pc'[c] = "sellConvert" /\ mem' = mem /\ exiting' = exiting
       \/ (f = 0 \/ Astray) /\ ExitOver(c, "failed")

LEMMA SellFills ==
  ASSUME TypeOK, NEW c \in Calls, Sell(c) \/ SellConvert(c), mem[c].fill < 0
  PROVE  /\ UNCHANGED <<docs, pos, guards>>
         /\ \E f \in Int : mem[c].fill <= f /\ f <= 0 /\ Sold(c, f)
<1>1. mem[c].fill \in Int /\ held \in Int /\ TRUE \in BOOLEAN
  BY DEF TypeOK, Memory
<1>2. \A f \in Fills(mem[c].fill, TRUE) : f \in Int /\ mem[c].fill <= f /\ f < 0
  BY <1>1, FillsWithin
<1>3. UNCHANGED <<docs, pos, guards>>
  BY DEF Sell, SellConvert
<1>4. CASE \E f \in Fills(mem[c].fill, TRUE) :
              held' = held + f /\ mem' = [mem EXCEPT ![c].fill = f] /\ Go(c, "sold")
              /\ UNCHANGED exiting
  <2>1. PICK f \in Fills(mem[c].fill, TRUE) :
           held' = held + f /\ mem' = [mem EXCEPT ![c].fill = f] /\ Go(c, "sold") /\ UNCHANGED exiting
    BY <1>4
  <2>2. f \in Int /\ mem[c].fill <= f /\ f < 0
    BY <1>2
  <2>3. pc'[c] = "sold"
    BY <2>1, Goes
  <2>4. Sold(c, f)
    BY <2>1, <2>2, <2>3 DEF Sold
  <2> QED
    BY <1>3, <2>2, <2>4
<1>5. CASE held' = held /\ \/ Go(c, "sellConvert") /\ UNCHANGED <<mem, exiting>>
                           \/ ExitOver(c, "failed")
  <2>1. Sold(c, 0)
    BY <1>1, <1>5, Goes DEF Sold
  <2> QED
    BY <1>1, <1>3, <2>1
<1>6. CASE \E f \in UnknownFills(mem[c].fill, TRUE) \cup LostFills(mem[c].fill, TRUE, "quote") :
              held' = held + f /\ ExitOver(c, "failed")
  <2>1. PICK f \in UnknownFills(mem[c].fill, TRUE) \cup LostFills(mem[c].fill, TRUE, "quote") :
           held' = held + f /\ ExitOver(c, "failed")
    BY <1>6
  <2>2. Astray /\ f \in Int /\ mem[c].fill <= f /\ f <= 0
    <3>1. Astray /\ (f \in Fills(mem[c].fill, TRUE) \/ f = 0)
      BY <2>1, LostAstray
    <3>2. CASE f = 0
      BY <1>1, <3>1, <3>2
    <3>3. CASE f \in Fills(mem[c].fill, TRUE)
      <4>1. f \in Int /\ mem[c].fill <= f /\ f < 0
        BY <1>2, <3>3
      <4> QED
        BY <3>1, <4>1
    <3> QED
      BY <3>1, <3>2, <3>3
  <2> QED
    BY <1>3, <2>1, <2>2 DEF Sold
<1> QED
  BY <1>4, <1>5, <1>6 DEF Sell, SellConvert, OrderFilled

\* A call whose exit is over does not act.
LEMMA OverIsOver ==
  ASSUME TypeOK, KindPaths, NEW c \in Calls, NEW l \in {"failed", "verify"},
         ExitOver(c, l), pc[c] \in Selling, scene' = scene
  PROVE  ~Acting(c)' /\ pc'[c] \in {"done", "failed", "verify"}
<1>1. scene.kind[c] # "entry"
  BY KindOf
<1> QED
  BY <1>1, ExitOverGoes DEF Acting, Selling

\* The exits of the engine and the monitor.
LEMMA SellerKeeps ==
  ASSUME General, General', EngineScene, EngineInv, NEW c \in Calls, Step(c), Exit(c)
  PROVE  EngineInv'
<1> USE DEF General, IInv
<1>0. /\ TypeOK /\ TypeOK' /\ scene' = scene /\ mem \in [Calls -> Memory] /\ mem[c] \in Memory
      /\ scene.kind[c] # "entry" /\ pos \in Position
      /\ BlockAt(c) /\ SellerAt(c) /\ Followed
      /\ \A b \in Calls \ {c} : pc'[b] = pc[b] /\ mem'[b] = mem[b]
  <2>1. scene.kind[c] # "entry"
    BY KindOf DEF Exit, ExitSkipped, ExitCall, ExitsHere, Starts, CapSell, Sell, SellConvert,
                  ExitTrim, TrimSave, ExitClaim, ExitRemove, Selling
  <2> QED
    BY <2>1, StepLeads, StepApart DEF Leads, TypeOK, EngineInv
<1>1. mem[c].qty \in Int /\ mem[c].fill \in Int /\ mem[c].doc \in Docs \cup {NoDoc} /\ pos.qty \in Int
  BY <1>0 DEF Memory, Position
<1>2. ASSUME pc[c] \in Selling
      PROVE  /\ exiting /\ pos # NoPos /\ pos.doc = mem[c].doc /\ pos.doc \in Docs /\ pos.qty > 0
             /\ ~blocked /\ FitsAt(c) /\ \A b \in Calls \ {c} : ~Acting(b)
  <2>1. \A b \in Calls \ {c} : ~Acting(b)
    BY <1>2, ActsAlone DEF Acting
  <2>2. exiting /\ pos # NoPos /\ pos.doc = mem[c].doc /\ ~blocked
    BY <1>0, <1>2 DEF SellerAt, BlockAt
  <2>3. \A b \in Calls \ {c} : pc[b] # "remove"
    BY <2>1 DEF Acting, Selling
  <2> QED
    BY <1>0, <2>1, <2>2, <2>3 DEF Followed, FitsAt
<1>3. ASSUME pc[c] \in Selling, pos' # NoPos => ~blocked', SellerAt(c)', FitsAt(c)',
             blocked' => pos' = NoPos
      PROVE  EngineInv'
  <2>1. EntrantAt(c)'
    BY <1>0 DEF EntrantAt
  <2>2. BlockAt(c)'
    <3>1. pc'[c] \notin {"send", "query", "filled", "install"}
      BY <1>0, EngineLabels, StepPaths DEF Labels, EngineScene, KindsIn, Selling
    <3> QED
      BY <1>3, <3>1 DEF BlockAt
  <2> QED
    BY <1>2, <1>3, <2>1, <2>2, ActorKeeps
<1>4. CASE ExitSkipped(c)
  <2>1. /\ pc[c] \in {"idle", "call"} /\ pc'[c] \in {"verify", "done"}
        /\ UNCHANGED <<docs, held, pos, mem, exiting, guards>>
    BY <1>0, <1>4, Goes DEF ExitSkipped, ExitsHere, Starts, flags
  <2>2. Still(c)
    BY <1>0, <2>1 DEF Still, Acting, Selling
  <2> QED
    BY <2>2, StillKeeps
<1>5. CASE ExitCall(c)
  <2>1. \A b \in Calls \ {c} : ~Acting(b)
    BY <1>5, ActsAlone
  <2>2. /\ pos # NoPos /\ pc[c] \in {"idle", "call"} /\ pc'[c] \in {"cap", "sell"}
        /\ mem' = [mem EXCEPT ![c].doc = pos.doc, ![c].qty = pos.qty, ![c].fill = -Wanted(c)]
        /\ UNCHANGED <<docs, pos, guards>> /\ exiting' = TRUE
    BY <1>0, <1>5, Goes DEF ExitCall, ExitsHere, Starts
  <2>3. /\ mem'[c].doc = pos.doc /\ mem'[c].qty = pos.qty /\ mem'[c].fill = -Wanted(c)
    BY <1>0, <2>2 DEF Memory
  <2>4. \A b \in Calls : pc[b] # "remove"
    BY <2>1, <2>2 DEF Acting, Selling
  <2>5. pos.qty > 0 /\ pos.doc \in Docs /\ Open = {pos.doc} /\ pos.qty <= docs[pos.doc].qty
    BY <1>0, <2>2, <2>4 DEF Followed
  <2>6. Wanted(c) \in Int /\ 0 < Wanted(c) /\ Wanted(c) <= pos.qty
    BY <1>1, <2>5 DEF Wanted
  <2>7. Open' = Open /\ ~blocked /\ blocked' = blocked
    BY <1>0, <2>2 DEF Open, BlockAt, guards
  <2>8. SellerAt(c)'
    BY <1>1, <2>2, <2>3, <2>6, <2>7 DEF SellerAt
  <2>9. FitsAt(c)'
    BY <2>2, <2>5, <2>7 DEF FitsAt
  <2>10. EntrantAt(c)' /\ BlockAt(c)'
    BY <1>0, <2>2, <2>7 DEF EntrantAt, BlockAt
  <2> QED
    BY <2>1, <2>8, <2>9, <2>10, ActorKeeps
<1>6. CASE CapSell(c)
  <2>1. pc[c] = "cap" /\ UNCHANGED <<held, docs, pos, guards>>
    BY <1>6 DEF CapSell
  <2>2. mem[c].qty = pos.qty /\ -mem[c].qty <= mem[c].fill /\ mem[c].fill < 0
    BY <1>0, <2>1 DEF SellerAt, Selling
  <2>3. Open' = Open /\ blocked' = blocked /\ FitsAt(c)
    BY <1>2, <2>1 DEF Open, guards, Selling
  <2>4. CASE ExitOver(c, "failed")
    <3>1. ~Acting(c)' /\ pc'[c] \in {"done", "failed"}
      BY <1>0, <2>1, <2>4, OverIsOver, ExitOverGoes DEF Selling
    <3> QED
      BY <1>2, <1>3, <2>1, <2>3, <3>1 DEF SellerAt, FitsAt, Selling
  <2>5. CASE Go(c, "sell") /\ UNCHANGED <<mem, exiting>>
    BY <1>0, <1>2, <1>3, <2>1, <2>2, <2>3, <2>5, Goes DEF SellerAt, FitsAt, Selling
  <2>6. CASE /\ held + Spare > 0 /\ Go(c, "sell") /\ UNCHANGED exiting
             /\ mem' = [mem EXCEPT ![c].fill = -Least({held + Spare, -mem[c].fill})]
    <3>1. held + Spare \in Int /\ -mem[c].fill \in Int
      BY <1>0, <1>1, LiveAssumption DEF TypeOK
    <3>2. PICK m \in Int : m = Least({held + Spare, -mem[c].fill}) /\ 0 < m /\ m <= -mem[c].fill
      <4>1. PICK m \in Int : m = Least({held + Spare, -mem[c].fill})
        BY <3>1, LeastOfTwo
      <4>2. m \in {held + Spare, -mem[c].fill} /\ m <= -mem[c].fill
        BY <3>1, <4>1, LeastOfTwo
      <4> QED
        BY <1>1, <2>2, <2>6, <3>1, <4>1, <4>2
    <3>3. mem'[c].fill = -m /\ mem'[c].qty = mem[c].qty /\ mem'[c].doc = mem[c].doc
      BY <1>0, <2>6, <3>2 DEF Memory
    <3>4. SellerAt(c)'
      BY <1>0, <1>1, <1>2, <2>1, <2>2, <2>6, <3>2, <3>3, Goes DEF SellerAt, Selling
    <3> QED
      BY <1>0, <1>2, <1>3, <2>1, <2>3, <2>6, <3>4, Goes DEF FitsAt, Selling
  <2> QED
    BY <1>6, <2>4, <2>5, <2>6 DEF CapSell
<1>7. CASE Sell(c) \/ SellConvert(c)
  <2>1. pc[c] \in {"sell", "sellConvert"}
    BY <1>7 DEF Sell, SellConvert
  <2>2. mem[c].qty = pos.qty /\ -mem[c].qty <= mem[c].fill /\ mem[c].fill < 0
    BY <1>0, <2>1 DEF SellerAt, Selling
  <2>3. UNCHANGED <<docs, pos, guards>> /\ \E f \in Int : mem[c].fill <= f /\ f <= 0 /\ Sold(c, f)
    BY <1>0, <1>7, <2>2, SellFills
  <2>4. PICK f \in Int : mem[c].fill <= f /\ f <= 0 /\ Sold(c, f)
    BY <2>3
  <2>5. Open' = Open /\ blocked' = blocked /\ FitsAt(c)
    BY <1>2, <2>1, <2>3 DEF Open, guards, Selling
  <2>6. CASE f < 0 /\ pc'[c] = "sold" /\ mem' = [mem EXCEPT ![c].fill = f] /\ exiting' = exiting
    <3>1. mem'[c].fill = f /\ mem'[c].qty = mem[c].qty /\ mem'[c].doc = mem[c].doc
      BY <1>0, <2>6 DEF Memory
    <3>2. SellerAt(c)'
      BY <1>1, <1>2, <2>1, <2>2, <2>3, <2>4, <2>6, <3>1 DEF SellerAt, Selling
    <3> QED
      BY <1>2, <1>3, <2>1, <2>3, <2>5, <2>6, <3>2 DEF FitsAt, Selling
  <2>7. CASE pc'[c] = "sellConvert" /\ mem' = mem /\ exiting' = exiting
    BY <1>2, <1>3, <2>1, <2>2, <2>3, <2>5, <2>7 DEF SellerAt, FitsAt, Selling
  <2>8. CASE ExitOver(c, "failed")
    <3>1. ~Acting(c)' /\ pc'[c] \in {"done", "failed"}
      BY <1>0, <2>1, <2>8, OverIsOver, ExitOverGoes DEF Selling
    <3> QED
      BY <1>2, <1>3, <2>1, <2>3, <2>5, <3>1 DEF SellerAt, FitsAt, Selling
  <2> QED
    BY <2>4, <2>6, <2>7, <2>8 DEF Sold
<1>8. CASE ExitTrim(c)
  <2>1. /\ pc[c] = "sold" /\ Rest(c) > 0 /\ pos' = [doc |-> mem[c].doc, qty |-> Rest(c)]
        /\ pc'[c] = "trimSave" /\ UNCHANGED <<docs, mem, guards, exiting>>
    BY <1>0, <1>8, Goes DEF ExitTrim, flags
  <2>2. mem[c].qty = pos.qty /\ -mem[c].qty <= mem[c].fill /\ mem[c].fill < 0
    BY <1>0, <2>1 DEF SellerAt, Selling
  <2>3. /\ Open = {pos.doc} /\ pos.qty <= docs[pos.doc].qty /\ pos.doc = mem[c].doc
        /\ docs[pos.doc].qty \in Int /\ pos.doc \in Docs /\ exiting
    BY <1>0, <1>2, <2>1 DEF FitsAt, Selling, TypeOK, Document
  <2>4. Rest(c)' = Rest(c) /\ Rest(c) \in Int /\ Rest(c) < pos.qty
    BY <1>1, <2>1, <2>2 DEF Rest
  <2>5. Open' = Open /\ blocked' = blocked /\ pos' # NoPos /\ NoDoc \notin Docs
    BY <2>1, <2>3, DocsAreNats DEF Open, guards, NoPos
  <2>6. SellerAt(c)'
    BY <2>1, <2>2, <2>3, <2>4, <2>5 DEF SellerAt
  <2>7. FitsAt(c)'
    BY <1>1, <2>1, <2>2, <2>3, <2>4, <2>5 DEF FitsAt
  <2> QED
    BY <1>2, <1>3, <2>1, <2>5, <2>6, <2>7 DEF Selling
<1>9. CASE TrimSave(c)
  <2>1. pc[c] = "trimSave" /\ UNCHANGED <<pos, guards>>
    BY <1>9 DEF TrimSave
  <2>2. /\ Open = {pos.doc} /\ pos.qty <= docs[pos.doc].qty /\ pos.doc = mem[c].doc
        /\ pos.doc \in Docs /\ pos.qty = Rest(c) /\ pos # NoPos /\ pos.qty > 0 /\ ~blocked
    BY <1>0, <1>2, <2>1 DEF FitsAt, SellerAt, Selling
  <2>3. ExitOver(c, "verify") \/ ExitOver(c, "failed")
    BY <1>9 DEF TrimSave
  <2>4. ~Acting(c)' /\ pc'[c] \in {"done", "failed", "verify"}
    BY <1>0, <2>1, <2>3, OverIsOver DEF Selling
  <2>5. Open' = Open /\ pos.qty <= docs'[pos.doc].qty
    <3>1. CASE docs' = docs
      BY <2>2, <3>1 DEF Open
    <3>2. CASE docs' = [docs EXCEPT ![mem[c].doc].qty = Rest(c)]
      <4>1. docs \in [Docs -> Document]
        BY <1>0 DEF TypeOK
      <4>2. docs'[pos.doc].qty = pos.qty
        BY <2>2, <3>2, <4>1 DEF Document
      <4>3. \A d \in Docs : docs'[d].status = docs[d].status
        BY <2>2, <3>2, <4>1 DEF Document
      <4> QED
        BY <1>1, <4>2, <4>3 DEF Open
    <3> QED
      BY <1>9, <3>1, <3>2 DEF TrimSave
  <2> QED
    BY <1>3, <2>1, <2>2, <2>4, <2>5 DEF SellerAt, FitsAt, Selling, guards
<1>10. CASE ExitClaim(c)
  <2>1. pc[c] = "sold" /\ UNCHANGED <<pos, guards>>
    BY <1>10 DEF ExitClaim
  <2>2. /\ Open = {pos.doc} /\ pos.qty <= docs[pos.doc].qty /\ pos.doc = mem[c].doc
        /\ pos.doc \in Docs /\ pos # NoPos /\ pos.qty > 0 /\ ~blocked /\ exiting
    BY <1>0, <1>2, <2>1 DEF FitsAt, Selling
  <2>3. CASE ExitOver(c, "failed") /\ docs' = docs
    <3>1. ~Acting(c)' /\ pc'[c] \in {"done", "failed", "verify"} /\ Open' = Open
      BY <1>0, <2>1, <2>3, OverIsOver DEF Selling, Open
    <3> QED
      BY <1>3, <2>1, <2>2, <2>3, <3>1 DEF SellerAt, FitsAt, Selling, guards
  <2>4. CASE /\ docs' = IF mem[c].doc \in Open THEN [docs EXCEPT ![mem[c].doc].status = "CLOSED"]
                        ELSE docs
             /\ mem' = [mem EXCEPT ![c].fill = 0] /\ Go(c, "remove") /\ UNCHANGED exiting
    <3>1. docs' = [docs EXCEPT ![pos.doc].status = "CLOSED"]
      BY <2>2, <2>4
    <3>2. Open' = {}
      BY <1>0, <2>2, <3>1 DEF Open, TypeOK, Document
    <3>3. pc'[c] = "remove" /\ mem'[c].doc = mem[c].doc
      BY <1>0, <2>4, Goes DEF Memory
    <3> QED
      BY <1>3, <2>1, <2>2, <2>4, <3>2, <3>3 DEF SellerAt, FitsAt, Selling, guards
  <2> QED
    BY <1>10, <2>3, <2>4 DEF ExitClaim
<1>11. CASE ExitRemove(c)
  <2>1. pc[c] = "remove" /\ pos' = NoPos /\ ExitOver(c, "verify")
    BY <1>11 DEF ExitRemove
  <2>2. ~Acting(c)' /\ pc'[c] \in {"done", "verify"}
    BY <1>0, <2>1, OverIsOver, ExitOverGoes DEF Selling
  <2> QED
    BY <1>3, <2>1, <2>2 DEF SellerAt, FitsAt, Selling
<1> QED
  BY <1>4, <1>5, <1>6, <1>7, <1>8, <1>9, <1>10, <1>11 DEF Exit

\* A step of the engine is one of the entry, of an exit, or changes nothing here.
LEMMA EngineSteps ==
  ASSUME General, EngineScene, NEW c \in Calls, Step(c)
  PROVE  scene.kind[c] = "entry" \/ Exit(c) \/ Still(c)
<1>1. CASE scene.kind[c] = "entry" \/ Exit(c)
  BY <1>1
<1>2. CASE scene.kind[c] \in {"monitor", "clear"} /\ ~Exit(c)
  <2>1. (scene.kind[c] = "monitor" /\ Monitor(c)) \/ Clear(c)
    BY <1>2, StepOfKind DEF General, IInv
  <2>2. /\ UNCHANGED <<docs, held, pos, mem, exiting>>
        /\ UNCHANGED guards \/ Clear(c)
    BY <2>1 DEF Monitor, MonitorStart, MonitorTick, Verify, Clear, flags
  <2>3. pc[c] \in {"idle", "tick", "verify", "failed"}
    BY <2>1 DEF Monitor, MonitorStart, MonitorTick, Verify, Clear, Starts
  <2>4. pc'[c] \in {"idle", "tick", "call", "done"}
    BY <2>1, Goes DEF Monitor, MonitorStart, MonitorTick, Verify, Clear, General, IInv
  <2>5. scene' = scene
    BY StepLeads DEF Leads, General, IInv
  <2> QED
    BY <1>2, <2>2, <2>3, <2>4, <2>5 DEF Still, Acting, Selling
<1> QED
  BY <1>1, <1>2, StepOfKind DEF EngineScene, KindsIn, General, IInv

LEMMA EngineKeeps ==
  General /\ General' /\ EngineScene /\ EngineInv /\ [Next]_vars => EngineInv'
<1> SUFFICES ASSUME General, General', EngineScene, EngineInv, [Next]_vars PROVE EngineInv'
  OBVIOUS
<1>1. ASSUME NEW c \in Calls, Step(c) PROVE EngineInv'
  BY <1>1, EngineSteps, EntrantKeeps, SellerKeeps, StillKeeps
<1>2. CASE RetryDue \/ UNCHANGED vars
  BY <1>2 DEF RetryDue, vars, EngineInv, OneActs, Acting, Busy, SellerAt, EntrantAt, BlockAt,
              Followed, Open, Written, Rest, guards, flags
<1>3. ~Restart
  BY DEF Restart, EngineScene
<1> QED
  BY <1>1, <1>2, <1>3 DEF Next

-----------------------------------------------------------------------------
(* No more is held than the position of the map says.                      *)

Above ==
    /\ pos # NoPos => held <= pos.qty
    /\ \A c \in Calls : /\ pc[c] = "sold" => held <= Rest(c)
                        /\ pc[c] = "remove" => held <= 0
    /\ pos = NoPos => Covered

\* A position whose lots are no more than the map says hides none.
LEMMA AboveCovers ==
  General /\ EngineScene /\ EngineInv /\ Above => Covered
<1> SUFFICES ASSUME General, EngineScene, EngineInv, Above, pos # NoPos PROVE Covered
  BY DEF Above
<1> USE DEF General, IInv
<1>1. /\ pos.qty > 0 /\ pos.doc \in Docs /\ held <= pos.qty /\ held \in Int /\ pos.qty \in Int
      /\ Recorded \in Int /\ InHands \in Int
  BY SumsTyped DEF EngineInv, Followed, Above, TypeOK, Position
<1>2. \A b \in Calls : ~Acting(b) => InHand(b) = 0
  BY EngineLabels
<1>3. ASSUME Open = {pos.doc}
      PROVE  Recorded = docs[pos.doc].qty /\ docs[pos.doc].qty \in Int
  BY <1>1, <1>3, RecordedOne DEF Lots, Open, TypeOK, Document
<1>4. CASE \E c \in Calls : Acting(c)
  <2>1. PICK c \in Calls : Acting(c)
    BY <1>4
  <2>2. InHands = InHand(c)
    <3>1. \A b \in Calls \ {c} : ~Acting(b)
      BY <2>1 DEF EngineInv, OneActs
    <3> QED
      BY <1>2, <3>1, HandsOne
  <2>3. pc[c] \in Selling
    BY <2>1 DEF Acting, EngineInv, EntrantAt
  <2>4. /\ mem[c].fill \in Int /\ mem[c].qty \in Int /\ SellerAt(c) /\ pos.doc = mem[c].doc
        /\ Written(c) = {}
    <3>1. Written(c) = {}
      BY <2>3, NothingWritten DEF Selling
    <3> QED
      BY <2>3, <3>1 DEF EngineInv, SellerAt, TypeOK, Memory
  <2>5. \A b \in Calls \ {c} : pc[b] # "remove"
    BY <2>1 DEF EngineInv, OneActs, Acting, Selling
  <2>6. CASE pc[c] = "remove"
    <3>1. Open = {} /\ held <= 0
      BY <2>4, <2>6 DEF SellerAt, Selling, Above
    <3>2. Recorded = Lots(pos.doc) /\ Lots(pos.doc) = 0
      BY <1>1, <3>1, RecordedOne DEF Lots, Open
    <3> QED
      BY <1>1, <2>2, <2>6, <3>1, <3>2 DEF Covered, InHand
  <2>7. CASE pc[c] # "remove"
    <3>1. Open = {pos.doc} /\ pos.qty <= docs[pos.doc].qty
      BY <2>5, <2>7 DEF EngineInv, Followed
    <3>2. Recorded = docs[pos.doc].qty
      BY <1>3, <3>1
    <3>3. CASE pc[c] = "sold"
      <4>1. mem[c].qty = pos.qty /\ held <= Rest(c)
        BY <2>4, <3>3 DEF SellerAt, Selling, Above
      <4>2. InHand(c) = mem[c].fill
        BY <2>4, <3>3 DEF InHand
      <4> QED
        BY <1>1, <1>3, <2>2, <2>4, <3>1, <3>2, <4>1, <4>2 DEF Covered, Rest
    <3>4. CASE pc[c] = "trimSave"
      <4>1. pos.qty = Rest(c) /\ docs[pos.doc].qty >= mem[c].qty
        BY <2>4, <3>4 DEF SellerAt, Selling
      <4>2. InHand(c) = mem[c].fill
        BY <2>4, <3>4 DEF InHand
      <4> QED
        BY <1>1, <1>3, <2>2, <2>4, <3>1, <3>2, <4>1, <4>2 DEF Covered, Rest
    <3>5. CASE pc[c] \in {"cap", "sell", "sellConvert"}
      <4>1. InHand(c) = 0
        BY <3>5, NothingInHand
      <4> QED
        BY <1>1, <1>3, <2>2, <3>1, <3>2, <4>1 DEF Covered
    <3> QED
      BY <2>3, <2>7, <3>3, <3>4, <3>5 DEF Selling
  <2> QED
    BY <2>6, <2>7
<1>5. CASE \A c \in Calls : ~Acting(c)
  <2>1. InHands = 0
    BY <1>2, <1>5, HandsEmpty DEF HandsNone
  <2>2. Open = {pos.doc} /\ pos.qty <= docs[pos.doc].qty
    BY <1>5 DEF EngineInv, Followed, Acting, Selling
  <2> QED
    BY <1>1, <1>3, <2>1, <2>2 DEF Covered
<1> QED
  BY <1>4, <1>5

\* The entry puts into the map what it has bought.
LEMMA EntrantAbove ==
  ASSUME General, General', ~Unnoticed, EngineScene, EngineInv, Above, NEW c \in Calls, Step(c),
         scene.kind[c] = "entry", pos = NoPos
  PROVE  Above'
<1> USE DEF General, IInv
<1>0. /\ TypeOK /\ TypeOK' /\ mem[c] \in Memory /\ Covered
      /\ \A b \in Calls \ {c} : pc'[b] = pc[b]
  BY StepApart DEF Above, TypeOK
<1>1. \A b \in Calls : pc[b] \notin Selling
  BY DEF EngineInv, SellerAt
<1>2. \A b \in Calls : pc'[b] \notin {"sold", "remove"}
  <2>1. pc'[c] \notin Selling
    BY StepPaths DEF Labels, Selling
  <2> QED
    BY <1>0, <1>1, <2>1 DEF Selling
<1>3. Covered'
  BY <1>0, EntryCovered
<1>4. CASE EntryInstall(c)
  <2>1. /\ pc[c] = "install" /\ pos' = [doc |-> mem[c].doc, qty |-> mem[c].fill]
        /\ UNCHANGED <<held, docs>>
        /\ Open = {mem[c].doc} /\ docs[mem[c].doc].qty = mem[c].fill /\ ~blocked
    BY <1>4 DEF EntryInstall, EngineInv, EntrantAt, BlockAt, Busy
  <2>2. \A b \in Calls \ {c} : ~Acting(b)
    BY <1>4, <2>1, ActsAlone DEF Acting, EntryInstall, Busy
  <2>3. \A b \in Calls : InHand(b) = 0
    BY <2>1, <2>2, EngineLabels, NothingInHand
  <2>4. Recorded = mem[c].fill
    <3>1. mem[c].doc \in Docs /\ docs[mem[c].doc].status = "OPEN"
      BY <2>1 DEF Open
    <3> QED
      BY <2>1, <3>1, RecordedOne DEF Lots
  <2>5. held \in Int /\ mem[c].fill \in Int
    BY <1>0 DEF TypeOK, Memory
  <2>6. held <= mem[c].fill
    BY <1>0, <2>1, <2>3, <2>4, <2>5, HandsEmpty DEF Covered, HandsNone
  <2> QED
    BY <1>2, <1>3, <2>1, <2>6 DEF Above
<1>5. CASE ~EntryInstall(c)
  <2>1. pos' = pos
    BY <1>5, StepOfKind DEF EntryCall, EntryCheck, NotBlocked, Send, Query, EntryRecord
  <2> QED
    BY <1>2, <1>3, <2>1 DEF Above
<1> QED
  BY <1>4, <1>5

\* An exit sells, and takes from the position what it sold.
LEMMA SellerAbove ==
  ASSUME General, General', EngineScene, EngineInv, EngineInv', Above, NEW c \in Calls,
         Step(c), Exit(c), ~Still(c)
  PROVE  Above'
<1> USE DEF General, IInv
<1>0. /\ TypeOK /\ TypeOK' /\ scene' = scene /\ mem \in [Calls -> Memory] /\ mem[c] \in Memory
      /\ mem[c].qty \in Int /\ mem[c].fill \in Int /\ held \in Int /\ pos \in Position
      /\ pos.qty \in Int /\ scene.kind[c] # "entry"
      /\ \A b \in Calls \ {c} : pc'[b] = pc[b] /\ mem'[b] = mem[b]
  <2>1. scene.kind[c] # "entry"
    BY KindOf DEF Exit, ExitSkipped, ExitCall, ExitsHere, Starts, CapSell, Sell, SellConvert,
                  ExitTrim, TrimSave, ExitClaim, ExitRemove, Selling
  <2> QED
    BY <2>1, StepLeads, StepApart DEF Leads, TypeOK, Memory, Position
<1>1. ~ExitSkipped(c) /\ (Acting(c) \/ ExitCall(c))
  <2>1. CASE ExitSkipped(c)
    <3>1. /\ pc[c] \in {"idle", "call"} /\ pc'[c] \in {"verify", "done"}
          /\ UNCHANGED <<docs, held, pos, mem, exiting, guards>>
      BY <1>0, <2>1, Goes DEF ExitSkipped, ExitsHere, Starts, flags
    <3> QED
      BY <1>0, <3>1 DEF Still, Acting, Selling
  <2>2. CASE ~ExitSkipped(c)
    BY <2>2 DEF Exit, CapSell, Sell, SellConvert, ExitTrim, TrimSave, ExitClaim, ExitRemove,
                Acting, Selling
  <2> QED
    BY <2>1, <2>2
<1>2. \A b \in Calls \ {c} : pc'[b] \notin {"sold", "remove"} /\ InHand(b)' = 0
  <2>1. \A b \in Calls \ {c} : ~Acting(b)
    BY <1>1, ActsAlone
  <2>2. \A b \in Calls \ {c} : InHand(b) = 0
    BY <2>1, EngineLabels
  <2> QED
    BY <1>0, <2>1, <2>2, OthersHands DEF Acting, Selling
<1>3. pos # NoPos /\ held <= pos.qty /\ pos.qty > 0
  <2>1. pos # NoPos
    BY <1>0, <1>1 DEF Acting, ExitCall, EngineInv, SellerAt
  <2> QED
    BY <2>1 DEF EngineInv, Above, Followed
<1>over. ASSUME NEW l \in {"failed", "verify"}, ExitOver(c, l)
        PROVE  pc'[c] \in {"failed", "verify", "done"}
  BY <1>0, <1>over, ExitOverGoes
<1>4. ASSUME pos' # NoPos, held' <= pos'.qty, pc'[c] = "sold" => held' <= Rest(c)',
             pc'[c] = "remove" => held' <= 0
      PROVE  Above'
  BY <1>2, <1>4 DEF Above
<1>5. CASE ExitCall(c)
  BY <1>0, <1>3, <1>4, <1>5, Goes DEF ExitCall
<1>6. CASE CapSell(c)
  <2>1. pc'[c] \in {"sell", "failed", "done"}
    BY <1>0, <1>6, Goes, ExitOverGoes DEF CapSell
  <2> QED
    BY <1>3, <1>4, <1>6, <2>1 DEF CapSell
<1>7. CASE Sell(c) \/ SellConvert(c)
  <2>1. mem[c].qty = pos.qty /\ mem[c].fill < 0
    BY <1>7 DEF Sell, SellConvert, EngineInv, SellerAt, Selling
  <2>2. pos' = pos /\ \E f \in Int : mem[c].fill <= f /\ f <= 0 /\ Sold(c, f)
    BY <1>0, <1>7, <2>1, SellFills
  <2>3. PICK f \in Int : mem[c].fill <= f /\ f <= 0 /\ Sold(c, f)
    BY <2>2
  <2>4. held' = held + f /\ held' <= pos.qty
    BY <1>0, <1>3, <2>3 DEF Sold
  <2>5. CASE pc'[c] = "sold" /\ mem' = [mem EXCEPT ![c].fill = f]
    <3>1. mem'[c].fill = f /\ mem'[c].qty = pos.qty
      BY <1>0, <2>1, <2>5 DEF Memory
    <3>2. Rest(c)' = pos.qty + f
      BY <3>1 DEF Rest
    <3> QED
      BY <1>0, <1>3, <1>4, <2>2, <2>4, <2>5, <3>2
  <2>6. CASE pc'[c] # "sold"
    <3>1. pc'[c] # "remove"
      BY <1>0, <2>3, <2>6, <1>over DEF Sold
    <3> QED
      BY <1>3, <1>4, <2>2, <2>4, <2>6, <3>1
  <2>7. pc'[c] # "sold" \/ mem' = [mem EXCEPT ![c].fill = f]
    BY <2>3, <1>over DEF Sold
  <2> QED
    BY <2>5, <2>6, <2>7
<1>8. CASE ExitTrim(c)
  <2>1. /\ pc[c] = "sold" /\ Rest(c) > 0 /\ pos' = [doc |-> mem[c].doc, qty |-> Rest(c)]
        /\ pc'[c] = "trimSave" /\ UNCHANGED held
    BY <1>0, <1>8, Goes DEF ExitTrim
  <2>2. held <= Rest(c)
    BY <2>1 DEF Above
  <2>3. pos' # NoPos
    BY <2>1 DEF NoPos
  <2> QED
    BY <1>4, <2>1, <2>2, <2>3
<1>9. CASE TrimSave(c)
  <2>1. pc'[c] \in {"verify", "failed", "done"}
    BY <1>0, <1>9, ExitOverGoes DEF TrimSave
  <2> QED
    BY <1>3, <1>4, <1>9, <2>1 DEF TrimSave
<1>10. CASE ExitClaim(c)
  <2>1. pc[c] = "sold" /\ Rest(c) <= 0 /\ UNCHANGED <<held, pos>> /\ Rest(c) \in Int
    BY <1>0, <1>10 DEF ExitClaim, Rest
  <2>2. held <= 0
    BY <1>0, <2>1 DEF Above
  <2>3. pc'[c] # "sold"
    BY <1>0, <1>10, Goes, <1>over DEF ExitClaim
  <2> QED
    BY <1>3, <1>4, <2>1, <2>2, <2>3
<1>11. CASE ExitRemove(c)
  <2>1. pc[c] = "remove" /\ pos' = NoPos /\ UNCHANGED <<held, docs>>
    BY <1>11 DEF ExitRemove
  <2>2. pc'[c] \in {"verify", "done"}
    BY <1>0, <1>11, ExitOverGoes DEF ExitRemove
  <2>3. held <= 0 /\ Open = {} /\ pos.doc \in Docs
    BY <1>3, <2>1 DEF Above, EngineInv, SellerAt, Selling, Followed
  <2>4. Recorded = Lots(pos.doc) /\ Lots(pos.doc) = 0
    BY <2>3, RecordedOne DEF Lots, Open
  <2>5. Recorded' = Recorded
    BY <2>1, RecordedSame
  <2>6. \A b \in Calls : InHand(b)' = 0
    BY <1>2, <2>2 DEF InHand
  <2>7. InHands' = 0
    <3>1. HandsNone'
      BY <2>6 DEF HandsNone
    <3>2. (InHands = 0)'
      BY <3>1, HandsEmpty, PTL
    <3> QED
      BY <3>2
  <2>8. Covered'
    BY <1>0, <2>1, <2>3, <2>4, <2>5, <2>7 DEF Covered
  <2> QED
    BY <1>2, <2>1, <2>2, <2>8 DEF Above
<1> QED
  BY <1>1, <1>5, <1>6, <1>7, <1>8, <1>9, <1>10, <1>11 DEF Exit

LEMMA AboveStill ==
  ASSUME General, General', EngineScene, EngineInv, Above, NEW c \in Calls, Step(c), Still(c)
  PROVE  Above'
<1>0. /\ \A b \in Calls \ {c} : pc'[b] = pc[b] /\ mem'[b] = mem[b]
      /\ pc'[c] \in {"idle", "done", "tick", "call", "verify", "failed"}
      /\ UNCHANGED <<docs, held, pos, mem>>
  BY StepApart, StillLeads DEF Still, General, IInv
<1>1. ASSUME pos = NoPos PROVE Covered'
  <2>1. CASE Clear(c)
    BY <2>1, ClearCovered
  <2>2. CASE UNCHANGED guards
    <3>1. InHand(c) = 0 /\ InHand(c)' = 0
      BY <1>0, EngineLabels DEF Still, InHand
    <3>2. Recorded' = Recorded /\ held' = held /\ blocked' = blocked
      BY <1>0, <2>2, RecordedSame DEF guards
    <3>3. Recorded \in Int /\ held \in Int
      BY SumsTyped DEF General, IInv, TypeOK
    <3> QED
      BY <1>1, <3>1, <3>2, <3>3, CoveredKept DEF Above
  <2> QED
    BY <2>1, <2>2 DEF Still
<1> QED
  BY <1>0, <1>1 DEF Above, Rest

LEMMA AboveKeeps ==
  General /\ General' /\ ~Unnoticed /\ EngineScene /\ EngineInv /\ EngineInv' /\ Above
  /\ [Next]_vars => Above'
<1> SUFFICES ASSUME General, General', ~Unnoticed, EngineScene, EngineInv, EngineInv', Above,
                    [Next]_vars
             PROVE  Above'
  OBVIOUS
<1>1. ASSUME NEW c \in Calls, Step(c) PROVE Above'
  <2>1. CASE scene.kind[c] = "entry"
    <3>1. CASE pos = NoPos
      BY <1>1, <2>1, <3>1, EntrantAbove
    <3>2. CASE pos # NoPos
      <4>1. EntryCall(c) /\ ~NothingOpen
        BY <1>1, <2>1, <3>2, StepOfKind
           DEF General, IInv, EngineInv, EntrantAt, EntryCheck, Send, Query, EntryRecord,
               EntryInstall, Busy, NothingOpen
      <4>2. Still(c)
        <5>1. pc[c] = "idle" /\ pc'[c] = "done" /\ scene' = scene
              /\ UNCHANGED <<docs, held, pos, mem, exiting, guards>>
          BY <4>1, Goes DEF EntryCall, Starts, flags, General, IInv
        <5> QED
          BY <5>1 DEF Still, Acting, Busy, Selling
      <4> QED
        BY <1>1, <4>2, AboveStill
    <3> QED
      BY <3>1, <3>2
  <2>2. CASE Still(c)
    BY <1>1, <2>2, AboveStill
  <2>3. CASE Exit(c) /\ ~Still(c)
    BY <1>1, <2>3, SellerAbove
  <2> QED
    BY <1>1, <2>1, <2>2, <2>3, EngineSteps
<1>2. CASE RetryDue \/ UNCHANGED vars
  BY <1>2 DEF RetryDue, vars, Above, Covered, Recorded, InHands, InHand, Written, Lots, Rest,
              guards, flags
<1>3. ~Restart
  BY DEF Restart, EngineScene
<1> QED
  BY <1>1, <1>2, <1>3 DEF Next

LEMMA EngineStarts == Init /\ General => EngineInv /\ Above
<1> SUFFICES ASSUME Init, General PROVE EngineInv /\ Above
  OBVIOUS
<1>1. /\ Open = IF scene.start > 0 THEN {1} ELSE {}
      /\ \A d \in Open : docs[d].qty = scene.start
      /\ Recorded = held /\ InHands = 0 /\ held = scene.start /\ held \in Nat
  BY StartsCovered DEF General, IInv
<1>2. Covered
  BY <1>1 DEF Covered
<1>3. /\ pos = IF scene.start > 0 THEN [doc |-> 1, qty |-> scene.start] ELSE NoPos
      /\ ~blocked /\ \A c \in Calls : pc[c] = "idle"
      /\ 1 \in Docs
  BY LiveAssumption DEF Init, Docs
<1>4. OneActs /\ \A c \in Calls : SellerAt(c) /\ EntrantAt(c) /\ BlockAt(c)
  BY <1>3 DEF OneActs, Acting, Busy, SellerAt, EntrantAt, BlockAt, Selling
<1>5. Followed /\ (pos # NoPos => held <= pos.qty)
  BY <1>1, <1>3 DEF Followed
<1> QED
  BY <1>2, <1>3, <1>4, <1>5 DEF EngineInv, Above

\* The engine, the monitor and the operator hide no lot.
EngineGuards == EngineScene => EngineInv /\ (Unnoticed \/ Above)

LEMMA EngineAlways == Spec => [](General /\ EngineGuards)
<1>1. Init /\ General => EngineGuards
  BY EngineStarts DEF EngineGuards
<1>2. General /\ General' /\ EngineGuards /\ [Next]_vars => EngineGuards'
  <2> SUFFICES ASSUME General, General', EngineGuards, [Next]_vars, EngineScene'
               PROVE  EngineInv' /\ (Unnoticed' \/ Above')
    BY DEF EngineGuards
  <2>1. EngineScene /\ (Unnoticed' <=> Unnoticed)
    BY SceneStays DEF EngineScene, KindsIn, Fault, Unnoticed
  <2> QED
    BY <2>1, EngineKeeps, AboveKeeps DEF EngineGuards
<1> QED
  BY <1>1, <1>2, AlwaysGeneral, PTL DEF Spec

-----------------------------------------------------------------------------
(* Nor less, if every exit gets its answer and books it.                   *)

Answered == ~Astray /\ ~Fault("save")

Below ==
    /\ held >= 0
    /\ \A c \in Calls : pc[c] = "sold" => held >= Rest(c)
    /\ pos # NoPos /\ (\A c \in Calls : pc[c] \notin {"sold", "remove"}) => held >= pos.qty
    /\ \A c \in Calls :
          scene.kind[c] = "entry" /\ pc[c] \in {"query", "filled", "install"} =>
              held >= mem[c].fill

\* What the order of an entry adds, and what its record leaves.
LEMMA EntryAdds ==
  ASSUME TypeOK, KindPaths, NEW c \in Calls, Step(c), scene.kind[c] = "entry"
  PROVE  \/ Send(c) /\ held' >= held /\ (pc'[c] = "done" \/ held' - held >= mem'[c].fill)
         \/ held' = held /\ \/ pc'[c] \in {"check", "send", "done"}
                            \/ mem'[c].fill = mem[c].fill /\ pc[c] \in {"query", "filled"}
<1>0. held \in Int /\ mem \in [Calls -> Memory] /\ mem[c] \in Memory
  BY DEF TypeOK
<1>1. CASE Send(c)
  <2>0. Amount(c) = 1
    BY DEF Amount
  <2>1. CASE pc'[c] = "done" /\ held' = held
    BY <1>0, <1>1, <2>1
  <2>3. CASE pc'[c] = "done" /\ \E f \in LostFills(1, FALSE, "http") : held' = held + f
    <3>1. PICK f \in LostFills(1, FALSE, "http") : held' = held + f
      BY <2>3
    <3>2. f \in Int /\ f >= 0
      BY BuyFills
    <3> QED
      BY <1>0, <1>1, <2>3, <3>1, <3>2
  <2>2. CASE \E f : /\ f \in Fills(1, FALSE) \cup LostFills(1, FALSE, "lost")
                    /\ held' = held + f /\ mem' = [mem EXCEPT ![c].fill = f]
    <3>1. PICK f : /\ f \in Fills(1, FALSE) \cup LostFills(1, FALSE, "lost")
                   /\ held' = held + f /\ mem' = [mem EXCEPT ![c].fill = f]
      BY <2>2
    <3>2. f \in Int /\ f >= 0
      <4>1. CASE f \in Fills(1, FALSE)
        <5>1. f \in Int /\ f > 0
          BY <4>1, BuyFills
        <5> QED
          BY <5>1
      <4>2. CASE f \in LostFills(1, FALSE, "lost")
        BY <4>2, BuyFills
      <4> QED
        BY <3>1, <4>1, <4>2
    <3>3. mem'[c].fill = f
      BY <1>0, <3>1 DEF Memory
    <3> QED
      BY <1>0, <1>1, <3>1, <3>2, <3>3
  <2> QED
    BY <1>1, <2>0, <2>1, <2>2, <2>3, Goes DEF Send, Refused, OrderFilled
<1>2. CASE Query(c)
  <2>1. pc[c] = "query" /\ held' = held /\ (pc'[c] = "done" \/ mem' = mem)
    BY <1>2, Ended DEF Query
  <2> QED
    BY <2>1
<1>3. CASE EntryRecord(c)
  <2>1. pc[c] = "filled" /\ held' = held /\ Record(c, "install")
    BY <1>3 DEF EntryRecord
  <2>2. \/ pc'[c] = "done"
        \/ \E d : mem' = [mem EXCEPT ![c].doc = d]
        \/ mem' = [mem EXCEPT ![c].tries = @ + 1]
    BY <2>1, Ended DEF Record
  <2> QED
    BY <1>0, <2>1, <2>2 DEF Memory
<1>4. CASE EntryCall(c) \/ EntryCheck(c) \/ EntryInstall(c)
  BY <1>4, Goes, Ended DEF EntryCall, EntryCheck, NotBlocked, EntryInstall
<1> QED
  BY <1>1, <1>2, <1>3, <1>4, StepOfKind

LEMMA EntrantBelow ==
  ASSUME General, General', EngineScene, EngineInv, Below, NEW c \in Calls, Step(c),
         scene.kind[c] = "entry", pos = NoPos
  PROVE  Below'
<1> USE DEF General, IInv
<1>0. /\ TypeOK /\ TypeOK' /\ scene' = scene /\ held \in Int /\ held' \in Int
      /\ mem[c] \in Memory /\ mem'[c] \in Memory /\ mem[c].fill \in Int /\ mem'[c].fill \in Int
      /\ \A b \in Calls \ {c} : pc'[b] = pc[b] /\ mem'[b] = mem[b]
  BY StepLeads, StepApart DEF Leads, TypeOK, Memory
<1>1. \A b \in Calls : pc[b] \notin Selling
  BY DEF EngineInv, SellerAt
<1>2. \A b \in Calls : pc'[b] \notin {"sold", "remove"}
  <2>1. pc'[c] \notin Selling
    BY StepPaths DEF Labels, Selling
  <2> QED
    BY <1>0, <1>1, <2>1 DEF Selling
<1>3. held >= 0 /\ (pc[c] \in {"query", "filled", "install"} => held >= mem[c].fill)
  BY DEF Below
<1>4. held' >= 0 /\ (pc'[c] \in {"query", "filled", "install"} => held' >= mem'[c].fill)
      /\ held' >= held
  BY <1>0, <1>3, EntryAdds
<1>5. \A b \in Calls \ {c} :
         scene.kind[b] = "entry" /\ pc'[b] \in {"query", "filled", "install"} =>
             held' >= mem'[b].fill
  <2>1. ASSUME NEW b \in Calls \ {c}, scene.kind[b] = "entry",
               pc'[b] \in {"query", "filled", "install"}
        PROVE  held' >= mem'[b].fill
    <3>1. held >= mem[b].fill /\ mem[b].fill \in Int
      BY <1>0, <2>1 DEF Below, TypeOK, Memory
    <3> QED
      BY <1>0, <1>4, <2>1, <3>1
  <2> QED
    BY <2>1
<1>6. pos' # NoPos => held' >= pos'.qty
  <2>1. CASE EntryInstall(c)
    <3>1. pos'.qty = mem[c].fill /\ held' = held /\ pc[c] = "install"
      BY <2>1 DEF EntryInstall
    <3> QED
      BY <1>3, <3>1
  <2>2. CASE ~EntryInstall(c)
    BY <2>2, StepOfKind DEF EntryCall, EntryCheck, NotBlocked, Send, Query, EntryRecord
  <2> QED
    BY <2>1, <2>2
<1> QED
  BY <1>0, <1>2, <1>4, <1>5, <1>6 DEF Below

LEMMA SellerBelow ==
  ASSUME General, General', EngineScene, Answered, EngineInv, Below, NEW c \in Calls,
         Step(c), Exit(c), ~Still(c)
  PROVE  Below'
<1> USE DEF General, IInv
<1>0. /\ TypeOK /\ TypeOK' /\ scene' = scene /\ mem \in [Calls -> Memory] /\ mem[c] \in Memory
      /\ mem[c].qty \in Int /\ mem[c].fill \in Int /\ held \in Int /\ pos \in Position
      /\ pos.qty \in Int /\ scene.kind[c] # "entry" /\ held >= 0
      /\ \A b \in Calls \ {c} : pc'[b] = pc[b] /\ mem'[b] = mem[b]
  <2>1. scene.kind[c] # "entry"
    BY KindOf DEF Exit, ExitSkipped, ExitCall, ExitsHere, Starts, CapSell, Sell, SellConvert,
                  ExitTrim, TrimSave, ExitClaim, ExitRemove, Selling
  <2> QED
    BY <2>1, StepLeads, StepApart DEF Leads, TypeOK, Memory, Position, Below
<1>1. ~ExitSkipped(c) /\ (Acting(c) \/ ExitCall(c))
  <2>1. CASE ExitSkipped(c)
    <3>1. /\ pc[c] \in {"idle", "call"} /\ pc'[c] \in {"verify", "done"}
          /\ UNCHANGED <<docs, held, pos, mem, exiting, guards>>
      BY <1>0, <2>1, Goes DEF ExitSkipped, ExitsHere, Starts, flags
    <3> QED
      BY <1>0, <3>1 DEF Still, Acting, Selling
  <2>2. CASE ~ExitSkipped(c)
    BY <2>2 DEF Exit, CapSell, Sell, SellConvert, ExitTrim, TrimSave, ExitClaim, ExitRemove,
                Acting, Selling
  <2> QED
    BY <2>1, <2>2
<1>2. \A b \in Calls \ {c} : ~Acting(b)
  BY <1>1, ActsAlone
<1>3. \A b \in Calls : scene.kind[b] = "entry" => pc'[b] \notin {"query", "filled", "install"}
  BY <1>0, <1>2 DEF Acting, Busy
<1>4. pos # NoPos /\ pos.qty > 0
  <2>1. pos # NoPos
    BY <1>0, <1>1 DEF Acting, ExitCall, EngineInv, SellerAt
  <2> QED
    BY <2>1 DEF EngineInv, Followed
<1>5. pc[c] \notin {"sold", "remove"} => held >= pos.qty
  <2>1. \A b \in Calls \ {c} : pc[b] \notin {"sold", "remove"}
    BY <1>2 DEF Acting, Selling
  <2> QED
    BY <1>4, <2>1 DEF Below
<1>6. ASSUME held' >= 0, pc'[c] = "sold" => held' >= Rest(c)',
             pos' # NoPos /\ pc'[c] \notin {"sold", "remove"} => held' >= pos'.qty
      PROVE  Below'
  BY <1>0, <1>2, <1>3, <1>6 DEF Below, Acting, Selling, Rest
<1>7. ASSUME NEW l \in {"failed", "verify"}, ExitOver(c, l)
      PROVE  pc'[c] \in {"failed", "verify", "done"}
  BY <1>0, <1>7, ExitOverGoes
<1>8. CASE ExitCall(c)
  <2>1. pc[c] \in {"idle", "call"} /\ pc'[c] \in {"cap", "sell"} /\ UNCHANGED <<held, pos>>
    BY <1>0, <1>8, Goes DEF ExitCall, ExitsHere, Starts
  <2> QED
    BY <1>0, <1>5, <1>6, <2>1
<1>9. CASE CapSell(c)
  <2>1. pc[c] = "cap" /\ pc'[c] \in {"sell", "failed", "verify", "done"} /\ UNCHANGED <<held, pos>>
    <3>1. pc[c] = "cap" /\ (Go(c, "sell") \/ ExitOver(c, "failed")) /\ UNCHANGED <<held, pos>>
      BY <1>9 DEF CapSell
    <3> QED
      <4>1. CASE Go(c, "sell")
        BY <1>0, <3>1, <4>1, Goes
      <4>2. CASE ExitOver(c, "failed")
        BY <1>7, <3>1, <4>2
      <4> QED
        BY <3>1, <4>1, <4>2
  <2> QED
    BY <1>0, <1>5, <1>6, <2>1
<1>10. CASE Sell(c) \/ SellConvert(c)
  <2>1. /\ mem[c].qty = pos.qty /\ -mem[c].qty <= mem[c].fill /\ mem[c].fill < 0
        /\ pc[c] \in {"sell", "sellConvert"}
    BY <1>10 DEF Sell, SellConvert, EngineInv, SellerAt, Selling
  <2>2. pos' = pos /\ \E f \in Int : mem[c].fill <= f /\ f <= 0 /\ Sold(c, f)
    BY <1>0, <1>10, <2>1, SellFills
  <2>3. PICK f \in Int : mem[c].fill <= f /\ f <= 0 /\ Sold(c, f)
    BY <2>2
  <2>4. held' = held + f /\ held >= pos.qty /\ held' >= pos.qty + f /\ pos.qty + f >= 0
    BY <1>0, <1>5, <2>1, <2>3 DEF Sold
  <2>5. CASE pc'[c] = "sold" /\ mem' = [mem EXCEPT ![c].fill = f]
    <3>1. mem'[c].fill = f /\ mem'[c].qty = pos.qty
      BY <1>0, <2>1, <2>5 DEF Memory
    <3>2. Rest(c)' = pos.qty + f
      BY <3>1 DEF Rest
    <3> QED
      BY <1>0, <1>6, <2>4, <2>5, <3>2
  <2>6. CASE f = 0 /\ pc'[c] # "sold"
    <3>1. held' = held /\ held' >= pos'.qty
      BY <1>0, <2>2, <2>4, <2>6
    <3> QED
      BY <1>0, <1>6, <2>6, <3>1
  <2>7. \/ pc'[c] = "sold" /\ mem' = [mem EXCEPT ![c].fill = f]
        \/ f = 0 /\ pc'[c] # "sold"
    BY <1>7, <2>3 DEF Sold, Answered
  <2> QED
    BY <2>5, <2>6, <2>7
<1>11. CASE ExitTrim(c)
  <2>1. /\ pc[c] = "sold" /\ pos'.qty = Rest(c) /\ held' = held /\ pc'[c] = "trimSave"
    BY <1>0, <1>11, Goes DEF ExitTrim
  <2>2. held >= Rest(c)
    BY <2>1 DEF Below
  <2> QED
    BY <1>0, <1>6, <2>1, <2>2
<1>12. CASE TrimSave(c)
  <2>1. pc[c] = "trimSave" /\ UNCHANGED <<held, pos>> /\ pc'[c] \in {"failed", "verify", "done"}
    BY <1>7, <1>12 DEF TrimSave
  <2> QED
    BY <1>0, <1>5, <1>6, <2>1
<1>13. CASE ExitClaim(c)
  <2>1. UNCHANGED held /\ pc'[c] = "remove"
    BY <1>0, <1>13, Goes DEF ExitClaim, Answered
  <2> QED
    BY <1>0, <1>6, <2>1
<1>14. CASE ExitRemove(c)
  <2>1. UNCHANGED held /\ pos' = NoPos /\ pc'[c] \in {"failed", "verify", "done"}
    BY <1>7, <1>14 DEF ExitRemove
  <2> QED
    BY <1>0, <1>6, <2>1
<1> QED
  BY <1>1, <1>8, <1>9, <1>10, <1>11, <1>12, <1>13, <1>14 DEF Exit

LEMMA BelowStill ==
  ASSUME General, EngineScene, EngineInv, Below, NEW c \in Calls, Step(c), Still(c)
  PROVE  Below'
<1>0. /\ \A b \in Calls \ {c} : pc'[b] = pc[b] /\ mem'[b] = mem[b]
      /\ pc'[c] \in {"idle", "done", "tick", "call", "verify", "failed"}
      /\ UNCHANGED <<docs, held, pos, mem>> /\ scene' = scene
  BY StepApart, StepLeads, StillLeads DEF Still, General, IInv, Leads
<1>1. pc[c] \notin {"sold", "remove"}
  BY DEF Still, Acting, Selling
<1> QED
  BY <1>0, <1>1 DEF Below, Rest

LEMMA BelowKeeps ==
  General /\ General' /\ EngineScene /\ Answered /\ EngineInv /\ Below /\ [Next]_vars
  => Below'
<1> SUFFICES ASSUME General, General', EngineScene, Answered, EngineInv, Below, [Next]_vars
             PROVE  Below'
  OBVIOUS
<1>1. ASSUME NEW c \in Calls, Step(c) PROVE Below'
  <2>1. CASE scene.kind[c] = "entry"
    <3>1. CASE pos = NoPos
      BY <1>1, <2>1, <3>1, EntrantBelow
    <3>2. CASE pos # NoPos
      <4>1. EntryCall(c) /\ ~NothingOpen
        BY <1>1, <2>1, <3>2, StepOfKind
           DEF General, IInv, EngineInv, EntrantAt, EntryCheck, Send, Query, EntryRecord,
               EntryInstall, Busy, NothingOpen
      <4>2. Still(c)
        <5>1. pc[c] = "idle" /\ pc'[c] = "done" /\ scene' = scene
              /\ UNCHANGED <<docs, held, pos, mem, exiting, guards>>
          BY <4>1, Goes DEF EntryCall, Starts, flags, General, IInv
        <5> QED
          BY <5>1 DEF Still, Acting, Busy, Selling
      <4> QED
        BY <1>1, <4>2, BelowStill
    <3> QED
      BY <3>1, <3>2
  <2>2. CASE Still(c)
    BY <1>1, <2>2, BelowStill
  <2>3. CASE Exit(c) /\ ~Still(c)
    BY <1>1, <2>3, SellerBelow
  <2> QED
    BY <1>1, <2>1, <2>2, <2>3, EngineSteps
<1>2. CASE RetryDue \/ UNCHANGED vars
  BY <1>2 DEF RetryDue, vars, Below, Rest
<1>3. ~Restart
  BY DEF Restart, EngineScene
<1> QED
  BY <1>1, <1>2, <1>3 DEF Next

\* The engine and the monitor do not sell more than the trade holds.
EngineSpares == EngineScene /\ Answered => Below

LEMMA EngineSparesAlways == Spec => []EngineSpares
<1>1. Init /\ General => EngineSpares
  <2> SUFFICES ASSUME Init, General PROVE Below
    BY DEF EngineSpares
  <2>1. held = scene.start /\ held \in Nat
    BY StartsCovered DEF General, IInv
  <2>2. /\ pos = IF scene.start > 0 THEN [doc |-> 1, qty |-> scene.start] ELSE NoPos
        /\ \A c \in Calls : pc[c] = "idle"
    BY DEF Init
  <2> QED
    BY <2>1, <2>2 DEF Below
<1>2. General /\ General' /\ EngineGuards /\ EngineSpares /\ [Next]_vars => EngineSpares'
  <2> SUFFICES ASSUME General, General', EngineGuards, EngineSpares, [Next]_vars,
                      EngineScene', Answered'
               PROVE  Below'
    BY DEF EngineSpares
  <2>1. EngineScene /\ Answered
    BY SceneStays DEF EngineScene, KindsIn, Fault, Answered, Astray
  <2> QED
    BY <2>1, BelowKeeps DEF EngineGuards, EngineSpares
<1> QED
  BY <1>1, <1>2, EngineAlways, PTL DEF Spec

-----------------------------------------------------------------------------
(* The close route.  The one trade that is open is closed by one call at a   *)
(* time, which knows its quantity.                                         *)

CloseScene ==
    /\ KindsIn({"entry", "close", "force", "clear", "none"})
    /\ ~Fault("crash") /\ ~Fault("lookup")

ClaimedByOne ==
    \A b, c \in Calls :
        pc[b] \in Closing /\ pc[c] \in Closing /\ mem[b].doc = mem[c].doc => b = c

\* A close has claimed its trade, which is open and has the quantity it read.
CloserAt(c) ==
    /\ pc[c] \in Closing => mem[c].doc \in closing
    /\ pc[c] \in {"closeSend", "closeConvert"} => scene.kind[c] = "close"
    /\ pc[c] \in {"closeSend", "closeConvert", "closeSave"} =>
          mem[c].doc \in Open /\ docs[mem[c].doc].qty = mem[c].qty
    /\ pc[c] = "closeSave" /\ scene.kind[c] = "close" =>
          -mem[c].qty <= mem[c].fill /\ mem[c].fill < 0

\* No trade is open when an entry is about to make one.
FreshAt(c) ==
    /\ scene.kind[c] = "entry" /\ pc[c] \in {"check", "send", "query", "filled"}
    /\ Written(c) = {}
    => Open = {}

AtMostOne == \A d, e \in Open : d = e

CloseInv ==
    /\ ClaimedByOne
    /\ \A c \in Calls : CloserAt(c) /\ FreshAt(c)
    /\ LongBook /\ AtMostOne

\* Where the calls of the close route may be.
LEMMA CloseLabels ==
  ASSUME General, CloseScene, NEW c \in Calls
  PROVE  /\ pc[c] \in {"check", "send", "query", "filled", "install"} => scene.kind[c] = "entry"
         /\ pc[c] \in Closing => scene.kind[c] \in {"close", "force"}
         /\ scene.kind[c] = "clear" => pc[c] \in {"idle", "done"}
<1>1. /\ pc[c] \in {"idle", "done"} \cup Labels(scene.kind[c])
      /\ scene.kind[c] \in {"entry", "close", "force", "clear", "none"}
  BY DEF General, KindPaths, CloseScene, KindsIn
<1> QED
  BY <1>1 DEF Labels, Closing

\* An entry makes a trade where there is none.
LEMMA EntryFresh ==
  ASSUME General, General', CloseScene, CloseInv, NEW c \in Calls, Step(c),
         scene.kind[c] = "entry"
  PROVE  CloseInv'
<1> USE DEF General, IInv
<1>0. /\ TypeOK /\ TypeOK' /\ scene' = scene /\ mem \in [Calls -> Memory] /\ mem[c] \in Memory
      /\ pc[c] \notin Closing /\ pc'[c] \notin Closing /\ closing' = closing
      /\ \A b \in Calls \ {c} : /\ pc'[b] = pc[b] /\ mem'[b] = mem[b]
                                /\ Written(b)' = Written(b)
  <2>1. pc'[c] \notin Closing
    BY StepPaths DEF Labels, Closing
  <2>2. pc[c] \notin Closing
    BY CloseLabels
  <2>3. closing' = closing
    BY StepOfKind DEF EntryCall, EntryCheck, NotBlocked, Send, Query, EntryRecord,
                      EntryInstall, flags
  <2> QED
    BY <2>1, <2>2, <2>3, StepLeads, OthersHands DEF Leads, TypeOK
<1>1. \/ docs' = docs
      \/ Created(c) /\ Written(c) = {} /\ pc[c] = "filled"
  <2>1. CASE EntryRecord(c)
    BY <2>1 DEF EntryRecord, Record, Missed, CloseScene
  <2> QED
    BY <2>1, StepOfKind DEF EntryCall, EntryCheck, NotBlocked, Send, Query, EntryInstall
<1>2. \A d \in Open : d \in Open' /\ docs'[d] = docs[d]
  <2>1. ASSUME NEW d \in Open PROVE docs'[d] = docs[d]
    <3>1. d \in Docs /\ docs[d].status # "none"
      BY DEF Open
    <3> QED
      BY <1>0, <1>1, <3>1, CreatedApart
  <2> QED
    BY <2>1 DEF Open
<1>3. \A b \in Calls \ {c} :
         scene.kind[b] = "entry" => pc[b] \notin {"check", "send", "query", "filled"}
  <2>1. ASSUME NEW b \in Calls \ {c}, scene.kind[b] = "entry", Busy(b) PROVE FALSE
    <3>1. Scheduled(scene.kind[b]) /\ Scheduled(scene.kind[c])
      BY <2>1 DEF Scheduled
    <3> QED
      BY <2>1, <3>1, StepTurns DEF Turns
  <2> QED
    BY <2>1 DEF Busy
<1>4. LongBook' /\ AtMostOne'
  <2>1. CASE docs' = docs
    BY <2>1 DEF CloseInv, LongBook, AtMostOne, Open
  <2>2. CASE Created(c) /\ Written(c) = {} /\ pc[c] = "filled"
    <3>1. Open = {} /\ mem[c].fill > 0
      BY <2>2 DEF CloseInv, FreshAt, Bought
    <3>2. PICK d \in Docs : d = Least(Unused) /\ d \in Unused
      BY <1>0, <2>2, CreatedTyped DEF Unused
    <3>3. /\ docs'[d] = [status |-> "OPEN", qty |-> mem[c].fill, by |-> c]
          /\ \A e \in Docs \ {d} : docs'[e] = docs[e]
      BY <1>0, <2>2, <3>2 DEF Created, TypeOK
    <3>4. Open' = {d}
      BY <3>1, <3>3 DEF Open
    <3> QED
      BY <3>1, <3>3, <3>4 DEF LongBook, AtMostOne
  <2> QED
    BY <1>1, <2>1, <2>2
<1>5. FreshAt(c)'
  <2>0. ASSUME pc[c] \in {"check", "send", "query"}, docs' = docs
        PROVE  Open' = {}
    <3>1. Written(c) = {}
      BY <2>0, NothingWritten
    <3> QED
      BY <2>0, <3>1 DEF CloseInv, FreshAt, Open
  <2>1. CASE EntryCall(c)
    <3>1. (pc'[c] = "done" \/ Open = {}) /\ docs' = docs
      BY <1>0, <2>1, Goes DEF EntryCall, NothingOpen
    <3> QED
      BY <3>1 DEF FreshAt, Open
  <2>2. CASE EntryCheck(c) \/ Send(c) \/ Query(c)
    <3>1. pc[c] \in {"check", "send", "query"} /\ docs' = docs
      BY <2>2 DEF EntryCheck, NotBlocked, Send, Query
    <3> QED
      BY <2>0, <3>1 DEF FreshAt
  <2>3. CASE EntryRecord(c)
    <3>1. pc[c] = "filled" /\ Record(c, "install")
      BY <2>3 DEF EntryRecord
    <3>2. \/ pc'[c] \in {"install", "done"}
          \/ /\ Written(c) = {} /\ mem' = [mem EXCEPT ![c].tries = @ + 1]
             /\ Created(c) \/ docs' = docs
      BY <1>0, <3>1, Goes, Ended DEF Record, Missed, CloseScene
    <3>3. ASSUME Written(c) = {}, docs' = docs PROVE FreshAt(c)'
      BY <3>1, <3>3 DEF CloseInv, FreshAt, Open
    <3>4. ASSUME mem' = [mem EXCEPT ![c].tries = @ + 1], Created(c) PROVE FreshAt(c)'
      <4>1. mem'[c].tries > 0
        BY <1>0, <3>4 DEF Memory
      <4>2. PICK d \in Docs : docs'[d].by = c
        BY <1>0, <3>4, CreatedRecorded DEF Unused
      <4>3. d \in Written(c)'
        BY <4>1, <4>2 DEF Written
      <4> QED
        BY <4>3 DEF FreshAt
    <3> QED
      BY <3>2, <3>3, <3>4 DEF FreshAt
  <2>4. CASE EntryInstall(c)
    BY <1>0, <2>4, Ended DEF EntryInstall, FreshAt
  <2> QED
    BY <2>1, <2>2, <2>3, <2>4, StepOfKind
<1>6. ASSUME NEW b \in Calls \ {c} PROVE CloserAt(b)' /\ FreshAt(b)'
  <2>1. FreshAt(b)'
    BY <1>0, <1>3 DEF FreshAt
  <2>2. CloserAt(b)'
    BY <1>0, <1>2 DEF CloseInv, CloserAt
  <2> QED
    BY <2>1, <2>2
<1>7. CloserAt(c)'
  BY <1>0 DEF CloserAt, Closing
<1>8. ClaimedByOne'
  BY <1>0 DEF CloseInv, ClaimedByOne
<1> QED
  BY <1>4, <1>5, <1>6, <1>7, <1>8 DEF CloseInv

\* What a call to close changes is its own trade.
LEMMA CloserApart ==
  ASSUME General, General', CloseScene, CloseInv, NEW c \in Calls, Step(c), Close(c),
         \/ docs' = docs
         \/ /\ pc[c] = "closeSave" /\ LongBook'
            /\ \/ \E q : docs' = [docs EXCEPT ![mem[c].doc].qty = q]
               \/ docs' = [docs EXCEPT ![mem[c].doc].status = "CLOSED"],
         \/ closing' = closing \ {mem[c].doc} /\ pc[c] \in Closing /\ pc'[c] \notin Closing
         \/ closing \subseteq closing' /\ CloserAt(c)',
         pc[c] \notin Closing /\ pc'[c] \in Closing =>
             mem'[c].doc \notin closing,
         pc[c] \in Closing /\ pc'[c] \in Closing => mem'[c].doc = mem[c].doc
  PROVE  CloseInv'
<1> USE DEF General, IInv
<1>0. /\ TypeOK /\ TypeOK' /\ scene' = scene /\ docs \in [Docs -> Document]
      /\ \A b \in Calls \ {c} : /\ pc'[b] = pc[b] /\ mem'[b] = mem[b]
                                /\ Written(b)' = Written(b)
  BY StepLeads, OthersHands DEF Leads, TypeOK
<1>1. \A d \in Docs : (pc[c] = "closeSave" /\ d = mem[c].doc) \/ docs'[d] = docs[d]
  BY <1>0
<1>2. Open' \subseteq Open
  <2>1. CASE docs' = docs
    BY <2>1 DEF Open
  <2>2. CASE \E q : docs' = [docs EXCEPT ![mem[c].doc].qty = q]
    BY <1>0, <2>2 DEF Open, Document
  <2>3. CASE docs' = [docs EXCEPT ![mem[c].doc].status = "CLOSED"]
    BY <1>0, <2>3 DEF Open, Document
  <2> QED
    BY <2>1, <2>2, <2>3
<1>3. LongBook' /\ AtMostOne'
  BY <1>2 DEF CloseInv, LongBook, AtMostOne, Open
<1>4. ASSUME NEW b \in Calls \ {c} PROVE CloserAt(b)' /\ FreshAt(b)'
  <2>1. FreshAt(b)'
    BY <1>0, <1>2 DEF CloseInv, FreshAt
  <2>2. CloserAt(b) /\ CloserAt(c) /\ mem[b].doc \in Docs \cup {NoDoc}
    BY DEF CloseInv, TypeOK, Memory
  <2>3. pc[b] \in Closing => mem[b].doc \in closing'
    BY <2>2 DEF CloserAt, CloseInv, ClaimedByOne
  <2>4. ASSUME pc[b] \in {"closeSend", "closeConvert", "closeSave"}
        PROVE  mem[b].doc \in Open' /\ docs'[mem[b].doc].qty = mem[b].qty
    <3>1. mem[b].doc \in Open /\ mem[b].doc \in Docs /\ docs[mem[b].doc].qty = mem[b].qty
      BY <2>2, <2>4 DEF CloserAt, Open
    <3>2. ~(pc[c] = "closeSave" /\ mem[b].doc = mem[c].doc)
      BY <2>4 DEF CloseInv, ClaimedByOne, Closing
    <3>3. docs'[mem[b].doc] = docs[mem[b].doc]
      BY <1>1, <3>1, <3>2
    <3> QED
      BY <3>1, <3>3 DEF Open
  <2> QED
    BY <1>0, <2>1, <2>2, <2>3, <2>4 DEF CloserAt
<1>5. CloserAt(c)'
  BY DEF CloserAt, Closing
<1>6. FreshAt(c)'
  <2>1. scene.kind[c] # "entry"
    BY CloseLabels DEF Close, CloseFind, Starts, CloseSend, CloseConvert, CloseSave, CloseMap,
                       Closing
  <2> QED
    BY <1>0, <2>1 DEF FreshAt
<1>7. ClaimedByOne'
  <2>1. ASSUME NEW b \in Calls \ {c}, pc[b] \in Closing, pc'[c] \in Closing
        PROVE  mem[b].doc # mem'[c].doc
    BY <2>1 DEF CloseInv, ClaimedByOne, CloserAt
  <2> QED
    BY <1>0, <2>1 DEF CloseInv, ClaimedByOne
<1> QED
  BY <1>3, <1>4, <1>5, <1>6, <1>7 DEF CloseInv

\* What becomes of the order of a close.
SoldOff(c, f) ==
    /\ held' = held + f
    /\ \/ /\ f < 0 /\ pc'[c] = "closeSave"
          /\ mem' = [mem EXCEPT ![c].fill = f] /\ closing' = closing
       \/ /\ f = 0 \/ Astray
          /\ pc'[c] = "closeConvert" /\ mem' = mem /\ closing' = closing
       \/ /\ f = 0 \/ Astray
          /\ CloseOver(c)

LEMMA CloseFills ==
  ASSUME TypeOK, NEW c \in Calls, CloseSend(c) \/ CloseConvert(c), mem[c].qty > 0
  PROVE  /\ UNCHANGED <<docs, pos, guards>>
         /\ \E f \in Int : -mem[c].qty <= f /\ f <= 0 /\ SoldOff(c, f)
<1>1. mem[c].qty \in Int /\ held \in Int /\ TRUE \in BOOLEAN /\ -mem[c].qty \in Int
      /\ -mem[c].qty <= -mem[c].qty /\ -mem[c].qty < 0
  <2>1. mem[c].qty \in Int /\ held \in Int
    BY DEF TypeOK, Memory
  <2> QED
    BY <2>1
<1>2. UNCHANGED <<docs, pos, guards>>
  BY DEF CloseSend, CloseConvert
<1>3. ASSUME NEW n \in Int, -mem[c].qty <= n, n < 0, NEW f \in Fills(n, TRUE)
      PROVE  f \in Int /\ -mem[c].qty <= f /\ f < 0
  <2>1. f \in Int /\ n <= f /\ f < 0
    BY <1>1, <1>3, FillsWithin
  <2> QED
    BY <1>1, <1>3, <2>1
<1>4. ASSUME NEW n \in Int, -mem[c].qty <= n, n < 0, OrderFilled(c, n, TRUE, "closeSave"),
             UNCHANGED closing
      PROVE  \E f \in Int : -mem[c].qty <= f /\ f <= 0 /\ SoldOff(c, f)
  <2>1. PICK f \in Fills(n, TRUE) :
           held' = held + f /\ mem' = [mem EXCEPT ![c].fill = f] /\ Go(c, "closeSave")
    BY <1>4 DEF OrderFilled
  <2>2. f \in Int /\ -mem[c].qty <= f /\ f < 0
    BY <1>3, <1>4
  <2>3. SoldOff(c, f)
    BY <1>4, <2>1, <2>2, Goes DEF SoldOff
  <2> QED
    BY <2>2, <2>3
<1>5. ASSUME held' = held,
             \/ Go(c, "closeConvert") /\ UNCHANGED <<mem, closing>>
             \/ CloseOver(c)
      PROVE  \E f \in Int : -mem[c].qty <= f /\ f <= 0 /\ SoldOff(c, f)
  <2>1. SoldOff(c, 0)
    BY <1>1, <1>5, Goes DEF SoldOff
  <2> QED
    BY <1>1, <2>1
<1>6. ASSUME NEW n \in Int, -mem[c].qty <= n, n < 0,
             NEW f \in UnknownFills(n, TRUE) \cup LostFills(n, TRUE, "quote"), held' = held + f,
             \/ Go(c, "closeConvert") /\ UNCHANGED <<mem, closing>>
             \/ CloseOver(c)
      PROVE  \E g \in Int : -mem[c].qty <= g /\ g <= 0 /\ SoldOff(c, g)
  <2>1. Astray /\ (f \in Fills(n, TRUE) \/ f = 0)
    BY <1>6, LostAstray
  <2>2. f \in Int /\ -mem[c].qty <= f /\ f <= 0
    <3>1. CASE f = 0
      BY <1>1, <3>1
    <3>2. CASE f \in Fills(n, TRUE)
      <4>1. f \in Int /\ -mem[c].qty <= f /\ f < 0
        BY <1>3, <1>6, <3>2
      <4> QED
        BY <4>1
    <3> QED
      BY <2>1, <3>1, <3>2
  <2>3. SoldOff(c, f)
    BY <1>6, <2>1, Goes DEF SoldOff
  <2> QED
    BY <2>2, <2>3
<1>7. CASE CloseSend(c)
  <2>1. \/ OrderFilled(c, -mem[c].qty, TRUE, "closeSave") /\ UNCHANGED closing
        \/ /\ held' = held
           /\ \/ Go(c, "closeConvert") /\ UNCHANGED <<mem, closing>>
              \/ CloseOver(c)
        \/ \E f \in UnknownFills(-mem[c].qty, TRUE) :
              /\ held' = held + f
              /\ \/ Go(c, "closeConvert") /\ UNCHANGED <<mem, closing>>
                 \/ CloseOver(c)
    BY <1>7 DEF CloseSend
  <2> QED
    BY <1>1, <1>2, <1>4, <1>5, <1>6, <2>1
<1>8. CASE CloseConvert(c)
  <2>1. PICK n \in Int : n = -Least({mem[c].qty, held + Spare}) /\ -mem[c].qty <= n
    <3>1. held + Spare \in Int
      BY <1>1, LiveAssumption
    <3>2. PICK m \in Int : m = Least({mem[c].qty, held + Spare})
      BY <1>1, <3>1, LeastOfTwo
    <3>3. m <= mem[c].qty
      BY <1>1, <3>1, <3>2, LeastOfTwo
    <3> QED
      BY <1>1, <3>2, <3>3
  <2>2. \/ n < 0 /\ OrderFilled(c, n, TRUE, "closeSave") /\ UNCHANGED closing
        \/ CloseOver(c) /\ UNCHANGED held
        \/ n < 0 /\ (\E f \in LostFills(n, TRUE, "quote") : held' = held + f) /\ CloseOver(c)
    BY <1>8, <2>1 DEF CloseConvert
  <2> QED
    BY <1>1, <1>2, <1>4, <1>5, <1>6, <2>1, <2>2
<1> QED
  BY <1>7, <1>8

\* A close that is over holds no claim.
LEMMA ClosingOver ==
  ASSUME TypeOK, NEW c \in Calls, CloseOver(c), scene.kind[c] \in {"close", "force"}
  PROVE  closing' = closing \ {mem[c].doc} /\ pc'[c] = "done" /\ mem'[c] = NoMem
BY Ended DEF CloseOver

\* The close route keeps to its claims.
LEMMA CloserKeeps ==
  ASSUME General, General', CloseScene, CloseInv, NEW c \in Calls, Step(c), Close(c)
  PROVE  CloseInv'
<1> USE DEF General, IInv
<1>0. /\ TypeOK /\ TypeOK' /\ scene' = scene /\ mem \in [Calls -> Memory] /\ mem[c] \in Memory
      /\ mem[c].qty \in Int /\ mem[c].fill \in Int /\ docs \in [Docs -> Document]
      /\ scene.kind[c] \in {"close", "force"} /\ CloserAt(c)
  <2>1. scene.kind[c] \in {"close", "force"}
    BY CloseLabels DEF Close, CloseFind, Starts, CloseSend, CloseConvert, CloseSave, CloseMap,
                       Closing
  <2> QED
    BY <2>1, StepLeads DEF Leads, TypeOK, Memory, CloseInv
<1>1. ASSUME CloseOver(c), pc[c] \in Closing
      PROVE  closing' = closing \ {mem[c].doc} /\ pc'[c] \notin Closing
  BY <1>0, <1>1, ClosingOver DEF Closing
<1>2. ASSUME pc[c] \in {"closeSend", "closeConvert", "closeSave"}
      PROVE  /\ mem[c].doc \in Open /\ mem[c].doc \in Docs /\ docs[mem[c].doc].qty = mem[c].qty
             /\ mem[c].qty > 0
  BY <1>0, <1>2 DEF CloserAt, CloseInv, LongBook, Open
<1>3. CASE CloseFind(c)
  <2>1. pc[c] = "idle" /\ docs' = docs
    BY <1>3 DEF CloseFind, Starts
  <2>2. CASE Go(c, "done") /\ UNCHANGED <<closing, mem>>
    <3>1. pc'[c] = "done"
      BY <1>0, <2>2, Goes
    <3> QED
      BY <1>3, <2>1, <2>2, <3>1, CloserApart DEF Closing, CloserAt
  <2>3. CASE \E d \in Open \ closing :
                /\ closing' = closing \cup {d}
                /\ mem' = [mem EXCEPT ![c].doc = d, ![c].qty = docs[d].qty]
                /\ Go(c, IF scene.kind[c] = "force" THEN "closeSave" ELSE "closeSend")
    <3>1. PICK d \in Open \ closing :
                /\ closing' = closing \cup {d}
                /\ mem' = [mem EXCEPT ![c].doc = d, ![c].qty = docs[d].qty]
                /\ Go(c, IF scene.kind[c] = "force" THEN "closeSave" ELSE "closeSend")
      BY <2>3
    <3>2. pc'[c] = IF scene.kind[c] = "force" THEN "closeSave" ELSE "closeSend"
      BY <1>0, <3>1, Goes
    <3>3. mem'[c].doc = d /\ mem'[c].qty = docs[d].qty /\ Open' = Open
      BY <1>0, <2>1, <3>1 DEF Memory, Open
    <3>4. CloserAt(c)'
      BY <1>0, <2>1, <3>1, <3>2, <3>3 DEF CloserAt
    <3> QED
      BY <1>3, <2>1, <3>1, <3>2, <3>3, <3>4, CloserApart DEF Closing
  <2> QED
    BY <1>3, <2>2, <2>3 DEF CloseFind
<1>4. CASE CloseSend(c) \/ CloseConvert(c)
  <2>1. pc[c] \in {"closeSend", "closeConvert"}
    BY <1>4 DEF CloseSend, CloseConvert
  <2>2. UNCHANGED <<docs, pos, guards>>
        /\ \E f \in Int : -mem[c].qty <= f /\ f <= 0 /\ SoldOff(c, f)
    BY <1>0, <1>2, <1>4, <2>1, CloseFills
  <2>3. PICK f \in Int : -mem[c].qty <= f /\ f <= 0 /\ SoldOff(c, f)
    BY <2>2
  <2>4. CASE CloseOver(c)
    BY <1>1, <1>4, <2>1, <2>2, <2>4, CloserApart DEF Closing, Close
  <2>5. CASE pc'[c] = "closeConvert" /\ mem' = mem /\ closing' = closing
    <3>1. CloserAt(c)'
      BY <1>0, <2>1, <2>2, <2>5 DEF CloserAt, Closing, Open
    <3> QED
      BY <1>4, <2>1, <2>2, <2>5, <3>1, CloserApart DEF Closing
  <2>6. CASE f < 0 /\ pc'[c] = "closeSave" /\ mem' = [mem EXCEPT ![c].fill = f] /\ closing' = closing
    <3>1. mem'[c].fill = f /\ mem'[c].doc = mem[c].doc /\ mem'[c].qty = mem[c].qty
      BY <1>0, <2>6 DEF Memory
    <3>2. CloserAt(c)'
      BY <1>0, <2>1, <2>2, <2>3, <2>6, <3>1 DEF CloserAt, Closing, Open
    <3> QED
      BY <1>4, <2>1, <2>2, <2>6, <3>1, <3>2, CloserApart DEF Closing
  <2> QED
    BY <2>3, <2>4, <2>5, <2>6 DEF SoldOff
<1>5. CASE CloseSave(c)
  <2>1. pc[c] = "closeSave" /\ mem[c].doc \in Open /\ mem[c].doc \in Docs
    BY <1>2, <1>5 DEF CloseSave
  <2>2. CASE CloseOver(c) /\ docs' = docs
    BY <1>1, <1>5, <2>1, <2>2, CloserApart DEF Closing
  <2>3. CASE /\ docs' = IF Rest(c) > 0 /\ scene.kind[c] = "close"
                        THEN [docs EXCEPT ![mem[c].doc].qty = Rest(c)]
                        ELSE [docs EXCEPT ![mem[c].doc].status = "CLOSED"]
             /\ Go(c, "closeMap") /\ UNCHANGED <<mem, closing>>
    <3>1. pc'[c] = "closeMap"
      BY <1>0, <2>3, Goes
    <3>2. CloserAt(c)'
      BY <1>0, <2>1, <2>3, <3>1 DEF CloserAt, Closing
    <3>3. LongBook'
      <4>1. CASE Rest(c) > 0 /\ docs' = [docs EXCEPT ![mem[c].doc].qty = Rest(c)]
        BY <1>0, <2>1, <4>1 DEF CloseInv, LongBook, Open, Document
      <4>2. CASE docs' = [docs EXCEPT ![mem[c].doc].status = "CLOSED"]
        BY <1>0, <2>1, <4>2 DEF CloseInv, LongBook, Open, Document
      <4> QED
        BY <2>3, <4>1, <4>2
    <3>4. \/ \E q : docs' = [docs EXCEPT ![mem[c].doc].qty = q]
          \/ docs' = [docs EXCEPT ![mem[c].doc].status = "CLOSED"]
      BY <2>3
    <3>5. mem'[c].doc = mem[c].doc /\ closing \subseteq closing'
      BY <2>3
    <3> QED
      BY <1>5, <2>1, <3>1, <3>2, <3>3, <3>4, <3>5, CloserApart DEF Closing
  <2> QED
    BY <1>5, <2>2, <2>3 DEF CloseSave
<1>6. CASE CloseMap(c)
  <2>1. pc[c] = "closeMap" /\ docs' = docs /\ CloseOver(c)
    BY <1>6 DEF CloseMap
  <2> QED
    BY <1>1, <1>6, <2>1, CloserApart DEF Closing
<1> QED
  BY <1>3, <1>4, <1>5, <1>6 DEF Close

\* A close hides no lot.
LEMMA CloserCovered ==
  ASSUME General, General', CloseScene, CloseInv, Covered, NEW c \in Calls, Step(c), Close(c),
         scene.kind[c] = "close"
  PROVE  Covered'
<1> USE DEF General, IInv
<1>0. /\ TypeOK /\ TypeOK' /\ scene' = scene /\ mem \in [Calls -> Memory] /\ mem[c] \in Memory
      /\ mem[c].qty \in Int /\ mem[c].fill \in Int /\ docs \in [Docs -> Document]
      /\ Recorded \in Int /\ held \in Int /\ CloserAt(c)
      /\ UNCHANGED guards
  <2>1. UNCHANGED guards
    BY DEF Close, CloseFind, CloseSend, CloseConvert, CloseSave, CloseMap
  <2> QED
    BY <2>1, SumsTyped, StepLeads DEF Leads, TypeOK, Memory, CloseInv
<1>1. ASSUME Recorded' = Recorded, held' = held, InHand(c) = 0, InHand(c)' = 0
      PROVE  Covered'
  BY <1>0, <1>1, CoveredKept DEF guards
<1>2. ASSUME CloseOver(c) PROVE InHand(c)' = 0
  BY <1>0, <1>2, ClosingOver DEF InHand
<1>3. pc[c] # "done"
  BY DEF Close, CloseFind, Starts, CloseSend, CloseConvert, CloseSave, CloseMap
<1>4. Written(c) = {} /\ \A d \in Docs : docs[d].by # c
  <2>1. pc[c] \in {"idle"} \cup Closing
    BY <1>3 DEF KindPaths, Labels
  <2> QED
    BY <2>1, NothingWritten DEF Closing
<1>5. CASE CloseFind(c)
  <2>1. pc[c] = "idle" /\ pc'[c] \in {"done", "closeSend"} /\ UNCHANGED <<docs, held>>
    BY <1>0, <1>5, Goes DEF CloseFind, Starts
  <2> QED
    BY <1>1, <2>1, RecordedSame DEF InHand
<1>6. CASE CloseSend(c) \/ CloseConvert(c)
  <2>1. pc[c] \in {"closeSend", "closeConvert"} /\ mem[c].qty > 0
    BY <1>0, <1>6 DEF CloseSend, CloseConvert, CloserAt, CloseInv, LongBook
  <2>2. UNCHANGED <<docs, pos, guards>>
        /\ \E f \in Int : -mem[c].qty <= f /\ f <= 0 /\ SoldOff(c, f)
    BY <1>0, <1>6, <2>1, CloseFills
  <2>3. PICK f \in Int : -mem[c].qty <= f /\ f <= 0 /\ SoldOff(c, f)
    BY <2>2
  <2>4. held' = held + f /\ Recorded' = Recorded /\ InHand(c) = 0
    BY <2>1, <2>2, <2>3, RecordedSame DEF SoldOff, InHand
  <2>5. InHand(c)' = 0 \/ InHand(c)' = f
    <3>1. CASE pc'[c] = "closeSave" /\ mem' = [mem EXCEPT ![c].fill = f]
      <4>1. mem'[c].fill = f
        BY <1>0, <3>1 DEF Memory
      <4>2. Written(c)' = {}
        BY <1>4, <2>2 DEF Written
      <4> QED
        BY <3>1, <4>1, <4>2 DEF InHand
    <3>2. CASE pc'[c] = "closeConvert"
      BY <3>2 DEF InHand
    <3> QED
      BY <1>2, <2>3, <3>1, <3>2 DEF SoldOff
  <2> QED
    BY <1>0, <2>3, <2>4, <2>5, CoveredKept DEF guards
<1>7. CASE CloseSave(c)
  <2>1. /\ pc[c] = "closeSave" /\ held' = held /\ mem[c].doc \in Open /\ mem[c].doc \in Docs
        /\ docs[mem[c].doc].qty = mem[c].qty /\ -mem[c].qty <= mem[c].fill /\ mem[c].fill < 0
    BY <1>0, <1>7 DEF CloseSave, CloserAt, Open
  <2>2. InHand(c) = mem[c].fill
    BY <1>4, <2>1 DEF InHand
  <2>3. CASE CloseOver(c) /\ docs' = docs
    <3>1. InHand(c)' = 0 /\ Recorded' = Recorded
      BY <1>2, <2>3, RecordedSame
    <3> QED
      BY <1>0, <2>1, <2>2, <3>1, CoveredKept DEF guards
  <2>4. CASE /\ docs' = IF Rest(c) > 0 /\ scene.kind[c] = "close"
                        THEN [docs EXCEPT ![mem[c].doc].qty = Rest(c)]
                        ELSE [docs EXCEPT ![mem[c].doc].status = "CLOSED"]
             /\ Go(c, "closeMap") /\ UNCHANGED <<mem, closing>>
    <3>1. InHand(c)' = 0
      BY <1>0, <2>4, Goes DEF InHand
    <3>2. PICK d \in Docs : d = mem[c].doc
      BY <2>1
    <3>3. Lots(d) = mem[c].qty /\ docs[d].status = "OPEN"
      BY <2>1, <3>2 DEF Lots, Open
    <3>4. Rest(c) \in Int /\ Rest(c) = mem[c].qty + mem[c].fill /\ Rest(c) >= 0
      BY <1>0, <2>1 DEF Rest
    <3>5. Lots(d)' = Rest(c) /\ \A e \in Docs \ {d} : docs'[e] = docs[e]
      <4>1. CASE Rest(c) > 0
        <5>1. docs' = [docs EXCEPT ![d].qty = Rest(c)]
          BY <2>4, <3>2, <4>1
        <5> QED
          BY <1>0, <3>3, <5>1 DEF Lots, Document
      <4>2. CASE ~(Rest(c) > 0)
        <5>1. docs' = [docs EXCEPT ![d].status = "CLOSED"] /\ Rest(c) = 0
          BY <2>4, <3>2, <3>4, <4>2
        <5> QED
          BY <1>0, <3>3, <5>1 DEF Lots, Document
      <4> QED
        BY <4>1, <4>2
    <3>6. Recorded' = Recorded - Lots(d) + Lots(d)'
      BY <1>0, <3>5, RecordedMoves
    <3>7. Recorded' = Recorded + mem[c].fill
      BY <1>0, <3>3, <3>4, <3>5, <3>6
    <3> QED
      BY <1>0, <2>1, <2>2, <3>1, <3>7, CoveredKept DEF guards
  <2> QED
    BY <1>7, <2>3, <2>4 DEF CloseSave
<1>8. CASE CloseMap(c)
  <2>1. pc[c] = "closeMap" /\ UNCHANGED <<docs, held>> /\ CloseOver(c)
    BY <1>8 DEF CloseMap
  <2> QED
    BY <1>1, <1>2, <2>1, RecordedSame DEF InHand
<1> QED
  BY <1>5, <1>6, <1>7, <1>8 DEF Close

LEMMA CloseKeeps ==
  General /\ General' /\ CloseScene /\ CloseInv /\ [Next]_vars => CloseInv'
<1> SUFFICES ASSUME General, General', CloseScene, CloseInv, [Next]_vars PROVE CloseInv'
  OBVIOUS
<1>1. ASSUME NEW c \in Calls, Step(c) PROVE CloseInv'
  <2>1. CASE scene.kind[c] = "entry"
    BY <1>1, <2>1, EntryFresh
  <2>2. CASE Close(c)
    BY <1>1, <2>2, CloserKeeps
  <2>3. CASE Clear(c)
    <3>1. /\ scene' = scene /\ pc[c] = "idle" /\ pc'[c] = "done"
          /\ UNCHANGED <<docs, mem, closing>>
          /\ \A b \in Calls \ {c} : pc'[b] = pc[b]
      BY <1>1, <2>3, Goes, StepApart DEF Clear, Starts, flags, General, IInv
    <3>2. \A b \in Calls : Written(b)' = Written(b)
      BY <3>1 DEF Written
    <3>3. Open' = Open
      BY <3>1 DEF Open
    <3> QED
      BY <3>1, <3>2, <3>3 DEF CloseInv, ClaimedByOne, CloserAt, FreshAt, LongBook, AtMostOne,
                              Closing
  <2> QED
    BY <1>1, <2>1, <2>2, <2>3, StepOfKind DEF CloseScene, KindsIn, General, IInv
<1>2. CASE RetryDue \/ UNCHANGED vars
  BY <1>2 DEF RetryDue, vars, CloseInv, ClaimedByOne, CloserAt, FreshAt, LongBook, AtMostOne,
              Open, Written, flags
<1>3. ~Restart
  BY DEF Restart, CloseScene
<1> QED
  BY <1>1, <1>2, <1>3 DEF Next

LEMMA CloseCovered ==
  General /\ General' /\ CloseScene /\ ~Uses("force") /\ ~Unnoticed /\ CloseInv /\ Covered
  /\ [Next]_vars => Covered'
<1> SUFFICES ASSUME General, General', CloseScene, ~Uses("force"), ~Unnoticed, CloseInv, Covered,
                    [Next]_vars
             PROVE  Covered'
  OBVIOUS
<1>1. ASSUME NEW c \in Calls, Step(c) PROVE Covered'
  <2>1. scene.kind[c] \in {"entry", "close", "clear"}
    BY <1>1, StepOfKind DEF CloseScene, KindsIn, Uses, General, IInv
  <2>2. CASE scene.kind[c] = "entry"
    BY <1>1, <2>2, EntryCovered
  <2>3. CASE scene.kind[c] = "close"
    BY <1>1, <2>3, StepOfKind, CloserCovered DEF General, IInv
  <2>4. CASE scene.kind[c] = "clear"
    BY <1>1, <2>4, StepOfKind, ClearCovered DEF General, IInv
  <2> QED
    BY <2>1, <2>2, <2>3, <2>4
<1>2. CASE RetryDue \/ UNCHANGED vars
  BY <1>2 DEF RetryDue, vars, Covered, Recorded, InHands, InHand, Written, Lots, guards
<1>3. ~Restart
  BY DEF Restart, CloseScene
<1> QED
  BY <1>1, <1>2, <1>3 DEF Next

CloseGuards == CloseScene => CloseInv /\ (Uses("force") \/ Unnoticed \/ Covered)

LEMMA CloseAlways == Spec => [](General /\ CloseGuards)
<1>1. Init /\ General => CloseGuards
  <2> SUFFICES ASSUME Init, General PROVE CloseInv /\ Covered
    BY DEF CloseGuards
  <2>1. /\ Open = IF scene.start > 0 THEN {1} ELSE {}
        /\ \A d \in Open : docs[d].qty = scene.start
        /\ Recorded = held /\ InHands = 0 /\ held = scene.start /\ held \in Nat
    BY StartsCovered DEF General, IInv
  <2>2. \A c \in Calls : pc[c] = "idle"
    BY DEF Init
  <2>3. ClaimedByOne /\ \A c \in Calls : CloserAt(c) /\ FreshAt(c)
    BY <2>2 DEF ClaimedByOne, CloserAt, FreshAt, Closing
  <2>4. LongBook /\ AtMostOne /\ Covered
    BY <2>1 DEF LongBook, AtMostOne, Covered
  <2> QED
    BY <2>3, <2>4 DEF CloseInv
<1>2. General /\ General' /\ CloseGuards /\ [Next]_vars => CloseGuards'
  <2> SUFFICES ASSUME General, General', CloseGuards, [Next]_vars, CloseScene'
               PROVE  CloseInv' /\ (Uses("force")' \/ Unnoticed' \/ Covered')
    BY DEF CloseGuards
  <2>1. scene' = scene
    BY SceneStays
  <2>2. CloseScene /\ (Uses("force")' <=> Uses("force")) /\ (Unnoticed' <=> Unnoticed)
    BY <2>1 DEF CloseScene, KindsIn, Fault, Uses, Unnoticed
  <2> QED
    BY <2>2, CloseKeeps, CloseCovered DEF CloseGuards
<1> QED
  BY <1>1, <1>2, AlwaysGeneral, PTL DEF Spec

\* A close is selling, or has sold, the lots of its trade.
SellingOff(c) == pc[c] = "closeSave" /\ scene.kind[c] = "close"

Spared ==
    /\ held >= 0
    /\ \A d \in Open :
          (\A c \in Calls : SellingOff(c) => mem[c].doc # d) => held >= docs[d].qty
    /\ \A c \in Calls : SellingOff(c) => held >= Rest(c)
    /\ \A c \in Calls :
          scene.kind[c] = "entry" /\ pc[c] \in {"query", "filled"} /\ Written(c) = {} =>
              held >= mem[c].fill

LEMMA EntrySpares ==
  ASSUME General, General', CloseScene, CloseInv, Spared, NEW c \in Calls, Step(c),
         scene.kind[c] = "entry"
  PROVE  Spared'
<1> USE DEF General, IInv
<1>0. /\ TypeOK /\ TypeOK' /\ scene' = scene /\ held \in Int /\ held' \in Int
      /\ mem[c].fill \in Int /\ mem'[c].fill \in Int /\ docs \in [Docs -> Document]
      /\ \A b \in Calls \ {c} : /\ pc'[b] = pc[b] /\ mem'[b] = mem[b]
                                /\ Written(b)' = Written(b)
  BY StepLeads, OthersHands DEF Leads, TypeOK, Memory
<1>1. held' >= held /\ held >= 0
  BY <1>0, EntryAdds DEF Spared
<1>2. \/ docs' = docs
      \/ Created(c) /\ Written(c) = {} /\ pc[c] = "filled" /\ held' = held
  <2>1. CASE EntryRecord(c)
    BY <2>1 DEF EntryRecord, Record, Missed, CloseScene
  <2> QED
    BY <2>1, StepOfKind DEF EntryCall, EntryCheck, NotBlocked, Send, Query, EntryInstall
<1>3. ~SellingOff(c) /\ ~SellingOff(c)'
  BY <1>0 DEF SellingOff
<1>4. \A b \in Calls : SellingOff(b)' =>
         SellingOff(b) /\ mem'[b] = mem[b] /\ mem[b] \in Memory
  BY <1>0, <1>3 DEF SellingOff, TypeOK
<1>5. ASSUME NEW b \in Calls, SellingOff(b)' PROVE held' >= Rest(b)'
  <2>1. held >= Rest(b) /\ Rest(b)' = Rest(b) /\ Rest(b) \in Int
    BY <1>4, <1>5 DEF Spared, Rest, Memory
  <2> QED
    BY <1>0, <1>1, <2>1
<1>6. ASSUME NEW d \in Open', \A b \in Calls : SellingOff(b)' => mem'[b].doc # d
      PROVE  held' >= docs'[d].qty
  <2>1. CASE d \in Open
    <3>1. d \in Docs /\ docs[d].status # "none" /\ docs[d].qty \in Int
      BY <1>0, <2>1 DEF Open, Document
    <3>2. docs'[d] = docs[d]
      BY <1>0, <1>2, <3>1, CreatedApart
    <3>3. \A b \in Calls : SellingOff(b) => mem[b].doc # d
      BY <1>0, <1>3, <1>6 DEF SellingOff
    <3>4. held >= docs[d].qty
      BY <2>1, <3>3 DEF Spared
    <3> QED
      BY <1>0, <1>1, <3>1, <3>2, <3>4
  <2>2. CASE d \notin Open
    <3>1. Created(c) /\ Written(c) = {} /\ pc[c] = "filled" /\ held' = held
      BY <1>2, <1>6, <2>2 DEF Open
    <3>2. PICK e \in Docs : e = Least(Unused) /\ e \in Unused
      BY <1>0, <3>1, CreatedTyped DEF Unused
    <3>3. /\ docs'[e] = [status |-> "OPEN", qty |-> mem[c].fill, by |-> c]
          /\ \A x \in Docs \ {e} : docs'[x] = docs[x]
      BY <1>0, <3>1, <3>2 DEF Created
    <3>4. d = e
      BY <1>6, <2>2, <3>3 DEF Open
    <3>5. held >= mem[c].fill
      BY <3>1 DEF Spared
    <3> QED
      BY <3>1, <3>3, <3>4, <3>5
  <2> QED
    BY <2>1, <2>2
<1>7. ASSUME pc'[c] \in {"query", "filled"}, Written(c)' = {} PROVE held' >= mem'[c].fill
  <2>1. CASE Send(c)
    <3>1. held' - held >= mem'[c].fill
      BY <1>7, <2>1, EntryAdds DEF Send
    <3> QED
      BY <1>0, <1>1, <3>1
  <2>2. CASE ~Send(c)
    <3>1. held' = held /\ mem'[c].fill = mem[c].fill /\ pc[c] \in {"query", "filled"}
      BY <1>7, <2>2, EntryAdds
    <3>2. Written(c) = {}
      <4>1. CASE pc[c] = "query"
        BY <4>1, NothingWritten
      <4>2. CASE pc[c] = "filled"
        <5>1. Record(c, "install")
          BY <4>2, StepOfKind DEF EntryCall, Starts, EntryCheck, Send, Query, EntryRecord,
                                  EntryInstall
        <5>2. pc'[c] \in {"install", "done"} \/ Written(c) = {}
          BY <1>0, <5>1, Goes, Ended DEF Record, Missed, CloseScene
        <5> QED
          BY <1>7, <5>2
      <4> QED
        BY <3>1, <4>1, <4>2
    <3> QED
      BY <3>1, <3>2 DEF Spared
  <2> QED
    BY <2>1, <2>2
<1>8. ASSUME NEW b \in Calls \ {c}, scene.kind[b] = "entry", pc[b] \in {"query", "filled"},
             Written(b) = {}
      PROVE  held' >= mem[b].fill
  <2>1. held >= mem[b].fill /\ mem[b].fill \in Int
    BY <1>0, <1>8 DEF Spared, TypeOK, Memory
  <2> QED
    BY <1>0, <1>1, <2>1
<1>9. held' >= 0
  BY <1>0, <1>1
<1>10. \A b \in Calls :
         (scene.kind[b] = "entry" /\ pc[b] \in {"query", "filled"} /\ Written(b) = {})' =>
             held' >= mem'[b].fill
  <2>1. ASSUME NEW b \in Calls,
               scene'.kind[b] = "entry", pc'[b] \in {"query", "filled"}, Written(b)' = {}
        PROVE  held' >= mem'[b].fill
    <3>1. CASE b = c
      BY <1>7, <2>1, <3>1
    <3>2. CASE b # c
      BY <1>0, <1>8, <2>1, <3>2
    <3> QED
      BY <3>1, <3>2
  <2> QED
    BY <2>1
<1> QED
  BY <1>5, <1>6, <1>9, <1>10 DEF Spared

LEMMA CloserSpares ==
  ASSUME General, General', CloseScene, Answered, CloseInv, Spared, NEW c \in Calls, Step(c),
         Close(c)
  PROVE  Spared'
<1> USE DEF General, IInv
<1>0. /\ TypeOK /\ TypeOK' /\ scene' = scene /\ mem \in [Calls -> Memory] /\ mem[c] \in Memory
      /\ mem[c].qty \in Int /\ mem[c].fill \in Int /\ docs \in [Docs -> Document]
      /\ held \in Int /\ CloserAt(c) /\ scene.kind[c] \in {"close", "force"}
      /\ \A b \in Calls \ {c} : /\ pc'[b] = pc[b] /\ mem'[b] = mem[b]
                                /\ Written(b)' = Written(b)
  <2>1. scene.kind[c] \in {"close", "force"}
    BY CloseLabels DEF Close, CloseFind, Starts, CloseSend, CloseConvert, CloseSave, CloseMap,
                       Closing
  <2> QED
    BY <2>1, StepLeads, OthersHands DEF Leads, TypeOK, Memory, CloseInv
<1>1. ASSUME docs' = docs, held' = held, ~SellingOff(c), ~SellingOff(c)'
      PROVE  Spared'
  <2>1. \A b \in Calls : SellingOff(b)' <=> SellingOff(b)
    BY <1>0, <1>1 DEF SellingOff
  <2>2. \A b \in Calls : SellingOff(b) => mem'[b] = mem[b] /\ Rest(b)' = Rest(b)
    BY <1>0, <1>1 DEF Rest
  <2>3. Open' = Open
    BY <1>1 DEF Open
  <2> QED
    BY <1>0, <1>1, <2>1, <2>2, <2>3 DEF Spared
<1>2. ASSUME CloseOver(c) PROVE ~SellingOff(c)'
  BY <1>0, <1>2, ClosingOver DEF SellingOff
<1>3. CASE CloseFind(c)
  <2>1. pc[c] = "idle" /\ UNCHANGED <<docs, held>>
    BY <1>3 DEF CloseFind, Starts
  <2>2. ~SellingOff(c)'
    BY <1>0, <1>3, Goes DEF CloseFind, SellingOff
  <2> QED
    BY <1>1, <2>1, <2>2 DEF SellingOff
<1>4. CASE CloseSend(c) \/ CloseConvert(c)
  <2>1. /\ pc[c] \in {"closeSend", "closeConvert"} /\ mem[c].doc \in Open
        /\ docs[mem[c].doc].qty = mem[c].qty /\ mem[c].qty > 0
    BY <1>0, <1>4 DEF CloseSend, CloseConvert, CloserAt, CloseInv, LongBook
  <2>2. UNCHANGED <<docs, pos, guards>>
        /\ \E f \in Int : -mem[c].qty <= f /\ f <= 0 /\ SoldOff(c, f)
    BY <1>0, <1>4, <2>1, CloseFills
  <2>3. PICK f \in Int : -mem[c].qty <= f /\ f <= 0 /\ SoldOff(c, f)
    BY <2>2
  <2>4. CASE f = 0 /\ (pc'[c] = "closeConvert" \/ CloseOver(c))
    <3>1. held' = held
      BY <1>0, <2>3, <2>4 DEF SoldOff
    <3> QED
      BY <1>1, <1>2, <2>1, <2>2, <2>4, <3>1 DEF SellingOff
  <2>5. CASE pc'[c] = "closeSave" /\ mem' = [mem EXCEPT ![c].fill = f]
    <3>1. \A b \in Calls \ {c} : ~SellingOff(b)
      <4>1. ASSUME NEW b \in Calls \ {c}, SellingOff(b) PROVE FALSE
        <5>1. mem[b].doc \in Open /\ pc[b] \in Closing /\ pc[c] \in Closing
          BY <2>1, <4>1 DEF CloseInv, CloserAt, SellingOff, Closing
        <5>2. mem[b].doc = mem[c].doc
          BY <2>1, <5>1 DEF CloseInv, AtMostOne
        <5> QED
          BY <5>1, <5>2 DEF CloseInv, ClaimedByOne
      <4> QED
        BY <4>1
    <3>2. held >= mem[c].qty
      BY <2>1, <3>1 DEF Spared, SellingOff
    <3>3. mem'[c].fill = f /\ mem'[c].qty = mem[c].qty /\ mem'[c].doc = mem[c].doc
      BY <1>0, <2>5 DEF Memory
    <3>4. held' = held + f /\ held' >= 0 /\ held' >= Rest(c)'
      BY <1>0, <2>3, <3>2, <3>3 DEF SoldOff, Rest
    <3>5. \A b \in Calls : SellingOff(b)' => b = c
      BY <1>0, <3>1 DEF SellingOff
    <3>6. \A b \in Calls :
            ~(scene'.kind[b] = "entry" /\ pc'[b] \in {"query", "filled"} /\ Written(b)' = {})
      <4>1. \A b \in Calls \ {c} :
              ~(scene.kind[b] = "entry" /\ pc[b] \in {"query", "filled"} /\ Written(b) = {})
        BY <2>1 DEF CloseInv, FreshAt
      <4> QED
        BY <1>0, <4>1
    <3>7. Open' = Open /\ \A d \in Open : d = mem[c].doc
      BY <2>1, <2>2 DEF Open, CloseInv, AtMostOne
    <3>8. \/ \A d \in Open' : \E b \in Calls : SellingOff(b)' /\ mem'[b].doc = d
          \/ scene.kind[c] = "force"
      BY <1>0, <2>5, <3>3, <3>7 DEF SellingOff
    <3>9. scene.kind[c] = "close"
      BY <1>0, <2>1 DEF CloserAt
    <3> QED
      BY <3>4, <3>5, <3>6, <3>8, <3>9 DEF Spared
  <2> QED
    BY <2>3, <2>4, <2>5 DEF SoldOff, Answered
<1>5. CASE CloseSave(c)
  <2>1. /\ pc[c] = "closeSave" /\ mem[c].doc \in Open /\ mem[c].doc \in Docs /\ held' = held
        /\ docs' = IF Rest(c) > 0 /\ scene.kind[c] = "close"
                   THEN [docs EXCEPT ![mem[c].doc].qty = Rest(c)]
                   ELSE [docs EXCEPT ![mem[c].doc].status = "CLOSED"]
        /\ Go(c, "closeMap") /\ UNCHANGED <<mem, closing>>
    BY <1>0, <1>5 DEF CloseSave, CloserAt, Open, Answered
  <2>2. ~SellingOff(c)'
    BY <1>0, <2>1, Goes DEF SellingOff
  <2>3. ASSUME NEW d \in Open' PROVE held' >= docs'[d].qty
    <3>1. Open = {mem[c].doc}
      BY <2>1 DEF CloseInv, AtMostOne
    <3>2. CASE Rest(c) > 0 /\ scene.kind[c] = "close"
      <4>1. docs' = [docs EXCEPT ![mem[c].doc].qty = Rest(c)]
        BY <2>1, <3>2
      <4>2. Open' = Open
        BY <1>0, <2>1, <4>1 DEF Open, Document
      <4>3. docs'[d].qty = Rest(c)
        BY <1>0, <2>1, <2>3, <3>1, <4>1, <4>2 DEF Document
      <4>4. held >= Rest(c)
        BY <2>1, <3>2 DEF Spared, SellingOff
      <4> QED
        BY <2>1, <4>3, <4>4
    <3>3. CASE ~(Rest(c) > 0 /\ scene.kind[c] = "close")
      <4>1. docs' = [docs EXCEPT ![mem[c].doc].status = "CLOSED"]
        BY <2>1, <3>3
      <4>2. Open' = {}
        BY <1>0, <2>1, <3>1, <4>1 DEF Open, Document
      <4> QED
        BY <2>3, <4>2
    <3> QED
      BY <3>2, <3>3
  <2>4. \A b \in Calls : SellingOff(b)' => SellingOff(b) /\ Rest(b)' = Rest(b)
    BY <1>0, <2>1, <2>2 DEF SellingOff, Rest
  <2>5. \A b \in Calls : scene.kind[b] = "entry" =>
           pc'[b] = pc[b] /\ mem'[b] = mem[b] /\ Written(b)' = Written(b)
    BY <1>0
  <2> QED
    BY <1>0, <2>1, <2>3, <2>4, <2>5 DEF Spared
<1>6. CASE CloseMap(c)
  <2>1. pc[c] = "closeMap" /\ UNCHANGED <<docs, held>> /\ CloseOver(c)
    BY <1>6 DEF CloseMap
  <2> QED
    BY <1>1, <1>2, <2>1 DEF SellingOff
<1> QED
  BY <1>3, <1>4, <1>5, <1>6 DEF Close

LEMMA SparedKeeps ==
  General /\ General' /\ CloseScene /\ Answered /\ CloseInv /\ Spared /\ [Next]_vars => Spared'
<1> SUFFICES ASSUME General, General', CloseScene, Answered, CloseInv, Spared, [Next]_vars
             PROVE  Spared'
  OBVIOUS
<1>1. ASSUME NEW c \in Calls, Step(c) PROVE Spared'
  <2>1. CASE scene.kind[c] = "entry"
    BY <1>1, <2>1, EntrySpares
  <2>2. CASE Close(c)
    BY <1>1, <2>2, CloserSpares
  <2>3. CASE Clear(c)
    <3>1. /\ scene' = scene /\ pc[c] = "idle" /\ pc'[c] = "done"
          /\ UNCHANGED <<docs, mem, held>>
          /\ \A b \in Calls \ {c} : pc'[b] = pc[b]
      BY <1>1, <2>3, Goes, StepApart DEF Clear, Starts, flags, General, IInv
    <3>2. \A b \in Calls : /\ Written(b)' = Written(b) /\ Rest(b)' = Rest(b)
                           /\ SellingOff(b)' <=> SellingOff(b)
      BY <3>1 DEF Written, Rest, SellingOff
    <3>3. Open' = Open
      BY <3>1 DEF Open
    <3> QED
      BY <3>1, <3>2, <3>3 DEF Spared
  <2> QED
    BY <1>1, <2>1, <2>2, <2>3, StepOfKind DEF CloseScene, KindsIn, General, IInv
<1>2. CASE RetryDue \/ UNCHANGED vars
  BY <1>2 DEF RetryDue, vars, Spared, SellingOff, Rest, Open, Written
<1>3. ~Restart
  BY DEF Restart, CloseScene
<1> QED
  BY <1>1, <1>2, <1>3 DEF Next

CloseSpares == CloseScene /\ Answered => Spared

LEMMA CloseSparesAlways == Spec => []CloseSpares
<1>1. Init /\ General => CloseSpares
  <2> SUFFICES ASSUME Init, General PROVE Spared
    BY DEF CloseSpares
  <2>1. /\ \A d \in Open : docs[d].qty = scene.start
        /\ held = scene.start /\ held \in Nat
    BY StartsCovered DEF General, IInv
  <2>2. \A c \in Calls : pc[c] = "idle"
    BY DEF Init
  <2> QED
    BY <2>1, <2>2 DEF Spared, SellingOff
<1>2. General /\ General' /\ CloseGuards /\ CloseSpares /\ [Next]_vars => CloseSpares'
  <2> SUFFICES ASSUME General, General', CloseGuards, CloseSpares, [Next]_vars,
                      CloseScene', Answered'
               PROVE  Spared'
    BY DEF CloseSpares
  <2>1. CloseScene /\ Answered
    BY SceneStays DEF CloseScene, KindsIn, Fault, Answered, Astray
  <2> QED
    BY <2>1, SparedKeeps DEF CloseGuards, CloseSpares
<1> QED
  BY <1>1, <1>2, CloseAlways, PTL DEF Spec

-----------------------------------------------------------------------------
(* What the orders of the engine and of the close route take.              *)

\* On futures they are reduceOnly: they leave no short, whatever they ask for.
LEMMA ReduceOnlyKeeps ==
  ASSUME TypeOK, ~scene.spot, held >= 0, NEW n \in Int, NEW f \in Fills(n, TRUE)
  PROVE  held + f >= 0
<1>1. held \in Int /\ Spare \in Nat /\ TRUE \in BOOLEAN
  BY LiveAssumption DEF TypeOK
<1>2. PICK room : room = Room(n, TRUE)
  OBVIOUS
<1>3. f \in Int /\ Abs(f) <= room
  BY <1>1, <1>2, FillsBounded
<1>4. room = Abs(held) \/ room = 0
  BY <1>2 DEF Room
<1> QED
  BY <1>1, <1>3, <1>4 DEF Abs

\* What an order that only reduces may fill without an answer.
Unanswered(n) == UnknownFills(n, TRUE) \cup LostFills(n, TRUE, "quote")

Reducing == ~scene.spot /\ ~Uses("order") /\ ~Uses("audit") => held >= 0

LEMMA StepReduces ==
  ASSUME General, General', Reducing, NEW c \in Calls, Step(c)
  PROVE  Reducing'
<1> USE DEF General, IInv
<1>0. /\ TypeOK /\ held \in Int /\ held' \in Int /\ scene' = scene
      /\ mem \in [Calls -> Memory] /\ mem[c] \in Memory
  BY StepLeads DEF Leads, TypeOK
<1> SUFFICES ASSUME ~scene.spot, ~Uses("order"), ~Uses("audit") PROVE held' >= 0
  BY <1>0 DEF Reducing, Uses
<1>1. held >= 0 /\ scene.kind[c] \notin {"order", "audit"}
  BY DEF Reducing, Uses
<1>2. CASE scene.kind[c] = "entry"
  BY <1>0, <1>1, <1>2, EntryAdds
<1>3. ASSUME NEW n \in Int,
             held' = held \/ \E f \in Fills(n, TRUE) \cup Unanswered(n) : held' = held + f
      PROVE  held' >= 0
  <2>1. CASE held' = held
    BY <1>1, <2>1
  <2>2. CASE \E f \in Fills(n, TRUE) : held' = held + f
    BY <1>0, <1>1, <2>2, ReduceOnlyKeeps
  <2>3. CASE \E f : f = 0 /\ held' = held + f
    BY <1>0, <1>1, <2>3
  <2> QED
    BY <1>3, <2>1, <2>2, <2>3 DEF Unanswered, UnknownFills, LostFills
<1>4. CASE Exit(c)
  <2>1. mem[c].fill \in Int
    BY <1>0 DEF Memory
  <2>2. \/ held' = held
        \/ \E f \in Fills(mem[c].fill, TRUE) \cup Unanswered(mem[c].fill) : held' = held + f
    BY <1>4 DEF Unanswered, Exit, ExitSkipped, ExitCall, CapSell, Sell, SellConvert, OrderFilled,
                ExitTrim,
                TrimSave, ExitClaim, ExitRemove
  <2> QED
    BY <1>3, <2>1, <2>2
<1>5. CASE Close(c)
  <2>1. CASE CloseSend(c)
    <3>1. -mem[c].qty \in Int
      BY <1>0 DEF Memory
    <3>2. \/ held' = held
          \/ \E f \in Fills(-mem[c].qty, TRUE) \cup Unanswered(-mem[c].qty) : held' = held + f
      BY <2>1 DEF Unanswered, CloseSend, OrderFilled
    <3> QED
      BY <1>3, <3>1, <3>2
  <2>2. CASE CloseConvert(c)
    <3>1. PICK n : n = -Least({mem[c].qty, held + Spare})
      OBVIOUS
    <3>2. n \in Int
      <4>1. mem[c].qty \in Int /\ held + Spare \in Int
        BY <1>0, LiveAssumption DEF Memory
      <4>2. Least({mem[c].qty, held + Spare}) \in Int
        BY <4>1, LeastOfTwo
      <4> QED
        BY <3>1, <4>2
    <3>3. held' = held \/ \E f \in Fills(n, TRUE) \cup Unanswered(n) : held' = held + f
      BY <2>2, <3>1 DEF Unanswered, CloseConvert, OrderFilled
    <3> QED
      BY <1>3, <3>2, <3>3
  <2>3. CASE CloseFind(c) \/ CloseSave(c) \/ CloseMap(c)
    <3>1. held' = held
      BY <2>3 DEF CloseFind, CloseSave, CloseMap
    <3> QED
      BY <1>1, <3>1
  <2> QED
    BY <1>5, <2>1, <2>2, <2>3 DEF Close
<1>7. CASE Monitor(c) \/ Recon(c) \/ Clear(c)
  <2>1. held' = held
    BY <1>7 DEF Monitor, MonitorStart, MonitorTick, Verify, Recon, ReconRead, ReconFind,
                ReconClose, ReconLook, ReconAdd, Clear
  <2> QED
    BY <1>1, <2>1
<1>6. scene.kind[c] \in Kinds
  BY SceneParts
<1> QED
  BY <1>1, <1>2, <1>4, <1>5, <1>6, <1>7, StepOfKind DEF Kinds

LEMMA ReducingAlways == Spec => []Reducing
<1>1. Init /\ General => Reducing
  <2> SUFFICES ASSUME Init, General PROVE Reducing
    OBVIOUS
  <2>1. held = scene.start /\ held \in Nat
    BY StartsCovered DEF General, IInv
  <2> QED
    BY <2>1 DEF Reducing
<1>2. General /\ General' /\ Reducing /\ [Next]_vars => Reducing'
  <2> SUFFICES ASSUME General, General', Reducing, [Next]_vars PROVE Reducing'
    OBVIOUS
  <2>1. ASSUME NEW c \in Calls, Step(c) PROVE Reducing'
    BY <2>1, StepReduces
  <2>2. CASE Restart \/ RetryDue \/ UNCHANGED vars
    BY <2>2 DEF Restart, RetryDue, vars, Reducing, Uses
  <2> QED
    BY <2>1, <2>2 DEF Next
<1> QED
  BY <1>1, <1>2, AlwaysGeneral, PTL DEF Spec

OfEngine == KindsIn({"entry", "exit", "trim", "monitor", "clear", "none"})
OfRoute == KindsIn({"entry", "close", "force", "clear", "none"})

\* The engine with its monitor hides no lot, and nor do closes by the route beside
\* the engine's entries: no rejection, partial fill, lost answer, failed write or
\* retry leaves on the exchange what neither a trade records nor a call is about
\* to, unless the symbol is blocked. Excepted are the faults the code does not
\* notice, those of Unnoticed.
THEOREM SellersHideNothing == Spec => [](OfEngine \/ OfRoute => NoHidden)
<1>1. General /\ EngineGuards /\ CloseGuards => (OfEngine \/ OfRoute => NoHidden)
  <2> SUFFICES ASSUME General, EngineGuards, CloseGuards, OfEngine \/ OfRoute,
                      ~LeftToOperator, ~Unnoticed
               PROVE  NoHidden
    BY DEF NoHidden
  <2>1. ~Fault("crash") /\ ~Fault("lookup") /\ ~Uses("force")
    BY DEF LeftToOperator, Unnoticed, Fault
  <2>2. CASE OfEngine
    <3>1. EngineScene
      BY <2>1, <2>2 DEF OfEngine, EngineScene
    <3>2. Covered
      BY <3>1, AboveCovers DEF EngineGuards
    <3> QED
      BY <3>2 DEF Covered, NoHidden
  <2>3. CASE OfRoute
    <3>1. CloseScene
      BY <2>1, <2>3 DEF OfRoute, CloseScene
    <3> QED
      BY <2>1, <3>1 DEF CloseGuards, Covered, NoHidden
  <2> QED
    BY <2>2, <2>3
<1> QED
  BY <1>1, EngineAlways, CloseAlways, PTL

\* The exits of the engine and of the monitor, and the closes of the route, sell no
\* more than the trade holds. On futures, in any company but that of manual orders
\* and audits, because they are reduceOnly; on spot, where Spare is in reach, the
\* engine's because exitsInFlight admits one at a time, the route's because
\* liveCloseInFlight claims the trade, as long as each exit learns of its fill and
\* books it, and no fill has two trades.
THEOREM NeverOversold == Spec => []((scene.spot => OfEngine \/ OfRoute) => NotOversold)
<1>1. /\ General /\ Reducing /\ EngineGuards /\ CloseGuards /\ EngineSpares /\ CloseSpares
      => ((scene.spot => OfEngine \/ OfRoute) => NotOversold)
  <2> SUFFICES ASSUME General, Reducing, EngineGuards, CloseGuards, EngineSpares, CloseSpares,
                      scene.spot => OfEngine \/ OfRoute,
                      ~(Uses("order") \/ Uses("audit")),
                      ~(scene.spot /\ (Unbooked \/ Fault("lookup")))
               PROVE  held >= 0
    BY DEF NotOversold
  <2>0. TypeOK /\ scene.spot \in BOOLEAN /\ held \in Int
    BY SceneParts DEF General, IInv, TypeOK
  <2>1. CASE ~scene.spot
    BY <2>1 DEF Reducing
  <2>2. CASE scene.spot
    <3>1. ~Fault("crash") /\ ~Fault("lookup") /\ Answered
      BY <2>2 DEF Fault, Answered, Astray, Unbooked
    <3>2. CASE OfEngine
      <4>1. EngineScene
        BY <3>1, <3>2 DEF OfEngine, EngineScene
      <4>2. EngineInv /\ Below
        BY <3>1, <4>1 DEF EngineGuards, EngineSpares
      <4> QED
        BY <4>2 DEF Below
    <3>3. CASE OfRoute
      <4>1. CloseScene
        BY <3>1, <3>3 DEF OfRoute, CloseScene
      <4>2. Spared
        BY <3>1, <4>1 DEF CloseSpares
      <4> QED
        BY <4>2 DEF Spared
    <3> QED
      BY <2>2, <3>2, <3>3
  <2> QED
    BY <2>0, <2>1, <2>2
<1> QED
  BY <1>1, AlwaysGeneral, ReducingAlways, EngineAlways, CloseAlways, EngineSparesAlways,
     CloseSparesAlways, PTL

-----------------------------------------------------------------------------
(* The audit, while nothing else runs.                                     *)

\* A call begins as its kind does, and then, if calls are apart, no other runs.
LEMMA StepStarts ==
  ASSUME TypeOK, KindPaths, NEW c \in Calls, Step(c), ~Busy(c), scene.apart
  PROVE  \A b \in Calls : ~Busy(b)
<1>1. pc[c] \in {"idle", "done"} /\ scene.kind[c] \in Kinds
  BY SceneParts DEF Busy
<1>2. ASSUME NEW k, Starts(c, k) PROVE \A b \in Calls : ~Busy(b)
  BY <1>2 DEF Starts
<1>3. CASE scene.kind[c] = "order"
  <2>1. OrderCall(c)
    BY <1>1, <1>3, StepOfKind
       DEF Send, Query, Convert, OrderLock, OrderFind, OrderSave, OrderCreate
  <2> QED
    BY <1>2, <2>1 DEF OrderCall
<1>4. CASE scene.kind[c] = "entry"
  <2>1. EntryCall(c)
    BY <1>1, <1>4, StepOfKind DEF EntryCheck, Send, Query, EntryRecord, EntryInstall
  <2> QED
    BY <1>2, <2>1 DEF EntryCall
<1>5. CASE scene.kind[c] \in {"exit", "trim", "monitor"}
  <2>1. Exit(c) => ExitsHere(c)
    BY <1>1 DEF Exit, ExitSkipped, ExitCall, CapSell, Sell, SellConvert, ExitTrim, TrimSave,
                ExitClaim, ExitRemove
  <2>2. Monitor(c) => MonitorStart(c)
    BY <1>1 DEF Monitor, MonitorTick, Verify
  <2> QED
    BY <1>1, <1>2, <1>5, <2>1, <2>2, StepOfKind DEF ExitsHere, MonitorStart
<1>6. CASE scene.kind[c] \in {"close", "force"}
  <2>1. CloseFind(c)
    BY <1>1, <1>6, StepOfKind DEF Close, CloseSend, CloseConvert, CloseSave, CloseMap
  <2> QED
    BY <1>2, <2>1 DEF CloseFind
<1>7. CASE scene.kind[c] = "recon"
  <2>1. ReconRead(c)
    BY <1>1, <1>7, StepOfKind DEF Recon, ReconFind, ReconClose, ReconLook, ReconAdd
  <2> QED
    BY <1>2, <2>1 DEF ReconRead
<1>8. CASE scene.kind[c] = "audit"
  <2>1. AuditFind(c)
    BY <1>1, <1>8, StepOfKind DEF Audit, AuditFix, AuditFlatten, AuditClose
  <2> QED
    BY <1>2, <2>1 DEF AuditFind
<1>9. CASE scene.kind[c] = "clear"
  BY <1>2, <1>9, StepOfKind DEF Clear
<1> QED
  BY <1>1, <1>3, <1>4, <1>5, <1>6, <1>7, <1>8, <1>9, StepOfKind DEF Kinds

Alone == \A b, c \in Calls : Busy(b) /\ Busy(c) => b = c

\* The trades that an audit has in hand are those that are open.
InView ==
    \A c \in Calls : pc[c] \in {"audit", "flatten", "flattened"} => mem[c].open = Open

Undisturbed == scene.apart => Alone /\ InView

\* What is left of the trades of an audit once it has closed the oldest.
LEMMA OldestCloses ==
  ASSUME TypeOK, Flattening, NEW c \in Calls, AuditClose(c), mem[c].open = Open
  PROVE  /\ Open' = Open \ {Least(Open)} /\ Open' # {}
         /\ Open' \subseteq Docs /\ Latest(Open') \in Open'
<1> DEFINE oldest == Least(Open)
<1>1. /\ docs' = [docs EXCEPT ![oldest].status = "CLOSED"]
      /\ \E d, e \in Open : d # e
      /\ Open \subseteq Docs
  BY DEF AuditClose, Flattening, Open
<1>2. oldest \in Docs
  BY <1>1, LeastOfNats, DocsAreNats
<1> HIDE DEF oldest
<1>3. Open' = Open \ {oldest}
  BY <1>1, <1>2 DEF Open, TypeOK, Document
<1>4. Open' # {} /\ Open' \subseteq Docs
  BY <1>1, <1>3
<1>5. Latest(Open') \in Open'
  <2>1. \A S \in SUBSET Docs : S # {} => Latest(S) \in S
    BY LatestOfDocs
  <2> QED
    BY <1>4, <2>1
<1> QED
  BY <1>3, <1>4, <1>5 DEF oldest

LEMMA AuditInView ==
  ASSUME General, General', NEW c \in Calls, Audit(c),
         pc[c] \in {"audit", "flatten", "flattened"} => mem[c].open = Open,
         pc'[c] \in {"audit", "flatten", "flattened"}
  PROVE  mem'[c].open = Open'
<1> USE DEF General, IInv
<1>0. mem \in [Calls -> Memory] /\ mem[c] \in Memory
  BY DEF TypeOK
<1>1. CASE AuditFind(c)
  BY <1>0, <1>1 DEF AuditFind, Memory, Open
<1>2. CASE AuditFix(c)
  <2>1. mem' = mem /\ Open' = Open
    BY <1>2, Ended DEF AuditFix, Open
  <2> QED
    BY <1>2, <2>1 DEF AuditFix
<1>3. CASE AuditFlatten(c)
  BY <1>3 DEF AuditFlatten, Open
<1>4. CASE AuditClose(c)
  <2>1. pc[c] = "flattened" /\ mem[c].open = Open
    BY <1>4 DEF AuditClose
  <2>2. mem' = [mem EXCEPT ![c].open = Open \ {Least(Open)}]
    BY <1>4, <2>1, Ended DEF AuditClose
  <2> QED
    BY <1>0, <1>4, <2>1, <2>2, OldestCloses DEF Memory
<1> QED
  BY <1>1, <1>2, <1>3, <1>4 DEF Audit

LEMMA UndisturbedKept == General /\ General' /\ Undisturbed /\ [Next]_vars => Undisturbed'
<1> SUFFICES ASSUME General, General', Undisturbed, [Next]_vars, scene'.apart
             PROVE  Alone' /\ InView'
  BY DEF Undisturbed
<1>0. scene' = scene /\ Alone /\ InView
  BY SceneStays DEF Undisturbed
<1>1. ASSUME NEW c \in Calls, Step(c) PROVE Alone' /\ InView'
  <2>1. \A b \in Calls \ {c} : pc'[b] = pc[b] /\ mem'[b] = mem[b] /\ ~Busy(b)
    <3>1. CASE Busy(c)
      BY <1>0, <1>1, <3>1, StepApart DEF Alone, General, IInv
    <3>2. CASE ~Busy(c)
      BY <1>0, <1>1, <3>2, StepApart, StepStarts DEF General, IInv
    <3> QED
      BY <3>1, <3>2
  <2>2. Alone'
    BY <2>1 DEF Alone, Busy
  <2>3. \A b \in Calls \ {c} : pc'[b] \notin {"audit", "flatten", "flattened"}
    BY <2>1 DEF Busy
  <2>4. pc'[c] \in {"audit", "flatten", "flattened"} => scene.kind[c] = "audit"
    <3>1. /\ pc'[c] \in {"idle", "done"} \cup Labels(scene.kind[c])
          /\ scene.kind[c] \in Kinds
      BY <1>1, StepPaths, SceneParts DEF General, IInv
    <3> QED
      BY <3>1 DEF Labels, Selling, Closing, Kinds
  <2>5. pc'[c] \in {"audit", "flatten", "flattened"} => mem'[c].open = Open'
    <3>1. scene.kind[c] = "audit" => Audit(c)
      BY <1>1, StepOfKind DEF General, IInv
    <3> QED
      BY <1>0, <2>4, <3>1, AuditInView DEF InView
  <2> QED
    BY <2>2, <2>3, <2>5 DEF InView
<1>2. CASE RetryDue \/ UNCHANGED vars
  BY <1>0, <1>2 DEF RetryDue, vars, Alone, InView, Open, Busy
<1>3. CASE Restart
  <2>1. \A c \in Calls : pc'[c] \in {"idle", "done"}
    BY <1>3 DEF Restart, Busy, AtEnd
  <2> QED
    BY <2>1 DEF Alone, InView, Busy
<1> QED
  BY <1>1, <1>2, <1>3 DEF Next

\* A set of one element or none.
LEMMA OneAtMost ==
  ASSUME NEW S \in SUBSET Docs, S # {}, ~(Cardinality(S) > 1), NEW x \in S
  PROVE  S = {x}
<1>1. IsFiniteSet(S)
  BY FiniteParts, FS_Subset
<1>2. Cardinality(S \ {x}) = Cardinality(S) - 1 /\ IsFiniteSet(S \ {x})
  BY <1>1, FS_RemoveElement
<1>3. Cardinality(S) \in Nat /\ Cardinality(S \ {x}) \in Nat
  BY <1>1, <1>2, FS_CardinalityType
<1>4. Cardinality(S \ {x}) = 0
  BY <1>2, <1>3
<1>5. S \ {x} = {}
  BY <1>2, <1>4, FS_EmptySet
<1> QED
  BY <1>5

LEMMA AuditLeaves ==
  ASSUME General, General', NEW c \in Calls, Audit(c), pc'[c] = "done",
         pc[c] \in {"audit", "flatten", "flattened"} => mem[c].open = Open
  PROVE  Open' = IF pos' = NoPos THEN {} ELSE {pos'.doc}
<1> USE DEF General, IInv
<1>0. Open \subseteq Docs
  BY DEF Open
<1>1. CASE AuditFix(c)
  <2>1. /\ mem[c].open = Open /\ pos' = Converged(c) /\ docs' = docs /\ pc[c] = "audit"
    BY <1>1 DEF AuditFix
  <2>2. ~(Cardinality(Open) > 1)
    BY <1>1, <2>1, Goes DEF AuditFix
  <2>3. Open' = Open
    BY <2>1 DEF Open
  <2>4. CASE Open = {}
    BY <2>1, <2>3, <2>4 DEF Converged
  <2>5. CASE Open # {}
    <3>1. PICK d \in Open : Open = {d}
      BY <1>0, <2>2, <2>5, OneAtMost
    <3>2. CASE pos.doc = d
      <4>1. pos' = pos
        BY <2>1, <3>1, <3>2 DEF Converged
      <4>2. pos # NoPos
        BY <1>0, <3>1, <3>2, DocsAreNats DEF NoPos
      <4> QED
        BY <2>3, <3>1, <3>2, <4>1, <4>2
    <3>3. CASE pos.doc # d
      <4>1. Open \ {pos.doc} = {d}
        BY <3>1, <3>3
      <4>2. Latest({d}) = d
        BY <1>0, <3>1, LatestOfDocs
      <4>3. pos' = PositionRead(c, d)
        BY <2>1, <4>1, <4>2 DEF Converged
      <4>4. pos'.doc = d /\ pos' # NoPos
        BY <1>0, <3>1, <4>3, DocsAreNats DEF PositionRead, NoPos
      <4> QED
        BY <2>3, <3>1, <4>4
    <3> QED
      BY <3>2, <3>3
  <2> QED
    BY <2>4, <2>5
<1>2. CASE AuditClose(c)
  <2>1. pc[c] = "flattened" /\ mem[c].open = Open
    BY <1>2 DEF AuditClose
  <2>2. /\ Open' = Open \ {Least(Open)} /\ Open' # {}
        /\ Open' \subseteq Docs /\ Latest(Open') \in Open'
    BY <1>2, <2>1, OldestCloses
  <2>3. ~(Cardinality(Open \ {Least(Open)}) > 1)
    BY <1>2, <2>1, Goes DEF AuditClose
  <2>4. pos' = PositionRead(c, Latest(Open \ {Least(Open)}))
    BY <1>2, <2>1, <2>3 DEF AuditClose
  <2>5. PICK S \in SUBSET Docs : S = Open'
    BY <2>2
  <2>6. S = {Latest(S)} /\ pos' = PositionRead(c, Latest(S)) /\ Latest(S) \in Docs
    BY <2>2, <2>3, <2>4, <2>5, OneAtMost
  <2>7. pos'.doc = Latest(S) /\ pos' # NoPos
    BY <2>6, DocsAreNats DEF PositionRead, NoPos
  <2> QED
    BY <2>5, <2>6, <2>7
<1>3. ~AuditFind(c) /\ ~AuditFlatten(c)
  BY Goes DEF AuditFind, AuditFlatten
<1> QED
  BY <1>1, <1>2, <1>3 DEF Audit

\* An audit that runs by itself leaves the map with the one trade that is open, the
\* latest, however many trades it found and whatever the exchange did to its orders.
THEOREM AuditsConverge == Spec => AuditConverges
<1>1. Init => Undisturbed
  BY DEF Init, Undisturbed, Alone, InView, Busy
<1>2. General /\ General' /\ Undisturbed /\ [Next]_vars
      => [\A c \in Calls :
             scene.apart /\ Audit(c) /\ pc'[c] = "done" =>
                Open' = IF pos' = NoPos THEN {} ELSE {pos'.doc}]_vars
  BY AuditLeaves DEF Undisturbed, InView
<1> QED
  BY <1>1, <1>2, AlwaysGeneral, UndisturbedKept, PTL DEF Spec, AuditConverges
=============================================================================
