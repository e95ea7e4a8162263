------------------------- MODULE IndianExitProofs -------------------------
(***************************************************************************)
(* Proofs about IndianExit: any number of servers and a trade of any       *)
(* quantity; monitors that race for one trigger, jobs of all kinds one     *)
(* after the other, and square-offs that race.                             *)
(***************************************************************************)
EXTENDS IndianExit, TLAPS

\* Monitors are the only jobs, one of stop and target is within reach, nothing
\* throws once an order has filled, the mode is not MANUAL, and a lease keeps the
\* next registration of an exit 50 ms off: it outlives the registration it was
\* taken for, and an exit that got as far as its order or its save gives it back
\* no sooner.  Leases may run out under all the rest of an exit, orders be
\* rejected or filled in part, saves throw, servers stop.
Racing ==
    /\ \A j \in Jobs : scene.kind[j] \in {"monitor", "none"}
    /\ \A s, t \in Triggers \cap scene.prices : s = t
    /\ scene.faults \cap {"late", "window", "manual"} = {}

-----------------------------------------------------------------------------
(* The invariant.  An exit goes through three stages: the job is ahead of    *)
(* its record, is bound by it, and has a fill in hand.  The quantity sold so *)
(* far is the key that the next exit must register; every key below it is    *)
(* spent, so that a copy of the trade read before the last fill leads        *)
(* nowhere.                                                                  *)

Ahead(j) == pc[j] \in {"read", "lock", "register"}
Bound(j) ==
    pc[j] \in {"pending", "place", "refused", "undo", "hold", "leaveHold", "leaveUndo"}
InHand(j) == pc[j] \in {"credit", "leaveFill", "fill"}
Acting(j) == Bound(j) \/ InHand(j)

\* Every trigger within reach has its record at this quantity.
Spent(f) == \A t \in Triggers \cap scene.prices : <<t, f>> \in intents

\* Where a monitor may stand, on what trigger, and with which paths to save.
OnPath ==
    \A j \in Jobs :
        /\ pc[j] \in {"idle", "done", "leave"} \/ Ahead(j) \/ Acting(j)
        /\ pc[j] \in {"lock", "register"} => trigger[j] \in scene.prices
        /\ Ahead(j) \/ Acting(j) => "qty" \notin dirty[j]

\* One job acts, on what its record says.
OneActs == \A i, j \in Jobs : Acting(i) /\ Acting(j) => i = j

\* What the document and the copies have for the quantity sold.
Frontier ==
    /\ doc.filled <= sold
    /\ doc.filled < sold => Spent(doc.filled)
    /\ \A j \in Jobs : Ahead(j) =>
           /\ copy[j].filled <= sold /\ copy[j].filled < Qty
           /\ copy[j].filled < sold => Spent(copy[j].filled)
    /\ \A j \in Jobs : Bound(j) =>
           copy[j].filled = sold /\ sold < Qty /\ Spent(sold)
    /\ \A j \in Jobs : InHand(j) =>
           /\ copy[j].filled = sold /\ doc.filled < sold
           /\ \A i \in Jobs : Ahead(i) => copy[i].filled < sold

\* A trade is closed by its last fill.
ClosedLast ==
    /\ doc.filled = Qty => doc.status = "CLOSED"
    /\ doc.status = "CLOSED" => sold = Qty /\ \A j \in Jobs : ~Acting(j)

\* The wallet is behind the fills by the one in hand.
Paid ==
    /\ sold <= Qty
    /\ cash <= sold
    /\ \A j \in Jobs : pc[j] = "credit" => cash + noted[j] <= sold

\* So is the document, and without crashes nothing else is missing.
Settled ==
    Intact =>
        /\ (\A j \in Jobs : ~InHand(j)) => cash = sold /\ Remaining = Qty - sold
        /\ \A j \in Jobs : InHand(j) =>
               /\ Remaining = Qty - (sold - noted[j])
               /\ cash = IF pc[j] = "credit" THEN sold - noted[j] ELSE sold

\* An exit still holds the lease it was registered under.
Holding(j) ==
    pc[j] \in {"pending", "place", "refused", "leaveUndo", "credit", "leaveFill"}

\* The young records are of the quantity sold so far.
YoungAtSold == \A key \in recent : key[2] = sold

\* The lease while a record is young: a server has one cycle under way, whoever
\* registers has the lease, and so no one does while an exit that another may
\* repeat holds it, or a process that stopped under it.
Leased ==
    /\ \A j \in Jobs : Busy(j) => scene.kind[j] = "monitor"
    /\ \A i, j \in Jobs : Busy(i) /\ Busy(j) /\ Home[i] = Home[j] => i = j
    /\ \A j \in Jobs : pc[j] \notin {"leaveHold", "hold"}
    /\ \A j \in Jobs : pc[j] = "register" => lease = Home[j]
    /\ \/ recent = {} \/ lease = Stopped
       \/ \E j \in Jobs : Holding(j) /\ lease = Home[j] /\ (Bound(j) => YoungAtSold)
       \/ YoungAtSold /\ \A j \in Jobs : ~Acting(j)

CoordinatorOK ==
    /\ lease \in Instances \cup {NoOwner, Stopped}
    /\ intents \subseteq Keys
    /\ recent \subseteq Keys
    /\ registry \in [Instances -> SUBSET Keys]

RaceInv ==
    TypeOK /\ OnPath /\ OneActs /\ Frontier /\ ClosedLast /\ Paid /\ Settled

-----------------------------------------------------------------------------
(* Facts about documents, saves and labels.                                  *)

\* The fields of a document.
LEMMA DocumentParts ==
  ASSUME NEW d \in Document
  PROVE  /\ d.status \in OpenStatuses \cup {"CLOSED"}
         /\ d.qty \in Int /\ 0 <= d.qty /\ d.qty <= Qty
         /\ d.waiting \in BOOLEAN
         /\ d.filled \in Int /\ 0 <= d.filled /\ d.filled <= Qty
BY ExitAssumption DEF Document

\* What a job writes of its memory.
LEMMA SaveWrites ==
  ASSUME TypeOK, NEW d \in Document, NEW p, Save(d, p)
  PROVE  /\ doc' \in Document
         /\ doc'.status = IF "status" \in p THEN d.status ELSE doc.status
         /\ doc'.qty = IF "qty" \in p THEN d.qty ELSE doc.qty
         /\ doc'.filled = IF "meta" \in p THEN d.filled ELSE doc.filled
<1>1. doc \in Document
  BY DEF TypeOK
<1> QED
  BY <1>1 DEF Save, Document

\* The labels around the lease.
LEMMA LeaseLabels ==
  {"leave", "leaveHold", "leaveUndo", "leaveFill", "done", "hold", "undo", "fill"} \subseteq Pcs
BY DEF Pcs, After

\* A job that moves on, and those that stand.
LEMMA Moved ==
  ASSUME TypeOK, NEW j \in Jobs, NEW l \in Pcs, Go(j, l)
  PROVE  /\ pc' \in [Jobs -> Pcs] /\ pc'[j] = l
         /\ \A i \in Jobs : i # j => pc'[i] = pc[i]
BY DEF TypeOK, Go

\* The initial states.
LEMMA InitRace == Init => RaceInv
<1> SUFFICES ASSUME Init PROVE RaceInv
  OBVIOUS
<1>1. Fresh \in Document /\ Qty \in Nat \ {0}
  BY ExitAssumption DEF Fresh, Document, OpenStatuses
<1>2. TypeOK
  BY <1>1, ExitAssumption DEF Init, TypeOK, Pcs, Triggers
<1>3. \A j \in Jobs : ~Ahead(j) /\ ~Acting(j) /\ ~InHand(j) /\ ~Bound(j)
  BY DEF Init, Ahead, Acting, Bound, InHand
<1>4. doc.status = "OPEN" /\ doc.qty = Qty /\ doc.filled = 0 /\ sold = 0 /\ cash = 0
  BY DEF Init, Fresh
<1>5. \A j \in Jobs : pc[j] = "idle"
  BY DEF Init
<1> QED
  BY <1>1, <1>2, <1>3, <1>4, <1>5
     DEF RaceInv, OnPath, OneActs, Frontier, ClosedLast, Paid, Settled, Remaining

\* A step that moves jobs within their stages, or out of them, and changes
\* nothing else that the invariant speaks of.
LEMMA StagesKept ==
  ASSUME RaceInv, TypeOK',
         UNCHANGED <<scene, doc, intents, work, cash, sold>>,
         \A j \in Jobs :
            /\ pc'[j] \in {"idle", "done", "leave"} \/ Ahead(j)' \/ Acting(j)'
            /\ Ahead(j)' => Ahead(j)
            /\ Bound(j)' => Bound(j)
            /\ InHand(j)' => InHand(j)
            /\ InHand(j) => InHand(j)' \/ ~Intact
            /\ pc'[j] \in {"lock", "register"} => pc[j] \in {"lock", "register"}
            /\ pc'[j] = "credit" => pc[j] = "credit"
            /\ pc[j] = "credit" /\ InHand(j)' => pc'[j] = "credit"
  PROVE  RaceInv'
<1>1. OnPath'
  BY DEF RaceInv, OnPath, work, Acting
<1>2. OneActs'
  BY DEF RaceInv, OneActs, Acting
<1>3. Frontier'
  BY DEF RaceInv, Frontier, work, Spent
<1>4. ClosedLast'
  BY DEF RaceInv, ClosedLast, Acting
<1>5. Paid'
  BY DEF RaceInv, Paid, work
<1>6. Settled'
  <2> SUFFICES ASSUME Intact PROVE Settled'
    BY DEF Settled, Intact
  <2>1. \A j \in Jobs : InHand(j)' <=> InHand(j)
    OBVIOUS
  <2>2. \A j \in Jobs : InHand(j) => (pc'[j] = "credit" <=> pc[j] = "credit")
    BY <2>1
  <2> QED
    BY <2>1, <2>2 DEF RaceInv, Settled, Remaining, work
<1> QED
  BY <1>1, <1>2, <1>3, <1>4, <1>5, <1>6 DEF RaceInv

\* One job moves, the others stand.
LEMMA OneMoves ==
  ASSUME RaceInv, NEW j \in Jobs, NEW l \in Pcs, Go(j, l),
         UNCHANGED <<scene, doc, intents, work, cash, sold>>, CoordinatorOK',
         \/ pc[j] \notin {"credit", "leaveFill", "fill"} /\ l \in {"idle", "done", "leave"}
         \/ pc[j] = "lock" /\ l = "register"
         \/ Bound(j) /\ l \in {"refused", "undo", "hold"}
         \/ pc[j] = "leaveFill" /\ l = "fill"
  PROVE  RaceInv'
<1>1. TypeOK
  BY DEF RaceInv
<1>2. /\ pc' \in [Jobs -> Pcs] /\ pc'[j] = l
      /\ \A i \in Jobs : i # j => pc'[i] = pc[i]
  BY <1>1, Moved
<1>3. TypeOK'
  BY <1>1, <1>2 DEF TypeOK, work, CoordinatorOK
<1>4. \A i \in Jobs : pc[i] \in {"idle", "done", "leave"} \/ Ahead(i) \/ Acting(i)
  BY DEF RaceInv, OnPath
<1>5. ASSUME NEW i \in Jobs
      PROVE
            /\ pc'[i] \in {"idle", "done", "leave"} \/ Ahead(i)' \/ Acting(i)'
            /\ Ahead(i)' => Ahead(i)
            /\ Bound(i)' => Bound(i)
            /\ InHand(i)' => InHand(i)
            /\ InHand(i) => InHand(i)'
            /\ pc'[i] \in {"lock", "register"} => pc[i] \in {"lock", "register"}
            /\ pc'[i] = "credit" => pc[i] = "credit"
            /\ pc[i] = "credit" /\ InHand(i)' => pc'[i] = "credit"
  <2>1. CASE i # j
    BY <1>2, <1>4, <2>1 DEF Ahead, Bound, InHand, Acting
  <2>2. CASE i = j
    BY <1>2, <2>2 DEF Ahead, Bound, InHand, Acting
  <2> QED
    BY <2>1, <2>2
<1> QED
  BY <1>3, <1>5, StagesKept

\* A lease runs out, a record comes of age, or a server stops.
LEMMA WorldKept ==
  ASSUME RaceInv, LeaseExpires \/ RecordAges \/ \E i \in Instances : Crash(i)
  PROVE  RaceInv'
<1>1. TypeOK /\ \A j \in Jobs : pc[j] \in {"idle", "done", "leave"} \/ Ahead(j) \/ Acting(j)
  BY DEF RaceInv, OnPath
<1>2. CASE LeaseExpires \/ RecordAges
  <2>1. TypeOK'
    BY <1>1, <1>2 DEF LeaseExpires, RecordAges, TypeOK, work
  <2> QED
    BY <1>1, <1>2, <2>1, StagesKept DEF LeaseExpires, RecordAges, Ahead, Bound, InHand, Acting
<1>3. ASSUME NEW s \in Instances, Crash(s)
      PROVE  RaceInv'
  <2>1. /\ UNCHANGED <<scene, doc, intents, work, cash, sold>>
        /\ pc' = [j \in Jobs |-> IF Busy(j) /\ Home[j] = s THEN "done" ELSE pc[j]]
        /\ ~Intact
    BY <1>3 DEF Crash, Intact
  <2>5. CoordinatorOK'
    BY <1>1, <1>3 DEF Crash, TypeOK, CoordinatorOK
  <2>2. TypeOK'
    <3>1. pc' \in [Jobs -> Pcs]
      BY <1>1, <2>1, LeaseLabels DEF TypeOK
    <3> QED
      BY <1>1, <2>1, <2>5, <3>1 DEF TypeOK, work, CoordinatorOK
  <2>3. \A j \in Jobs : pc'[j] = pc[j] \/ pc'[j] = "done"
    BY <2>1
  <2>4. ASSUME NEW j \in Jobs
        PROVE
            /\ pc'[j] \in {"idle", "done", "leave"} \/ Ahead(j)' \/ Acting(j)'
            /\ Ahead(j)' => Ahead(j)
            /\ Bound(j)' => Bound(j)
            /\ InHand(j)' => InHand(j)
            /\ pc'[j] \in {"lock", "register"} => pc[j] \in {"lock", "register"}
            /\ pc'[j] = "credit" => pc[j] = "credit"
            /\ pc[j] = "credit" /\ InHand(j)' => pc'[j] = "credit"
    BY <1>1, <2>3 DEF Ahead, Bound, InHand, Acting
  <2> QED
    BY <2>1, <2>2, <2>4, StagesKept
<1> QED
  BY <1>2, <1>3

-----------------------------------------------------------------------------
(* The steps of a monitor.                                                   *)

\* Those that move on and no more.
LEMMA QuietKept ==
  ASSUME RaceInv, NEW j \in Jobs,
         TickSkipped(j) \/ AcquireLock(j) \/ ReleaseLock(j) \/ OrderRejected(j)
  PROVE  RaceInv'
<1>1. TypeOK
  BY DEF RaceInv
<1>2. CASE TickSkipped(j)
  BY <1>1, <1>2, OneMoves, LeaseLabels DEF TickSkipped, TypeOK, coordinator, CoordinatorOK
<1>3. CASE AcquireLock(j)
  <2>1. CoordinatorOK'
    BY <1>1, <1>3, ExitAssumption DEF AcquireLock, TypeOK, CoordinatorOK
  <2>2. PICK l \in {"register", "done"} : Go(j, l)
    BY <1>3 DEF AcquireLock
  <2> QED
    BY <1>3, <2>1, <2>2, OneMoves, LeaseLabels DEF AcquireLock, Pcs
<1>4. CASE ReleaseLock(j)
  <2>1. CoordinatorOK'
    BY <1>1, <1>4 DEF ReleaseLock, TypeOK, CoordinatorOK
  <2>2. \/ pc[j] = "leave" /\ Go(j, "done")
        \/ pc[j] = "leaveHold" /\ Go(j, "hold")
        \/ pc[j] = "leaveUndo" /\ Go(j, "undo")
        \/ pc[j] = "leaveFill" /\ Go(j, "fill")
    BY <1>4 DEF ReleaseLock, After
  <2>3. UNCHANGED <<scene, doc, intents, work, cash, sold>>
    BY <1>4 DEF ReleaseLock
  <2> QED
    BY <2>1, <2>2, <2>3, LeaseLabels, OneMoves DEF Bound
<1>5. CASE OrderRejected(j)
  BY <1>1, <1>5, OneMoves DEF OrderRejected, TypeOK, coordinator, CoordinatorOK, Pcs, Bound
<1> QED
  BY <1>2, <1>3, <1>4, <1>5

\* A cycle reads the trade: it is open, and so not yet sold in full.
LEMMA ReadKept ==
  ASSUME RaceInv, NEW j \in Jobs, MonitorRead(j)
  PROVE  RaceInv'
<1>1. TypeOK /\ pc[j] = "idle"
  BY DEF RaceInv, MonitorRead, Starts
<1>2. CASE Watched(doc)
  <2>1. /\ UNCHANGED <<scene, doc, coordinator, trigger, noted, cash, sold>>
        /\ copy' = [copy EXCEPT ![j] = doc] /\ dirty' = [dirty EXCEPT ![j] = {}]
        /\ Go(j, "read")
    BY <1>2 DEF MonitorRead, Load
  <2>2. /\ pc' \in [Jobs -> Pcs] /\ pc'[j] = "read"
        /\ \A i \in Jobs : i # j => pc'[i] = pc[i]
    BY <1>1, <2>1, Moved DEF Pcs
  <2>3. /\ copy' \in [Jobs -> Document] /\ copy'[j] = doc
        /\ \A i \in Jobs : i # j => copy'[i] = copy[i]
    BY <1>1, <2>1 DEF TypeOK
  <2>4. /\ dirty' \in [Jobs -> SUBSET {"status", "qty", "meta"}] /\ dirty'[j] = {}
        /\ \A i \in Jobs : i # j => dirty'[i] = dirty[i]
    BY <1>1, <2>1 DEF TypeOK
  <2>5. TypeOK'
    BY <1>1, <2>1, <2>2, <2>3, <2>4 DEF TypeOK, coordinator
  <2>6. /\ ~Acting(j)' /\ ~InHand(j)' /\ ~Bound(j)'
        /\ \A i \in Jobs : i # j =>
              (Ahead(i)' <=> Ahead(i)) /\ (Bound(i)' <=> Bound(i)) /\ (InHand(i)' <=> InHand(i))
        /\ ~InHand(j)
    BY <1>1, <2>2 DEF Ahead, Acting, Bound, InHand
  <2>7. doc.filled < Qty
    <3>1. doc.filled # Qty
      BY <1>2 DEF RaceInv, ClosedLast, Watched, OpenStatuses
    <3> QED
      BY <1>1, <3>1, DocumentParts, ExitAssumption DEF TypeOK
  <2>8. OnPath' /\ OneActs'
    BY <2>1, <2>2, <2>4, <2>6 DEF RaceInv, OnPath, OneActs, Acting, Ahead
  <2>9. Frontier'
    BY <2>1, <2>3, <2>6, <2>7 DEF RaceInv, Frontier, Spent, coordinator
  <2>10. ClosedLast' /\ Paid'
    BY <2>1, <2>2, <2>6 DEF RaceInv, ClosedLast, Paid, Acting
  <2>11. Settled'
    BY <2>1, <2>2, <2>6 DEF RaceInv, Settled, Remaining, Intact
  <2> QED
    BY <2>5, <2>8, <2>9, <2>10, <2>11 DEF RaceInv
<1>3. CASE ~Watched(doc)
  BY <1>1, <1>3, OneMoves, LeaseLabels DEF MonitorRead, TypeOK, coordinator, CoordinatorOK, work
<1> QED
  BY <1>2, <1>3

\* A tick saves what it found of meta: it is on its way, and its copy may be old.
LEMMA TickKept ==
  ASSUME RaceInv, NEW j \in Jobs, TickQuiet(j) \/ TickTriggers(j)
  PROVE  RaceInv'
<1>1. TypeOK /\ pc[j] = "read" /\ Ahead(j)
  BY DEF RaceInv, TickQuiet, TickTriggers, Ahead
<1>2. PICK p \in {{}, {"meta"}} : Save(copy[j], p)
  BY DEF TickQuiet, TickTriggers
<1>3. copy[j] \in Document
  BY <1>1 DEF TypeOK
<1>4. /\ doc' \in Document /\ doc'.status = doc.status /\ doc'.qty = doc.qty
      /\ doc'.filled = doc.filled \/ doc'.filled = copy[j].filled
  BY <1>1, <1>2, <1>3, SaveWrites
<1>5. UNCHANGED <<scene, coordinator, copy, dirty, noted, cash, sold>>
  BY DEF TickQuiet, TickTriggers, work
<1>6. PICK l \in {"done", "lock"} : Go(j, l)
  BY DEF TickQuiet, TickTriggers
<1>7. /\ pc' \in [Jobs -> Pcs] /\ pc'[j] = l
      /\ \A i \in Jobs : i # j => pc'[i] = pc[i]
  BY <1>1, <1>6, Moved, LeaseLabels DEF Pcs
<1>8. /\ trigger' \in [Jobs -> Triggers]
      /\ pc'[j] = "lock" => trigger'[j] \in scene.prices
      /\ \A i \in Jobs : i # j => trigger'[i] = trigger[i]
  <2>1. CASE TickTriggers(j)
    <3>1. PICK t \in Triggers \cap scene.prices : trigger' = [trigger EXCEPT ![j] = t]
      BY <2>1 DEF TickTriggers
    <3> QED
      BY <1>1, <3>1 DEF TypeOK
  <2>2. CASE TickQuiet(j)
    <3>1. trigger' = trigger /\ Go(j, "done")
      BY <2>2 DEF TickQuiet, work
    <3>2. pc'[j] = "done"
      BY <1>1, <3>1, Moved, LeaseLabels
    <3> QED
      BY <1>1, <3>1, <3>2 DEF TypeOK
  <2> QED
    BY <2>1, <2>2
<1>9. TypeOK'
  BY <1>1, <1>4, <1>5, <1>7, <1>8 DEF TypeOK, coordinator
<1>10. /\ ~Acting(j)' /\ ~InHand(j)' /\ ~Bound(j)' /\ ~InHand(j)
       /\ \A i \in Jobs : i # j =>
             (Ahead(i)' <=> Ahead(i)) /\ (Bound(i)' <=> Bound(i)) /\ (InHand(i)' <=> InHand(i))
  BY <1>1, <1>7 DEF Ahead, Acting, Bound, InHand
<1>11. OnPath' /\ OneActs'
  BY <1>1, <1>5, <1>7, <1>8, <1>10 DEF RaceInv, OnPath, OneActs, Acting, Ahead
<1>12. Frontier'
  BY <1>1, <1>4, <1>5, <1>10 DEF RaceInv, Frontier, Spent, coordinator
<1>13. ClosedLast' /\ Paid'
  <2>1. copy[j].filled < Qty
    BY <1>1 DEF RaceInv, Frontier
  <2>2. copy[j].filled # Qty
    BY <1>1, <1>3, <2>1, DocumentParts, ExitAssumption
  <2> QED
    BY <1>4, <1>5, <1>7, <1>10, <2>2 DEF RaceInv, ClosedLast, Paid, Acting
<1>14. Settled'
  BY <1>4, <1>5, <1>7, <1>10 DEF RaceInv, Settled, Remaining, Intact
<1> QED
  BY <1>9, <1>11, <1>12, <1>13, <1>14 DEF RaceInv

\* The record: whoever is taken for its writer has read the last fill, and no one
\* acts.
LEMMA NewAtSold ==
  ASSUME RaceInv, Leased, NEW j \in Jobs, pc[j] = "register", IsNew(Home[j], IntentKey(j))
  PROVE  copy[j].filled = sold /\ YoungAtSold /\ \A i \in Jobs : ~Acting(i)
<1> DEFINE f == copy[j].filled
<1>1. TypeOK /\ Ahead(j) /\ trigger[j] \in Triggers \cap scene.prices
  BY DEF RaceInv, Ahead, OnPath, TypeOK
<1>2. f \in Int /\ sold \in Nat /\ f <= sold /\ (f < sold => Spent(f))
  BY <1>1, DocumentParts DEF TypeOK, RaceInv, Frontier
<1>3. lease = Home[j] /\ lease # Stopped
  BY ExitAssumption DEF Leased
<1>4. ASSUME NEW i \in Jobs, Holding(i), lease = Home[i] PROVE FALSE
  <2>1. Busy(i) /\ Busy(j) /\ pc[i] # "register"
    BY <1>4 DEF Holding, Busy
  <2> QED
    BY <1>3, <1>4, <2>1 DEF Leased
<1>5. recent = {} \/ (YoungAtSold /\ \A i \in Jobs : ~Acting(i))
  BY <1>3, <1>4 DEF Leased
<1>6. CASE YoungAtSold /\ \A i \in Jobs : ~Acting(i)
  <2>1. <<trigger[j], f>> \notin intents \/ <<trigger[j], f>> \in recent
    BY DEF IsNew, IntentKey
  <2>2. f = sold
    BY <1>1, <1>2, <1>6, <2>1 DEF Spent, YoungAtSold
  <2> QED
    BY <1>6, <2>2
<1>7. CASE recent = {}
  <2>1. ~Spent(f)
    BY <1>1, <1>7 DEF IsNew, IntentKey, Spent
  <2>2. f = sold
    BY <1>2, <2>1
  <2>3. \A i \in Jobs : ~Acting(i)
    BY <1>1, <2>1, <2>2 DEF RaceInv, Frontier, Acting
  <2> QED
    BY <1>7, <2>2, <2>3 DEF YoungAtSold
<1> QED
  BY <1>5, <1>6, <1>7

LEMMA RegisterKept ==
  ASSUME Racing, RaceInv, Leased, NEW j \in Jobs, Register(j)
  PROVE  RaceInv'
<1>1. TypeOK /\ pc[j] = "register" /\ Ahead(j) /\ trigger[j] \in Triggers \cap scene.prices
  BY DEF RaceInv, Register, Ahead, OnPath, TypeOK
<1>2. UNCHANGED <<scene, doc, lease, work, cash, sold>>
  BY DEF Register
<1>3. CASE ~IsNew(Home[j], IntentKey(j))
  BY <1>1, <1>2, <1>3, OneMoves DEF Register, TypeOK, CoordinatorOK, Pcs, After
<1>4. CASE IsNew(Home[j], IntentKey(j))
  <2> DEFINE f == copy[j].filled
  <2>1. /\ intents' = intents \cup {<<trigger[j], f>>}
        /\ recent' = recent \cup {<<trigger[j], f>>}
        /\ registry' = [registry EXCEPT ![Home[j]] = @ \cup {<<trigger[j], f>>}]
    BY <1>4 DEF Register, IntentKey
  <2>3. f \in Int /\ 0 <= f /\ f <= Qty /\ sold \in Nat /\ f <= sold /\ f < Qty
    BY <1>1, DocumentParts DEF TypeOK, RaceInv, Frontier
  <2>4. f = sold
    BY <1>1, <1>4, NewAtSold
  <2>5. \A i \in Jobs : ~Acting(i)
    BY <1>1, <1>4, NewAtSold
  <2>6. PICK l \in {"pending", "leaveHold"} : Go(j, l)
    BY <1>4 DEF Register
  <2>7. /\ pc' \in [Jobs -> Pcs] /\ pc'[j] = l
        /\ \A i \in Jobs : i # j => pc'[i] = pc[i]
    BY <1>1, <2>6, Moved DEF Pcs, After
  <2>8. TypeOK'
    <3>1. <<trigger[j], f>> \in Keys
      BY <1>1, <2>3, ExitAssumption DEF TypeOK, Keys
    <3>2. /\ intents' \subseteq Keys /\ recent' \subseteq Keys
          /\ registry' \in [Instances -> SUBSET Keys]
      BY <1>1, <2>1, <3>1, ExitAssumption DEF TypeOK
    <3> QED
      BY <1>1, <1>2, <2>7, <3>2 DEF TypeOK, work
  <2>9. /\ Bound(j)' /\ ~InHand(j)' /\ ~Ahead(j)'
        /\ \A i \in Jobs : ~InHand(i)'
        /\ \A i \in Jobs : i # j =>
              (Ahead(i)' <=> Ahead(i)) /\ ~Bound(i)' /\ ~Acting(i)'
    BY <2>5, <2>7 DEF Ahead, Acting, Bound, InHand
  <2>10. Spent(sold)'
    BY <1>1, <1>2, <2>1, <2>4 DEF Racing, Spent
  <2>11. \A n : Spent(n) => Spent(n)'
    BY <1>2, <2>1 DEF Spent
  <2>12. OnPath' /\ OneActs'
    BY <1>1, <1>2, <2>5, <2>7, <2>9 DEF RaceInv, OnPath, OneActs, Acting, work
  <2>13. Frontier'
    BY <1>2, <2>3, <2>4, <2>9, <2>10, <2>11 DEF RaceInv, Frontier, work
  <2>14. ClosedLast'
    <3>1. sold # Qty
      BY <2>3, <2>4, ExitAssumption
    <3> QED
      BY <1>2, <3>1 DEF RaceInv, ClosedLast
  <2>15. Paid' /\ Settled'
    BY <1>2, <2>5, <2>9
       DEF RaceInv, Paid, Settled, Remaining, Intact, Acting, InHand, work
  <2> QED
    BY <2>8, <2>12, <2>13, <2>14, <2>15 DEF RaceInv
<1> QED
  BY <1>3, <1>4

\* A job bound by its record writes the status of the trade, or throws over it.
LEMMA StatusSaved ==
  ASSUME RaceInv, NEW j \in Jobs, Bound(j),
         NEW d \in Document, d.filled = copy[j].filled, d.status # "CLOSED",
         SaveCopy(j, d, {"status", "meta"}) \/ SaveThrows(j, d, {"status", "meta"}, "save"),
         NEW l \in {"done", "place", "leave", "leaveUndo"}, Go(j, l),
         UNCHANGED <<scene, coordinator, trigger, noted, cash, sold>>
  PROVE  RaceInv'
<1>1. TypeOK /\ Acting(j) /\ ~InHand(j) /\ ~Ahead(j)
  BY DEF RaceInv, Acting, Bound, InHand, Ahead
<1>2. /\ pc' \in [Jobs -> Pcs] /\ pc'[j] = l
      /\ \A i \in Jobs : i # j => pc'[i] = pc[i]
  BY <1>1, Moved, LeaseLabels DEF Pcs
<1>3. /\ copy' \in [Jobs -> Document] /\ copy'[j] = d
      /\ \A i \in Jobs : i # j => copy'[i] = copy[i]
  BY <1>1 DEF SaveCopy, SaveThrows, TypeOK
<1>4. /\ dirty' \in [Jobs -> SUBSET {"status", "qty", "meta"}] /\ "qty" \notin dirty'[j]
      /\ \A i \in Jobs : i # j => dirty'[i] = dirty[i]
  BY <1>1 DEF SaveCopy, SaveThrows, TypeOK, RaceInv, OnPath
<1>5. /\ doc' \in Document /\ doc'.qty = doc.qty
      /\ \/ doc'.status = doc.status /\ doc'.filled = doc.filled
         \/ doc'.status # "CLOSED" /\ doc'.filled = sold
  <2>1. CASE SaveCopy(j, d, {"status", "meta"})
    <3> DEFINE p == dirty[j] \cup {"status", "meta"}
    <3>1. Save(d, p)
      BY <2>1 DEF SaveCopy
    <3>2. "qty" \notin p /\ "status" \in p /\ "meta" \in p
      BY <1>1 DEF RaceInv, OnPath
    <3>3. d.filled = sold
      BY DEF RaceInv, Frontier
    <3> HIDE DEF p
    <3> QED
      BY <1>1, <3>1, <3>2, <3>3, SaveWrites
  <2>2. CASE SaveThrows(j, d, {"status", "meta"}, "save")
    BY <1>1, <2>2 DEF SaveThrows, TypeOK
  <2> QED
    BY <2>1, <2>2
<1>6. TypeOK'
  BY <1>1, <1>2, <1>3, <1>4, <1>5 DEF TypeOK, coordinator
<1>7. /\ \A i \in Jobs : ~InHand(i) /\ ~InHand(i)'
      /\ \A i \in Jobs : Ahead(i)' => Ahead(i) /\ i # j
      /\ \A i \in Jobs : Bound(i)' => i = j
      /\ \A i \in Jobs : i # j => ~Acting(i) /\ ~Acting(i)'
  BY <1>1, <1>2 DEF RaceInv, OneActs, Acting, Bound, InHand, Ahead
<1>8. OnPath'
  BY <1>2, <1>4, <1>7 DEF RaceInv, OnPath, Acting, Ahead, Bound
<1>9. OneActs'
  BY <1>7 DEF OneActs
<1>10. sold < Qty /\ Spent(sold) /\ sold \in Nat
  BY <1>1 DEF RaceInv, Frontier, TypeOK
<1>11. Frontier'
  <2>1. doc'.filled <= sold' /\ (doc'.filled < sold' => Spent(doc.filled)')
    BY <1>5, <1>10 DEF RaceInv, Frontier, Spent, coordinator
  <2>2. \A i \in Jobs : Bound(i)' => copy'[i].filled = sold' /\ sold' < Qty /\ Spent(sold)'
    BY <1>3, <1>7, <1>10 DEF RaceInv, Frontier, Spent, coordinator
  <2>3. \A i \in Jobs : Ahead(i)' =>
           /\ copy'[i].filled <= sold' /\ copy'[i].filled < Qty
           /\ copy'[i].filled < sold' => Spent(copy[i].filled)'
    BY <1>3, <1>7 DEF RaceInv, Frontier, Spent, coordinator
  <2> QED
    BY <1>7, <2>1, <2>2, <2>3 DEF Frontier
<1>12. doc.status # "CLOSED" /\ doc'.status # "CLOSED"
  BY <1>1, <1>5 DEF RaceInv, ClosedLast
<1>13. ClosedLast'
  <2>1. sold # Qty
    BY <1>10, ExitAssumption
  <2>2. doc.filled # Qty
    BY <1>12 DEF RaceInv, ClosedLast
  <2> QED
    BY <1>5, <1>12, <2>1, <2>2 DEF ClosedLast
<1>14. Paid'
  BY <1>2, <1>7 DEF RaceInv, Paid, InHand
<1>15. Settled'
  BY <1>5, <1>7, <1>12 DEF RaceInv, Settled, Remaining, Intact
<1> QED
  BY <1>6, <1>8, <1>9, <1>11, <1>13, <1>14, <1>15 DEF RaceInv

\* The saves before and without an order.
LEMMA BoundKept ==
  ASSUME RaceInv, NEW j \in Jobs,
         Hold(j) \/ SavePending(j) \/ SaveRefused(j) \/ Undo(j)
  PROVE  RaceInv'
<1>1. Bound(j) /\ copy[j] \in Document
  BY DEF Hold, SavePending, SaveRefused, Undo, Bound, RaceInv, TypeOK
<1>2. UNCHANGED <<scene, coordinator, trigger, noted, cash, sold>>
  BY DEF Hold, SavePending, SaveRefused, Undo
<1>3. \A s \in {"OPEN", "EXIT_PENDING", "TARGET_TRIGGERED", "STOP_TRIGGERED"}, w \in BOOLEAN :
         LET d == [copy[j] EXCEPT !.status = s, !.waiting = w]
         IN  d \in Document /\ d.filled = copy[j].filled /\ d.status # "CLOSED"
  BY <1>1 DEF Document, OpenStatuses
<1>4. PICK d \in Document, l \in {"done", "place", "leave", "leaveUndo"} :
         /\ d.filled = copy[j].filled /\ d.status # "CLOSED"
         /\ SaveCopy(j, d, {"status", "meta"}) \/ SaveThrows(j, d, {"status", "meta"}, "save")
         /\ Go(j, l)
  <2>1. CASE Hold(j)
    <3> DEFINE d == [copy[j] EXCEPT !.status = IF trigger[j] = "TARGET"
                                              THEN "TARGET_TRIGGERED"
                                              ELSE "STOP_TRIGGERED"]
    <3>1. d \in Document /\ d.filled = copy[j].filled /\ d.status # "CLOSED"
      BY <1>1 DEF Document, OpenStatuses
    <3>2. /\ SaveCopy(j, d, {"status", "meta"}) \/ SaveThrows(j, d, {"status", "meta"}, "save")
          /\ Go(j, "done")
      BY <2>1 DEF Hold
    <3> QED
      BY <3>1, <3>2
  <2>2. CASE SavePending(j)
    <3> DEFINE d == [copy[j] EXCEPT !.status = "EXIT_PENDING", !.waiting = TRUE]
    <3>1. d \in Document /\ d.filled = copy[j].filled /\ d.status # "CLOSED"
      BY <1>3
    <3>2. \/ SaveCopy(j, d, {"status", "meta"}) /\ Go(j, "place")
          \/ SaveThrows(j, d, {"status", "meta"}, "save") /\ Go(j, "leaveUndo")
      BY <2>2 DEF SavePending
    <3> QED
      BY <3>1, <3>2
  <2>3. CASE SaveRefused(j) \/ Undo(j)
    <3> DEFINE d == [copy[j] EXCEPT !.status = "OPEN", !.waiting = FALSE]
    <3>1. d \in Document /\ d.filled = copy[j].filled /\ d.status # "CLOSED"
      BY <1>3
    <3>2. \/ SaveCopy(j, d, {"status", "meta"}) /\ (Go(j, "leave") \/ Go(j, "done"))
          \/ SaveThrows(j, d, {"status", "meta"}, "save") /\ (Go(j, "leaveUndo") \/ Go(j, "done"))
      BY <2>3 DEF SaveRefused, Undo
    <3> QED
      BY <3>1, <3>2
  <2> QED
    BY <2>1, <2>2, <2>3
<1> QED
  BY <1>1, <1>2, <1>4, StatusSaved

\* The order: what it fills is beyond every copy but its own.
LEMMA PlaceKept ==
  ASSUME RaceInv, NEW j \in Jobs, PlaceOrder(j)
  PROVE  RaceInv'
<1>1. TypeOK /\ pc[j] = "place" /\ Bound(j) /\ ~InHand(j) /\ Acting(j)
  BY DEF RaceInv, PlaceOrder, Bound, InHand, Acting
<1>2. /\ copy[j] \in Document /\ copy[j].filled = sold /\ sold \in Nat /\ sold < Qty
      /\ Qty \in Nat /\ Spent(sold)
  BY <1>1, ExitAssumption DEF TypeOK, RaceInv, Frontier
<1>3. OrderQty(copy[j]) = Qty - sold
  BY <1>2 DEF OrderQty
<1>4. PICK f \in 1 .. Qty - sold :
         /\ sold' = sold + f
         /\ copy' = [copy EXCEPT ![j].filled = copy[j].filled + f]
         /\ noted' = [noted EXCEPT ![j] = f]
  BY <1>3 DEF PlaceOrder
<1>5. /\ UNCHANGED <<scene, doc, coordinator, trigger, cash>>
      /\ dirty' = [dirty EXCEPT ![j] = {"meta"}] /\ Go(j, "credit")
  BY DEF PlaceOrder
<1>6. f \in Nat /\ f >= 1 /\ sold' \in Nat /\ sold < sold' /\ sold' <= Qty
  BY <1>2, <1>4
<1>7. /\ pc' \in [Jobs -> Pcs] /\ pc'[j] = "credit"
      /\ \A i \in Jobs : i # j => pc'[i] = pc[i]
  BY <1>1, <1>5, Moved DEF Pcs
<1>8. /\ copy' \in [Jobs -> Document] /\ copy'[j].filled = sold'
      /\ \A i \in Jobs : i # j => copy'[i] = copy[i]
  <2>1. [copy[j] EXCEPT !.filled = sold'] \in Document
    BY <1>2, <1>6 DEF Document
  <2>2. copy' = [copy EXCEPT ![j] = [copy[j] EXCEPT !.filled = sold']]
    BY <1>1, <1>2, <1>4 DEF TypeOK
  <2>3. [copy[j] EXCEPT !.filled = sold'].filled = sold'
    BY <1>2 DEF Document
  <2> QED
    BY <1>1, <2>1, <2>2, <2>3 DEF TypeOK
<1>9. /\ dirty' \in [Jobs -> SUBSET {"status", "qty", "meta"}] /\ "qty" \notin dirty'[j]
      /\ \A i \in Jobs : i # j => dirty'[i] = dirty[i]
  BY <1>1, <1>5 DEF TypeOK
<1>10. /\ noted' \in [Jobs -> Nat] /\ noted'[j] = f
       /\ \A i \in Jobs : i # j => noted'[i] = noted[i]
  BY <1>1, <1>4, <1>6 DEF TypeOK
<1>11. TypeOK'
  BY <1>1, <1>5, <1>6, <1>7, <1>8, <1>9, <1>10 DEF TypeOK, coordinator
<1>12. /\ InHand(j)' /\ ~Bound(j)' /\ ~Ahead(j)'
       /\ \A i \in Jobs : i # j => ~Acting(i) /\ ~Acting(i)' /\ (Ahead(i)' <=> Ahead(i))
       /\ \A i \in Jobs : ~InHand(i)
  BY <1>1, <1>7 DEF RaceInv, OneActs, Acting, Bound, InHand, Ahead
<1>13. OnPath'
  BY <1>5, <1>7, <1>9, <1>12 DEF RaceInv, OnPath, Acting
<1>14. OneActs'
  BY <1>12 DEF OneActs
<1>15. doc.filled \in Int /\ doc.filled <= sold /\ cash \in Nat /\ cash <= sold
  BY <1>1, DocumentParts DEF TypeOK, RaceInv, Frontier, Paid
<1>16. Frontier'
  <2>1. doc'.filled < sold' /\ Spent(doc.filled)'
    BY <1>2, <1>5, <1>6, <1>15 DEF RaceInv, Frontier, Spent, coordinator
  <2>2. \A i \in Jobs : Ahead(i)' =>
           /\ copy'[i].filled < sold' /\ copy'[i].filled < Qty /\ Spent(copy[i].filled)'
    <3>1. SUFFICES ASSUME NEW i \in Jobs, Ahead(i)'
                   PROVE  /\ copy'[i].filled < sold' /\ copy'[i].filled < Qty
                          /\ Spent(copy[i].filled)'
      OBVIOUS
    <3>2. Ahead(i) /\ i # j /\ copy'[i] = copy[i]
      BY <1>8, <1>12, <3>1
    <3>3. copy[i].filled \in Int
      BY <1>1, DocumentParts DEF TypeOK
    <3>4. copy[i].filled <= sold /\ copy[i].filled < Qty /\ Spent(copy[i].filled)
      BY <1>2, <3>2, <3>3 DEF RaceInv, Frontier
    <3> QED
      BY <1>2, <1>5, <1>6, <3>2, <3>3, <3>4 DEF Spent, coordinator
  <2>3. doc'.filled <= sold' /\ \A i \in Jobs : Ahead(i)' => copy'[i].filled <= sold'
    <3>1. \A i \in Jobs : Ahead(i)' => copy'[i].filled \in Int
      BY <1>8, DocumentParts
    <3> QED
      BY <1>5, <1>6, <1>15, <2>1, <2>2, <3>1
  <2>4. \A i \in Jobs : Bound(i)' \/ InHand(i)' => i = j
    BY <1>12 DEF Acting
  <2> QED
    BY <1>8, <1>12, <2>1, <2>2, <2>3, <2>4 DEF Frontier
<1>17. doc.status # "CLOSED"
  BY <1>1 DEF RaceInv, ClosedLast
<1>18. ClosedLast'
  BY <1>5, <1>17 DEF RaceInv, ClosedLast
<1>19. Paid'
  BY <1>2, <1>4, <1>5, <1>6, <1>7, <1>10, <1>12, <1>15 DEF Paid, InHand, Acting
<1>20. Settled'
  <2>1. \A i \in Jobs : InHand(i)' => i = j
    BY <1>12 DEF Acting
  <2>2. Intact' => cash = sold /\ Remaining = Qty - sold
    BY <1>5, <1>12 DEF RaceInv, Settled, Intact
  <2>3. Remaining' = Remaining
    BY <1>5 DEF Remaining
  <2> QED
    BY <1>2, <1>4, <1>5, <1>6, <1>7, <1>10, <1>12, <2>1, <2>2, <2>3 DEF Settled
<1> QED
  BY <1>11, <1>13, <1>14, <1>16, <1>18, <1>19, <1>20 DEF RaceInv

\* The margin of the fill in hand.
LEMMA CreditKept ==
  ASSUME Racing, RaceInv, NEW j \in Jobs, Credit(j)
  PROVE  RaceInv'
<1>1. TypeOK /\ pc[j] = "credit" /\ InHand(j) /\ Acting(j)
  BY DEF RaceInv, Credit, InHand, Acting
<1>2. /\ cash' = cash + noted[j] /\ Go(j, "leaveFill")
      /\ UNCHANGED <<scene, doc, coordinator, work, sold>>
  BY DEF Credit, MarginOfFill, Racing
<1>3. /\ pc' \in [Jobs -> Pcs] /\ pc'[j] = "leaveFill"
      /\ \A i \in Jobs : i # j => pc'[i] = pc[i]
  BY <1>1, <1>2, Moved, LeaseLabels
<1>4. noted[j] \in Nat /\ cash \in Nat /\ sold \in Nat /\ cash + noted[j] <= sold
  BY <1>1 DEF TypeOK, RaceInv, Paid
<1>5. TypeOK'
  BY <1>1, <1>2, <1>3, <1>4 DEF TypeOK, coordinator, work
<1>6. \A i \in Jobs :
         (InHand(i)' <=> InHand(i)) /\ (Ahead(i)' <=> Ahead(i)) /\ (Bound(i)' <=> Bound(i))
  BY <1>1, <1>3 DEF InHand, Ahead, Bound
<1>7. \A i \in Jobs : InHand(i) => i = j
  BY <1>1 DEF RaceInv, OneActs, Acting
<1>8. OnPath' /\ OneActs'
  BY <1>1, <1>2, <1>3, <1>6 DEF RaceInv, OnPath, OneActs, Acting, work
<1>9. Frontier'
  BY <1>2, <1>6 DEF RaceInv, Frontier, Spent, coordinator, work
<1>10. ClosedLast' /\ Paid'
  <2>1. \A i \in Jobs : pc'[i] # "credit"
    BY <1>3, <1>7 DEF InHand
  <2> QED
    BY <1>2, <1>4, <1>6, <2>1 DEF RaceInv, ClosedLast, Paid, Acting
<1>11. Settled'
  <2>1. Intact' => /\ Remaining' = Qty - (sold' - noted'[j])
                   /\ cash' = sold'
    BY <1>1, <1>2, <1>4 DEF RaceInv, Settled, Remaining, Intact, work
  <2> QED
    BY <1>1, <1>3, <1>6, <1>7, <2>1 DEF Settled
<1> QED
  BY <1>5, <1>8, <1>9, <1>10, <1>11 DEF RaceInv

\* The document takes in the fill; the last one closes it.
LEMMA FillKept ==
  ASSUME Racing, RaceInv, NEW j \in Jobs, SaveFill(j)
  PROVE  RaceInv'
<1>1. TypeOK /\ pc[j] = "fill" /\ InHand(j) /\ Acting(j) /\ ~Ahead(j)
  BY DEF RaceInv, SaveFill, InHand, Acting, Ahead
<1> DEFINE d == Filled(copy[j])
           p == FilledPaths(copy[j]) \cup {"meta"}
<1>2. /\ SaveCopy(j, d, p) /\ Go(j, "done")
      /\ UNCHANGED <<scene, coordinator, trigger, noted, cash, sold>>
  BY DEF SaveFill, SaveThrows, Racing
<1>3. /\ copy[j] \in Document /\ copy[j].filled = sold /\ sold \in Nat /\ sold <= Qty
      /\ Qty \in Nat /\ cash \in Nat /\ doc \in Document
  BY <1>1, ExitAssumption DEF TypeOK, RaceInv, Frontier, Paid
<1>4. /\ d \in Document /\ d.filled = sold
      /\ sold = Qty => d.status = "CLOSED"
      /\ sold # Qty => d.status = "EXIT_PARTIALLY_FILLED" /\ d.qty = Qty - sold
  <2>1. CASE sold = Qty
    BY <1>3, <2>1 DEF Filled, Document, OpenStatuses
  <2>2. CASE sold # Qty
    <3>1. sold < Qty /\ Qty - sold \in 0 .. Qty
      BY <1>3, <2>2
    <3>2. d = [copy[j] EXCEPT !.status = "EXIT_PARTIALLY_FILLED", !.waiting = FALSE,
                              !.qty = Qty - sold]
      BY <1>3, <3>1 DEF Filled
    <3> QED
      BY <1>3, <2>2, <3>1, <3>2 DEF Document, OpenStatuses
  <2> QED
    BY <2>1, <2>2
<1>5. /\ "meta" \in p /\ "status" \in p
      /\ sold # Qty => "qty" \in p
      /\ p \subseteq {"status", "qty", "meta"}
  BY <1>3 DEF FilledPaths
<1> HIDE DEF d, p
<1>6. /\ doc' \in Document /\ doc'.filled = sold
      /\ sold = Qty => doc'.status = "CLOSED"
      /\ sold # Qty => doc'.status = "EXIT_PARTIALLY_FILLED" /\ doc'.qty = Qty - sold
  <2>1. Save(d, dirty[j] \cup p)
    BY <1>2 DEF SaveCopy
  <2> QED
    BY <1>1, <1>4, <1>5, <2>1, SaveWrites
<1>7. /\ pc' \in [Jobs -> Pcs] /\ pc'[j] = "done"
      /\ \A i \in Jobs : i # j => pc'[i] = pc[i]
  BY <1>1, <1>2, Moved, LeaseLabels
<1>8. /\ copy' \in [Jobs -> Document] /\ \A i \in Jobs : i # j => copy'[i] = copy[i]
  BY <1>1, <1>2, <1>4 DEF SaveCopy, TypeOK
<1>9. /\ dirty' \in [Jobs -> SUBSET {"status", "qty", "meta"}]
      /\ \A i \in Jobs : i # j => dirty'[i] = dirty[i]
  BY <1>1, <1>2 DEF SaveCopy, TypeOK
<1>10. TypeOK'
  BY <1>1, <1>2, <1>6, <1>7, <1>8, <1>9 DEF TypeOK, coordinator
<1>11. /\ \A i \in Jobs : ~Acting(i)' /\ ~InHand(i)' /\ ~Bound(i)'
       /\ \A i \in Jobs : Ahead(i)' => Ahead(i) /\ i # j
  BY <1>1, <1>7 DEF RaceInv, OneActs, Acting, Bound, InHand, Ahead
<1>12. OnPath' /\ OneActs'
  BY <1>2, <1>7, <1>9, <1>11 DEF RaceInv, OnPath, OneActs, Acting, Ahead, Bound, InHand
<1>13. Frontier'
  BY <1>2, <1>3, <1>6, <1>8, <1>11 DEF RaceInv, Frontier, Spent, coordinator
<1>14. ClosedLast'
  BY <1>2, <1>6, <1>11 DEF ClosedLast
<1>15. Paid'
  BY <1>2, <1>7, <1>11 DEF RaceInv, Paid, InHand
<1>16. Settled'
  <2>1. Intact' => cash' = sold'
    BY <1>1, <1>2 DEF RaceInv, Settled, Intact
  <2>2. Remaining' = Qty - sold'
    BY <1>2, <1>3, <1>6 DEF Remaining
  <2> QED
    BY <1>11, <2>1, <2>2 DEF Settled
<1> QED
  BY <1>10, <1>12, <1>13, <1>14, <1>15, <1>16 DEF RaceInv

-----------------------------------------------------------------------------
(* The lease while a record is young.                                        *)

\* The scene of a run does not change.
LEMMA SceneKept == [Next]_vars => scene' = scene
BY DEF Next, vars, Monitor, SquareOff, Close, Recover, MonitorRead, TickSkipped, TickQuiet,
       TickTriggers, AcquireLock, Register, ReleaseLock, Hold, SavePending, PlaceOrder,
       OrderRejected, SaveRefused, Credit, SaveFill, Undo, SquareOffFind, Claim,
       SquareOffRefund, CloseFind, CloseSave, CloseSettle, RecoverFind, RecoverSave,
       LeaseExpires, RecordAges, Crash

\* A step of a race is one of a monitor, or of the world.
LEMMA RacingSteps ==
  ASSUME Racing, RaceInv, NEW j \in Jobs
  PROVE  ~SquareOff(j) /\ ~Close(j) /\ ~Recover(j)
<1>1. pc[j] \in {"idle", "done", "leave"} \/ Ahead(j) \/ Acting(j)
  BY DEF RaceInv, OnPath
<1>2. scene.kind[j] \in {"monitor", "none"}
  BY DEF Racing
<1> QED
  BY <1>1, <1>2
     DEF Ahead, Acting, Bound, InHand, SquareOff, SquareOffFind, Claim, SquareOffRefund,
         Close, CloseFind, CloseSave, CloseSettle, Recover, RecoverFind, RecoverSave, Starts

\* The initial states.
LEMMA InitLeased == Init => Leased
BY DEF Init, Leased, Busy

\* Job j moves on: it registers nothing, starts nothing to exit, and lets go of no
\* exit but one that is refused.
LEMMA LeasedMoves ==
  ASSUME RaceInv, Leased, NEW j \in Jobs, NEW l \in Pcs \ {"idle", "register", "leaveHold", "hold"},
         Go(j, l), UNCHANGED <<scene, lease, recent, sold>>, Busy(j),
         (Holding(j) => Holding(j)') \/ (Bound(j) /\ ~Acting(j)'),
         Bound(j)' => Bound(j) \/ ~Holding(j), Acting(j)' => Acting(j)
  PROVE  Leased'
<1>1. pc'[j] = l /\ \A i \in Jobs : i # j => pc'[i] = pc[i]
  BY Moved DEF RaceInv
<1>2. \A i \in Jobs : Busy(i)' => Busy(i)
  BY <1>1 DEF Busy
<1>3. \A i \in Jobs : Acting(i)' => Acting(i)
  BY <1>1 DEF Acting, Bound, InHand
<1>4. \A i \in Jobs : i # j => (Holding(i)' <=> Holding(i)) /\ (Bound(i)' <=> Bound(i))
  BY <1>1 DEF Holding, Bound
<1>5. ASSUME NEW i \in Jobs, Holding(i), lease = Home[i], Bound(i) => YoungAtSold
      PROVE  \/ Holding(i)' /\ (Bound(i)' => YoungAtSold')
             \/ YoungAtSold' /\ \A k \in Jobs : ~Acting(k)'
  <2>1. YoungAtSold' <=> YoungAtSold
    BY DEF YoungAtSold
  <2>2. CASE i # j
    BY <1>4, <1>5, <2>1, <2>2
  <2>3. CASE i = j /\ Holding(j)'
    BY <1>5, <2>1, <2>3
  <2>4. CASE i = j /\ Bound(j) /\ ~Acting(j)'
    <3>1. \A k \in Jobs : k # j => ~Acting(k)
      BY <2>4 DEF RaceInv, OneActs, Acting
    <3> QED
      BY <1>3, <1>5, <2>1, <2>4, <3>1
  <2> QED
    BY <1>5, <2>2, <2>3, <2>4
<1> QED
  BY <1>1, <1>2, <1>3, <1>5 DEF Leased, YoungAtSold

\* What each step of a monitor does to the lease and the young records.
LEMMA LeasedKept ==
  ASSUME Racing, RaceInv, RaceInv', Leased, NEW j \in Jobs, Monitor(j)
  PROVE  Leased'
<1>1. /\ TypeOK /\ lease \in Instances \cup {NoOwner, Stopped} /\ Home[j] \in Instances
      /\ UNCHANGED scene /\ "manual" \notin scene.faults /\ "late" \notin scene.faults
      /\ "window" \notin scene.faults
  BY SceneKept, ExitAssumption DEF RaceInv, TypeOK, Racing, Next
<1>2. CASE MonitorRead(j)
  <2>1. PICK l \in {"read", "done"} : Go(j, l)
    BY <1>2 DEF MonitorRead
  <2>2. pc'[j] = l /\ (\A i \in Jobs : i # j => pc'[i] = pc[i]) /\ pc[j] = "idle"
    BY <1>1, <1>2, <2>1, Moved, LeaseLabels DEF MonitorRead, Starts, Pcs
  <2>3. scene.kind[j] = "monitor" /\ UNCHANGED <<scene, lease, recent, sold>>
    BY <1>2 DEF MonitorRead, Starts, coordinator
  <2>4. \A i \in Jobs : /\ Holding(i)' <=> Holding(i)
                        /\ Bound(i)' <=> Bound(i)
                        /\ Acting(i)' <=> Acting(i)
    BY <2>2 DEF Holding, Acting, Bound, InHand
  <2>5. \A i \in Jobs : i # j => (Busy(i)' <=> Busy(i)) /\ (Busy(i) => Home[i] # Home[j])
    BY <1>2, <2>2 DEF MonitorRead, Starts, Busy, Leased
  <2> QED
    BY <2>2, <2>3, <2>4, <2>5 DEF Leased, YoungAtSold
<1>3. CASE \/ TickSkipped(j) \/ TickQuiet(j) \/ TickTriggers(j) \/ SavePending(j)
           \/ OrderRejected(j) \/ SaveRefused(j) \/ Credit(j) \/ SaveFill(j) \/ Undo(j)
  <2>1. PICK l \in Pcs \ {"idle", "register", "leaveHold", "hold"} :
           /\ Go(j, l)
           /\ \/ pc[j] = "read" /\ l \in {"done", "lock"}
              \/ pc[j] = "pending" /\ l \in {"place", "leaveUndo"}
              \/ pc[j] = "place" /\ l = "refused"
              \/ pc[j] = "refused" /\ l \in {"leave", "leaveUndo"}
              \/ pc[j] = "credit" /\ l = "leaveFill"
              \/ pc[j] \in {"fill", "undo"} /\ l = "done"
    BY <1>1, <1>3, LeaseLabels
       DEF TickSkipped, TickQuiet, TickTriggers, SavePending, OrderRejected, SaveRefused, Credit,
           SaveFill, Undo, SaveThrows, Pcs
  <2>2. UNCHANGED <<lease, recent, sold>>
    BY <1>3 DEF TickSkipped, TickQuiet, TickTriggers, SavePending, OrderRejected, SaveRefused,
                Credit, SaveFill, Undo, coordinator
  <2>3. pc'[j] = l /\ Busy(j)
    BY <1>1, <2>1, Moved DEF Busy
  <2>4. /\ (Holding(j) => Holding(j)') \/ (Bound(j) /\ ~Acting(j)')
        /\ Bound(j)' => Bound(j) \/ ~Holding(j)
        /\ Acting(j)' => Acting(j)
    BY <2>1, <2>3 DEF Holding, Acting, Bound, InHand
  <2> QED
    BY <1>1, <2>1, <2>2, <2>3, <2>4, LeasedMoves
<1>4. CASE AcquireLock(j)
  <2>1. PICK l \in {"register", "done"} :
           Go(j, l) /\ (l = "register" => lease' = Home[j])
           /\ (lease' = lease \/ lease = NoOwner)
    BY <1>4 DEF AcquireLock
  <2>2. /\ pc[j] = "lock" /\ pc'[j] = l /\ (\A i \in Jobs : i # j => pc'[i] = pc[i])
        /\ UNCHANGED <<recent, sold>>
    BY <1>1, <1>4, <2>1, Moved, LeaseLabels DEF AcquireLock, Pcs
  <2>3. \A i \in Jobs : /\ Holding(i)' <=> Holding(i)
                        /\ Bound(i)' <=> Bound(i)
                        /\ Acting(i)' <=> Acting(i)
                        /\ Busy(i)' => Busy(i)
    BY <2>1, <2>2 DEF Holding, Acting, Bound, InHand, Busy
  <2>4. \A i \in Jobs : i # j /\ pc'[i] = "register" => lease' = Home[i]
    BY <2>1, <2>2, ExitAssumption DEF Leased
  <2>5. lease = NoOwner => recent = {} \/ (YoungAtSold /\ \A i \in Jobs : ~Acting(i))
    BY ExitAssumption DEF Leased
  <2> QED
    BY <1>1, <2>1, <2>2, <2>3, <2>4, <2>5 DEF Leased, YoungAtSold
<1>5. CASE Register(j)
  <2>1. pc[j] = "register" /\ lease' = lease /\ lease = Home[j] /\ sold' = sold
    BY <1>5 DEF Register, Leased
  <2>2. CASE ~IsNew(Home[j], IntentKey(j))
    <3>1. Go(j, "leave") /\ UNCHANGED recent
      BY <1>5, <2>2 DEF Register
    <3>2. pc'[j] = "leave" /\ Busy(j)
      BY <1>1, <2>1, <3>1, Moved, LeaseLabels DEF Busy
    <3> QED
      BY <1>1, <2>1, <3>1, <3>2, LeaseLabels, LeasedMoves DEF Holding, Acting, Bound, InHand
  <2>3. CASE IsNew(Home[j], IntentKey(j))
    <3>1. /\ Go(j, "pending")
          /\ recent' = recent \cup {<<trigger[j], copy[j].filled>>}
      BY <1>1, <1>5, <2>3 DEF Register, IntentKey
    <3>2. pc'[j] = "pending" /\ \A i \in Jobs : i # j => pc'[i] = pc[i]
      BY <1>1, <3>1, Moved DEF Pcs
    <3>3. YoungAtSold'
      BY <2>1, <2>3, <3>1, NewAtSold DEF YoungAtSold
    <3>4. Holding(j)' /\ lease' = Home[j] /\ \A i \in Jobs : Busy(i)' => Busy(i)
      BY <2>1, <3>2 DEF Holding, Busy
    <3> QED
      BY <1>1, <2>1, <3>2, <3>3, <3>4 DEF Leased
  <2> QED
    BY <2>2, <2>3
<1>6. CASE ReleaseLock(j)
  <2>1. PICK l \in {"done", "undo", "fill"} :
           /\ Go(j, l)
           /\ pc[j] = "leave" \/ (pc[j] \in {"leaveUndo", "leaveFill"} /\ recent = {})
    BY <1>1, <1>6 DEF ReleaseLock, Lingers, After, Leased
  <2>2. /\ lease' = IF lease = Home[j] THEN NoOwner ELSE lease
        /\ UNCHANGED <<recent, sold>>
    BY <1>6 DEF ReleaseLock
  <2>3. pc'[j] = l /\ \A i \in Jobs : i # j => pc'[i] = pc[i]
    BY <1>1, <2>1, Moved, LeaseLabels
  <2>4. \A i \in Jobs : Busy(i)' => Busy(i)
    BY <2>1, <2>3 DEF Busy
  <2>5. \A i \in Jobs : pc'[i] = "register" => lease' = Home[i]
    <3> SUFFICES ASSUME NEW i \in Jobs, pc'[i] = "register" PROVE lease' = Home[i]
      OBVIOUS
    <3>1. i # j /\ pc[i] = "register" /\ lease = Home[i] /\ Busy(i) /\ Busy(j)
      BY <2>1, <2>3 DEF Leased, Busy
    <3>2. Home[i] # Home[j]
      BY <3>1 DEF Leased
    <3> QED
      BY <2>2, <3>1, <3>2
  <2>6. CASE recent = {}
    BY <1>1, <2>1, <2>2, <2>3, <2>4, <2>5, <2>6 DEF Leased
  <2>7. CASE pc[j] = "leave"
    <3>1. \A i \in Jobs : /\ Holding(i) => i # j /\ Holding(i)' /\ (Bound(i)' => Bound(i))
                          /\ Acting(i)' => Acting(i)
      <4>1. l = "done"
        BY <1>6, <2>1, <2>3, <2>7, Moved, LeaseLabels, <1>1 DEF ReleaseLock, After
      <4> QED
        BY <2>3, <2>7, <4>1 DEF Holding, Bound, InHand, Acting
    <3>2. ASSUME NEW i \in Jobs, Holding(i), lease = Home[i] PROVE lease' = lease
      <4>1. Busy(i) /\ Busy(j) /\ i # j
        BY <2>7, <3>1, <3>2 DEF Holding, Busy
      <4>2. Home[i] # Home[j]
        BY <4>1 DEF Leased
      <4> QED
        BY <2>2, <3>2, <4>2
    <3>3. lease = Stopped => lease' = Stopped
      BY <1>1, <2>2, ExitAssumption
    <3> QED
      BY <1>1, <2>1, <2>2, <2>3, <2>4, <2>5, <3>1, <3>2, <3>3 DEF Leased, YoungAtSold
  <2> QED
    BY <2>1, <2>6, <2>7
<1>7. CASE Hold(j)
  BY <1>7 DEF Hold, Leased
<1>8. CASE PlaceOrder(j)
  <2>1. Go(j, "credit") /\ pc[j] = "place" /\ UNCHANGED <<lease, recent>>
    BY <1>8 DEF PlaceOrder, coordinator
  <2>2. pc'[j] = "credit" /\ \A i \in Jobs : i # j => pc'[i] = pc[i]
    BY <1>1, <2>1, Moved DEF Pcs
  <2>3. Acting(j) /\ Holding(j)' /\ ~Bound(j)' /\ \A i \in Jobs : Busy(i)' => Busy(i)
    BY <2>1, <2>2 DEF Acting, Bound, Holding, Busy
  <2>4. \A i \in Jobs : Holding(i) => i = j
    BY <2>3 DEF RaceInv, OneActs, Holding, Acting, Bound, InHand
  <2> QED
    BY <1>1, <2>1, <2>2, <2>3, <2>4 DEF Leased
<1> QED
  BY <1>2, <1>3, <1>4, <1>5, <1>6, <1>7, <1>8 DEF Monitor

\* The world lets no young record out of the lease.
LEMMA LeasedInWorld ==
  ASSUME Racing, RaceInv, Leased, LeaseExpires \/ RecordAges \/ \E i \in Instances : Crash(i)
  PROVE  Leased'
<1>1. CASE LeaseExpires
  <2>1. recent = {} /\ \A j \in Jobs : pc[j] = "register" => Home[j] # lease
    BY <1>1 DEF LeaseExpires, Racing
  <2> QED
    BY <1>1, <2>1 DEF LeaseExpires, Leased, Busy
<1>2. CASE RecordAges
  <2>1. UNCHANGED <<scene, lease, pc, sold>> /\ recent' \subseteq recent
    BY <1>2 DEF RecordAges
  <2>2. recent = {} => recent' = {}
    BY <2>1
  <2>3. YoungAtSold => YoungAtSold'
    BY <2>1 DEF YoungAtSold
  <2> QED
    BY <2>1, <2>2, <2>3 DEF Leased, Busy, Holding, Bound, Acting, InHand
<1>3. ASSUME NEW s \in Instances, Crash(s)
      PROVE  Leased'
  <2>1. /\ UNCHANGED <<scene, recent, sold>>
        /\ lease' = IF lease = s THEN Stopped ELSE lease
        /\ \A j \in Jobs : pc'[j] = IF Busy(j) /\ Home[j] = s THEN "done" ELSE pc[j]
    BY <1>3 DEF Crash
  <2>2. \A j \in Jobs : /\ Busy(j)' => (Busy(j) /\ Home[j] # s)
                        /\ Acting(j)' => Acting(j)
                        /\ Home[j] # s => pc'[j] = pc[j]
    BY <2>1 DEF Busy, Acting, Bound, InHand
  <2>3. \A j \in Jobs : Home[j] # s => (Holding(j)' <=> Holding(j)) /\ (Bound(j)' <=> Bound(j))
    BY <2>2 DEF Holding, Bound
  <2>4. lease = Stopped => lease' = Stopped
    BY <2>1
  <2>5. \A j \in Jobs : pc'[j] = "register" => lease' = Home[j]
    BY <2>1 DEF Leased, Busy
  <2>6. \A j \in Jobs : pc'[j] \notin {"leaveHold", "hold"}
    BY <2>1 DEF Leased
  <2>7. CASE lease = s
    BY <2>1, <2>2, <2>5, <2>6, <2>7 DEF Leased
  <2>8. CASE lease # s
    BY <2>1, <2>2, <2>3, <2>4, <2>5, <2>6, <2>8 DEF Leased, YoungAtSold
  <2> QED
    BY <2>7, <2>8
<1> QED
  BY <1>1, <1>2, <1>3

\* Every step of a race keeps both.
LEMMA NextLeased ==
  ASSUME Racing, RaceInv, RaceInv', Leased, [Next]_vars
  PROVE  Leased'
<1>1. CASE UNCHANGED vars
  BY <1>1 DEF vars, coordinator, Leased, Busy, Holding, Bound, Acting, InHand, YoungAtSold
<1> QED
  BY <1>1, LeasedKept, LeasedInWorld, RacingSteps DEF Next

-----------------------------------------------------------------------------
(* The theorems.                                                             *)

\* Every step of a race keeps the invariant.
LEMMA NextRace ==
  ASSUME Racing, RaceInv, Leased, [Next]_vars
  PROVE  RaceInv'
<1>1. ASSUME NEW j \in Jobs, Monitor(j)
      PROVE  RaceInv'
  BY <1>1, QuietKept, ReadKept, TickKept, RegisterKept, BoundKept, PlaceKept, CreditKept,
     FillKept DEF Monitor
<1>2. CASE UNCHANGED vars
  <2>1. TypeOK'
    BY <1>2 DEF RaceInv, TypeOK, vars, work, coordinator
  <2>2. \A j \in Jobs : pc'[j] = pc[j]
    BY <1>2 DEF vars
  <2>3. \A j \in Jobs : pc[j] \in {"idle", "done", "leave"} \/ Ahead(j) \/ Acting(j)
    BY DEF RaceInv, OnPath
  <2> QED
    BY <1>2, <2>1, <2>2, <2>3, StagesKept
       DEF vars, coordinator, Ahead, Bound, InHand, Acting
<1> QED
  BY <1>1, <1>2, WorldKept, RacingSteps DEF Next

\* The invariant of every race.
LEMMA RaceHolds == Spec => [](Racing => RaceInv /\ Leased)
<1>1. Init => (Racing => RaceInv /\ Leased)
  BY InitRace, InitLeased
<1>2. (Racing => RaceInv /\ Leased) /\ [Next]_vars => (Racing => RaceInv /\ Leased)'
  <2> SUFFICES ASSUME Racing => RaceInv /\ Leased, [Next]_vars, Racing'
               PROVE  RaceInv' /\ Leased'
    OBVIOUS
  <2>1. Racing
    BY SceneKept DEF Racing
  <2> QED
    BY <2>1, NextRace, NextLeased
<1> QED
  BY <1>1, <1>2, PTL DEF Spec

\* Every variable keeps its type in a race: no credit takes more than the trade holds,
\* and what is sold stays a natural below the quantity or at it.
THEOREM RaceTyped == Spec => [](Racing => TypeOK)
<1>1. (Racing => RaceInv /\ Leased) => (Racing => TypeOK)
  BY DEF RaceInv
<1> QED
  BY <1>1, RaceHolds, PTL

\* However many servers race for a trigger, and whenever their leases run out, the
\* orders of a trade never sell more than it holds.
THEOREM RaceSellsOnce == Spec => [](Racing => SoldOnce)
<1>1. (Racing => RaceInv /\ Leased) => (Racing => SoldOnce)
  BY DEF RaceInv, Paid, SoldOnce
<1> QED
  BY <1>1, RaceHolds, PTL

\* Its margin is returned once: every credit is of a fill of its own.
THEOREM RaceReturnsOnce == Spec => [](Racing => ReturnedOnce)
<1>1. (Racing => RaceInv /\ Leased) => (Racing => ReturnedOnce)
  BY ExitAssumption DEF RaceInv, TypeOK, Paid, ReturnedOnce
<1> QED
  BY <1>1, RaceHolds, PTL

\* Without crashes none of it is forgotten, over every sequence of partial fills.
THEOREM RaceKeepsMargin == Spec => [](Racing => MarginKept)
<1>1. (Racing => RaceInv /\ Leased) => (Racing => MarginKept)
  <2> SUFFICES ASSUME RaceInv, AtRest, Intact PROVE cash + Remaining = Qty
    BY DEF MarginKept
  <2>1. \A j \in Jobs : ~InHand(j)
    BY DEF AtRest, Busy, InHand
  <2>2. cash = sold /\ Remaining = Qty - sold
    BY <2>1 DEF RaceInv, Settled
  <2> QED
    BY <2>2, ExitAssumption DEF RaceInv, TypeOK
<1> QED
  BY <1>1, RaceHolds, PTL

\* A trade that a race has closed is not opened again by a monitor that lost it,
\* though it saves a copy it read before.
THEOREM RaceClosesForGood == Spec /\ []Racing => ClosedForGood
<1>1. Racing /\ RaceInv /\ Leased /\ [Next]_vars /\ doc.status = "CLOSED" => doc'.status = "CLOSED"
  <2> SUFFICES ASSUME Racing, RaceInv, [Next]_vars, doc.status = "CLOSED"
               PROVE  doc'.status = "CLOSED"
    OBVIOUS
  <2>1. \A j \in Jobs : ~Acting(j) /\ copy[j] \in Document
    BY DEF RaceInv, ClosedLast, TypeOK
  <2>2. ASSUME NEW j \in Jobs, Monitor(j)
        PROVE  doc' = doc \/ TickQuiet(j) \/ TickTriggers(j)
    BY <2>1, <2>2
       DEF Monitor, Acting, Bound, InHand, MonitorRead, TickSkipped, AcquireLock, Register,
           ReleaseLock, Hold, SavePending, PlaceOrder, OrderRejected, SaveRefused, Credit,
           SaveFill, Undo
  <2>3. ASSUME NEW j \in Jobs, TickQuiet(j) \/ TickTriggers(j)
        PROVE  doc'.status = "CLOSED"
    <3>1. PICK p \in {{}, {"meta"}} : Save(copy[j], p)
      BY <2>3 DEF TickQuiet, TickTriggers
    <3> QED
      BY <2>1, <3>1, SaveWrites DEF RaceInv
  <2> QED
    BY <2>2, <2>3, RacingSteps DEF Next, LeaseExpires, RecordAges, Crash, vars
<1>2. Racing /\ (Racing => RaceInv /\ Leased) /\ [Next]_vars
      => [doc.status = "CLOSED" => doc'.status = "CLOSED"]_vars
  BY <1>1
<1> QED
  BY <1>2, RaceHolds, PTL DEF Spec, ClosedForGood
-----------------------------------------------------------------------------
(* Jobs of every kind, one after the other.                                  *)

\* No two jobs overlap and none is cut short once the wallet was touched.  Writes
\* may throw, orders be rejected and, unless the day is squared off, filled in part.
OneByOne ==
    /\ scene.apart
    /\ Intact
    /\ "partial" \in scene.faults => \A j \in Jobs : scene.kind[j] # "squareoff"

\* The trade is open, its document says what is sold, and the wallet agrees.
Level ==
    /\ doc.status # "CLOSED"
    /\ doc.filled < Qty
    /\ doc.qty = Qty - doc.filled
    /\ sold = doc.filled
    /\ cash = doc.filled

\* The copy of job j shows what the document does.
Abreast(j) ==
    /\ copy[j].filled = doc.filled
    /\ copy[j].qty = doc.qty
    /\ copy[j].status # "CLOSED"
    /\ "qty" \notin dirty[j]

\* The copy of job j has a fill that the document has not.
FillUnsaved(j) ==
    /\ doc.status # "CLOSED"
    /\ doc.qty = Qty - doc.filled
    /\ "qty" \notin dirty[j]
    /\ sold = copy[j].filled
    /\ doc.filled < sold
    /\ noted[j] = sold - doc.filled
    /\ "partial" \notin scene.faults => sold = Qty

\* A close has saved its status, and not yet its meta.
HalfClosed(j) ==
    /\ doc.status = "CLOSED"
    /\ copy[j].status = "CLOSED"
    /\ copy[j].filled < Qty
    /\ copy[j].qty = Qty - copy[j].filled
    /\ noted[j] = copy[j].filled

\* Before the wallet is touched.
Looking(j) == Ahead(j) \/ Bound(j) \/ pc[j] \in {"leave", "closing", "recovering"}

\* The trade and its wallet at each stage of job j.
Stage(j) ==
    /\ Looking(j) => Level /\ Abreast(j)
    /\ pc[j] = "claim" => Level /\ doc.filled = 0
    /\ pc[j] = "credit" => FillUnsaved(j) /\ cash = doc.filled
    /\ pc[j] \in {"leaveFill", "fill"} => FillUnsaved(j) /\ cash = sold
    /\ pc[j] = "refund" => doc.status = "CLOSED" /\ cash = 0
    /\ pc[j] = "settling" => HalfClosed(j)

\* Between jobs.
Sound == Level \/ (doc.status = "CLOSED" /\ cash = Qty)

SoloInv ==
    /\ TypeOK
    /\ \A i, j \in Jobs : Busy(i) /\ Busy(j) => i = j
    /\ \A j \in Jobs : Stage(j)
    /\ sold <= Qty /\ cash <= Qty
    /\ "partial" \notin scene.faults /\ doc.status # "CLOSED" => doc.filled = 0
    /\ AtRest => Sound

\* The initial states.
LEMMA InitSolo == Init => SoloInv
<1> SUFFICES ASSUME Init PROVE SoloInv
  OBVIOUS
<1>1. TypeOK
  BY InitRace DEF RaceInv
<1>2. \A j \in Jobs : pc[j] = "idle" /\ ~Busy(j)
  BY DEF Init, Busy
<1>3. \A j \in Jobs : Stage(j)
  BY <1>2 DEF Stage, Looking, Ahead, Bound
<1>4. Level /\ sold <= Qty /\ cash <= Qty /\ doc.filled = 0
  BY ExitAssumption DEF Init, Fresh, Level
<1> QED
  BY <1>1, <1>2, <1>3, <1>4 DEF SoloInv, Sound

\* Job j, alone, moves on to l.
LEMMA SoloGoes ==
  ASSUME SoloInv, NEW j \in Jobs, \A i \in Jobs \ {j} : ~Busy(i),
         NEW l \in Pcs \ {"idle"}, Go(j, l), TypeOK', UNCHANGED scene,
         Stage(j)', sold' <= Qty, cash' <= Qty,
         "partial" \notin scene.faults /\ doc'.status # "CLOSED" => doc'.filled = 0,
         l = "done" => Sound'
  PROVE  SoloInv'
<1>1. pc'[j] = l /\ \A i \in Jobs : i # j => pc'[i] = pc[i]
  BY Moved DEF SoloInv
<1>2. \A i \in Jobs : i # j => ~Busy(i)' /\ pc'[i] \in {"idle", "done"}
  BY <1>1 DEF Busy
<1>3. \A i \in Jobs : i # j => Stage(i)'
  BY <1>2 DEF Stage, Looking, Ahead, Bound
<1>4. AtRest' => l = "done"
  BY <1>1 DEF AtRest, Busy
<1> QED
  BY <1>2, <1>3, <1>4 DEF SoloInv

\* A step that moves no job and leaves trade and wallet alone.
LEMMA SoloStill ==
  ASSUME SoloInv, UNCHANGED <<scene, doc, intents, pc, work, cash, sold>>,
         CoordinatorOK'
  PROVE  SoloInv'
<1>1. TypeOK'
  BY DEF SoloInv, TypeOK, work, CoordinatorOK
<1>2. \A j \in Jobs : Stage(j)'
  BY DEF SoloInv, Stage, Looking, Ahead, Bound, Level, Abreast, FillUnsaved, HalfClosed, work
<1> QED
  BY <1>1, <1>2 DEF SoloInv, Busy, AtRest, Sound, Level

\* A job starts: it loads an open trade, or finds nothing to do.
LEMMA SoloStarts ==
  ASSUME SoloInv, OneByOne, NEW j \in Jobs,
         MonitorRead(j) \/ SquareOffFind(j) \/ CloseFind(j) \/ RecoverFind(j)
  PROVE  SoloInv'
<1>1. /\ pc[j] = "idle" /\ \A i \in Jobs : ~Busy(i)
      /\ UNCHANGED <<scene, doc, trigger, noted, cash, sold>>
      /\ UNCHANGED coordinator \/ (UNCHANGED <<lease, intents, recent>> /\
                                   registry' = [registry EXCEPT ![Home[j]] = {}])
  BY DEF MonitorRead, SquareOffFind, CloseFind, RecoverFind, Starts, OneByOne
<1>2. PICK l \in {"read", "claim", "closing", "recovering", "done"} :
         /\ Go(j, l)
         /\ IF l = "done" THEN UNCHANGED <<copy, dirty>> ELSE Load(j) /\ doc.status # "CLOSED"
         /\ l = "claim" => scene.kind[j] = "squareoff"
  BY DEF MonitorRead, SquareOffFind, CloseFind, RecoverFind, Starts, Watched, Recoverable,
         OpenStatuses
<1>3. TypeOK /\ Sound /\ l \in Pcs \ {"idle"}
  <2>1. l \in Pcs \ {"idle"}
    BY LeaseLabels DEF Pcs
  <2> QED
    BY <1>1, <2>1 DEF SoloInv, AtRest
<1>4. pc' \in [Jobs -> Pcs] /\ pc'[j] = l
  BY <1>2, <1>3, Moved
<1>5. TypeOK'
  <2>1. CoordinatorOK'
    BY <1>1, <1>3, ExitAssumption DEF TypeOK, CoordinatorOK, coordinator
  <2> QED
    BY <1>1, <1>2, <1>3, <1>4, <2>1 DEF TypeOK, Load, CoordinatorOK
<1>6. Sound'
  BY <1>1, <1>3 DEF Sound, Level
<1>7. Stage(j)'
  <2>1. CASE l = "done"
    BY <1>4, <2>1 DEF Stage, Looking, Ahead, Bound
  <2>2. CASE l # "done"
    <3>1. Level' /\ copy'[j] = doc /\ dirty'[j] = {} /\ doc' = doc /\ doc.status # "CLOSED"
      BY <1>1, <1>2, <1>3, <1>6, <2>2 DEF Load, TypeOK, Sound
    <3>2. l = "claim" => doc'.filled = 0
      BY <1>1, <1>2, <3>1 DEF OneByOne, SoloInv
    <3> QED
      BY <1>4, <2>2, <3>1, <3>2 DEF Stage, Looking, Abreast, Ahead, Bound
  <2> QED
    BY <2>1, <2>2
<1> QED
  BY <1>1, <1>2, <1>3, <1>5, <1>6, <1>7, SoloGoes DEF SoloInv

\* A job moves on and leaves trade and wallet alone.
LEMMA SoloQuiet ==
  ASSUME SoloInv, NEW j \in Jobs,
         \/ TickSkipped(j) \/ AcquireLock(j) \/ Register(j) \/ ReleaseLock(j)
         \/ OrderRejected(j) \/ (pc[j] = "claim" /\ Go(j, "done") /\
                                 UNCHANGED <<scene, doc, coordinator, work, cash, sold>>)
  PROVE  SoloInv'
<1>1. TypeOK /\ Busy(j) /\ UNCHANGED <<scene, doc, work, cash, sold>>
  BY DEF SoloInv, TickSkipped, AcquireLock, Register, ReleaseLock, OrderRejected, After, Busy
<1>2. \A i \in Jobs \ {j} : ~Busy(i)
  BY <1>1 DEF SoloInv
<1>3. PICK l \in Pcs \ {"idle"} :
         /\ Go(j, l)
         /\ \/ Looking(j) /\ l \in {"done", "register", "leave", "leaveHold", "pending", "hold",
                                    "undo", "refused"}
            \/ pc[j] = "claim" /\ l = "done"
            \/ pc[j] = "leaveFill" /\ l = "fill"
  BY DEF TickSkipped, AcquireLock, Register, ReleaseLock, OrderRejected, After, Pcs, Looking,
         Ahead, Bound
<1>4. CoordinatorOK'
  <2>1. Home[j] \in Instances
    BY ExitAssumption
  <2>2. IntentKey(j) \in Keys
    BY <1>1, DocumentParts DEF TypeOK, IntentKey, Keys, Document
  <2> QED
    BY <1>1, <2>1, <2>2 DEF TypeOK, TickSkipped, AcquireLock, Register, ReleaseLock,
                            OrderRejected, coordinator, CoordinatorOK
<1>5. pc' \in [Jobs -> Pcs] /\ pc'[j] = l
  BY <1>1, <1>3, Moved
<1>6. TypeOK'
  BY <1>1, <1>4, <1>5 DEF TypeOK, work, CoordinatorOK
<1>7. Stage(j)' /\ (l = "done" => Sound')
  <2>1. CASE Looking(j) /\ l \in {"done", "register", "leave", "leaveHold", "pending", "hold",
                                  "undo", "refused"}
    <3>1. Level' /\ Abreast(j)'
      BY <1>1, <2>1 DEF SoloInv, Stage, Level, Abreast, work
    <3> QED
      BY <1>5, <2>1, <3>1 DEF Stage, Sound
  <2>2. CASE pc[j] = "claim" /\ l = "done"
    <3>1. Level'
      BY <1>1, <2>2 DEF SoloInv, Stage, Level
    <3> QED
      BY <1>5, <2>2, <3>1 DEF Stage, Looking, Ahead, Bound, Sound
  <2>3. CASE pc[j] = "leaveFill" /\ l = "fill"
    <3>1. FillUnsaved(j)' /\ cash' = sold'
      BY <1>1, <2>3 DEF SoloInv, Stage, FillUnsaved, work
    <3> QED
      BY <1>5, <2>3, <3>1 DEF Stage, Looking, Ahead, Bound
  <2> QED
    BY <1>3, <2>1, <2>2, <2>3
<1> QED
  BY <1>1, <1>2, <1>3, <1>6, <1>7, SoloGoes DEF SoloInv

\* A tick saves the watermarks, and what it wrote is what was there.
LEMMA SoloTicks ==
  ASSUME SoloInv, NEW j \in Jobs, TickQuiet(j) \/ TickTriggers(j)
  PROVE  SoloInv'
<1>1. TypeOK /\ Busy(j) /\ pc[j] = "read" /\ Level /\ Abreast(j)
  BY DEF SoloInv, TickQuiet, TickTriggers, Busy, Stage, Looking, Ahead
<1>2. \A i \in Jobs \ {j} : ~Busy(i)
  BY <1>1 DEF SoloInv
<1>3. /\ UNCHANGED <<scene, coordinator, copy, dirty, noted, cash, sold>>
      /\ \E t \in Triggers : trigger' = [trigger EXCEPT ![j] = t] \/ trigger' = trigger
  BY DEF TickQuiet, TickTriggers, work, Triggers
<1>4. PICK p \in {{}, {"meta"}}, l \in {"done", "lock"} : Save(copy[j], p) /\ Go(j, l)
  BY DEF TickQuiet, TickTriggers
<1>5. /\ doc' \in Document /\ doc'.filled = doc.filled
      /\ doc'.qty = doc.qty /\ doc'.status = doc.status
  <2>1. copy[j] \in Document /\ copy[j].filled = doc.filled /\ "status" \notin p /\ "qty" \notin p
    BY <1>1 DEF TypeOK, Abreast
  <2> QED
    BY <1>1, <1>4, <2>1, SaveWrites
<1>6. l \in Pcs \ {"idle"} /\ pc' \in [Jobs -> Pcs] /\ pc'[j] = l
  <2>1. l \in Pcs \ {"idle"}
    BY LeaseLabels DEF Pcs
  <2> QED
    BY <1>1, <1>4, <2>1, Moved
<1>7. TypeOK'
  BY <1>1, <1>3, <1>5, <1>6 DEF TypeOK, coordinator
<1>8. Level' /\ Abreast(j)'
  BY <1>1, <1>3, <1>5 DEF Level, Abreast
<1>9. Stage(j)' /\ Sound'
  BY <1>6, <1>8 DEF Stage, Sound
<1> QED
  BY <1>2, <1>3, <1>4, <1>5, <1>6, <1>7, <1>9, SoloGoes DEF SoloInv

\* A job that has filled nothing writes the status of the trade, or throws over it.
LEMMA SoloSaves ==
  ASSUME SoloInv, NEW j \in Jobs, Looking(j),
         NEW d \in Document, d.filled = copy[j].filled, d.qty = copy[j].qty,
         d.status # "CLOSED", NEW p \in SUBSET {"status", "meta"},
         SaveCopy(j, d, p) \/ SaveThrows(j, d, p, "save"),
         NEW l \in {"done", "place", "leave", "leaveUndo"}, Go(j, l),
         UNCHANGED <<scene, coordinator, trigger, noted, cash, sold>>
  PROVE  SoloInv'
<1>1. TypeOK /\ Busy(j) /\ Level /\ Abreast(j)
  BY DEF SoloInv, Stage, Busy, Looking, Ahead, Bound
<1>2. \A i \in Jobs \ {j} : ~Busy(i)
  BY <1>1 DEF SoloInv
<1>3. copy' \in [Jobs -> Document] /\ copy'[j] = d
  BY <1>1 DEF SaveCopy, SaveThrows, TypeOK
<1>4. dirty' \in [Jobs -> SUBSET {"status", "qty", "meta"}] /\ "qty" \notin dirty'[j]
  BY <1>1 DEF SaveCopy, SaveThrows, TypeOK, Abreast
<1>5. /\ doc' \in Document /\ doc'.filled = doc.filled
      /\ doc'.qty = doc.qty /\ doc'.status # "CLOSED"
  <2>1. CASE SaveCopy(j, d, p)
    <3> DEFINE q == dirty[j] \cup p
    <3>1. Save(d, q) /\ "qty" \notin q
      BY <1>1, <2>1 DEF SaveCopy, Abreast
    <3>2. d.filled = doc.filled /\ doc.status # "CLOSED"
      BY <1>1 DEF Abreast, Level
    <3> HIDE DEF q
    <3> QED
      BY <1>1, <3>1, <3>2, SaveWrites
  <2>2. CASE SaveThrows(j, d, p, "save")
    BY <1>1, <2>2 DEF SaveThrows, TypeOK, Level
  <2> QED
    BY <2>1, <2>2
<1>6. l \in Pcs \ {"idle"} /\ pc' \in [Jobs -> Pcs] /\ pc'[j] = l
  BY <1>1, Moved DEF Pcs, After
<1>7. TypeOK'
  BY <1>1, <1>3, <1>4, <1>5, <1>6 DEF TypeOK, coordinator
<1>8. Level' /\ Abreast(j)'
  BY <1>1, <1>3, <1>4, <1>5 DEF Level, Abreast
<1>9. Stage(j)' /\ Sound'
  BY <1>6, <1>8 DEF Stage, Sound
<1>10. "partial" \notin scene.faults => doc'.filled = 0
  BY <1>1, <1>5 DEF SoloInv, Level
<1> QED
  BY <1>2, <1>6, <1>7, <1>9, <1>10, SoloGoes DEF SoloInv

\* The saves that give a trigger up, and those before an order and after a restart.
LEMMA SoloStatus ==
  ASSUME SoloInv, NEW j \in Jobs,
         Hold(j) \/ SavePending(j) \/ SaveRefused(j) \/ Undo(j) \/ RecoverSave(j)
  PROVE  SoloInv'
<1>1. Looking(j) /\ copy[j] \in Document /\ copy[j].status # "CLOSED"
  BY DEF Hold, SavePending, SaveRefused, Undo, RecoverSave, Looking, Bound, SoloInv, TypeOK,
         Stage, Abreast
<1>2. UNCHANGED <<scene, coordinator, trigger, noted, cash, sold>>
  BY DEF Hold, SavePending, SaveRefused, Undo, RecoverSave
<1>3. \A s \in OpenStatuses, w \in BOOLEAN :
         LET d == [copy[j] EXCEPT !.status = s, !.waiting = w]
         IN  d \in Document /\ d.filled = copy[j].filled /\ d.qty = copy[j].qty
             /\ d.status # "CLOSED"
  BY <1>1 DEF Document, OpenStatuses
<1>4. PICK d \in Document, p \in SUBSET {"status", "meta"},
           l \in {"done", "place", "leave", "leaveUndo"} :
         /\ d.filled = copy[j].filled /\ d.qty = copy[j].qty /\ d.status # "CLOSED"
         /\ SaveCopy(j, d, p) \/ SaveThrows(j, d, p, "save")
         /\ Go(j, l)
  <2>1. CASE Hold(j)
    <3> DEFINE d == [copy[j] EXCEPT !.status = IF trigger[j] = "TARGET"
                                              THEN "TARGET_TRIGGERED"
                                              ELSE "STOP_TRIGGERED"]
    <3>1. d \in Document /\ d.filled = copy[j].filled /\ d.qty = copy[j].qty
          /\ d.status # "CLOSED"
      BY <1>1 DEF Document, OpenStatuses
    <3>2. /\ SaveCopy(j, d, {"status", "meta"}) \/ SaveThrows(j, d, {"status", "meta"}, "save")
          /\ Go(j, "done")
      BY <2>1 DEF Hold
    <3> QED
      BY <3>1, <3>2
  <2>2. CASE SavePending(j)
    <3> DEFINE d == [copy[j] EXCEPT !.status = "EXIT_PENDING", !.waiting = TRUE]
    <3>1. d \in Document /\ d.filled = copy[j].filled /\ d.qty = copy[j].qty
          /\ d.status # "CLOSED"
      BY <1>3 DEF OpenStatuses
    <3>2. \/ SaveCopy(j, d, {"status", "meta"}) /\ Go(j, "place")
          \/ SaveThrows(j, d, {"status", "meta"}, "save") /\ Go(j, "leaveUndo")
      BY <2>2 DEF SavePending
    <3> QED
      BY <3>1, <3>2
  <2>3. CASE SaveRefused(j) \/ Undo(j)
    <3> DEFINE d == [copy[j] EXCEPT !.status = "OPEN", !.waiting = FALSE]
    <3>1. d \in Document /\ d.filled = copy[j].filled /\ d.qty = copy[j].qty
          /\ d.status # "CLOSED"
      BY <1>3 DEF OpenStatuses
    <3>2. \/ SaveCopy(j, d, {"status", "meta"}) /\ (Go(j, "leave") \/ Go(j, "done"))
          \/ SaveThrows(j, d, {"status", "meta"}, "save") /\ (Go(j, "leaveUndo") \/ Go(j, "done"))
      BY <2>3 DEF SaveRefused, Undo
    <3> QED
      BY <3>1, <3>2
  <2>4. CASE RecoverSave(j)
    <3>1. CASE copy[j].status = "EXIT_PARTIALLY_FILLED"
      <4> DEFINE d == [copy[j] EXCEPT !.waiting = FALSE, !.status = copy[j].status]
      <4>1. d \in Document /\ d.filled = copy[j].filled /\ d.qty = copy[j].qty
            /\ d.status # "CLOSED"
        BY <1>1 DEF Document
      <4>2. SaveCopy(j, d, {"meta"}) \/ SaveThrows(j, d, {"meta"}, "save")
        BY <2>4, <3>1 DEF RecoverSave
      <4>3. Go(j, "done")
        BY <2>4 DEF RecoverSave
      <4> QED
        BY <4>1, <4>2, <4>3
    <3>2. CASE copy[j].status # "EXIT_PARTIALLY_FILLED"
      <4> DEFINE d == [copy[j] EXCEPT !.waiting = FALSE, !.status = "OPEN"]
      <4>1. d \in Document /\ d.filled = copy[j].filled /\ d.qty = copy[j].qty
            /\ d.status # "CLOSED"
        BY <1>1 DEF Document, OpenStatuses
      <4>2. SaveCopy(j, d, {"status", "meta"}) \/ SaveThrows(j, d, {"status", "meta"}, "save")
        BY <2>4, <3>2 DEF RecoverSave
      <4>3. Go(j, "done")
        BY <2>4 DEF RecoverSave
      <4> QED
        BY <4>1, <4>2, <4>3
    <3> QED
      BY <3>1, <3>2
  <2> QED
    BY <2>1, <2>2, <2>3, <2>4
<1> QED
  BY <1>1, <1>2, <1>4, SoloSaves

\* The order: what it fills is in the copy of its job alone.
LEMMA SoloPlaces ==
  ASSUME SoloInv, NEW j \in Jobs, PlaceOrder(j)
  PROVE  SoloInv'
<1>1. TypeOK /\ Busy(j) /\ pc[j] = "place" /\ Level /\ Abreast(j)
  BY DEF SoloInv, PlaceOrder, Busy, Stage, Looking, Bound
<1>2. \A i \in Jobs \ {j} : ~Busy(i)
  BY <1>1 DEF SoloInv
<1>3. PICK f \in 1 .. OrderQty(copy[j]) :
         /\ f < OrderQty(copy[j]) => "partial" \in scene.faults
         /\ sold' = sold + f
         /\ copy' = [copy EXCEPT ![j].filled = copy[j].filled + f]
         /\ noted' = [noted EXCEPT ![j] = f]
  BY DEF PlaceOrder
<1>4. /\ dirty' = [dirty EXCEPT ![j] = {"meta"}] /\ Go(j, "credit")
      /\ UNCHANGED <<scene, doc, coordinator, trigger, cash>>
  BY DEF PlaceOrder
<1>5. /\ Qty \in Nat /\ doc.filled \in Nat /\ doc.filled < Qty /\ copy[j].filled = doc.filled
      /\ sold = doc.filled /\ cash = doc.filled /\ copy[j] \in Document
  BY <1>1, DocumentParts, ExitAssumption DEF TypeOK, Level, Abreast
<1>6. OrderQty(copy[j]) = Qty - doc.filled
  BY <1>5 DEF OrderQty
<1>7. f \in Nat \ {0} /\ doc.filled + f <= Qty /\ doc.filled + f \in 0 .. Qty
  BY <1>5, <1>6
<1>8. copy' \in [Jobs -> Document] /\ copy'[j].filled = doc.filled + f
  <2>1. copy \in [Jobs -> Document]
    BY <1>1 DEF TypeOK
  <2>2. [copy[j] EXCEPT !.filled = copy[j].filled + f] \in Document
    BY <1>5, <1>7 DEF Document
  <2> QED
    BY <1>3, <1>5, <2>1, <2>2 DEF Document
<1>9. dirty' \in [Jobs -> SUBSET {"status", "qty", "meta"}] /\ "qty" \notin dirty'[j]
  BY <1>1, <1>4 DEF TypeOK
<1>10. noted' \in [Jobs -> Nat] /\ noted'[j] = f /\ sold' \in Nat /\ sold' <= Qty
  BY <1>1, <1>3, <1>5, <1>7 DEF TypeOK
<1>11. "credit" \in Pcs \ {"idle"} /\ pc' \in [Jobs -> Pcs] /\ pc'[j] = "credit"
  BY <1>1, <1>4, Moved DEF Pcs
<1>12. TypeOK'
  BY <1>1, <1>4, <1>8, <1>9, <1>10, <1>11 DEF TypeOK, coordinator
<1>13. "partial" \notin scene.faults => sold' = Qty
  BY <1>3, <1>5, <1>6, <1>7
<1>14. FillUnsaved(j)' /\ cash' = doc'.filled
  BY <1>1, <1>3, <1>4, <1>5, <1>7, <1>8, <1>9, <1>10, <1>13 DEF FillUnsaved, Level
<1>15. Stage(j)'
  BY <1>11, <1>14 DEF Stage, Looking, Ahead, Bound
<1> QED
  BY <1>2, <1>4, <1>10, <1>11, <1>12, <1>15, SoloGoes DEF SoloInv

\* The margin of the fill.
LEMMA SoloCredits ==
  ASSUME SoloInv, OneByOne, NEW j \in Jobs, Credit(j)
  PROVE  SoloInv'
<1>1. TypeOK /\ Busy(j) /\ pc[j] = "credit" /\ FillUnsaved(j) /\ cash = doc.filled
  BY DEF SoloInv, Credit, Busy, Stage
<1>2. \A i \in Jobs \ {j} : ~Busy(i)
  BY <1>1 DEF SoloInv
<1>3. /\ Go(j, "leaveFill") /\ cash' = cash + noted[j]
      /\ UNCHANGED <<scene, doc, coordinator, work, sold>>
  BY DEF Credit, MarginOfFill, OneByOne, Intact
<1>4. cash' = sold /\ cash' \in Nat /\ cash' <= Qty
  BY <1>1, <1>3, DocumentParts DEF FillUnsaved, TypeOK, SoloInv
<1>5. "leaveFill" \in Pcs \ {"idle"} /\ pc' \in [Jobs -> Pcs] /\ pc'[j] = "leaveFill"
  BY <1>1, <1>3, Moved, LeaseLabels
<1>6. TypeOK'
  BY <1>1, <1>3, <1>4, <1>5 DEF TypeOK, coordinator, work
<1>7. FillUnsaved(j)'
  BY <1>1, <1>3 DEF FillUnsaved, work
<1>8. Stage(j)'
  BY <1>3, <1>4, <1>5, <1>7 DEF Stage, Looking, Ahead, Bound
<1> QED
  BY <1>2, <1>3, <1>4, <1>5, <1>6, <1>8, SoloGoes DEF SoloInv

\* The document after the fill.
LEMMA SoloFills ==
  ASSUME SoloInv, OneByOne, NEW j \in Jobs, SaveFill(j)
  PROVE  SoloInv'
<1>1. TypeOK /\ Busy(j) /\ pc[j] = "fill" /\ FillUnsaved(j) /\ cash = sold
  BY DEF SoloInv, SaveFill, Busy, Stage
<1>2. \A i \in Jobs \ {j} : ~Busy(i)
  BY <1>1 DEF SoloInv
<1> DEFINE d == Filled(copy[j])
           p == FilledPaths(copy[j]) \cup {"meta"}
<1>3. /\ SaveCopy(j, d, p) /\ Go(j, "done")
      /\ UNCHANGED <<scene, coordinator, trigger, noted, cash, sold>>
  BY DEF SaveFill, SaveThrows, OneByOne, Intact
<1>4. /\ copy[j] \in Document /\ copy[j].filled = sold /\ sold \in Nat /\ sold <= Qty
      /\ Qty \in Nat /\ cash \in Nat /\ doc \in Document
  BY <1>1, ExitAssumption DEF TypeOK, SoloInv, FillUnsaved
<1>5. /\ d \in Document /\ d.filled = sold
      /\ sold = Qty => d.status = "CLOSED"
      /\ sold # Qty => d.status = "EXIT_PARTIALLY_FILLED" /\ d.qty = Qty - sold
  <2>1. CASE sold = Qty
    BY <1>4, <2>1 DEF Filled, Document, OpenStatuses
  <2>2. CASE sold # Qty
    <3>1. sold < Qty /\ Qty - sold \in 0 .. Qty
      BY <1>4, <2>2
    <3>2. d = [copy[j] EXCEPT !.status = "EXIT_PARTIALLY_FILLED", !.waiting = FALSE,
                              !.qty = Qty - sold]
      BY <1>4, <3>1 DEF Filled
    <3> QED
      BY <1>4, <2>2, <3>1, <3>2 DEF Document, OpenStatuses
  <2> QED
    BY <2>1, <2>2
<1>6. "status" \in p /\ "meta" \in p /\ (sold # Qty => "qty" \in p)
  BY <1>4 DEF FilledPaths
<1>7. Save(d, dirty[j] \cup p)
  BY <1>3 DEF SaveCopy
<1>8. /\ copy' \in [Jobs -> Document] /\ dirty' \in [Jobs -> SUBSET {"status", "qty", "meta"}]
  BY <1>1, <1>3, <1>5 DEF SaveCopy, TypeOK
<1> HIDE DEF d, p
<1>9. /\ doc' \in Document /\ doc'.status = d.status /\ doc'.filled = sold
      /\ sold # Qty => doc'.qty = Qty - sold
  <2> DEFINE q == dirty[j] \cup p
  <2>1. Save(d, q) /\ "status" \in q /\ "meta" \in q /\ (sold # Qty => "qty" \in q)
    BY <1>6, <1>7
  <2> HIDE DEF q
  <2> QED
    BY <1>1, <1>5, <2>1, SaveWrites
<1>10. "done" \in Pcs \ {"idle"} /\ pc' \in [Jobs -> Pcs] /\ pc'[j] = "done"
  BY <1>1, <1>3, Moved, LeaseLabels
<1>11. TypeOK'
  BY <1>1, <1>3, <1>8, <1>9, <1>10 DEF TypeOK, coordinator
<1>12. Sound'
  <2>1. CASE sold = Qty
    BY <1>1, <1>3, <1>5, <1>9, <2>1 DEF Sound
  <2>2. CASE sold # Qty
    <3>1. sold < Qty
      BY <1>4, <2>2
    <3> QED
      BY <1>1, <1>3, <1>5, <1>9, <2>2, <3>1 DEF Sound, Level
  <2> QED
    BY <2>1, <2>2
<1>13. "partial" \notin scene.faults => doc'.status = "CLOSED"
  BY <1>1, <1>5, <1>9 DEF FillUnsaved
<1>14. Stage(j)'
  BY <1>10 DEF Stage, Looking, Ahead, Bound
<1> QED
  BY <1>2, <1>3, <1>10, <1>11, <1>12, <1>13, <1>14, SoloGoes DEF SoloInv

\* The square-off: the claim, then all of the margin, of which nothing was returned.
LEMMA SoloSquares ==
  ASSUME SoloInv, NEW j \in Jobs, Claim(j) \/ SquareOffRefund(j)
  PROVE  SoloInv'
<1>1. TypeOK /\ Busy(j) /\ Qty \in Nat
  BY ExitAssumption DEF SoloInv, Claim, SquareOffRefund, Busy
<1>2. \A i \in Jobs \ {j} : ~Busy(i)
  BY <1>1 DEF SoloInv
<1>3. CASE /\ pc[j] = "claim" /\ Go(j, "refund")
           /\ doc' = [doc EXCEPT !.status = "CLOSED"]
           /\ UNCHANGED <<scene, coordinator, work, cash, sold>>
  <2>1. doc' \in Document /\ doc'.status = "CLOSED"
    BY <1>1, <1>3 DEF TypeOK, Document
  <2>2. cash = 0
    BY <1>3 DEF SoloInv, Stage, Level
  <2>3. "refund" \in Pcs \ {"idle"} /\ pc' \in [Jobs -> Pcs] /\ pc'[j] = "refund"
    BY <1>1, <1>3, Moved DEF Pcs
  <2>4. TypeOK'
    BY <1>1, <1>3, <2>1, <2>3 DEF TypeOK, coordinator, work
  <2>5. Stage(j)'
    BY <1>3, <2>1, <2>2, <2>3 DEF Stage, Looking, Ahead, Bound
  <2> QED
    BY <1>2, <1>3, <2>1, <2>3, <2>4, <2>5, SoloGoes DEF SoloInv
<1>4. CASE pc[j] = "claim" /\ Go(j, "done") /\ UNCHANGED <<scene, doc, coordinator, work, cash, sold>>
  BY <1>4, SoloQuiet
<1>5. CASE SquareOffRefund(j)
  <2>1. /\ doc.status = "CLOSED" /\ cash = 0 /\ cash' = cash + Qty /\ Go(j, "done")
        /\ UNCHANGED <<scene, doc, coordinator, work, sold>>
    BY <1>5 DEF SquareOffRefund, SoloInv, Stage
  <2>2. cash' = Qty /\ cash' \in Nat
    BY <1>1, <2>1
  <2>3. "done" \in Pcs \ {"idle"} /\ pc' \in [Jobs -> Pcs] /\ pc'[j] = "done"
    BY <1>1, <2>1, Moved, LeaseLabels
  <2>4. TypeOK'
    BY <1>1, <2>1, <2>2, <2>3 DEF TypeOK, coordinator, work
  <2>5. Stage(j)' /\ Sound'
    BY <2>1, <2>2, <2>3 DEF Stage, Looking, Ahead, Bound, Sound
  <2>6. cash' <= Qty
    BY <1>1, <2>2
  <2> QED
    BY <1>2, <2>1, <2>3, <2>4, <2>5, <2>6, SoloGoes DEF SoloInv
<1> QED
  BY <1>3, <1>4, <1>5 DEF Claim

\* The close route's two saves; its balance is what it was when it was read.
LEMMA SoloCloses ==
  ASSUME SoloInv, OneByOne, NEW j \in Jobs, CloseSave(j) \/ CloseSettle(j)
  PROVE  SoloInv'
<1>1. TypeOK /\ Busy(j) /\ Qty \in Nat \ {0} /\ copy[j] \in Document
  BY ExitAssumption DEF SoloInv, CloseSave, CloseSettle, Busy, TypeOK
<1>2. \A i \in Jobs \ {j} : ~Busy(i)
  BY <1>1 DEF SoloInv
<1>3. CASE CloseSave(j)
  <2> DEFINE d == [copy[j] EXCEPT !.status = "CLOSED"]
  <2>1. d \in Document /\ d.status = "CLOSED" /\ d.filled = copy[j].filled /\ d.qty = copy[j].qty
    BY <1>1 DEF Document
  <2>2. Level /\ Abreast(j) /\ UNCHANGED <<scene, coordinator, trigger, cash, sold>>
    BY <1>3 DEF CloseSave, SoloInv, Stage, Looking
  <2>3. /\ copy' \in [Jobs -> Document] /\ copy'[j] = d
        /\ dirty' \in [Jobs -> SUBSET {"status", "qty", "meta"}]
    BY <1>1, <1>3, <2>1 DEF CloseSave, SaveCopy, SaveThrows, TypeOK
  <2>4. \/ SaveCopy(j, d, {"status"}) /\ noted' = [noted EXCEPT ![j] = cash] /\ Go(j, "settling")
        \/ doc' = doc /\ noted' = noted /\ Go(j, "done")
    BY <1>3 DEF CloseSave, SaveThrows
  <2> HIDE DEF d
  <2>5. CASE SaveCopy(j, d, {"status"}) /\ noted' = [noted EXCEPT ![j] = cash] /\ Go(j, "settling")
    <3>1. doc' \in Document /\ doc'.status = "CLOSED"
      <4> DEFINE q == dirty[j] \cup {"status"}
      <4>1. Save(d, q) /\ "status" \in q
        BY <2>5 DEF SaveCopy
      <4> HIDE DEF q
      <4> QED
        BY <1>1, <2>1, <4>1, SaveWrites
    <3>2. noted' \in [Jobs -> Nat] /\ noted'[j] = cash
      BY <1>1, <2>5 DEF TypeOK
    <3>3. "settling" \in Pcs \ {"idle"} /\ pc' \in [Jobs -> Pcs] /\ pc'[j] = "settling"
      BY <1>1, <2>5, Moved DEF Pcs
    <3>4. TypeOK'
      BY <1>1, <2>2, <2>3, <3>1, <3>2, <3>3 DEF TypeOK, coordinator
    <3>5. HalfClosed(j)'
      BY <2>1, <2>2, <2>3, <3>1, <3>2 DEF HalfClosed, Level, Abreast
    <3>6. Stage(j)'
      BY <3>3, <3>5 DEF Stage, Looking, Ahead, Bound
    <3> QED
      BY <1>2, <2>2, <2>5, <3>1, <3>3, <3>4, <3>6, SoloGoes DEF SoloInv
  <2>6. CASE doc' = doc /\ noted' = noted /\ Go(j, "done")
    <3>1. "done" \in Pcs \ {"idle"} /\ pc' \in [Jobs -> Pcs] /\ pc'[j] = "done"
      BY <1>1, <2>6, Moved, LeaseLabels
    <3>2. TypeOK'
      BY <1>1, <2>2, <2>3, <2>6, <3>1 DEF TypeOK, coordinator
    <3>3. Stage(j)' /\ Sound'
      BY <2>2, <2>6, <3>1 DEF Stage, Looking, Ahead, Bound, Sound, Level
    <3> QED
      BY <1>2, <2>2, <2>6, <3>1, <3>2, <3>3, SoloGoes DEF SoloInv
  <2> QED
    BY <2>4, <2>5, <2>6
<1>4. CASE CloseSettle(j)
  <2> DEFINE d == [copy[j] EXCEPT !.filled = Qty]
  <2>1. HalfClosed(j)
    BY <1>4 DEF CloseSettle, SoloInv, Stage
  <2>2. d \in Document /\ d.status = "CLOSED"
    <3>1. Qty \in 0 .. Qty
      BY <1>1
    <3> QED
      BY <1>1, <2>1, <3>1 DEF Document, HalfClosed
  <2>3. /\ SaveCopy(j, d, {"meta"}) /\ cash' = noted[j] + MarginOfClose(copy[j]) /\ Go(j, "done")
        /\ UNCHANGED <<scene, coordinator, trigger, noted, sold>>
    BY <1>4 DEF CloseSettle, SaveThrows, OneByOne, Intact
  <2>4. cash' = Qty
    <3>1. copy[j].filled \in Nat /\ copy[j].filled < Qty /\ noted[j] = copy[j].filled
          /\ copy[j].qty = Qty - copy[j].filled
      BY <1>1, <2>1, DocumentParts DEF HalfClosed
    <3> QED
      BY <1>1, <2>3, <3>1 DEF MarginOfClose
  <2>5. /\ copy' \in [Jobs -> Document]
        /\ dirty' \in [Jobs -> SUBSET {"status", "qty", "meta"}]
    BY <1>1, <2>2, <2>3 DEF SaveCopy, TypeOK
  <2> HIDE DEF d
  <2>6. doc' \in Document /\ doc'.status = "CLOSED"
    <3> DEFINE q == dirty[j] \cup {"meta"}
    <3>1. Save(d, q) /\ doc.status = "CLOSED"
      BY <2>1, <2>3 DEF SaveCopy, HalfClosed
    <3> HIDE DEF q
    <3> QED
      BY <1>1, <2>2, <3>1, SaveWrites
  <2>7. "done" \in Pcs \ {"idle"} /\ pc' \in [Jobs -> Pcs] /\ pc'[j] = "done"
    BY <1>1, <2>3, Moved, LeaseLabels
  <2>8. TypeOK'
    BY <1>1, <2>3, <2>4, <2>5, <2>6, <2>7 DEF TypeOK, coordinator
  <2>9. Stage(j)' /\ Sound'
    BY <2>4, <2>6, <2>7 DEF Stage, Looking, Ahead, Bound, Sound
  <2>10. cash' <= Qty
    BY <1>1, <2>4
  <2> QED
    BY <1>2, <2>3, <2>6, <2>7, <2>8, <2>9, <2>10, SoloGoes DEF SoloInv
<1> QED
  BY <1>3, <1>4

LEMMA NextSolo ==
  ASSUME OneByOne, SoloInv, [Next]_vars
  PROVE  SoloInv'
<1>1. ASSUME NEW j \in Jobs, Monitor(j) \/ SquareOff(j) \/ Close(j) \/ Recover(j)
      PROVE  SoloInv'
  BY <1>1, SoloStarts, SoloQuiet, SoloTicks, SoloStatus, SoloPlaces, SoloCredits, SoloFills,
     SoloSquares, SoloCloses DEF Monitor, SquareOff, Close, Recover
<1>2. CASE LeaseExpires \/ RecordAges
  BY <1>2, SoloStill DEF LeaseExpires, RecordAges, SoloInv, TypeOK, CoordinatorOK
<1>3. CASE UNCHANGED vars
  BY <1>3, SoloStill DEF vars, coordinator, SoloInv, TypeOK, CoordinatorOK
<1>4. ASSUME NEW i \in Instances PROVE ~Crash(i)
  BY DEF Crash, OneByOne, Intact
<1> QED
  BY <1>1, <1>2, <1>3, <1>4 DEF Next

LEMMA SoloHolds == Spec => [](OneByOne => SoloInv)
<1>1. Init => (OneByOne => SoloInv)
  BY InitSolo
<1>2. (OneByOne => SoloInv) /\ [Next]_vars => (OneByOne => SoloInv)'
  BY NextSolo, SceneKept DEF OneByOne, Intact
<1> QED
  BY <1>1, <1>2, PTL DEF Spec

\* Monitor, square-off, close route and recovery in turn, in any order and however
\* often: fills are sold once, and the margin of the trade is returned once and
\* whole, over partial fills, rejections, saves that throw and exits given up.
THEOREM InTurnKeepsMargin ==
  Spec => [](OneByOne => MarginKept /\ ReturnedOnce /\ SoldOnce)
<1>1. SoloInv => MarginKept /\ ReturnedOnce /\ SoldOnce
  <2> SUFFICES ASSUME SoloInv PROVE MarginKept /\ ReturnedOnce /\ SoldOnce
    OBVIOUS
  <2>1. ReturnedOnce /\ SoldOnce
    BY DEF SoloInv, ReturnedOnce, SoldOnce
  <2>2. Sound => cash + Remaining = Qty
    <3>1. doc \in Document /\ Qty \in Nat
      BY ExitAssumption DEF SoloInv, TypeOK
    <3> QED
      BY <3>1, DocumentParts DEF Sound, Level, Remaining
  <2> QED
    BY <2>1, <2>2 DEF SoloInv, MarginKept
<1> QED
  BY <1>1, SoloHolds, PTL

\* And none of them opens it again: who comes after the close finds it closed.
THEOREM InTurnClosesForGood == Spec /\ []OneByOne => ClosedForGood
<1>1. OneByOne /\ SoloInv /\ [Next]_vars /\ doc.status = "CLOSED" => doc'.status = "CLOSED"
  <2> SUFFICES ASSUME OneByOne, SoloInv, [Next]_vars, doc.status = "CLOSED"
               PROVE  doc'.status = "CLOSED"
    OBVIOUS
  <2>1. TypeOK /\ \A j \in Jobs : ~Looking(j) /\ pc[j] \notin {"claim", "credit", "leaveFill", "fill"}
    BY DEF SoloInv, Stage, Level, FillUnsaved
  <2>2. ASSUME NEW j \in Jobs, Monitor(j) \/ SquareOff(j) \/ Close(j) \/ Recover(j)
        PROVE  doc' = doc \/ CloseSettle(j)
    BY <2>1, <2>2
       DEF Monitor, SquareOff, Close, Recover, Looking, Ahead, Bound, MonitorRead, TickSkipped,
           TickQuiet, TickTriggers, AcquireLock, Register, ReleaseLock, Hold, SavePending,
           PlaceOrder, OrderRejected, SaveRefused, Credit, SaveFill, Undo, SquareOffFind, Claim,
           SquareOffRefund, CloseFind, CloseSave, RecoverFind, RecoverSave
  <2>3. ASSUME NEW j \in Jobs, CloseSettle(j) PROVE doc'.status = "CLOSED"
    <3>1. PICK q \in SUBSET {"status", "qty", "meta"} : Save([copy[j] EXCEPT !.filled = Qty], q)
      BY <2>1, <2>3 DEF CloseSettle, SaveCopy, SaveThrows, OneByOne, Intact, TypeOK
    <3>2. copy[j] \in Document /\ copy[j].status = "CLOSED"
      BY <2>1, <2>3 DEF CloseSettle, SoloInv, Stage, HalfClosed, TypeOK
    <3>3. [copy[j] EXCEPT !.filled = Qty] \in Document /\ [copy[j] EXCEPT !.filled = Qty].status = "CLOSED"
      <4>1. Qty \in 0 .. Qty
        BY ExitAssumption
      <4> QED
        BY <3>2, <4>1 DEF Document
    <3> QED
      BY <2>1, <3>1, <3>3, SaveWrites
  <2> QED
    BY <2>2, <2>3 DEF Next, LeaseExpires, RecordAges, Crash, vars
<1>2. OneByOne /\ (OneByOne => SoloInv) /\ [Next]_vars
      => [doc.status = "CLOSED" => doc'.status = "CLOSED"]_vars
  BY <1>1
<1> QED
  BY <1>2, SoloHolds, PTL DEF Spec, ClosedForGood

-----------------------------------------------------------------------------
(* Square-offs that overlap.                                                 *)

\* The square-offs of any number of servers and cycles, at any time.
Squaring == \A j \in Jobs : scene.kind[j] \in {"squareoff", "none"}

\* One of them has claimed the trade, and returns its margin or stops before.
SquareInv ==
    /\ doc \in Document /\ doc.qty = Qty
    /\ pc \in [Jobs -> Pcs]
    /\ \A j \in Jobs : pc[j] \in {"idle", "done", "claim", "refund"}
    /\ \A i, j \in Jobs : pc[i] = "refund" /\ pc[j] = "refund" => i = j
    /\ \A j \in Jobs : pc[j] = "refund" => doc.status = "CLOSED" /\ cash = 0
    /\ cash \in {0, Qty}
    /\ doc.status # "CLOSED" => cash = 0
    /\ Intact /\ doc.status = "CLOSED" /\ (\A j \in Jobs : pc[j] # "refund") => cash = Qty

LEMMA InitSquare == Init => SquareInv
<1> SUFFICES ASSUME Init PROVE SquareInv
  OBVIOUS
<1>1. Fresh \in Document
  BY ExitAssumption DEF Fresh, Document, OpenStatuses
<1> QED
  BY <1>1 DEF Init, SquareInv, Fresh, Pcs

\* The steps that square-offs take.
LEMMA SquareSteps ==
  ASSUME SquareInv, Squaring, [Next]_vars
  PROVE  \/ \E j \in Jobs : SquareOff(j)
         \/ UNCHANGED <<scene, doc, pc, cash>>
         \/ \E i \in Instances : Crash(i)
<1>1. ASSUME NEW j \in Jobs PROVE ~Monitor(j) /\ ~Close(j) /\ ~Recover(j)
  <2>1. /\ pc[j] \in {"idle", "done", "claim", "refund"}
        /\ scene.kind[j] \notin {"monitor", "close", "recover"}
    BY DEF SquareInv, Squaring
  <2> QED
    BY <2>1
       DEF Monitor, Close, Recover, MonitorRead, TickSkipped, TickQuiet, TickTriggers,
           AcquireLock, Register, ReleaseLock, Hold, SavePending, PlaceOrder, OrderRejected,
           SaveRefused, Credit, SaveFill, Undo, CloseFind, CloseSave, CloseSettle, RecoverFind,
           RecoverSave, Starts, After
<1> QED
  BY <1>1 DEF Next, LeaseExpires, RecordAges, vars

LEMMA NextSquare ==
  ASSUME SquareInv, Squaring, [Next]_vars
  PROVE  SquareInv'
<1>1. Qty \in Nat \ {0} /\ pc \in [Jobs -> Pcs] /\ UNCHANGED scene
  BY ExitAssumption, SceneKept DEF SquareInv
<1>2. ASSUME NEW j \in Jobs, SquareOffFind(j) PROVE SquareInv'
  <2>1. PICK l \in {"claim", "done"} : Go(j, l)
    BY <1>2 DEF SquareOffFind
  <2>2. pc[j] = "idle" /\ UNCHANGED <<doc, cash>>
    BY <1>2 DEF SquareOffFind, Starts
  <2>3. l \in Pcs
    BY LeaseLabels DEF Pcs
  <2>4. /\ pc' \in [Jobs -> Pcs] /\ pc'[j] = l
        /\ \A i \in Jobs : i # j => pc'[i] = pc[i]
    BY <1>1, <2>1, <2>3 DEF Go
  <2>5. \A i \in Jobs : pc'[i] = "refund" <=> pc[i] = "refund"
    BY <2>2, <2>4
  <2> QED
    BY <1>1, <2>2, <2>4, <2>5 DEF SquareInv, Intact
<1>3. ASSUME NEW j \in Jobs, Claim(j) PROVE SquareInv'
  <2>1. /\ pc[j] = "claim" /\ UNCHANGED cash
        /\ \/ Claimable(doc) /\ doc' = [doc EXCEPT !.status = "CLOSED"] /\ Go(j, "refund")
           \/ UNCHANGED doc /\ Go(j, "done")
    BY <1>3 DEF Claim
  <2>2. CASE Claimable(doc) /\ doc' = [doc EXCEPT !.status = "CLOSED"] /\ Go(j, "refund")
    <3>1. doc' \in Document /\ doc'.status = "CLOSED" /\ doc'.qty = Qty /\ doc.status # "CLOSED"
      BY <2>2 DEF Claimable, OpenStatuses, Document, SquareInv
    <3>2. /\ pc' \in [Jobs -> Pcs] /\ pc'[j] = "refund"
          /\ \A i \in Jobs : i # j => pc'[i] = pc[i]
      BY <1>1, <2>2 DEF Go, Pcs
    <3>3. cash' = 0 /\ \A i \in Jobs : pc[i] # "refund"
      BY <2>1, <3>1 DEF SquareInv
    <3> QED
      BY <1>1, <3>1, <3>2, <3>3 DEF SquareInv
  <2>3. CASE UNCHANGED doc /\ Go(j, "done")
    <3>1. /\ pc' \in [Jobs -> Pcs] /\ pc'[j] = "done"
          /\ \A i \in Jobs : i # j => pc'[i] = pc[i]
      BY <1>1, <2>3, LeaseLabels DEF Go
    <3>2. \A i \in Jobs : pc'[i] = "refund" <=> pc[i] = "refund"
      BY <2>1, <3>1
    <3> QED
      BY <1>1, <2>1, <2>3, <3>1, <3>2 DEF SquareInv, Intact
  <2> QED
    BY <2>1, <2>2, <2>3
<1>4. ASSUME NEW j \in Jobs, SquareOffRefund(j) PROVE SquareInv'
  <2>1. pc[j] = "refund" /\ cash' = cash + Qty /\ Go(j, "done") /\ UNCHANGED doc
    BY <1>4 DEF SquareOffRefund
  <2>2. cash' = Qty /\ doc.status = "CLOSED"
    BY <1>1, <2>1 DEF SquareInv
  <2>3. /\ pc' \in [Jobs -> Pcs] /\ pc'[j] = "done"
        /\ \A i \in Jobs : i # j => pc'[i] = pc[i]
    BY <1>1, <2>1, LeaseLabels DEF Go
  <2>4. \A i \in Jobs : pc'[i] # "refund"
    BY <2>1, <2>3 DEF SquareInv
  <2> QED
    BY <1>1, <2>1, <2>2, <2>3, <2>4 DEF SquareInv
<1>5. ASSUME NEW i \in Instances, Crash(i) PROVE SquareInv'
  <2>1. /\ pc' = [j \in Jobs |-> IF Busy(j) /\ Home[j] = i THEN "done" ELSE pc[j]]
        /\ UNCHANGED <<doc, cash>> /\ ~Intact
    BY <1>5 DEF Crash, Intact
  <2>2. pc' \in [Jobs -> Pcs] /\ \A j \in Jobs : pc'[j] \in {pc[j], "done"}
    BY <1>1, <2>1, LeaseLabels
  <2>3. ~Intact'
    BY <1>1, <2>1 DEF Intact
  <2> QED
    BY <1>1, <2>1, <2>2, <2>3 DEF SquareInv
<1>6. CASE UNCHANGED <<scene, doc, pc, cash>>
  BY <1>6 DEF SquareInv, Intact
<1> QED
  BY <1>2, <1>3, <1>4, <1>5, <1>6, SquareSteps DEF SquareOff

\* However many square-offs find the trade open at once, one claims it; the margin
\* comes back once and, unless a server stops in between, whole.
THEOREM SquareOffsReturnOnce == Spec => [](Squaring => ReturnedOnce /\ MarginKept)
<1>1. Init => (Squaring => SquareInv)
  BY InitSquare
<1>2. (Squaring => SquareInv) /\ [Next]_vars => (Squaring => SquareInv)'
  BY NextSquare, SceneKept DEF Squaring
<1>3. SquareInv => ReturnedOnce /\ MarginKept
  <2> SUFFICES ASSUME SquareInv PROVE ReturnedOnce /\ MarginKept
    OBVIOUS
  <2>1. Qty \in Nat /\ cash \in {0, Qty}
    BY ExitAssumption DEF SquareInv
  <2>2. ReturnedOnce
    BY <2>1 DEF ReturnedOnce
  <2>3. ASSUME AtRest, Intact PROVE cash + Remaining = Qty
    <3>1. \A j \in Jobs : pc[j] # "refund"
      BY <2>3 DEF AtRest, Busy
    <3> QED
      BY <2>1, <2>3, <3>1 DEF SquareInv, Remaining
  <2> QED
    BY <2>2, <2>3 DEF MarginKept
<1> QED
  BY <1>1, <1>2, <1>3, PTL DEF Spec

=============================================================================
