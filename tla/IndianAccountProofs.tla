------------------------ MODULE IndianAccountProofs ------------------------
(***************************************************************************)
(* Proofs about IndianEntries that follow a trade from its entry to its    *)
(* exit: what cools down for it, what it holds of the account's money, and *)
(* what it adds to the day's loss.                                         *)
(***************************************************************************)
EXTENDS IndianEntriesProofs, SumProofs

-----------------------------------------------------------------------------
(* The documents.  A call writes its own once, and is over then.             *)

Written == \A d \in Calls : d \in young \/ trade[d].status # "none" => pc[d] = "done"

\* A call that takes a step is not over.
LEMMA StepsFrom ==
  ASSUME TypeOK, NEW c \in Calls, Start(c) \/ Step(c)
  PROVE  pc[c] # "done"
BY DEF Start, Step, Starts, SettingsStart, AutoStart, DaemonTick, StrategyStart,
       OrderStart, MonitorStart, SquareStart, Halt, Resume, PanicStop, ResetLock, Load,
       Roll, Mock, Answer, DaemonCount, DaemonLimit, Propose, TurnedDown, Vet, Reserve, Place,
       Payable, Debit, Persist, Create, Credit, ExitRefused, Report, Close, Tally, Post, Relock,
       RelockFails, SwitchSaved, ForgetStreak

\* No step but its entry's writes which strategy a trade is of, or opens one.
LEMMA TradesKept ==
  ASSUME TypeOK, Paths, NEW c \in Calls, Start(c) \/ Step(c), ~Create(c)
  PROVE  /\ young' = young
         /\ \A d \in Calls : /\ trade'[d].strategy = trade[d].strategy
                             /\ trade'[d].status # "none" => trade[d].status # "none" \/ d = mem[c].doc
<1>1. young' = young
  BY DEF documents, Start, Step, SettingsStart, AutoStart, DaemonTick, StrategyStart,
       OrderStart, MonitorStart, SquareStart, Halt, Resume, PanicStop, ResetLock, Load,
       Roll, Mock, Answer, DaemonCount, DaemonLimit, Propose, TurnedDown, Vet, Reserve, Place,
       Payable, Debit, Persist, Credit, ExitRefused, Report, Close, Tally, Post, Relock,
       RelockFails, SwitchSaved, ForgetStreak
<1>2. CASE trade' = trade
  BY <1>1, <1>2
<1>3. CASE Realized(c)
  BY <1>1, <1>3 DEF Realized, TypeOK, Trade
<1>5. CASE trade' = Reopened(mem[c].doc)
  BY <1>1, <1>5 DEF Reopened, TypeOK, Trade
<1>4. CASE MonitorStart(c) \/ SquareStart(c)
  <2>1. PICK d \in Held, s \in {"EXITING", "CLOSED"} : trade' = [trade EXCEPT ![d].status = s]
    BY <1>4 DEF MonitorStart, SquareStart, Open, Held
  <2> QED
    BY <1>1, <2>1 DEF Held, TypeOK, Trade
<1> QED
  BY <1>2, <1>3, <1>4, <1>5
     DEF documents, Start, Step, SettingsStart, AutoStart, DaemonTick, StrategyStart,
       OrderStart, MonitorStart, SquareStart, Halt, Resume, PanicStop, ResetLock, Load,
       Roll, Mock, Answer, DaemonCount, DaemonLimit, Propose, TurnedDown, Vet, Reserve, Place,
       Payable, Debit, Persist, Credit, ExitRefused, Report, Close, Tally, Post, Relock,
       RelockFails, SwitchSaved, ForgetStreak

-----------------------------------------------------------------------------
(* Exits.  One that is under way has a trade in hand that nobody else has:   *)
(* EXITING under the monitor, CLOSED under the square-off, and nothing is    *)
(* realized of a trade until its exit reports.                               *)

Leaves(c) == scene.kind[c] \in Exits /\ Busy(c)

Unreported == {"credit", "persist", "report"}
ExitStops == Unreported \cup {"tally", "post", "relock", "close"}

\* The last step of an exit, reached or not.
Over(c) == Close(c) \/ ExitRefused(c) \/ RelockFails(c)

HandedOnce ==
    \A b, c \in Calls : Leaves(b) /\ Leaves(c) /\ mem[b].doc = mem[c].doc => b = c

InHand(c) ==
    /\ At(c, ExitStops) /\ mem[c].doc \in Calls
    /\ trade[mem[c].doc].status = IF scene.kind[c] = "monitor" THEN "EXITING" ELSE "CLOSED"
    /\ pc[c] \in Unreported => trade[mem[c].doc].pnl = 0
    /\ At(c, {"report"}) => scene.kind[c] = "square"

Unrealized == \A d \in Calls : trade[d].status # "CLOSED" => trade[d].pnl = 0

DocsInv ==
    /\ Written /\ HandedOnce /\ Unrealized
    /\ \A c \in Calls : IF Leaves(c) THEN InHand(c) ELSE mem[c].doc = NoCall

\* A call that is no exit writes no trade but its own, and takes none in hand.
LEMMA OtherSteps ==
  ASSUME TypeOK, Paths, NEW c \in Calls, Start(c) \/ Step(c), scene.kind[c] \notin Exits
  PROVE  /\ trade' = trade \/ Create(c)
         /\ mem[c].doc = NoCall => mem'[c].doc = NoCall
<1>1. trade' = trade \/ Create(c)
  BY DEF documents, Start, Step, Starts, SettingsStart, AutoStart, DaemonTick, StrategyStart,
       OrderStart, MonitorStart, SquareStart, Halt, Resume, PanicStop, ResetLock, Load,
       Roll, Mock, Answer, DaemonCount, DaemonLimit, Propose, TurnedDown, Vet, Reserve, Place,
       Payable, Debit, Persist, Credit, ExitRefused, Report, Close, Tally, Post, Relock,
       RelockFails, SwitchSaved, ForgetStreak, Exits, Paths, Placed, Leaving, At
<1>2. \A n \in Loaded, m \in Memory : Ask(c, n, m) => mem'[c].doc = m.doc
  <2> SUFFICES ASSUME NEW n \in Loaded, NEW m \in Memory, Ask(c, n, m)
               PROVE  mem'[c].doc = m.doc
    OBVIOUS
  <2>1. mem'[c] = [m EXCEPT !.next = n]
    BY AskTyped
  <2> QED
    BY <2>1 DEF Memory
<1>3. CASE \/ SettingsStart(c) \/ OrderStart(c) \/ Persist(c) \/ Report(c)
  <2>1. (\E n \in Loaded : Ask(c, n, mem[c])) \/ UNCHANGED mem
    BY <1>3 DEF SettingsStart, OrderStart, Persist, Report, Loaded
  <2> QED
    BY <1>1, <1>2, <2>1, MemoryTyped
<1>4. CASE StrategyStart(c) \/ Propose(c)
  <2>1. ASSUME NEW s \in scene.signals, Proposal(c, s)
        PROVE  mem'[c].doc = mem[c].doc
    BY <2>1, MemoryTyped DEF Proposal, Ask, Go, TypeOK, Memory
  <2> QED
    BY <1>1, <1>4, <2>1 DEF StrategyStart, Propose
<1>5. CASE DaemonCount(c)
  <2> DEFINE n == Cardinality(Open)
             m == [mem[c] EXCEPT !.count = n]
  <2>1. m \in Memory /\ m.doc = mem[c].doc
    <3>1. n \in Nat
      BY OpenCounted
    <3> HIDE DEF n
    <3> QED
      BY <3>1, MemoryTyped DEF Memory
  <2>2. Ask(c, "limit", m)
    BY <1>5 DEF DaemonCount
  <2> HIDE DEF m
  <2> QED
    BY <1>1, <1>2, <2>1, <2>2 DEF Loaded
<1>6. CASE \/ Answer(c) \/ TurnedDown(c) \/ DaemonLimit(c) \/ Close(c) \/ AutoStart(c)
           \/ Payable(c) \/ Create(c) \/ Place(c) \/ Reserve(c) \/ Debit(c) \/ Credit(c)
           \/ DaemonTick(c) \/ Halt(c) \/ Resume(c) \/ SwitchSaved(c) \/ ForgetStreak(c)
           \/ Roll(c) \/ Post(c) \/ Relock(c) \/ PanicStop(c) \/ ResetLock(c) \/ ExitRefused(c)
           \/ RelockFails(c)
  <2>1. Ends(c) \/ Refused(c) \/ UNCHANGED mem
    BY <1>6 DEF Answer, TurnedDown, DaemonLimit, Close, AutoStart, Enter, Payable, Create,
                Place, Reserve, Debit, Credit, ExitRefused, DaemonTick, Halt, Resume, SwitchSaved,
                ForgetStreak, Roll, Mock, Post, Relock, RelockFails, PanicStop, ResetLock
  <2> QED
    BY <1>1, <2>1, EndsTyped DEF NoMem
<1>7. CASE Vet(c) \/ Tally(c)
  <2>1. CASE Vet(c)
    <3>1. Ends(c) \/ \E b \in BOOLEAN : mem' = [mem EXCEPT ![c].clear = b]
      BY <2>1 DEF Vet, GuardsClear
    <3> QED
      BY <1>1, <3>1, EndsTyped, MemoryTyped DEF TypeOK, NoMem, Memory
  <2>2. CASE Tally(c)
    BY <1>1, <2>2, TallyKeeps DEF TypeOK
  <2> QED
    BY <1>7, <2>1, <2>2
<1>8. CASE Load(c) \/ Mock(c)
  BY <1>1, <1>8, LoadStep
<1>9. ~ (MonitorStart(c) \/ SquareStart(c))
  BY DEF MonitorStart, SquareStart, Starts, Exits
<1> QED
  BY <1>3, <1>4, <1>5, <1>6, <1>7, <1>8, <1>9 DEF Start, Step

\* What an exit under way may do next.
LEMMA ExitSteps ==
  ASSUME TypeOK, Paths, DocsInv, NEW c \in Calls, Step(c), scene.kind[c] \in Exits
  PROVE  /\ Leaves(c) /\ InHand(c)
         /\ \/ Load(c) \/ Roll(c) \/ Mock(c) \/ Credit(c) \/ Persist(c) \/ Report(c)
            \/ Tally(c) \/ Post(c) \/ Relock(c) \/ Over(c)
<1>1. pc[c] \notin {"idle", "done"}
  BY DEF Step, Load,
       Roll, Mock, Answer, DaemonCount, DaemonLimit, Propose, TurnedDown, Vet, Reserve, Place,
       Payable, Debit, Persist, Create, Credit, ExitRefused, Report, Close, Tally, Post, Relock,
       RelockFails, SwitchSaved, ForgetStreak
<1>2. Leaves(c) /\ InHand(c)
  BY <1>1 DEF Leaves, Busy, DocsInv
<1>3. pc[c] \in ExitStops \cup {"load", "roll"}
  BY <1>2 DEF InHand, At
<1> QED
  BY <1>2, <1>3 DEF Over, ExitStops, Unreported, Step, Load,
       Roll, Mock, Answer, DaemonCount, DaemonLimit, Propose, TurnedDown, Vet, Reserve, Place,
       Payable, Debit, Persist, Create, Credit, ExitRefused, Report, Close, Tally, Post, Relock,
       RelockFails, SwitchSaved, ForgetStreak

\* It keeps its trade in hand until it is over.
LEMMA ExitsKeepHand ==
  ASSUME TypeOK, Paths, DocsInv, NEW c \in Calls, Step(c), scene.kind[c] \in Exits
  PROVE  \/ Over(c) /\ pc'[c] = "done" /\ mem'[c] = NoMem
         \/ /\ ~Over(c) /\ At(c, ExitStops)' /\ pc'[c] \notin {"idle", "done"}
            /\ mem'[c].doc = mem[c].doc /\ mem'[c].pnl = mem[c].pnl
            /\ pc'[c] \in Unreported => pc[c] \in Unreported
            /\ At(c, {"report"})' => scene.kind[c] = "square" /\ scene' = scene
<1>1. /\ Leaves(c) /\ InHand(c)
      /\ \/ Load(c) \/ Roll(c) \/ Mock(c) \/ Credit(c) \/ Persist(c) \/ Report(c)
         \/ Tally(c) \/ Post(c) \/ Relock(c) \/ Over(c)
  BY ExitSteps
<1>2. mem[c] \in Memory /\ mem[c].next \in Loaded
  BY MemoryTyped
<1>3. CASE Over(c)
  BY <1>3, EndsTyped DEF Over, Close, ExitRefused, RelockFails
<1> SUFFICES ASSUME ~Over(c)
             PROVE  /\ At(c, ExitStops)' /\ pc'[c] \notin {"idle", "done"}
                    /\ mem'[c].doc = mem[c].doc /\ mem'[c].pnl = mem[c].pnl
                    /\ pc'[c] \in Unreported => pc[c] \in Unreported
                    /\ At(c, {"report"})' => scene.kind[c] = "square" /\ scene' = scene
  BY <1>3
<1>4. CASE Load(c) \/ Roll(c) \/ Mock(c)
  <2>1. mem[c].next \in ExitStops /\ pc[c] \in {"load", "roll"}
    BY <1>1, <1>4 DEF InHand, At, ExitStops, Unreported, Load, Roll, Mock
  <2>2. /\ pc'[c] \in {"roll", mem[c].next}
        /\ mem'[c].doc = mem[c].doc /\ mem'[c].next = mem[c].next /\ mem'[c].pnl = mem[c].pnl
    <3>1. CASE Load(c)
      <4>1. mem' = [mem EXCEPT ![c] = [mem[c] EXCEPT !.lock = LockToday, !.unlock = LockPast,
                                                     !.panic = settings.panic]]
        BY <1>2, <3>1 DEF Load, TypeOK
      <4>2. mem'[c].pnl = mem[c].pnl
        BY <1>2, <4>1 DEF TypeOK, Memory
      <4> QED
        BY <3>1, <4>2, LoadStep
    <3>2. CASE Roll(c)
      BY <3>2 DEF Roll, Go, TypeOK
    <3>3. CASE Mock(c)
      <4>1. mem'[c].pnl = mem[c].pnl
        BY <1>2, <3>3 DEF Mock, TypeOK, Memory
      <4> QED
        BY <3>3, <4>1, LoadStep
    <3> QED
      BY <1>4, <3>1, <3>2, <3>3
  <2>3. At(c, {"report"})' => At(c, {"report"})
    BY <2>1, <2>2 DEF At
  <2> QED
    BY <1>1, <1>2, <1>4, <2>1, <2>2, <2>3
       DEF At, ExitStops, Unreported, Loaded, Load, Roll, Mock, InHand
<1>5. CASE Credit(c) \/ Post(c) \/ Relock(c)
  <2>1. /\ UNCHANGED mem
        /\ pc'[c] \in {"persist", "relock", "close"}
        /\ pc'[c] \in Unreported => pc[c] = "credit"
    BY <1>5 DEF Credit, Post, Relock, Outcome, Go, TypeOK, Unreported
  <2> QED
    BY <2>1 DEF At, ExitStops, Unreported
<1>6. CASE Persist(c) \/ Report(c)
  <2>1. (Go(c, "report") /\ UNCHANGED mem) \/ Ask(c, "tally", mem[c])
    BY <1>1, <1>6 DEF Persist, Report, Leaves, Exits
  <2>2. pc[c] \in {"persist", "report"}
    BY <1>6 DEF Persist, Report
  <2>3. CASE Go(c, "report") /\ UNCHANGED mem
    <3>1. scene.kind[c] = "square" /\ scene' = scene
      BY <1>1, <1>6, <2>3 DEF Persist, Report, Leaves, Exits, Ask, Go, TypeOK
    <3> QED
      BY <2>2, <2>3, <3>1 DEF Go, TypeOK, At, ExitStops, Unreported
  <2>4. CASE Ask(c, "tally", mem[c])
    BY <1>2, <2>2, <2>4 DEF Ask, Go, TypeOK, Memory, At, ExitStops, Unreported
  <2> QED
    BY <2>1, <2>3, <2>4
<1>7. CASE Tally(c)
  <2>1. /\ pc'[c] \in {"post", "relock", "close"}
        /\ mem'[c].doc = mem[c].doc /\ mem'[c].pnl = mem[c].pnl
    BY <1>2, <1>7, TallyKeeps DEF Tally, Outcome, Go, TypeOK
  <2> QED
    BY <1>7, <2>1 DEF At, ExitStops, Unreported, Tally
<1> QED
  BY <1>1, <1>3, <1>4, <1>5, <1>6, <1>7

\* Documents and pc of the calls that are over: a step of one that is not.
LEMMA OthersInHand ==
  ASSUME TypeOK, Paths, DocsInv, NEW c \in Calls, Alone(c), scene' = scene,
         \A d \in Calls : (\E b \in Calls : b # c /\ mem[b].doc = d) => trade'[d] = trade[d],
         NEW b \in Calls, b # c
  PROVE  /\ Leaves(b)' <=> Leaves(b)
         /\ mem'[b].doc = mem[b].doc
         /\ IF Leaves(b)' THEN InHand(b)' ELSE mem'[b].doc = NoCall
<1>1. pc'[b] = pc[b] /\ mem'[b] = mem[b]
  BY DEF Alone
<1>2. Leaves(b)' <=> Leaves(b)
  BY <1>1 DEF Leaves, Busy
<1>3. CASE Leaves(b)
  <2>1. InHand(b)
    BY <1>3 DEF DocsInv
  <2>2. mem[b].doc \in Calls /\ trade'[mem[b].doc] = trade[mem[b].doc]
    BY <2>1 DEF InHand
  <2> QED
    BY <1>1, <1>2, <1>3, <2>1, <2>2 DEF InHand, At
<1>4. CASE ~Leaves(b)
  BY <1>1, <1>2, <1>4 DEF DocsInv
<1> QED
  BY <1>1, <1>2, <1>3, <1>4

\* A trade is written for the first time.
LEMMA CreateDocs ==
  ASSUME TypeOK, Paths, DocsInv, NEW c \in Calls, Create(c), scene.kind[c] \notin Exits,
         scene' = scene
  PROVE  DocsInv'
<1>1. /\ pc[c] = "create" /\ pc'[c] = "done" /\ mem'[c] = NoMem /\ Alone(c)
  BY EndsTyped DEF Create, Alone
<1>2. trade[c].status = "none" /\ c \notin young
  BY <1>1 DEF DocsInv, Written
<1>3. /\ \A d \in Calls : d # c => trade'[d] = trade[d]
      /\ trade'[c].status # "CLOSED" => trade'[c].pnl = 0
      /\ young' \subseteq young \cup {c}
  BY <1>2 DEF Create, TypeOK, DocsInv, Unrealized
<1>4. ASSUME NEW d \in Calls, NEW b \in Calls, b # c, mem[b].doc = d
      PROVE  trade'[d] = trade[d]
  <2>1. Leaves(b) /\ InHand(b)
    BY <1>4, EntriesAssumption DEF DocsInv
  <2>2. d # c
    BY <1>2, <1>4, <2>1 DEF InHand
  <2> QED
    BY <1>3, <2>2
<1>5. ~Leaves(c)' /\ mem'[c].doc = NoCall
  BY <1>1 DEF Leaves, Busy, NoMem
<1>6. \A b \in Calls : b # c => /\ Leaves(b)' <=> Leaves(b)
                                /\ mem'[b].doc = mem[b].doc
                                /\ IF Leaves(b)' THEN InHand(b)' ELSE mem'[b].doc = NoCall
  BY <1>1, <1>4, OthersInHand
<1>7. HandedOnce'
  BY <1>5, <1>6 DEF DocsInv, HandedOnce
<1>8. Written' /\ Unrealized'
  BY <1>1, <1>3 DEF DocsInv, Written, Unrealized, Alone
<1> QED
  BY <1>5, <1>6, <1>7, <1>8 DEF DocsInv

\* A trade is taken in hand that nobody else has.
LEMMA TakeDocs ==
  ASSUME TypeOK, Paths, DocsInv, NEW c \in Calls, MonitorStart(c) \/ SquareStart(c)
  PROVE  DocsInv'
<1>1. PICK d \in Held, pnl \in Outcomes :
         /\ Free(d) /\ Takes(c, d, pnl)
         /\ trade' = [trade EXCEPT ![d].status = IF scene.kind[c] = "monitor" THEN "EXITING"
                                                                              ELSE "CLOSED"]
  BY DEF MonitorStart, SquareStart, Starts, Open, Held
<1>2. /\ scene' = scene /\ young' = young /\ scene.kind[c] \in Exits /\ pc[c] = "idle"
      /\ pc'[c] = "credit"
  BY DEF MonitorStart, SquareStart, Starts, Exits, Go, TypeOK
<1>3. Alone(c)
  BY StepAlone DEF Start
<1>4. d \in Calls /\ trade[d].status \in {"OPEN", "EXITING"} /\ trade[d].pnl = 0
  BY <1>1 DEF Held, DocsInv, Unrealized
<1>5. mem'[c].doc = d
  BY <1>1, <1>4, MemoryTyped DEF Takes, TypeOK, Memory
<1>6. /\ \A e \in Calls : e # d => trade'[e] = trade[e]
      /\ trade'[d].pnl = 0
      /\ trade'[d].status = IF scene.kind[c] = "monitor" THEN "EXITING" ELSE "CLOSED"
  BY <1>1, <1>4 DEF TypeOK, Trade
<1>7. \A b \in Calls : b # c => /\ Leaves(b)' <=> Leaves(b)
                                /\ mem'[b].doc = mem[b].doc
                                /\ IF Leaves(b)' THEN InHand(b)' ELSE mem'[b].doc = NoCall
  BY <1>1, <1>2, <1>3, <1>6, OthersInHand DEF Free
<1>8. Leaves(c)' /\ InHand(c)'
  BY <1>2, <1>4, <1>5, <1>6 DEF Leaves, Busy, InHand, At, ExitStops, Unreported
<1>9. HandedOnce'
  BY <1>1, <1>5, <1>7 DEF DocsInv, HandedOnce, Free
<1>10. Written'
  BY <1>2, <1>3, <1>4, <1>6 DEF DocsInv, Written, Alone
<1>11. Unrealized'
  BY <1>6 DEF DocsInv, Unrealized
<1> QED
  BY <1>7, <1>8, <1>9, <1>10, <1>11 DEF DocsInv

\* An exit under way writes the trade it has in hand.
LEMMA ExitDocs ==
  ASSUME TypeOK, Paths, DocsInv, NEW c \in Calls, Step(c), scene.kind[c] \in Exits
  PROVE  DocsInv'
<1>1. /\ Leaves(c) /\ InHand(c)
      /\ \/ Load(c) \/ Roll(c) \/ Mock(c) \/ Credit(c) \/ Persist(c) \/ Report(c)
         \/ Tally(c) \/ Post(c) \/ Relock(c) \/ Over(c)
  BY ExitSteps
<1> DEFINE d == mem[c].doc
<1>2. d \in Calls /\ (scene.kind[c] = "square" => trade[d].status = "CLOSED")
  BY <1>1 DEF InHand
<1>3. /\ scene' = scene /\ young' = young /\ Alone(c) /\ pc[c] # "done"
      /\ \/ trade' = trade \/ Realized(c)
         \/ Over(c) /\ scene.kind[c] = "monitor" /\ trade' = Reopened(d)
  BY <1>1, StepAlone, StepsFrom
     DEF Over, Load, Roll, Mock, Credit, ExitRefused, Persist, Report, Tally, Post, Relock,
         RelockFails, Close, documents
<1>4. /\ \A e \in Calls : e # d => trade'[e] = trade[e]
      /\ \/ trade' = trade \/ (trade'[d].status = "CLOSED" /\ Realized(c))
         \/ Over(c) /\ trade'[d].status = "OPEN" /\ trade'[d].pnl = 0
  <2>1. scene.kind[c] = "monitor" => trade[d].status # "CLOSED" /\ trade[d].pnl = 0
    BY <1>1, <1>2 DEF InHand, DocsInv, Unrealized
  <2>2. CASE Realized(c)
    BY <1>2, <2>2 DEF Realized, TypeOK, Trade
  <2>3. CASE Over(c) /\ scene.kind[c] = "monitor" /\ trade' = Reopened(d)
    BY <1>2, <2>1, <2>3 DEF Reopened, TypeOK, Trade
  <2>4. CASE trade' = trade
    BY <2>4
  <2> QED
    BY <1>3, <2>2, <2>3, <2>4
<1>5. \A b \in Calls : b # c => mem[b].doc # d
  BY <1>1, <1>2, EntriesAssumption DEF DocsInv, HandedOnce
<1>6. \A b \in Calls : b # c => /\ Leaves(b)' <=> Leaves(b)
                                /\ mem'[b].doc = mem[b].doc
                                /\ IF Leaves(b)' THEN InHand(b)' ELSE mem'[b].doc = NoCall
  BY <1>3, <1>4, <1>5, OthersInHand
<1>7. Written'
  BY <1>1, <1>2, <1>3, <1>4 DEF DocsInv, Written, Alone, InHand
<1>8. Unrealized'
  BY <1>4 DEF DocsInv, Unrealized
<1>9. CASE Over(c)
  <2>1. pc'[c] = "done" /\ mem'[c] = NoMem
    BY <1>9, EndsTyped DEF Over, Close, ExitRefused, RelockFails
  <2>2. ~Leaves(c)' /\ mem'[c].doc = NoCall
    BY <2>1 DEF Leaves, Busy, NoMem
  <2>3. HandedOnce'
    BY <1>6, <2>2 DEF DocsInv, HandedOnce
  <2> QED
    BY <1>6, <1>7, <1>8, <2>2, <2>3 DEF DocsInv
<1>10. CASE ~Over(c)
  <2>1. /\ At(c, ExitStops)' /\ pc'[c] \notin {"idle", "done"}
        /\ mem'[c].doc = d
        /\ pc'[c] \in Unreported => pc[c] \in Unreported
        /\ At(c, {"report"})' => scene.kind[c] = "square"
    BY <1>10, ExitsKeepHand
  <2>2. Leaves(c)'
    BY <1>1, <1>3, <2>1 DEF Leaves, Busy
  <2>3. Report(c) => scene.kind[c] = "square"
    BY <1>1 DEF Report, InHand, At
  <2>4. pc'[c] \in Unreported => trade' = trade
    <3>1. Report(c) => pc'[c] = "load"
      BY DEF Report, Ask, Go, TypeOK
    <3> QED
      BY <1>1, <1>10, <3>1
         DEF Load, Roll, Mock, Credit, Persist, Tally, Post, Relock, documents, Unreported
  <2>5. trade' = trade \/ Report(c)
    BY <1>1, <1>10 DEF Load, Roll, Mock, Credit, Persist, Tally, Post, Relock, documents
  <2>7. InHand(c)'
    BY <1>1, <1>2, <1>3, <1>4, <1>10, <2>1, <2>3, <2>4, <2>5 DEF InHand
  <2>8. HandedOnce'
    BY <1>5, <1>6, <2>1 DEF DocsInv, HandedOnce
  <2> QED
    BY <1>6, <1>7, <1>8, <2>2, <2>7, <2>8 DEF DocsInv
<1> QED
  BY <1>9, <1>10

\* While no call is under way, and in a restart, nothing is in hand.
LEMMA RestDocs ==
  ASSUME TypeOK, Paths, DocsInv,
         (\E s \in Strategies : CooldownOver(s)) \/ LossesOver \/ NewDay \/ Restart
  PROVE  DocsInv'
<1>1. /\ scene' = scene
      /\ \A b \in Calls : pc'[b] \in {"idle", "done"} /\ (pc[b] = "done" => pc'[b] = "done")
  <2>1. CASE Restart
    BY <2>1 DEF Restart, Busy, TypeOK
  <2>2. CASE AtRest /\ UNCHANGED <<scene, pc>>
    BY <2>2 DEF AtRest, Busy
  <2> QED
    BY <2>1, <2>2 DEF CooldownOver, LossesOver, NewDay
<1>2. \A b \in Calls : ~Leaves(b)' /\ mem'[b].doc = NoCall
  <2>1. CASE Restart
    BY <1>1, <2>1 DEF Restart, Leaves, Busy, NoMem
  <2>2. CASE AtRest /\ mem' = mem
    BY <1>1, <2>2 DEF AtRest, Leaves, Busy, DocsInv
  <2> QED
    BY <2>1, <2>2 DEF CooldownOver, LossesOver, NewDay
<1>3. /\ \A d \in Calls : /\ trade'[d].status = trade[d].status
                          /\ trade'[d].pnl = trade[d].pnl \/ trade'[d].pnl = 0
      /\ young' \subseteq young
  <2>1. CASE UNCHANGED trade
    BY <2>1 DEF CooldownOver, LossesOver, NewDay, Restart, documents
  <2>2. CASE NewDay
    BY <2>2 DEF NewDay, TypeOK, Trade
  <2> QED
    BY <2>1, <2>2 DEF CooldownOver, LossesOver, Restart, documents
<1>4. Written' /\ Unrealized' /\ HandedOnce'
  BY <1>1, <1>2, <1>3 DEF DocsInv, Written, Unrealized, HandedOnce
<1> QED
  BY <1>2, <1>4 DEF DocsInv

\* A trade that is recovered is in nobody's hand.
LEMMA RecoveringDocs ==
  ASSUME TypeOK, Paths, DocsInv, Recovering \/ Booting
  PROVE  DocsInv'
<1>1. UNCHANGED <<scene, young, pc, mem>>
  BY DEF Recovering, Recovered, Booting, Connect, SwitchRestored, Hydrated, documents
<1>2. CASE trade' = trade
  BY <1>1, <1>2 DEF DocsInv, Written, HandedOnce, Unrealized, Leaves, Busy, InHand, At
<1>3. ASSUME NEW d \in Calls, Recovered(d)
      PROVE  DocsInv'
  <2>1. /\ \A e \in Calls : e # d => trade'[e] = trade[e]
        /\ trade'[d].status = "OPEN" /\ trade'[d].pnl = 0
        /\ trade[d].status # "none"
    BY <1>3 DEF Recovered, Reopened, TypeOK, Trade, DocsInv, Unrealized
  <2>2. \A b \in Calls : mem[b].doc # d
    BY <1>3 DEF Recovered, Free
  <2>3. Written' /\ HandedOnce' /\ Unrealized'
    BY <1>1, <2>1 DEF DocsInv, Written, HandedOnce, Unrealized, Leaves, Busy
  <2>4. ASSUME NEW b \in Calls PROVE IF Leaves(b)' THEN InHand(b)' ELSE mem'[b].doc = NoCall
    <3>1. Leaves(b)' <=> Leaves(b)
      BY <1>1 DEF Leaves, Busy
    <3>2. InHand(b) => InHand(b)'
      BY <1>1, <2>1, <2>2 DEF InHand, At
    <3> QED
      BY <1>1, <3>1, <3>2 DEF DocsInv
  <2> QED
    BY <2>3, <2>4 DEF DocsInv
<1> QED
  BY <1>2, <1>3
     DEF Recovering, Booting, Connect, SwitchRestored, Hydrated, documents

LEMMA NextDocs ==
  ASSUME TypeOK, Paths, DocsInv, [Next]_vars
  PROVE  DocsInv'
<1>0. scene' = scene
  BY NextScene
<1>1. CASE UNCHANGED vars
  BY <1>1 DEF vars, documents, DocsInv, Written, HandedOnce, Unrealized, Leaves, Busy,
              InHand, At
<1>2. ASSUME NEW c \in Calls, Start(c) \/ Step(c), scene.kind[c] \notin Exits, ~Create(c)
      PROVE  DocsInv'
  <2>1. trade' = trade /\ young' = young /\ Alone(c) /\ pc[c] # "done"
    BY <1>2, OtherSteps, TradesKept, StepAlone, StepsFrom
  <2>2. \A b \in Calls : b # c => /\ Leaves(b)' <=> Leaves(b)
                                  /\ mem'[b].doc = mem[b].doc
                                  /\ IF Leaves(b)' THEN InHand(b)' ELSE mem'[b].doc = NoCall
    BY <1>0, <2>1, OthersInHand
  <2>3. ~Leaves(c)' /\ mem'[c].doc = NoCall
    BY <1>0, <1>2, OtherSteps DEF Leaves, DocsInv
  <2>4. HandedOnce'
    BY <2>2, <2>3 DEF DocsInv, HandedOnce
  <2>5. Written' /\ Unrealized'
    BY <2>1 DEF DocsInv, Written, Unrealized, Alone
  <2> QED
    BY <2>2, <2>3, <2>4, <2>5 DEF DocsInv
<1>3. ASSUME NEW c \in Calls, Create(c), scene.kind[c] \notin Exits
      PROVE  DocsInv'
  BY <1>0, <1>3, CreateDocs
<1>4. ASSUME NEW c \in Calls, Start(c), scene.kind[c] \in Exits
      PROVE  DocsInv'
  <2>1. MonitorStart(c) \/ SquareStart(c)
    BY <1>4 DEF Start, Starts, Exits, Entries, Automatic, Switching, SettingsStart, AutoStart,
                DaemonTick, StrategyStart, OrderStart, Halt, Resume, PanicStop, ResetLock
  <2> QED
    BY <2>1, TakeDocs
<1>5. ASSUME NEW c \in Calls, Step(c), scene.kind[c] \in Exits
      PROVE  DocsInv'
  BY <1>5, ExitDocs
<1>6. CASE (\E s \in Strategies : CooldownOver(s)) \/ LossesOver \/ NewDay \/ Restart
  BY <1>6, RestDocs
<1>7. CASE Recovering \/ Booting
  BY <1>7, RecoveringDocs
<1> QED
  BY <1>1, <1>2, <1>3, <1>4, <1>5, <1>6, <1>7 DEF Next, Recovering, Booting

LEMMA DocsAlways == Spec => []DocsInv
<1>1. Init => DocsInv
  BY DEF Init, DocsInv, Written, HandedOnce, Unrealized, Leaves, Busy, NoTrade, NoMem
<1>2. TypeOK /\ Paths /\ DocsInv /\ [Next]_vars => DocsInv'
  BY NextDocs
<1> QED
  BY <1>1, <1>2, TypedInv, PTL DEF Spec

-----------------------------------------------------------------------------
(* Cooldowns.                                                                *)
(*                                                                           *)
(* While entries alone run, and all can pay, a strategy cools down for a     *)
(* trade that was opened or for the entry that is about to open one.         *)

Solvent == \A s \in Strategies : cash >= Cost[s]

Steady ==
    ~Has(Exits) /\ ~Fault("create") /\ ~Fault("positional") /\ ~Fault("crash")

Recent == {trade[d].strategy : d \in young} \ {ScannerStrategy}

OnHold == {mem[c].strategy : c \in {b \in Calls : Holding(b)}}

CoolInv ==
    /\ cooling = Recent \cup OnHold
    /\ HeldOnce
    /\ \A c \in Calls : Holding(c) => mem[c].strategy \notin Recent

\* Steps after which the same calls hold the same strategies.
LEMMA SameHeld ==
  ASSUME TypeOK, CoolInv, NEW c \in Calls, Alone(c), scene' = scene, cooling' = cooling,
         Recent' = Recent, Holding(c)' <=> Holding(c),
         Holding(c) => mem'[c].strategy = mem[c].strategy
  PROVE  CoolInv'
<1>1. \A b \in Calls : /\ Holding(b)' <=> Holding(b)
                       /\ Holding(b) => mem'[b].strategy = mem[b].strategy
  BY DEF Holding, Alone
<1>2. OnHold' = OnHold
  BY <1>1 DEF OnHold
<1> QED
  BY <1>1, <1>2 DEF CoolInv, HeldOnce

\* A strategy that is not cooling is held from now on.
LEMMA ReserveCools ==
  ASSUME TypeOK, Paths, CoolInv, Steady, NEW c \in Calls, Reserve(c)
  PROVE  CoolInv'
<1>1. UNCHANGED <<scene, trade, young>> /\ pc[c] = "reserve" /\ Alone(c) /\ ~Holding(c)
  BY StepAlone DEF Reserve, documents, Step, Holding
<1>2. Recent' = Recent
  BY <1>1 DEF Recent
<1>3. CASE Ends(c) /\ UNCHANGED cooling
  <2>1. ~Holding(c)'
    BY <1>3, EndsTyped DEF Holding
  <2> QED
    BY <1>1, <1>2, <1>3, <2>1, SameHeld
<1>4. CASE /\ mem[c].strategy \notin cooling
           /\ cooling' = cooling \cup {mem[c].strategy}
           /\ Go(c, IF scene.kind[c] = "strategy" THEN "debit" ELSE "place")
           /\ UNCHANGED mem
  <2>1. scene.kind[c] \in Guarded
    BY <1>1 DEF Guarded, Paths, Placed, Vetted, At
  <2>2. Holding(c)'
    BY <1>1, <1>4, <2>1 DEF Holding, Go, TypeOK
  <2>3. \A b \in Calls : b # c => (Holding(b)' <=> Holding(b))
    BY <1>1 DEF Holding, Alone
  <2>4. OnHold' = OnHold \cup {mem[c].strategy}
    BY <1>1, <1>4, <2>2, <2>3 DEF OnHold
  <2>5. \A b \in Calls : Holding(b) => mem[b].strategy # mem[c].strategy
    BY <1>4 DEF CoolInv, OnHold
  <2>6. HeldOnce'
    BY <1>1, <1>4, <2>2, <2>3, <2>5 DEF CoolInv, HeldOnce
  <2> QED
    BY <1>1, <1>2, <1>4, <2>3, <2>4, <2>6 DEF CoolInv
<1> QED
  BY <1>3, <1>4 DEF Reserve, Steady

\* A reservation that is given back is no other entry's, and no recent trade's.
LEMMA PlaceCools ==
  ASSUME TypeOK, Paths, CoolInv, NEW c \in Calls, Place(c)
  PROVE  CoolInv'
<1>1. UNCHANGED <<scene, trade, young>> /\ pc[c] = "place" /\ Alone(c)
  BY StepAlone DEF Place, documents, Step
<1>2. Holding(c) /\ Recent' = Recent
  BY <1>1 DEF Recent, Holding, Guarded, Paths, Placed, Vetted, At
<1>3. CASE Ends(c) /\ cooling' = Released(c)
  <2>1. ~Holding(c)'
    BY <1>3, EndsTyped DEF Holding
  <2>2. \A b \in Calls : b # c => (Holding(b)' <=> Holding(b)) /\ mem'[b] = mem[b]
    BY <1>1 DEF Holding, Alone
  <2>3. OnHold' = OnHold \ {mem[c].strategy}
    BY <1>2, <2>1, <2>2 DEF OnHold, CoolInv, HeldOnce
  <2>4. mem[c].strategy \notin Recent
    BY <1>2 DEF CoolInv
  <2> QED
    BY <1>2, <1>3, <2>1, <2>2, <2>3, <2>4 DEF CoolInv, HeldOnce, Released
<1>4. CASE Go(c, "debit") /\ UNCHANGED <<cooling, mem>>
  <2>1. Holding(c)'
    BY <1>1, <1>2, <1>4 DEF Holding, Go, TypeOK
  <2> QED
    BY <1>1, <1>2, <1>4, <2>1, SameHeld
<1> QED
  BY <1>3, <1>4 DEF Place

\* A trade opens: what was held is recent now.
LEMMA CreateCools ==
  ASSUME TypeOK, Paths, Up, DocsInv, CoolInv, Steady, NEW c \in Calls, Create(c)
  PROVE  CoolInv'
<1>1. /\ UNCHANGED <<scene, cooling>> /\ pc[c] = "create" /\ pc'[c] = "done" /\ Alone(c)
      /\ young' = young \cup {c}
      /\ trade' = [trade EXCEPT ![c] = [status |-> "OPEN", strategy |-> mem[c].strategy,
                                        way |-> mem[c].way, pnl |-> 0, again |-> FALSE]]
  BY EndsTyped DEF Create, Alone, Steady, Up, Connected
<1>2. c \notin young /\ young \subseteq Calls
  BY <1>1 DEF DocsInv, Written, TypeOK
<1>3. Recent' = Recent \cup ({mem[c].strategy} \ {ScannerStrategy})
  <2>1. trade'[c].strategy = mem[c].strategy
    BY <1>1 DEF TypeOK
  <2>2. \A d \in young : trade'[d] = trade[d]
    BY <1>1, <1>2 DEF TypeOK
  <2> QED
    BY <1>1, <2>1, <2>2 DEF Recent
<1>4. ~Holding(c)'
  BY <1>1 DEF Holding
<1>5. \A b \in Calls : b # c => (Holding(b)' <=> Holding(b)) /\ mem'[b] = mem[b]
  BY <1>1 DEF Holding, Alone
<1>6. HeldOnce'
  BY <1>4, <1>5 DEF CoolInv, HeldOnce
<1>7. CASE Holding(c)
  <2>1. mem[c].strategy # ScannerStrategy
    BY <1>1, <1>7, EntriesAssumption DEF Holding, Guarded, Paths, Placed, Granted, At
  <2>2. OnHold' = OnHold \ {mem[c].strategy}
    BY <1>4, <1>5, <1>7 DEF OnHold, CoolInv, HeldOnce
  <2>3. mem[c].strategy \in OnHold
    BY <1>7 DEF OnHold
  <2>4. cooling' = Recent' \cup OnHold'
    BY <1>1, <1>3, <2>1, <2>2, <2>3 DEF CoolInv
  <2>5. \A b \in Calls : Holding(b)' => mem'[b].strategy \notin Recent'
    BY <1>3, <1>4, <1>5, <1>7 DEF CoolInv, HeldOnce
  <2> QED
    BY <1>6, <2>4, <2>5 DEF CoolInv
<1>8. CASE ~Holding(c)
  <2>1. mem[c].strategy = ScannerStrategy
    BY <1>1, <1>8 DEF Holding, Guarded, Entries, Paths, Placed, Ordered, Paying, At
  <2>2. OnHold' = OnHold /\ Recent' = Recent
    BY <1>3, <1>4, <1>5, <1>8, <2>1 DEF OnHold
  <2>3. \A b \in Calls : Holding(b)' => mem'[b].strategy \notin Recent'
    BY <1>4, <1>5, <2>2 DEF CoolInv
  <2> QED
    BY <1>1, <1>6, <2>2, <2>3 DEF CoolInv
<1> QED
  BY <1>7, <1>8

\* A debit that finds the money, and its snapshot, leave the strategy held.
LEMMA PayCools ==
  ASSUME TypeOK, Paths, CoolInv, Solvent, NEW c \in Calls, Debit(c) \/ Persist(c)
  PROVE  CoolInv'
<1>1. UNCHANGED <<scene, trade, young, cooling>> /\ Alone(c) /\ pc[c] \in {"debit", "persist"}
  BY StepAlone DEF Debit, Persist, documents, Step
<1>2. Recent' = Recent
  BY <1>1 DEF Recent
<1>3. CASE scene.kind[c] \notin Guarded
  BY <1>1, <1>2, <1>3, SameHeld DEF Holding
<1>4. CASE scene.kind[c] \in Guarded
  <2>1. mem[c].strategy \in Strategies
    BY <1>1, <1>4 DEF Guarded, Paths, Placed, Granted, At
  <2>2. Covers(Cost[mem[c].strategy])
    BY <2>1 DEF Solvent, Covers
  <2>3. UNCHANGED mem /\ (Go(c, "persist") \/ Go(c, "create"))
    BY <1>4, <2>2 DEF Debit, Persist, Guarded, Automatic
  <2>4. Holding(c) /\ Holding(c)'
    BY <1>1, <1>4, <2>3 DEF Holding, Go, TypeOK
  <2> QED
    BY <1>1, <1>2, <2>3, <2>4, SameHeld
<1> QED
  BY <1>3, <1>4

\* Any other step neither begins to hold nor ends it.
LEMMA QuietCools ==
  ASSUME TypeOK, Paths, CoolInv, NEW c \in Calls, Start(c) \/ Step(c),
         ~Reserve(c), ~Place(c), ~Create(c), ~Debit(c), ~Persist(c)
  PROVE  CoolInv'
<1>1. CASE Vet(c)
  <2>1. UNCHANGED <<scene, trade, young, cooling>> /\ Alone(c) /\ ~Holding(c)
    BY <1>1, StepAlone DEF Vet, documents, Step, Holding
  <2>2. ~Holding(c)'
    BY <1>1, EndsTyped DEF Vet, Holding, Go, TypeOK
  <2>3. Recent' = Recent
    BY <2>1 DEF Recent
  <2> QED
    BY <2>1, <2>2, <2>3, SameHeld
<1>2. CASE ~Vet(c)
  <2>1. Quiet(c)
    BY <1>2, FirstStepsQuiet, LaterStepsQuiet DEF Step
  <2>2. pc[c] \notin {"place", "debit", "persist", "create"}
    BY DEF Start, Step, Starts, SettingsStart, AutoStart, DaemonTick, StrategyStart,
       OrderStart, MonitorStart, SquareStart, Halt, Resume, PanicStop, ResetLock, Load,
       Roll, Mock, Answer, DaemonCount, DaemonLimit, Propose, TurnedDown, Vet, Payable, Credit,
       ExitRefused,
       Report, Close, Tally, Post, Relock, RelockFails, SwitchSaved, ForgetStreak
  <2>3. ~Holding(c) /\ ~Holding(c)'
    BY <2>1, <2>2 DEF Quiet, Holding
  <2>4. Recent' = Recent
    BY TradesKept DEF Recent, TypeOK
  <2> QED
    BY <2>1, <2>3, <2>4, SameHeld DEF Quiet, Undisturbed
<1> QED
  BY <1>1, <1>2

\* The clock, while nothing is held.
LEMMA ClockCools ==
  ASSUME TypeOK, CoolInv, (\E s \in Strategies : CooldownOver(s)) \/ LossesOver \/ NewDay
  PROVE  CoolInv'
<1>1. AtRest /\ UNCHANGED <<scene, pc>>
  BY DEF CooldownOver, LossesOver, NewDay
<1>2. \A b \in Calls : ~Holding(b) /\ ~Holding(b)'
  BY <1>1 DEF AtRest, Busy, Holding
<1>3. OnHold = {} /\ OnHold' = {}
  BY <1>2 DEF OnHold
<1>4. cooling' = Recent'
  <2>1. ASSUME NEW s \in Strategies, CooldownOver(s)
        PROVE  cooling' = Recent'
    BY <1>3, <2>1 DEF CooldownOver, CoolInv, Recent
  <2>2. CASE LossesOver \/ NewDay
    BY <2>2 DEF LossesOver, NewDay, Recent
  <2> QED
    BY <2>1, <2>2
<1> QED
  BY <1>2, <1>3, <1>4 DEF CoolInv, HeldOnce

\* Where there are no exits nothing is paid in.
LEMMA NothingPaidIn ==
  ASSUME TypeOK, Paths, Up, Steady, [Next]_vars
  PROVE  cash' \in Int /\ cash' <= cash
<1>1. cash \in Int
  BY DEF TypeOK
<1>2. ASSUME NEW c \in Calls, Debit(c)
      PROVE  cash' \in Int /\ cash' <= cash
  <2>1. Cost[mem[c].strategy] \in Nat
    BY MemoryTyped, EntriesAssumption
  <2>2. cash' = cash \/ cash' = cash - Cost[mem[c].strategy]
    BY <1>2 DEF Debit, Remaining
  <2> QED
    BY <1>1, <2>1, <2>2
<1>3. ASSUME NEW c \in Calls, Credit(c)
      PROVE  FALSE
  BY <1>3 DEF Credit, Steady, Has, Paths, Placed, Leaving, At
<1>4. ASSUME NEW c \in Calls, Start(c) \/ Step(c), ~Debit(c), ~Credit(c)
      PROVE  cash' = cash
  BY <1>4 DEF Start, Step, wallet, SettingsStart, AutoStart, DaemonTick, StrategyStart,
              OrderStart, MonitorStart, SquareStart, Halt, Resume, PanicStop, ResetLock,
              Load, Roll, Mock, Answer, DaemonCount, DaemonLimit, Propose, TurnedDown, Vet,
              Reserve, Place, Payable, Create, ExitRefused, Report, Close, Tally, Post, Relock,
              RelockFails, SwitchSaved, ForgetStreak, Persist
<1>5. CASE UNCHANGED vars \/ (\E s \in Strategies : CooldownOver(s)) \/ LossesOver \/ NewDay
  BY <1>1, <1>5 DEF vars, wallet, CooldownOver, LossesOver, NewDay
<1>6. CASE Restart
  BY <1>6 DEF Restart, Steady, Fault
<1>7. CASE Recovering \/ Booting
  BY <1>1, <1>7 DEF Recovering, Recovered, Booting, Connect, SwitchRestored, Hydrated, wallet,
                    Up, Steady
<1> QED
  BY <1>1, <1>2, <1>3, <1>4, <1>5, <1>6, <1>7 DEF Next, Recovering, Booting

LEMMA NextCool ==
  ASSUME TypeOK, Paths, Up, DocsInv, Steady /\ Solvent => CoolInv, [Next]_vars
  PROVE  (Steady /\ Solvent => CoolInv)'
<1>0. scene' = scene
  BY NextScene
<1> SUFFICES ASSUME Steady, Solvent' PROVE CoolInv'
  BY <1>0 DEF Steady, Has, Fault
<1>1. Solvent
  <2>1. cash' \in Int /\ cash' <= cash /\ cash \in Int
    BY NothingPaidIn DEF TypeOK
  <2>2. \A s \in Strategies : Cost[s] \in Int
    BY EntriesAssumption DEF AllStrategies
  <2> QED
    BY <2>1, <2>2 DEF Solvent
<1>2. CoolInv
  BY <1>1
<1>3. CASE UNCHANGED vars
  BY <1>2, <1>3 DEF vars, documents, CoolInv, HeldOnce, Holding, Recent, OnHold
<1>4. ASSUME NEW c \in Calls, Start(c) \/ Step(c)
      PROVE  CoolInv'
  BY <1>1, <1>2, <1>4, ReserveCools, PlaceCools, CreateCools, PayCools, QuietCools
<1>5. CASE (\E s \in Strategies : CooldownOver(s)) \/ LossesOver \/ NewDay
  BY <1>2, <1>5, ClockCools
<1>6. CASE Restart
  BY <1>6 DEF Restart, Steady, Fault
<1>7. CASE Recovering \/ Booting
  <2>1. ~Booting
    BY DEF Booting, Connect, SwitchRestored, Hydrated, Up, Steady
  <2>2. /\ UNCHANGED <<young, cooling, pc, mem>>
        /\ \A d \in Calls : trade'[d].strategy = trade[d].strategy
    <3>1. PICK d \in Calls : Recovered(d)
      BY <1>7, <2>1 DEF Recovering
    <3>2. trade' = [trade EXCEPT ![d].status = "OPEN", ![d].again = TRUE]
      BY <3>1 DEF Recovered, Reopened
    <3>3. UNCHANGED <<young, cooling, pc, mem>>
      BY <3>1 DEF Recovered
    <3> QED
      BY <3>2, <3>3 DEF TypeOK, Trade
  <2>3. Recent' = Recent
    BY <2>2 DEF Recent, TypeOK
  <2> QED
    BY <1>0, <1>2, <2>2, <2>3 DEF CoolInv, HeldOnce, Holding, OnHold
<1> QED
  BY <1>3, <1>4, <1>5, <1>6, <1>7 DEF Next, Recovering, Booting

\* At rest a strategy sits out its cooldown if and only if it has a recent trade,
\* for any number of entries of all kinds that overlap, guards that cannot be
\* read and orders that are refused: a reservation ends as a trade or is given
\* back, and what is given back is nobody else's.
THEOREM CoolsForTrade == Spec => []CooledForTrade
<1>1. Init => (Steady /\ Solvent => CoolInv)
  BY DEF Init, CoolInv, HeldOnce, Holding, Recent, OnHold
<1>2. TypeOK /\ Paths /\ Up /\ DocsInv /\ (Steady /\ Solvent => CoolInv) /\ [Next]_vars
      => (Steady /\ Solvent => CoolInv)'
  BY NextCool
<1>3. (Steady /\ Solvent => CoolInv) => CooledForTrade
  BY DEF CooledForTrade, Steady, Solvent, CoolInv, OnHold, Recent, Holding, AtRest, Busy
<1> QED
  BY <1>1, <1>2, <1>3, TypedInv, UpInv, DocsAlways, PTL DEF Spec

-----------------------------------------------------------------------------
(* The margin.                                                               *)
(*                                                                           *)
(* What a call has taken from the account, or returned to it, and no trade   *)
(* shows yet, is due.  The balance, what open trades hold, and what is due   *)
(* make up the equity.                                                       *)

Due(c) ==
    CASE scene.kind[c] \in Entries /\ pc[c] \in {"persist", "create"} -> Cost[mem[c].strategy]
      [] scene.kind[c] = "square" /\ pc[c] = "credit" -> Cost[trade[mem[c].doc].strategy]
      [] scene.kind[c] = "monitor" /\ Busy(c) /\ pc[c] # "credit" ->
             -Cost[trade[mem[c].doc].strategy]
      [] OTHER -> 0

DueAll == Total([c \in Calls |-> Due(c)], Calls)

\* Who owes nothing.
LEMMA NothingDue ==
  ASSUME NEW c \in Calls,
         scene.kind[c] \notin Exits => pc[c] \notin {"persist", "create"},
         scene.kind[c] = "square" => pc[c] # "credit",
         scene.kind[c] = "monitor" => ~Busy(c) \/ pc[c] = "credit"
  PROVE  Due(c) = 0
BY DEF Due, Exits, Entries, Automatic

\* The amounts are whole numbers, those of trades are not negative.
Amounts ==
    \A c \in Calls :
        /\ Margin(c) \in Nat /\ Due(c) \in Int
        /\ Cost[trade[c].strategy] \in Nat /\ Cost[mem[c].strategy] \in Nat
        /\ scene.kind[c] # "monitor" => Due(c) \in Nat

LEMMA AmountsTyped == TypeOK /\ Paths /\ DocsInv => Amounts
<1> SUFFICES ASSUME TypeOK, Paths, DocsInv, NEW c \in Calls
             PROVE  /\ Margin(c) \in Nat /\ Due(c) \in Int
                    /\ Cost[trade[c].strategy] \in Nat /\ Cost[mem[c].strategy] \in Nat
                    /\ scene.kind[c] # "monitor" => Due(c) \in Nat
  BY DEF Amounts
<1>1. Cost[trade[c].strategy] \in Nat /\ Cost[mem[c].strategy] \in Nat
  BY MemoryTyped, EntriesAssumption DEF TypeOK, Trade
<1>2. Margin(c) \in Nat
  BY <1>1 DEF Margin
<1>3. CASE Leaves(c)
  <2>1. mem[c].doc \in Calls
    BY <1>3 DEF DocsInv, InHand
  <2>2. Cost[trade[mem[c].doc].strategy] \in Nat
    BY <2>1, EntriesAssumption DEF TypeOK, Trade
  <2> QED
    BY <1>1, <1>2, <2>2 DEF Due
<1>4. CASE ~Leaves(c)
  BY <1>1, <1>2, <1>4 DEF Due, Leaves, Busy, Exits
<1> QED
  BY <1>3, <1>4

LEMMA TotalsTyped ==
  ASSUME TypeOK, Paths, DocsInv
  PROVE  Kept \in Int /\ DueAll \in Int
<1>1. \A c \in Calls : [e \in Calls |-> Margin(e)][c] \in Int
  BY AmountsTyped DEF Amounts
<1>2. \A c \in Calls : [e \in Calls |-> Due(e)][c] \in Int
  BY AmountsTyped DEF Amounts
<1> QED
  BY <1>1, <1>2, TotalType, EntriesAssumption DEF Kept, DueAll

\* One trade changes, one call takes a step: so do the totals.
LEMMA TotalsMove ==
  ASSUME TypeOK, Paths, DocsInv, TypeOK', Paths', DocsInv',
         NEW d \in Calls, \A e \in Calls \ {d} : Margin(e)' = Margin(e),
         NEW c \in Calls, \A b \in Calls \ {c} : Due(b)' = Due(b)
  PROVE  /\ Kept' = Kept - Margin(d) + Margin(d)'
         /\ DueAll' = DueAll - Due(c) + Due(c)'
<1> DEFINE f == [e \in Calls |-> Margin(e)]
           g == [e \in Calls |-> Margin(e)']
           h == [b \in Calls |-> Due(b)]
           k == [b \in Calls |-> Due(b)']
<1>1. IsFiniteSet(Calls)
  BY EntriesAssumption
<1>2. /\ \A e \in Calls : f[e] \in Int /\ g[e] \in Int
      /\ \A b \in Calls : h[b] \in Int /\ k[b] \in Int
  <2>1. Amounts /\ Amounts'
    BY AmountsTyped, PTL
  <2> QED
    BY <2>1 DEF Amounts
<1>3. /\ \A e \in Calls \ {d} : f[e] = g[e]
      /\ \A b \in Calls \ {c} : h[b] = k[b]
  OBVIOUS
<1>4. /\ Kept = Total(f, Calls) /\ Kept' = Total(g, Calls)
      /\ DueAll = Total(h, Calls) /\ DueAll' = Total(k, Calls)
  BY DEF Kept, DueAll
<1>5. /\ f[d] = Margin(d) /\ g[d] = Margin(d)'
      /\ h[c] = Due(c) /\ k[c] = Due(c)'
  OBVIOUS
<1> HIDE DEF f, g, h, k
<1>6. Total(g, Calls) = Total(f, Calls) - f[d] + g[d]
  BY <1>1, <1>2, <1>3, TotalChange
<1>7. Total(k, Calls) = Total(h, Calls) - h[c] + k[c]
  BY <1>1, <1>2, <1>3, TotalChange
<1> QED
  BY <1>4, <1>5, <1>6, <1>7

\* A call that is no exit comes to the snapshot or the document by its debit.
LEMMA AwayFromMoney ==
  ASSUME TypeOK, Paths, NEW c \in Calls, Start(c) \/ Step(c), scene.kind[c] \notin Exits,
         ~Debit(c), ~Persist(c), ~Create(c)
  PROVE  pc[c] \notin {"persist", "create"} /\ pc'[c] \notin {"persist", "create"}
<1>1. pc[c] \notin {"persist", "create"}
  BY DEF Start, Step, Starts, SettingsStart, AutoStart, DaemonTick, StrategyStart,
       OrderStart, MonitorStart, SquareStart, Halt, Resume, PanicStop, ResetLock, Load,
       Roll, Mock, Answer, DaemonCount, DaemonLimit, Propose, TurnedDown, Vet, Reserve, Place,
       Payable, Credit, ExitRefused, Report, Close, Tally, Post, Relock, RelockFails,
       SwitchSaved, ForgetStreak
<1>2. \A l \in Pcs : Go(c, l) => pc'[c] = l
  BY DEF Go, TypeOK
<1>3. \A n \in Loaded, m \in Memory : Ask(c, n, m) => Go(c, "load")
  BY DEF Ask
<1>4. "load" \in Pcs
  BY DEF Pcs
<1>5. CASE \/ SettingsStart(c) \/ OrderStart(c) \/ DaemonCount(c) \/ Report(c)
           \/ StrategyStart(c) \/ Propose(c)
  <2>1. Go(c, "load") \/ Go(c, "done")
    <3>1. \A s \in scene.signals : Proposal(c, s) => Go(c, "load")
      BY DEF Proposal, Ask
    <3>2. CASE StrategyStart(c) \/ Propose(c)
      BY <3>1, <3>2 DEF StrategyStart, Propose
    <3>3. CASE SettingsStart(c) \/ OrderStart(c) \/ DaemonCount(c) \/ Report(c)
      BY <3>3 DEF SettingsStart, OrderStart, DaemonCount, Report, Ask
    <3> QED
      BY <1>5, <3>2, <3>3
  <2> QED
    BY <1>1, <1>2, <2>1 DEF Pcs
<1>6. CASE Load(c) \/ Roll(c) \/ Mock(c)
  <2>1. Go(c, mem[c].next) \/ Go(c, "roll")
    BY <1>6 DEF Load, Roll, Mock
  <2>2. mem[c].next \in Loaded
    BY MemoryTyped
  <2> QED
    BY <1>1, <1>2, <2>1, <2>2 DEF Pcs, Loaded
<1>7. CASE \/ Answer(c) \/ TurnedDown(c) \/ DaemonLimit(c) \/ Close(c) \/ AutoStart(c)
           \/ Payable(c) \/ Place(c) \/ Reserve(c) \/ Vet(c)
           \/ DaemonTick(c) \/ Halt(c) \/ Resume(c) \/ SwitchSaved(c) \/ ForgetStreak(c)
           \/ PanicStop(c) \/ ResetLock(c)
  <2>1. \/ Ends(c) \/ Refused(c)
        \/ \E l \in {"propose", "debit", "place", "done", "count", "switch", "reserve", "forget"} :
                  Go(c, l)
    BY <1>7 DEF Answer, TurnedDown, DaemonLimit, Close, AutoStart, Enter, Payable, Place,
                Reserve, Vet, DaemonTick, Halt, Resume, SwitchSaved, ForgetStreak, PanicStop,
                ResetLock
  <2> QED
    BY <1>1, <1>2, <2>1, EndsTyped DEF Pcs
<1>8. CASE \/ MonitorStart(c) \/ SquareStart(c) \/ Credit(c) \/ Tally(c) \/ Post(c) \/ Relock(c)
           \/ ExitRefused(c) \/ RelockFails(c)
  BY <1>8 DEF MonitorStart, SquareStart, Starts, Exits, Credit, ExitRefused, Tally, Post, Relock,
              RelockFails, Paths,
              Placed, Leaving, At
<1> QED
  BY <1>5, <1>6, <1>7, <1>8 DEF Start, Step

\* What other calls are due stays.
LEMMA DueOfOthers ==
  ASSUME TypeOK, Paths, DocsInv, NEW c \in Calls, Alone(c), scene' = scene,
         \A d \in Calls : trade[d].status # "none" => trade'[d].strategy = trade[d].strategy
  PROVE  \A b \in Calls \ {c} : Due(b)' = Due(b)
<1> SUFFICES ASSUME NEW b \in Calls \ {c} PROVE Due(b)' = Due(b)
  OBVIOUS
<1>1. pc'[b] = pc[b] /\ mem'[b] = mem[b]
  BY DEF Alone
<1>2. CASE Leaves(b)
  <2>1. mem[b].doc \in Calls /\ trade[mem[b].doc].status # "none"
    BY <1>2 DEF DocsInv, InHand
  <2>2. trade'[mem[b].doc].strategy = trade[mem[b].doc].strategy
    BY <2>1
  <2> QED
    BY <1>1, <2>2 DEF Due, Busy
<1>3. CASE ~Leaves(b)
  BY <1>1, <1>3 DEF Due, Leaves, Busy, Exits
<1> QED
  BY <1>2, <1>3

\* The account after a step, compared with before.
Account == cash + Kept + DueAll

\* What one trade and one call take, the other or the balance gives.
LEMMA AccountMoves ==
  ASSUME TypeOK, Paths, DocsInv, TypeOK', Paths', DocsInv', NEW c \in Calls, NEW d \in Calls,
         Alone(c), scene' = scene,
         \A e \in Calls : trade[e].status # "none" => trade'[e].strategy = trade[e].strategy,
         \A e \in Calls \ {d} : Margin(e)' = Margin(e)
  PROVE  /\ Account \in Int /\ Account' \in Int
         /\ Account' - Account =
                (cash' - cash) + (Margin(d)' - Margin(d)) + (Due(c)' - Due(c))
<1>1. \A b \in Calls \ {c} : Due(b)' = Due(b)
  BY DueOfOthers
<1>2. /\ Kept' = Kept - Margin(d) + Margin(d)'
      /\ DueAll' = DueAll - Due(c) + Due(c)'
  BY <1>1, TotalsMove
<1>3. Amounts /\ Amounts'
  BY AmountsTyped, PTL
<1>4. /\ Margin(d) \in Int /\ Margin(d)' \in Int /\ Due(c) \in Int /\ Due(c)' \in Int
      /\ cash \in Int /\ cash' \in Int
  BY <1>3 DEF Amounts, TypeOK
<1>5. Kept \in Int /\ DueAll \in Int
  BY TotalsTyped
<1> QED
  BY <1>2, <1>4, <1>5 DEF Account

\* The same, of given amounts.
LEMMA Balanced ==
  ASSUME TypeOK, Paths, DocsInv, TypeOK', Paths', DocsInv', NEW c \in Calls, NEW d \in Calls,
         Alone(c), scene' = scene,
         \A e \in Calls : trade[e].status # "none" => trade'[e].strategy = trade[e].strategy,
         \A e \in Calls \ {d} : Margin(e)' = Margin(e),
         NEW x \in Int, NEW y \in Int, NEW z \in Int,
         cash' = cash + x, Margin(d)' = Margin(d) + y, Due(c)' = Due(c) + z
  PROVE  /\ Account \in Int /\ Account' = Account + (x + y + z)
<1>1. /\ Account \in Int /\ Account' \in Int
      /\ Account' - Account =
             (cash' - cash) + (Margin(d)' - Margin(d)) + (Due(c)' - Due(c))
  BY AccountMoves
<1>2. cash \in Int /\ Margin(d) \in Int /\ Due(c) \in Int
  BY AmountsTyped DEF Amounts, TypeOK
<1>3. cash' - cash = x /\ Margin(d)' - Margin(d) = y /\ Due(c)' - Due(c) = z
  BY <1>2
<1>4. Account' - Account = x + y + z
  BY <1>1, <1>3
<1>5. \A a, b, n \in Int : b - a = n => b = a + n
  OBVIOUS
<1>6. x + y + z \in Int
  OBVIOUS
<1> QED
  BY <1>1, <1>4, <1>5, <1>6, Zenon

\* Margins follow the status and the strategy of the trades.
LEMMA MarginSame ==
  ASSUME NEW d \in Calls,
         trade'[d].strategy = trade[d].strategy,
         trade'[d].status \in {"OPEN", "EXITING"} <=> trade[d].status \in {"OPEN", "EXITING"}
  PROVE  Margin(d)' = Margin(d)
BY DEF Margin, Held

\* Steps that touch neither the balance nor a trade.
LEMMA QuietAccount ==
  ASSUME TypeOK, Paths, DocsInv, TypeOK', Paths', DocsInv', scene' = scene,
         NEW c \in Calls, Start(c) \/ Step(c), ~Debit(c), ~Persist(c), ~Create(c), ~Credit(c),
         ~MonitorStart(c), ~SquareStart(c), ~Report(c), ~Over(c)
  PROVE  Account' = Account
<1>0. ~Over(c) => ~Close(c) /\ ~ExitRefused(c) /\ ~RelockFails(c)
  BY DEF Over
<1>1. /\ trade' = trade /\ cash' = cash /\ Alone(c)
  <2>1. Alone(c)
    BY StepAlone
  <2>2. CASE Start(c)
    BY <2>1, <2>2 DEF Start, documents, wallet, SettingsStart, AutoStart, DaemonTick, StrategyStart,
                OrderStart, Halt, Resume, PanicStop, ResetLock
  <2>3. CASE Step(c)
    BY <1>0, <2>1, <2>3
       DEF Step, documents, wallet, Load, Roll, Mock, Answer, DaemonCount, DaemonLimit, Propose,
           TurnedDown, Vet, Reserve, Place, Payable, Tally, Post, Relock, SwitchSaved,
           ForgetStreak
  <2> QED
    BY <2>2, <2>3
<1>2. Due(c)' = Due(c)
  <2>1. CASE scene.kind[c] \notin Exits
    BY <2>1, AwayFromMoney DEF Due, Exits
  <2>2. CASE scene.kind[c] \in Exits
    <3>1. Step(c)
      BY <2>2 DEF Start, Starts, Exits, Entries, Automatic, Switching, SettingsStart, AutoStart,
                DaemonTick, StrategyStart, OrderStart, Halt, Resume, PanicStop, ResetLock
    <3>2. /\ Leaves(c)
          /\ Load(c) \/ Roll(c) \/ Mock(c) \/ Tally(c) \/ Post(c) \/ Relock(c)
      BY <2>2, <3>1, ExitSteps
    <3>3. pc[c] \notin Unreported
      BY <3>2 DEF Unreported, Load, Roll, Mock, Tally, Post, Relock
    <3>4. /\ pc'[c] \notin {"idle", "done"} /\ pc'[c] \notin Unreported
          /\ mem'[c].doc = mem[c].doc
      BY <2>2, <3>1, <3>3, ExitsKeepHand
    <3> QED
      BY <1>1, <2>2, <3>2, <3>3, <3>4 DEF Due, Leaves, Busy, Unreported, Exits, Entries, Automatic
  <2> QED
    BY <2>1, <2>2
<1>3. \A e \in Calls : Margin(e)' = Margin(e)
  BY <1>1, MarginSame
<1>4. Margin(c) \in Int /\ Due(c) \in Int /\ cash \in Int
  BY AmountsTyped DEF Amounts, TypeOK
<1>5. cash' = cash + 0 /\ Margin(c)' = Margin(c) + 0 /\ Due(c)' = Due(c) + 0
  BY <1>1, <1>2, <1>3, <1>4
<1>6. Account \in Int /\ Account' = Account + (0 + 0 + 0)
  BY <1>1, <1>3, <1>5, Balanced
<1> QED
  BY <1>6

\* An entry takes its margin, or gives up.
LEMMA DebitAccount ==
  ASSUME TypeOK, Paths, DocsInv, TypeOK', Paths', DocsInv', scene' = scene,
         NEW c \in Calls, Debit(c)
  PROVE  Account' = Account
<1>1. /\ trade' = trade /\ Alone(c) /\ pc[c] = "debit" /\ scene.kind[c] \in Entries
  BY StepAlone DEF Debit, Step, documents, Paths, Placed, Paying, At
<1>2. \A e \in Calls : Margin(e)' = Margin(e)
  BY <1>1, MarginSame
<1>3. PICK n \in Nat : n = Cost[mem[c].strategy]
  BY AmountsTyped DEF Amounts
<1>4. Margin(c) \in Int /\ cash \in Int /\ Due(c) = 0
  BY <1>1, AmountsTyped DEF Amounts, TypeOK, Due, Entries, Automatic
<1>5. CASE cash' = cash - n /\ UNCHANGED mem /\ (Go(c, "create") \/ Go(c, "persist"))
  <2>1. pc'[c] \in {"create", "persist"}
    BY <1>5 DEF Go, TypeOK
  <2>2. Due(c)' = n
    BY <1>1, <1>3, <1>5, <2>1 DEF Due, Entries, Automatic
  <2>3. cash' = cash + (-n) /\ Margin(c)' = Margin(c) + 0 /\ Due(c)' = Due(c) + n
    BY <1>2, <1>3, <1>4, <1>5, <2>2
  <2>4. Account \in Int /\ Account' = Account + (-n + 0 + n)
    BY <1>1, <1>2, <2>3, Balanced
  <2> QED
    BY <2>4
<1>6. CASE Ends(c) /\ cash' = cash
  <2>1. Due(c)' = 0
    BY <1>1, <1>6, EndsTyped DEF Due, Entries, Automatic
  <2>2. cash' = cash + 0 /\ Margin(c)' = Margin(c) + 0 /\ Due(c)' = Due(c) + 0
    BY <1>2, <1>4, <1>6, <2>1
  <2>3. Account \in Int /\ Account' = Account + (0 + 0 + 0)
    BY <1>1, <1>2, <2>2, Balanced
  <2> QED
    BY <2>3
<1> QED
  BY <1>3, <1>5, <1>6 DEF Debit, Remaining

\* The snapshot moves nothing.
LEMMA PersistAccount ==
  ASSUME TypeOK, Paths, DocsInv, TypeOK', Paths', DocsInv', scene' = scene,
         NEW c \in Calls, Persist(c)
  PROVE  Account' = Account
<1>1. /\ trade' = trade /\ cash' = cash /\ Alone(c) /\ pc[c] = "persist"
      /\ scene.kind[c] \in Entries \cup Exits
  BY StepAlone DEF Persist, Step, documents, Paths, Placed, Paying, At
<1>2. \A e \in Calls : Margin(e)' = Margin(e)
  BY <1>1, MarginSame
<1>3. Due(c)' = Due(c)
  <2>1. CASE scene.kind[c] \in Entries
    <3>1. pc'[c] = "create" /\ mem' = mem
      BY <2>1 DEF Persist, Entries, Automatic, Go, TypeOK
    <3> QED
      BY <1>1, <2>1, <3>1 DEF Due, Entries, Automatic
  <2>2. CASE scene.kind[c] \in Exits
    <3>1. /\ pc'[c] \notin {"idle", "done"} /\ mem'[c].doc = mem[c].doc
      BY <1>1, <2>2, ExitsKeepHand DEF Step, Over, Close, ExitRefused, RelockFails
    <3>2. pc'[c] # "credit"
      BY <2>2 DEF Persist, Ask, Go, TypeOK, Exits
    <3> QED
      BY <1>1, <2>2, <3>1, <3>2 DEF Due, Busy, Exits, Entries, Automatic
  <2> QED
    BY <1>1, <2>1, <2>2
<1>4. Margin(c) \in Int /\ Due(c) \in Int /\ cash \in Int
  BY AmountsTyped DEF Amounts, TypeOK
<1>5. cash' = cash + 0 /\ Margin(c)' = Margin(c) + 0 /\ Due(c)' = Due(c) + 0
  BY <1>1, <1>2, <1>3, <1>4
<1>6. Account \in Int /\ Account' = Account + (0 + 0 + 0)
  BY <1>1, <1>2, <1>5, Balanced
<1> QED
  BY <1>6

\* The trade shows what its entry has taken; if it cannot be written, nobody does.
LEMMA CreateAccount ==
  ASSUME TypeOK, Paths, DocsInv, TypeOK', Paths', DocsInv', scene' = scene,
         NEW c \in Calls, Create(c)
  PROVE  /\ Account \in Int /\ Account' \in Int /\ Account' <= Account
         /\ ~Fault("create") /\ Connected => Account' = Account
<1>1. /\ cash' = cash /\ Alone(c) /\ pc[c] = "create" /\ pc'[c] = "done"
      /\ scene.kind[c] \in Entries /\ trade[c].status = "none"
  BY StepAlone, EndsTyped
     DEF Create, Step, wallet, Paths, Placed, Paying, At, DocsInv, Written
<1>2. PICK n \in Nat : n = Cost[mem[c].strategy]
  BY AmountsTyped DEF Amounts
<1>3. cash \in Int /\ Due(c) = n /\ Due(c)' = 0 /\ Margin(c) = 0
  BY <1>1, <1>2 DEF TypeOK, Due, Entries, Automatic, Margin, Held
<1>4. CASE trade' = [trade EXCEPT ![c] =
                       [status |-> "OPEN", strategy |-> mem[c].strategy,
                        way |-> mem[c].way, pnl |-> 0, again |-> FALSE]]
  <2>1. /\ \A e \in Calls \ {c} : trade'[e] = trade[e]
        /\ trade'[c].status = "OPEN" /\ trade'[c].strategy = mem[c].strategy
    BY <1>4 DEF TypeOK
  <2>2. \A e \in Calls \ {c} : Margin(e)' = Margin(e)
    BY <2>1, MarginSame
  <2>3. Margin(c)' = n
    BY <1>2, <2>1 DEF Margin, Held
  <2>4. cash' = cash + 0 /\ Margin(c)' = Margin(c) + n /\ Due(c)' = Due(c) + (-n)
    BY <1>1, <1>2, <1>3, <2>3
  <2>5. \A e \in Calls : trade[e].status # "none" => trade'[e].strategy = trade[e].strategy
    BY <1>1, <2>1
  <2>6. Account \in Int /\ Account' = Account + (0 + n + (-n))
    BY <1>1, <2>2, <2>4, <2>5, Balanced
  <2> QED
    BY <2>6
<1>5. CASE (Fault("create") \/ ~Connected) /\ trade' = trade
  <2>1. \A e \in Calls : Margin(e)' = Margin(e)
    BY <1>5, MarginSame
  <2>2. cash' = cash + 0 /\ Margin(c)' = Margin(c) + 0 /\ Due(c)' = Due(c) + (-n)
    BY <1>1, <1>3, <2>1
  <2>3. Account \in Int /\ Account' = Account + (0 + 0 + (-n))
    BY <1>1, <1>5, <2>1, <2>2, Balanced
  <2> QED
    BY <1>5, <2>3
<1> QED
  BY <1>4, <1>5 DEF Create

\* An exit takes a trade in hand: the margin of one that is closed first is due.
LEMMA TakeAccount ==
  ASSUME TypeOK, Paths, DocsInv, TypeOK', Paths', DocsInv', scene' = scene,
         NEW c \in Calls, MonitorStart(c) \/ SquareStart(c)
  PROVE  Account' = Account
<1>1. PICK d \in Held, pnl \in Outcomes :
         /\ Takes(c, d, pnl)
         /\ trade' = [trade EXCEPT ![d].status = IF scene.kind[c] = "monitor" THEN "EXITING"
                                                                              ELSE "CLOSED"]
  BY DEF MonitorStart, SquareStart, Starts, Open, Held
<1>2. /\ cash' = cash /\ Alone(c) /\ pc[c] = "idle" /\ pc'[c] = "credit"
      /\ scene.kind[c] \in Exits
  BY StepAlone DEF MonitorStart, SquareStart, Start, Starts, wallet, Exits, Go, TypeOK
<1>3. d \in Calls /\ mem'[c].doc = d
  BY <1>1, MemoryTyped DEF Held, Takes, TypeOK, Memory
<1>4. \A e \in Calls :
         trade'[e] = IF e = d THEN [trade[d] EXCEPT !.status = IF scene.kind[c] = "monitor"
                                                               THEN "EXITING" ELSE "CLOSED"]
                              ELSE trade[e]
  BY <1>1, <1>3 DEF TypeOK
<1>5. /\ \A e \in Calls : trade'[e].strategy = trade[e].strategy
      /\ \A e \in Calls \ {d} : Margin(e)' = Margin(e)
      /\ trade'[d].status = IF scene.kind[c] = "monitor" THEN "EXITING" ELSE "CLOSED"
  <2>1. \A e \in Calls : trade'[e].strategy = trade[e].strategy
    BY <1>4 DEF TypeOK, Trade
  <2>2. trade'[d].status = IF scene.kind[c] = "monitor" THEN "EXITING" ELSE "CLOSED"
    BY <1>3, <1>4 DEF TypeOK, Trade
  <2> QED
    BY <1>4, <2>1, <2>2, MarginSame
<1>6. PICK n \in Nat : n = Cost[trade[d].strategy]
  BY <1>3, AmountsTyped DEF Amounts
<1>7. Margin(d) = n /\ cash \in Int /\ Due(c) = 0
  BY <1>1, <1>2, <1>6 DEF Margin, TypeOK, Due, Busy, Exits, Entries, Automatic
<1>8. CASE scene.kind[c] = "monitor"
  <2>1. Margin(d)' = n /\ Due(c)' = 0
    BY <1>2, <1>3, <1>5, <1>6, <1>8 DEF Margin, Held, Due, Entries, Automatic
  <2>2. cash' = cash + 0 /\ Margin(d)' = Margin(d) + 0 /\ Due(c)' = Due(c) + 0
    BY <1>2, <1>7, <2>1
  <2>3. Account \in Int /\ Account' = Account + (0 + 0 + 0)
    BY <1>2, <1>3, <1>5, <2>2, Balanced
  <2> QED
    BY <2>3
<1>9. CASE scene.kind[c] = "square"
  <2>1. Margin(d)' = 0 /\ Due(c)' = n
    BY <1>2, <1>3, <1>5, <1>6, <1>9 DEF Margin, Held, Due, Entries, Automatic
  <2>2. cash' = cash + 0 /\ Margin(d)' = Margin(d) + (-n) /\ Due(c)' = Due(c) + n
    BY <1>2, <1>7, <2>1
  <2>3. Account \in Int /\ Account' = Account + (0 + (-n) + n)
    BY <1>2, <1>3, <1>5, <2>2, Balanced
  <2> QED
    BY <2>3
<1> QED
  BY <1>2, <1>8, <1>9 DEF Exits

\* The balance is given what was due, or what the monitor is yet to close.
LEMMA CreditAccount ==
  ASSUME TypeOK, Paths, DocsInv, TypeOK', Paths', DocsInv', scene' = scene,
         NEW c \in Calls, Credit(c)
  PROVE  Account' = Account
<1>1. /\ trade' = trade /\ mem' = mem /\ Alone(c) /\ pc[c] = "credit" /\ pc'[c] = "persist"
      /\ scene.kind[c] \in Exits
  BY StepAlone DEF Credit, Step, documents, Paths, Placed, Leaving, At, Go, TypeOK
<1>2. mem[c].doc \in Calls
  BY <1>1 DEF DocsInv, InHand, Leaves, Busy
<1>3. \A e \in Calls : Margin(e)' = Margin(e)
  BY <1>1, MarginSame
<1>4. PICK n \in Nat : n = Cost[trade[mem[c].doc].strategy]
  BY <1>2, AmountsTyped DEF Amounts
<1>5. cash' = cash + n
  BY <1>4 DEF Credit
<1>6. Margin(c) \in Int
  BY AmountsTyped DEF Amounts
<1>7. \/ Due(c) = n /\ Due(c)' = 0
      \/ Due(c) = 0 /\ Due(c)' = -n
  BY <1>1, <1>4 DEF Due, Busy, Exits, Entries, Automatic
<1>8. Margin(c)' = Margin(c) + 0 /\ Due(c)' = Due(c) + (-n)
  BY <1>3, <1>6, <1>7
<1>9. Account \in Int /\ Account' = Account + (n + 0 + (-n))
  BY <1>1, <1>3, <1>5, <1>8, Balanced
<1> QED
  BY <1>9

\* The P&L of a trade that is closed already moves no margin.
LEMMA ReportAccount ==
  ASSUME TypeOK, Paths, DocsInv, TypeOK', Paths', DocsInv', scene' = scene,
         NEW c \in Calls, Report(c)
  PROVE  Account' = Account
<1>1. /\ cash' = cash /\ Alone(c) /\ pc[c] = "report" /\ pc'[c] = "load"
      /\ scene.kind[c] \in Exits
  BY StepAlone DEF Report, Step, wallet, Paths, Placed, Leaving, At, Ask, Go, TypeOK
<1>2. mem[c].doc \in Calls /\ scene.kind[c] = "square" /\ trade[mem[c].doc].status = "CLOSED"
  BY <1>1 DEF DocsInv, InHand, Leaves, Busy, At
<1>3. \A e \in Calls : /\ trade'[e].strategy = trade[e].strategy
                       /\ trade'[e].status = trade[e].status
  BY <1>2 DEF Report, Realized, TypeOK, Trade
<1>4. \A e \in Calls : Margin(e)' = Margin(e)
  BY <1>3, MarginSame
<1>5. Margin(c) \in Int /\ cash \in Int /\ Due(c) = 0 /\ Due(c)' = 0
  BY <1>1, <1>2, AmountsTyped DEF Amounts, TypeOK, Due, Entries, Automatic
<1>6. cash' = cash + 0 /\ Margin(c)' = Margin(c) + 0 /\ Due(c)' = Due(c) + 0
  BY <1>1, <1>4, <1>5
<1>7. Account \in Int /\ Account' = Account + (0 + 0 + 0)
  BY <1>1, <1>3, <1>4, <1>6, Balanced
<1> QED
  BY <1>7

\* What the monitor has returned is no longer held.
LEMMA CloseAccount ==
  ASSUME TypeOK, Paths, DocsInv, TypeOK', Paths', DocsInv', scene' = scene,
         NEW c \in Calls, Close(c)
  PROVE  Account' = Account
<1>1. /\ cash' = cash /\ Alone(c) /\ pc[c] = "close" /\ pc'[c] = "done"
      /\ scene.kind[c] \in Exits
  BY StepAlone, EndsTyped DEF Close, Step, wallet, Paths, Placed, Leaving, At
<1>2. PICK d \in Calls :
         /\ d = mem[c].doc
         /\ trade[d].status = IF scene.kind[c] = "monitor" THEN "EXITING" ELSE "CLOSED"
  BY <1>1 DEF DocsInv, InHand, Leaves, Busy
<1>3. PICK n \in Nat : n = Cost[trade[d].strategy]
  BY <1>2, AmountsTyped DEF Amounts
<1>4. cash \in Int /\ Due(c)' = 0
  BY <1>1 DEF TypeOK, Due, Busy, Exits, Entries, Automatic
<1>5. CASE scene.kind[c] = "monitor"
  <2>1. trade' = [trade EXCEPT ![d].status = "CLOSED", ![d].pnl = mem[c].pnl]
    BY <1>2, <1>5 DEF Close, Realized
  <2>2. /\ \A e \in Calls : trade'[e].strategy = trade[e].strategy
        /\ \A e \in Calls \ {d} : trade'[e] = trade[e]
        /\ trade'[d].status = "CLOSED"
    BY <1>2, <2>1 DEF TypeOK, Trade
  <2>3. \A e \in Calls \ {d} : Margin(e)' = Margin(e)
    BY <2>2, MarginSame
  <2>4. Margin(d) = n /\ Margin(d)' = 0 /\ Due(c) = -n
    BY <1>1, <1>2, <1>3, <1>5, <2>2 DEF Margin, Held, Due, Busy, Entries, Automatic
  <2>5. cash' = cash + 0 /\ Margin(d)' = Margin(d) + (-n) /\ Due(c)' = Due(c) + n
    BY <1>1, <1>4, <2>4
  <2>6. Account \in Int /\ Account' = Account + (0 + (-n) + n)
    BY <1>1, <1>2, <2>2, <2>3, <2>5, Balanced
  <2> QED
    BY <2>6
<1>6. CASE scene.kind[c] = "square"
  <2>1. trade' = trade
    BY <1>6 DEF Close
  <2>2. \A e \in Calls : Margin(e)' = Margin(e)
    BY <2>1, MarginSame
  <2>3. Margin(d) \in Int /\ Due(c) = 0
    BY <1>1, <1>2, <1>6, AmountsTyped DEF Amounts, Due, Entries, Automatic
  <2>4. cash' = cash + 0 /\ Margin(d)' = Margin(d) + 0 /\ Due(c)' = Due(c) + 0
    BY <1>1, <1>2, <1>4, <2>2, <2>3
  <2>5. Account \in Int /\ Account' = Account + (0 + 0 + 0)
    BY <1>1, <1>2, <2>1, <2>2, <2>4, Balanced
  <2> QED
    BY <2>5
<1> QED
  BY <1>1, <1>5, <1>6 DEF Exits

\* A refused exit has returned nothing, and its trade holds what it held.
LEMMA RefusedAccount ==
  ASSUME TypeOK, Paths, DocsInv, TypeOK', Paths', DocsInv', scene' = scene,
         NEW c \in Calls, ExitRefused(c)
  PROVE  Account' = Account
<1>1. /\ cash' = cash /\ Alone(c) /\ pc[c] = "credit" /\ pc'[c] = "done"
      /\ scene.kind[c] = "monitor"
  BY StepAlone, EndsTyped DEF ExitRefused, Step, wallet
<1>2. PICK d \in Calls : d = mem[c].doc /\ trade[d].status = "EXITING"
  BY <1>1 DEF DocsInv, InHand, Leaves, Busy, Exits
<1>3. trade' = [trade EXCEPT ![d].status = "OPEN", ![d].again = TRUE]
  BY <1>2 DEF ExitRefused, Reopened
<1>4. /\ \A e \in Calls : trade'[e].strategy = trade[e].strategy
      /\ \A e \in Calls : e # d => trade'[e].status = trade[e].status
      /\ trade'[d].status = "OPEN"
  BY <1>2, <1>3 DEF TypeOK, Trade
<1>5. \A e \in Calls : Margin(e)' = Margin(e)
  BY <1>2, <1>4, MarginSame
<1>6. Margin(d) \in Int /\ cash \in Int /\ Due(c) = 0 /\ Due(c)' = 0
  BY <1>1, AmountsTyped DEF Amounts, TypeOK, Due, Busy, Entries, Automatic
<1>7. cash' = cash + 0 /\ Margin(d)' = Margin(d) + 0 /\ Due(c)' = Due(c) + 0
  BY <1>1, <1>5, <1>6
<1>8. Account \in Int /\ Account' = Account + (0 + 0 + 0)
  BY <1>1, <1>4, <1>5, <1>7, Balanced
<1> QED
  BY <1>8

\* Nor does its recovery move any money.
LEMMA RecoveredAccount ==
  ASSUME TypeOK, Paths, DocsInv, NEW d \in Calls, Recovered(d)
  PROVE  Account' = Account
<1>1. /\ UNCHANGED <<scene, cash, pc, mem>> /\ trade[d].status = "EXITING"
      /\ trade' = [trade EXCEPT ![d].status = "OPEN", ![d].again = TRUE]
  BY DEF Recovered, Reopened, wallet
<1>2. \A b \in Calls : mem[b].doc # d
  BY DEF Recovered, Free
<1>3. /\ \A e \in Calls : trade'[e].strategy = trade[e].strategy
      /\ \A e \in Calls : e # d => trade'[e] = trade[e]
      /\ trade'[d].status = "OPEN"
  BY <1>1 DEF TypeOK, Trade
<1>4. \A e \in Calls : Margin(e)' = Margin(e)
  BY <1>1, <1>3, MarginSame
<1>5. ASSUME NEW b \in Calls PROVE Due(b)' = Due(b)
  <2>1. CASE Leaves(b)
    <3>1. mem[b].doc \in Calls /\ trade'[mem[b].doc] = trade[mem[b].doc]
      BY <1>2, <1>3, <2>1 DEF DocsInv, InHand
    <3> QED
      BY <1>1, <3>1 DEF Due, Busy
  <2>2. CASE ~Leaves(b)
    BY <1>1, <2>2 DEF Due, Leaves, Busy, Exits
  <2> QED
    BY <2>1, <2>2
<1>6. [e \in Calls |-> Margin(e)'] = [e \in Calls |-> Margin(e)]
  BY <1>4
<1>7. [b \in Calls |-> Due(b)'] = [b \in Calls |-> Due(b)]
  BY <1>5
<1> QED
  BY <1>1, <1>6, <1>7 DEF Account, Kept, DueAll

\* No step of the system makes money, and none loses any but a failed write, if
\* the lock that a loss takes is saved.
LEMMA StepAccount ==
  ASSUME TypeOK, Paths, DocsInv, TypeOK', Paths', DocsInv', scene' = scene,
         NEW c \in Calls, Start(c) \/ Step(c), ~RelockFails(c)
  PROVE  /\ Account \in Int /\ Account' \in Int /\ Account' <= Account
         /\ ~Fault("create") /\ Connected => Account' = Account
<1>1. Account \in Int
  BY TotalsTyped DEF Account, TypeOK
<1>2. CASE Create(c)
  BY <1>2, CreateAccount
<1>3. CASE ~Create(c)
  <2>1. Account' = Account
    BY <1>3, DebitAccount, PersistAccount, TakeAccount, CreditAccount, RefusedAccount,
       ReportAccount, CloseAccount, QuietAccount DEF Over
  <2> QED
    BY <1>1, <2>1
<1> QED
  BY <1>2, <1>3

\* Calls that are over, or have not begun, owe nothing.
LEMMA NothingOwing == AtRest => DueAll = 0
<1> SUFFICES ASSUME AtRest PROVE DueAll = 0
  OBVIOUS
<1>1. \A c \in Calls : pc[c] \in {"idle", "done"}
  BY DEF AtRest, Busy
<1>2. \A c \in Calls : Due(c) = 0
  BY <1>1 DEF Due, Busy, Exits, Entries, Automatic
<1> QED
  BY <1>2, TotalZero, EntriesAssumption DEF DueAll

\* The clock moves no money; a restart counts on what it finds.
LEMMA RestAccount ==
  ASSUME TypeOK, Paths, DocsInv, TypeOK', Paths', DocsInv',
         (\E s \in Strategies : CooldownOver(s)) \/ LossesOver \/ NewDay \/ Restart
  PROVE  /\ Kept' = Kept
         /\ IF Restart THEN Account' = cash' + Kept ELSE Account' = Account
<1>1. \A d \in Calls : /\ trade'[d].strategy = trade[d].strategy
                       /\ trade'[d].status = trade[d].status
  <2>1. CASE NewDay
    BY <2>1 DEF NewDay, TypeOK, Trade
  <2>2. CASE UNCHANGED trade
    BY <2>2
  <2> QED
    BY <2>1, <2>2 DEF CooldownOver, LossesOver, Restart, documents
<1>2. \A d \in Calls : Margin(d)' = Margin(d)
  BY <1>1, MarginSame
<1>3. Kept' = Kept
  <2> DEFINE f == [e \in Calls |-> Margin(e)]
             g == [e \in Calls |-> Margin(e)']
  <2>1. \A d \in Calls : f[d] = g[d]
    BY <1>2
  <2>2. Kept = Total(f, Calls) /\ Kept' = Total(g, Calls)
    BY DEF Kept
  <2> HIDE DEF f, g
  <2> QED
    BY <2>1, <2>2, TotalSame, EntriesAssumption
<1>4. AtRest'
  BY DEF CooldownOver, LossesOver, NewDay, Restart, AtRest, Busy, TypeOK
<1>5. (DueAll = 0)'
  BY <1>4, NothingOwing, PTL
<1>6. Kept \in Int /\ cash' \in Int /\ cash \in Int
  BY TotalsTyped DEF TypeOK
<1>7. CASE Restart
  BY <1>3, <1>5, <1>6, <1>7 DEF Account
<1>8. CASE ~Restart
  <2>1. AtRest /\ cash' = cash
    BY <1>8 DEF CooldownOver, LossesOver, NewDay, wallet
  <2>2. DueAll = 0
    BY <2>1, NothingOwing
  <2> QED
    BY <1>3, <1>5, <1>6, <1>8, <2>1, <2>2 DEF Account
<1> QED
  BY <1>3, <1>7, <1>8

\* The account makes up the equity, unless a write fails or a crash forgets one.
AccountInv == ~Fault("create") /\ ~Fault("crash") /\ ~Fault("settings") => Account = Equity

LEMMA InitAccount == Init => TypeOK /\ AccountInv /\ Account = Equity
<1> SUFFICES ASSUME Init PROVE TypeOK /\ Account = Equity
  BY DEF AccountInv
<1>1. TypeOK
  BY InitTyped
<1>2. DueAll = 0
  BY NothingOwing DEF Init, AtRest, Busy
<1>3. \A d \in Calls : Margin(d) = 0
  BY DEF Init, NoTrade, Margin, Held
<1>4. Kept = 0
  BY <1>3, TotalZero, EntriesAssumption DEF Kept
<1> QED
  BY <1>1, <1>2, <1>4, EntriesAssumption DEF Account, Init

LEMMA StutterAccount == UNCHANGED vars => Account' = Account
<1> SUFFICES ASSUME UNCHANGED vars PROVE Account' = Account
  OBVIOUS
<1>1. UNCHANGED <<scene, trade, cash, pc, mem>>
  BY DEF vars, documents, wallet
<1>2. Kept' = Kept
  BY <1>1 DEF Kept, Margin, Held
<1>3. DueAll' = DueAll
  BY <1>1 DEF DueAll, Due, Busy
<1> QED
  BY <1>1, <1>2, <1>3 DEF Account

LEMMA NextAccount ==
  ASSUME TypeOK, Paths, Up, DocsInv, TypeOK', Paths', DocsInv', AccountInv, [Next]_vars
  PROVE  AccountInv'
<1>1. scene' = scene
  BY NextScene
<1> SUFFICES ASSUME ~Fault("create"), ~Fault("crash"), ~Fault("settings")
             PROVE  Account' = Equity
  BY <1>1 DEF AccountInv, Fault
<1>2. Account = Equity
  BY DEF AccountInv
<1>3. Account' = Account
  <2>1. CASE UNCHANGED vars
    BY <2>1, StutterAccount
  <2>2. ASSUME NEW c \in Calls, Start(c) \/ Step(c)
        PROVE  Account' = Account
    BY <1>1, <2>2, StepAccount DEF RelockFails, Up, Connected
  <2>3. CASE (\E s \in Strategies : CooldownOver(s)) \/ LossesOver \/ NewDay \/ Restart
    BY <2>3, RestAccount DEF Restart
  <2>4. ~Booting
    BY DEF Booting, Connect, SwitchRestored, Hydrated, Up
  <2> QED
    BY <2>1, <2>2, <2>3, <2>4, RecoveredAccount DEF Next, Booting
<1> QED
  BY <1>2, <1>3

\* At rest what the wallet lacks is what its trades hold, for any number of
\* entries and exits of all kinds that overlap, exits that are refused, any costs,
\* and snapshots that fail: every debit is a trade's, and every credit is of a
\* margin that no trade holds any more.  Not over a crash, where a trade cannot
\* be created, or where the lock that a loss takes cannot be saved.
THEOREM MarginAccounted == Spec => []MarginTaken
<1>1. Init => AccountInv
  BY InitAccount
<1>2. /\ TypeOK /\ Paths /\ Up /\ DocsInv /\ TypeOK' /\ Paths' /\ DocsInv'
      /\ AccountInv /\ [Next]_vars
      => AccountInv'
  BY NextAccount
<1>3. TypeOK /\ Paths /\ DocsInv /\ AccountInv => MarginTaken
  <2> SUFFICES ASSUME TypeOK, Paths, DocsInv, AccountInv,
                      AtRest, ~Fault("create"), ~Fault("crash"), ~Fault("settings")
               PROVE  cash + Kept = Equity
    BY DEF MarginTaken
  <2>1. DueAll = 0
    BY NothingOwing
  <2>2. cash \in Int /\ Kept \in Int
    BY TotalsTyped DEF TypeOK
  <2> QED
    BY <2>1, <2>2 DEF AccountInv, Account
<1> QED
  BY <1>1, <1>2, <1>3, TypedInv, UpInv, DocsAlways, PTL DEF Spec

-----------------------------------------------------------------------------
(* What is saved.  Between the map and its snapshot stands the call that     *)
(* holds the wallet's lock, and what it has taken is all that is missing.    *)

Unsaved == IF lock = NoCall THEN 0 ELSE Cost[mem[lock].strategy]

SavedInv ==
    /\ \A c \in Calls : pc[c] = "persist" <=> lock = c
    /\ saved = cash + Unsaved
    /\ Account <= Equity

EntriesOnly == ~Has({"strategy"} \cup Exits) /\ ~Fault("snapshot") /\ ~Fault("boot")

\* An entry takes the lock with its margin.
LEMMA DebitSaves ==
  ASSUME TypeOK, Paths, SavedInv, EntriesOnly, NEW c \in Calls, Debit(c)
  PROVE  (\A b \in Calls : pc'[b] = "persist" <=> lock' = b) /\ saved' = cash' + Unsaved'
<1>1. /\ Alone(c) /\ pc[c] = "debit" /\ lock = NoCall /\ saved' = saved
      /\ scene.kind[c] # "strategy"
  BY StepAlone DEF Debit, Step, EntriesOnly, Has
<1>2. PICK n \in Nat : n = Cost[mem[c].strategy]
  BY MemoryTyped, EntriesAssumption
<1>3. saved = cash /\ cash \in Int
  BY <1>1 DEF SavedInv, Unsaved, TypeOK
<1>4. \A b \in Calls \ {c} : pc'[b] # "persist"
  BY <1>1, EntriesAssumption DEF SavedInv, Alone
<1>5. CASE cash' = cash - n /\ lock' = c /\ Go(c, "persist") /\ UNCHANGED mem
  <2>1. pc'[c] = "persist"
    BY <1>5 DEF Go, TypeOK
  <2>2. Unsaved' = n
    BY <1>2, <1>5, EntriesAssumption DEF Unsaved
  <2> QED
    BY <1>1, <1>2, <1>3, <1>4, <1>5, <2>1, <2>2
<1>6. CASE Ends(c) /\ UNCHANGED <<cash, lock>>
  <2>1. pc'[c] = "done"
    BY <1>6, EndsTyped
  <2> QED
    BY <1>1, <1>3, <1>4, <1>6, <2>1, EntriesAssumption DEF Unsaved
<1> QED
  BY <1>1, <1>2, <1>5, <1>6 DEF Debit, Remaining

\* Its snapshot is written before it gives the lock back.
LEMMA PersistSaves ==
  ASSUME TypeOK, Paths, Up, SavedInv, EntriesOnly, NEW c \in Calls, Persist(c)
  PROVE  (\A b \in Calls : pc'[b] = "persist" <=> lock' = b) /\ saved' = cash' + Unsaved'
<1>1. /\ Alone(c) /\ lock = c /\ lock' = NoCall /\ cash' = cash /\ saved' = cash
      /\ scene.kind[c] \notin Exits
  BY StepAlone DEF Persist, Step, SavedInv, Snapshots, EntriesOnly, Has, Up, Connected
<1>2. pc'[c] = "create"
  BY <1>1 DEF Persist, Exits, Go, TypeOK
<1>3. \A b \in Calls : pc'[b] # "persist"
  BY <1>1, <1>2 DEF SavedInv, Alone
<1> QED
  BY <1>1, <1>3, EntriesAssumption DEF Unsaved, TypeOK

\* The other steps leave the wallet alone.
LEMMA OtherSaves ==
  ASSUME TypeOK, Paths, SavedInv, EntriesOnly, NEW c \in Calls, Start(c) \/ Step(c),
         ~Debit(c), ~Persist(c)
  PROVE  (\A b \in Calls : pc'[b] = "persist" <=> lock' = b) /\ saved' = cash' + Unsaved'
<1>1. scene.kind[c] \notin Exits /\ Alone(c)
  BY StepAlone DEF EntriesOnly, Has
<1>2. ~Credit(c)
  BY <1>1 DEF Credit, Paths, Placed, Leaving, At
<1>3. UNCHANGED wallet
  BY <1>2 DEF Start, Step, SettingsStart, AutoStart, DaemonTick, StrategyStart,
       OrderStart, MonitorStart, SquareStart, Halt, Resume, PanicStop, ResetLock, Load,
       Roll, Mock, Answer, DaemonCount, DaemonLimit, Propose, TurnedDown, Vet, Reserve, Place,
       Payable, Create, ExitRefused, Report, Close, Tally, Post, Relock, RelockFails,
       SwitchSaved, ForgetStreak
<1>4. pc[c] # "persist" /\ pc'[c] # "persist"
  <2>1. CASE Create(c)
    BY <2>1, EndsTyped DEF Create
  <2> QED
    BY <1>1, <2>1, AwayFromMoney
<1>5. lock # c
  BY <1>4 DEF SavedInv
<1>6. Unsaved' = Unsaved
  BY <1>1, <1>3, <1>5 DEF Unsaved, wallet, Alone, TypeOK
<1> QED
  BY <1>1, <1>3, <1>4, <1>5, <1>6 DEF SavedInv, wallet, Alone

\* What is saved and what trades hold is within the account.
LEMMA SavedWithin ==
  ASSUME TypeOK, Paths, DocsInv, SavedInv, EntriesOnly
  PROVE  /\ saved + Kept \in Int /\ saved + Kept <= Account /\ Account \in Int
         /\ Account <= Equity
<1> DEFINE h == [b \in Calls |-> Due(b)]
<1>1. \A b \in Calls : h[b] \in Nat
  BY AmountsTyped DEF Amounts, EntriesOnly, Has, Exits
<1>2. DueAll = Total(h, Calls) /\ \A b \in Calls : h[b] = Due(b)
  BY DEF DueAll
<1> HIDE DEF h
<1>3. DueAll \in Nat /\ \A b \in Calls : Due(b) <= DueAll
  BY <1>1, <1>2, TotalCovers, EntriesAssumption
<1>4. Unsaved \in Int /\ Unsaved <= DueAll
  <2>1. CASE lock = NoCall
    BY <1>3, <2>1 DEF Unsaved
  <2>2. CASE lock # NoCall
    <3>1. lock \in Calls /\ pc[lock] = "persist"
      BY <2>2 DEF SavedInv, TypeOK
    <3>2. scene.kind[lock] \in Entries
      BY <3>1 DEF Paths, Placed, Paying, At, EntriesOnly, Has
    <3>3. Due(lock) = Unsaved
      BY <2>2, <3>1, <3>2 DEF Due, Unsaved, Entries, Automatic
    <3>4. Due(lock) \in Int
      BY <3>1, AmountsTyped DEF Amounts
    <3> QED
      BY <1>3, <3>1, <3>3, <3>4
  <2> QED
    BY <2>1, <2>2
<1>5. Kept \in Int /\ cash \in Int
  BY TotalsTyped DEF TypeOK
<1> QED
  BY <1>3, <1>4, <1>5 DEF Account, SavedInv

LEMMA NextSaved ==
  ASSUME TypeOK, Paths, Up, DocsInv, TypeOK', Paths', DocsInv', EntriesOnly => SavedInv,
         [Next]_vars
  PROVE  (EntriesOnly => SavedInv)'
<1>1. scene' = scene
  BY NextScene
<1> SUFFICES ASSUME EntriesOnly PROVE SavedInv'
  BY <1>1 DEF EntriesOnly, Has, Fault
<1>2. SavedInv /\ Equity \in Int
  BY EntriesAssumption
<1>3. CASE UNCHANGED vars
  <2>1. Account' = Account
    BY <1>3, StutterAccount
  <2> QED
    BY <1>2, <1>3, <2>1 DEF SavedInv, Unsaved, vars, wallet
<1>4. ASSUME NEW c \in Calls, Start(c) \/ Step(c)
      PROVE  SavedInv'
  <2>0. ~RelockFails(c)
    BY DEF RelockFails, EntriesOnly, Has, Paths, Placed, Leaving, At
  <2>1. Account \in Int /\ Account' \in Int /\ Account' <= Account /\ Account <= Equity
    BY <1>1, <1>2, <1>4, <2>0, StepAccount DEF SavedInv
  <2>2. \A x, y, z \in Int : x <= y /\ y <= z => x <= z
    OBVIOUS
  <2>3. Account' <= Equity
    BY <1>2, <2>1, <2>2, Zenon
  <2>4. (\A b \in Calls : pc'[b] = "persist" <=> lock' = b) /\ saved' = cash' + Unsaved'
    BY <1>2, <1>4, DebitSaves, PersistSaves, OtherSaves
  <2> QED
    BY <2>3, <2>4 DEF SavedInv
<1>5. CASE (\E s \in Strategies : CooldownOver(s)) \/ LossesOver \/ NewDay \/ Restart
  <2>1. saved' = saved /\ saved \in Int
    BY <1>5 DEF CooldownOver, LossesOver, NewDay, Restart, wallet, TypeOK
  <2>2. saved + Kept \in Int /\ saved + Kept <= Account /\ Account \in Int /\ Account <= Equity
    BY <1>2, SavedWithin
  <2>3. CASE Restart
    <3>1. \A b \in Calls : pc'[b] # "persist"
      BY <2>3 DEF Restart, Busy, TypeOK
    <3>2. Account' = saved + Kept
      BY <2>3, RestAccount DEF Restart, EntriesOnly
    <3>3. Account' <= Equity
      <4>1. \A x, y, z \in Int : x <= y /\ y <= z => x <= z
        OBVIOUS
      <4> QED
        BY <1>2, <2>2, <3>2, <4>1, Zenon
    <3>4. lock' = NoCall /\ cash' = saved
      BY <2>3 DEF Restart, EntriesOnly
    <3>5. saved' = cash' + Unsaved'
      BY <2>1, <3>4 DEF Unsaved
    <3> QED
      BY <3>1, <3>3, <3>4, <3>5, EntriesAssumption DEF SavedInv
  <2>4. CASE ~Restart
    <3>1. UNCHANGED <<wallet, pc, mem>>
      BY <1>5, <2>4 DEF CooldownOver, LossesOver, NewDay
    <3>2. Account' = Account
      BY <1>5, <2>4, RestAccount
    <3> QED
      BY <1>2, <3>1, <3>2 DEF SavedInv, Unsaved, wallet
  <2> QED
    BY <2>3, <2>4
<1>6. ASSUME NEW d \in Calls, Recovered(d)
      PROVE  SavedInv'
  <2>1. Account' = Account
    BY <1>6, RecoveredAccount
  <2>2. UNCHANGED <<wallet, pc, mem>>
    BY <1>6 DEF Recovered
  <2> QED
    BY <1>2, <2>1, <2>2 DEF SavedInv, Unsaved, wallet
<1>7. ~Booting
  BY DEF Booting, Connect, SwitchRestored, Hydrated, Up, EntriesOnly
<1> QED
  BY <1>3, <1>4, <1>5, <1>6, <1>7 DEF Next, Booting

\* A crash at any point makes no money, for any entries of the kinds that save
\* what they take, none of which comes before the wallets are read: what a restart
\* finds and what open trades release are never more than there was, because the
\* lock's holder alone is ahead of the snapshot.
THEOREM CrashesMakeNoMoney == Spec => []SavedCovers
<1>1. Init => (EntriesOnly => SavedInv)
  <2> SUFFICES ASSUME Init PROVE SavedInv
    OBVIOUS
  <2>1. Account = Equity /\ Equity \in Nat
    BY InitAccount, EntriesAssumption
  <2> QED
    BY <2>1, EntriesAssumption DEF Init, SavedInv, Unsaved
<1>2. /\ TypeOK /\ Paths /\ Up /\ DocsInv /\ TypeOK' /\ Paths' /\ DocsInv'
      /\ (EntriesOnly => SavedInv) /\ [Next]_vars
      => (EntriesOnly => SavedInv)'
  BY NextSaved
<1>3. TypeOK /\ Paths /\ DocsInv /\ (EntriesOnly => SavedInv) => SavedCovers
  <2> SUFFICES ASSUME TypeOK, Paths, DocsInv, SavedInv, EntriesOnly
               PROVE  saved + Kept <= Equity
    BY DEF SavedCovers, EntriesOnly
  <2>1. saved + Kept \in Int /\ saved + Kept <= Account /\ Account \in Int /\ Account <= Equity
    BY SavedWithin
  <2> QED
    BY <2>1, EntriesAssumption
<1> QED
  BY <1>1, <1>2, <1>3, TypedInv, UpInv, DocsAlways, PTL DEF Spec

-----------------------------------------------------------------------------
(* The day's loss.                                                           *)

\* Of calls that come one after the other, one at most is under way.
Single == scene.apart => \A b, c \in Calls : Busy(b) /\ Busy(c) => b = c

\* A call that takes a step has been alone, and so it stays.
LEMMA AloneBusy ==
  ASSUME TypeOK, Paths, Single, scene.apart, NEW c \in Calls, Start(c) \/ Step(c)
  PROVE  /\ Alone(c)
         /\ \A b \in Calls \ {c} : ~Busy(b) /\ ~Busy(b)'
         /\ IF Busy(c) THEN Step(c) ELSE AtRest /\ Start(c)
<1>1. Alone(c)
  BY StepAlone
<1>2. CASE Start(c)
  <2>1. AtRest /\ pc[c] = "idle"
    BY <1>2 DEF Start, Starts, SettingsStart, AutoStart, DaemonTick, StrategyStart,
         OrderStart, MonitorStart, SquareStart, Halt, Resume, PanicStop, ResetLock
  <2> QED
    BY <1>1, <1>2, <2>1 DEF AtRest, Alone, Busy
<1>3. CASE Step(c)
  <2>1. Busy(c)
    BY <1>3 DEF Busy, Step, Load,
         Roll, Mock, Answer, DaemonCount, DaemonLimit, Propose, TurnedDown, Vet, Reserve, Place,
         Payable, Debit, Persist, Create, Credit, ExitRefused, Report, Close, Tally, Post,
         Relock, RelockFails,
         SwitchSaved, ForgetStreak
  <2>2. \A b \in Calls \ {c} : ~Busy(b)
    BY <2>1 DEF Single
  <2> QED
    BY <1>1, <1>3, <2>1, <2>2 DEF Alone, Busy
<1> QED
  BY <1>2, <1>3

LEMMA NextSingle ==
  ASSUME TypeOK, Paths, Single, [Next]_vars
  PROVE  Single'
<1>1. scene' = scene
  BY NextScene
<1>2. CASE UNCHANGED vars
  BY <1>2 DEF vars, Single, Busy
<1>3. ASSUME NEW c \in Calls, Start(c) \/ Step(c)
      PROVE  Single'
  BY <1>1, <1>3, AloneBusy DEF Single
<1>4. CASE (\E s \in Strategies : CooldownOver(s)) \/ LossesOver \/ NewDay
  BY <1>4 DEF CooldownOver, LossesOver, NewDay, Single, AtRest, Busy
<1>5. CASE Restart
  BY <1>5 DEF Restart, Single, Busy, TypeOK
<1>6. CASE Recovering \/ Booting
  <2>1. UNCHANGED pc
    BY <1>6 DEF Recovering, Recovered, Booting, Connect, SwitchRestored, Hydrated
  <2> QED
    BY <1>1, <2>1 DEF Single, Busy
<1> QED
  BY <1>1, <1>2, <1>3, <1>4, <1>5, <1>6 DEF Next, Recovering, Booting

\* What a trade has realized if it is closed.
Result(d) == IF trade[d].status = "CLOSED" THEN trade[d].pnl ELSE 0

TodayInv == realized = RealizedToday

\* No trade's result changes, nor does the day's.
LEMMA ResultsSame ==
  ASSUME \A d \in Calls : Result(d)' = Result(d)
  PROVE  RealizedToday' = RealizedToday
<1> DEFINE f == [d \in Calls |-> Result(d)]
           g == [d \in Calls |-> Result(d)']
<1>1. RealizedToday = Total(f, Calls) /\ RealizedToday' = Total(g, Calls)
  BY DEF RealizedToday, Result
<1>2. \A d \in Calls : f[d] = g[d]
  OBVIOUS
<1> HIDE DEF f, g
<1> QED
  BY <1>1, <1>2, TotalSame, EntriesAssumption

\* One trade's changes.
LEMMA ResultsMove ==
  ASSUME TypeOK, TypeOK', NEW d \in Calls, \A e \in Calls \ {d} : Result(e)' = Result(e)
  PROVE  RealizedToday' = RealizedToday - Result(d) + Result(d)'
<1> DEFINE f == [e \in Calls |-> Result(e)]
           g == [e \in Calls |-> Result(e)']
<1>1. RealizedToday = Total(f, Calls) /\ RealizedToday' = Total(g, Calls)
  BY DEF RealizedToday, Result
<1>2. \A e \in Calls : f[e] \in Int /\ g[e] \in Int
  BY DEF Result, TypeOK, Trade
<1>3. \A e \in Calls \ {d} : f[e] = g[e]
  OBVIOUS
<1>4. f[d] = Result(d) /\ g[d] = Result(d)'
  OBVIOUS
<1> HIDE DEF f, g
<1>5. Total(g, Calls) = Total(f, Calls) - f[d] + g[d]
  BY <1>2, <1>3, TotalChange, EntriesAssumption
<1> QED
  BY <1>1, <1>4, <1>5

\* Of the trade an exit reports nothing was realized before.
LEMMA RealizedOnce ==
  ASSUME TypeOK, Paths, DocsInv, NEW c \in Calls,
         Report(c) \/ (Close(c) /\ scene.kind[c] = "monitor")
  PROVE  /\ mem[c].doc \in Calls /\ trade[mem[c].doc].pnl = 0
         /\ Result(mem[c].doc) = 0 /\ mem[c].pnl \in Int
         /\ realized' = realized + mem[c].pnl
         /\ trade'[mem[c].doc].pnl = mem[c].pnl
         /\ trade'[mem[c].doc].status = "CLOSED"
         /\ \A e \in Calls : e # mem[c].doc => trade'[e] = trade[e]
<1>1. Realized(c) /\ pc[c] \in {"report", "close"} /\ scene.kind[c] \in Exits
  BY DEF Report, Close, Exits, Paths, Placed, Leaving, At
<1>2. InHand(c)
  BY <1>1 DEF DocsInv, Leaves, Busy
<1>3. mem[c].doc \in Calls /\ trade[mem[c].doc].pnl = 0
  BY <1>2 DEF InHand, Unreported, Report, DocsInv, Unrealized
<1>4. mem[c].pnl \in Int
  BY MemoryTyped DEF Memory
<1>5. realized' = realized + mem[c].pnl
  BY <1>1, <1>3, <1>4 DEF Realized, TypeOK
<1>6. /\ trade'[mem[c].doc].pnl = mem[c].pnl
      /\ trade'[mem[c].doc].status = "CLOSED"
      /\ \A e \in Calls : e # mem[c].doc => trade'[e] = trade[e]
  BY <1>1, <1>3 DEF Realized, TypeOK, Trade
<1> QED
  BY <1>3, <1>4, <1>5, <1>6 DEF Result

\* Every other step of a call leaves results as they are.
LEMMA ResultsKept ==
  ASSUME TypeOK, Paths, DocsInv, NEW c \in Calls, Start(c) \/ Step(c),
         ~Report(c), ~(Close(c) /\ scene.kind[c] = "monitor")
  PROVE  /\ realized' = realized
         /\ \A d \in Calls : /\ Result(d)' = Result(d)
                             /\ trade'[d].pnl = trade[d].pnl
<1>1. CASE Create(c)
  <2>1. trade[c].status = "none" /\ trade[c].pnl = 0
    BY <1>1 DEF Create, DocsInv, Written, Unrealized
  <2>2. \/ trade' = trade
        \/ /\ \A d \in Calls : d # c => trade'[d] = trade[d]
           /\ trade'[c].status = "OPEN" /\ trade'[c].pnl = 0
    BY <1>1 DEF Create, TypeOK
  <2>3. realized' = realized
    BY <1>1 DEF Create
  <2> QED
    BY <2>1, <2>2, <2>3 DEF Result
<1>2. CASE MonitorStart(c) \/ SquareStart(c)
  <2>1. PICK d \in Held, t \in {"EXITING", "CLOSED"} : trade' = [trade EXCEPT ![d].status = t]
    BY <1>2 DEF MonitorStart, SquareStart, Open, Held
  <2>2. trade[d].pnl = 0 /\ d \in Calls
    BY DEF Held, DocsInv, Unrealized
  <2>3. \A e \in Calls : /\ e # d => trade'[e] = trade[e]
                         /\ trade'[e].pnl = trade[e].pnl
    BY <2>1, <2>2 DEF TypeOK, Trade
  <2>4. realized' = realized
    BY <1>2 DEF MonitorStart, SquareStart
  <2>5. \A e \in Calls : Result(e)' = Result(e)
    <3>1. Result(d) = 0 /\ Result(d)' = 0
      BY <2>2, <2>3 DEF Result
    <3>2. \A e \in Calls \ {d} : Result(e)' = Result(e)
      BY <2>3 DEF Result
    <3> QED
      BY <3>1, <3>2
  <2> QED
    BY <2>3, <2>4, <2>5
<1>4. CASE trade' = Reopened(mem[c].doc) /\ (ExitRefused(c) \/ RelockFails(c))
  <2>1. realized' = realized /\ scene.kind[c] \in Exits /\ pc[c] \in {"credit", "relock"}
    BY <1>4 DEF ExitRefused, RelockFails, Exits, Paths, Placed, Leaving, At
  <2>2. mem[c].doc \in Calls /\ InHand(c)
    BY <2>1 DEF DocsInv, InHand, Leaves, Busy
  <2>3. PICK d \in Calls : d = mem[c].doc
    BY <2>2
  <2>4. trade' = [trade EXCEPT ![d].status = "OPEN", ![d].again = TRUE]
    BY <1>4, <2>3 DEF Reopened
  <2>5. /\ \A e \in Calls : /\ e # d => trade'[e] = trade[e]
                            /\ trade'[e].pnl = trade[e].pnl
        /\ trade'[d].status = "OPEN"
    BY <2>4 DEF TypeOK, Trade
  <2>6. Result(d) = 0
    <3>1. CASE scene.kind[c] = "monitor"
      BY <2>2, <2>3, <3>1 DEF InHand, Result
    <3>2. CASE scene.kind[c] = "square"
      <4>1. RelockFails(c) /\ trade' = trade
        BY <1>4, <3>2 DEF ExitRefused, RelockFails
      <4> QED
        BY <2>5, <4>1 DEF Result
    <3> QED
      BY <2>1, <3>1, <3>2 DEF Exits
  <2> QED
    BY <2>1, <2>5, <2>6 DEF Result
<1>3. CASE /\ ~Create(c) /\ ~MonitorStart(c) /\ ~SquareStart(c)
           /\ ~(trade' = Reopened(mem[c].doc) /\ (ExitRefused(c) \/ RelockFails(c)))
  <2>1. trade' = trade /\ realized' = realized
    BY <1>3 DEF documents, Start, Step, SettingsStart, AutoStart, DaemonTick, StrategyStart,
         OrderStart, Halt, Resume, PanicStop, ResetLock, Load,
         Roll, Mock, Answer, DaemonCount, DaemonLimit, Propose, TurnedDown, Vet, Reserve, Place,
         Payable, Debit, Persist, Credit, ExitRefused, Close, Tally, Post, Relock, RelockFails,
         SwitchSaved, ForgetStreak
  <2> QED
    BY <2>1 DEF Result
<1> QED
  BY <1>1, <1>2, <1>3, <1>4

LEMMA NextToday ==
  ASSUME TypeOK, TypeOK', Paths, DocsInv, TodayInv, [Next]_vars
  PROVE  TodayInv'
<1> USE DEF TodayInv
<1>1. CASE UNCHANGED vars
  BY <1>1, ResultsSame DEF vars, documents, Result
<1>2. ASSUME NEW c \in Calls, Report(c) \/ (Close(c) /\ scene.kind[c] = "monitor")
      PROVE  TodayInv'
  <2>1. PICK d \in Calls, n \in Int : d = mem[c].doc /\ n = mem[c].pnl
    BY <1>2, RealizedOnce
  <2>2. /\ Result(d) = 0 /\ realized' = realized + n
        /\ trade'[d].pnl = n /\ trade'[d].status = "CLOSED"
        /\ \A e \in Calls : e # d => trade'[e] = trade[e]
    BY <1>2, <2>1, RealizedOnce
  <2>3. Result(d)' = n /\ \A e \in Calls \ {d} : Result(e)' = Result(e)
    BY <2>2 DEF Result
  <2>4. RealizedToday' = RealizedToday - Result(d) + Result(d)'
    BY <2>3, ResultsMove
  <2>5. realized \in Int
    BY DEF TypeOK
  <2> QED
    BY <2>2, <2>3, <2>4, <2>5
<1>3. ASSUME NEW c \in Calls, Start(c) \/ Step(c),
             ~Report(c), ~(Close(c) /\ scene.kind[c] = "monitor")
      PROVE  TodayInv'
  BY <1>3, ResultsKept, ResultsSame
<1>4. CASE NewDay
  <2>1. \A d \in Calls : trade'[d].pnl = 0
    BY <1>4 DEF NewDay, TypeOK, Trade
  <2> DEFINE g == [d \in Calls |-> Result(d)']
  <2>2. \A d \in Calls : g[d] = 0
    BY <2>1 DEF Result
  <2>3. RealizedToday' = Total(g, Calls)
    BY DEF RealizedToday, Result
  <2> HIDE DEF g
  <2>4. RealizedToday' = 0
    BY <2>2, <2>3, TotalZero, EntriesAssumption
  <2> QED
    BY <1>4, <2>4 DEF NewDay
<1>5. CASE (\E s \in Strategies : CooldownOver(s)) \/ LossesOver \/ Restart
  BY <1>5, ResultsSame DEF CooldownOver, LossesOver, Restart, documents, Result
<1>6. ASSUME NEW d \in Calls, Recovered(d)
      PROVE  TodayInv'
  <2>1. /\ trade' = [trade EXCEPT ![d].status = "OPEN", ![d].again = TRUE]
        /\ trade[d].status = "EXITING" /\ realized' = realized
    BY <1>6 DEF Recovered, Reopened
  <2>2. /\ \A e \in Calls : e # d => trade'[e] = trade[e]
        /\ trade'[d].status = "OPEN"
    BY <2>1 DEF TypeOK, Trade
  <2>3. \A e \in Calls : Result(e)' = Result(e)
    <3>1. Result(d) = 0 /\ Result(d)' = 0
      BY <2>1, <2>2 DEF Result
    <3>2. \A e \in Calls \ {d} : Result(e)' = Result(e)
      BY <2>2 DEF Result
    <3> QED
      BY <3>1, <3>2
  <2> QED
    BY <2>1, <2>3, ResultsSame
<1>7. CASE Booting
  BY <1>7, ResultsSame DEF Booting, Connect, SwitchRestored, Hydrated, documents, Result
<1> QED
  BY <1>1, <1>2, <1>3, <1>4, <1>5, <1>6, <1>7 DEF Next, Booting

\* Only Load leads to the roll-over, of settings of another day.
LEMMA RollsFromLoad ==
  ASSUME TypeOK, Paths, NEW c \in Calls, Start(c) \/ Step(c), pc'[c] = "roll"
  PROVE  Load(c) /\ ~settings.current /\ ~mem'[c].lock
<1>1. \A l \in Pcs : Go(c, l) => pc'[c] = l
  BY DEF Go, TypeOK
<1>2. mem[c] \in Memory /\ mem[c].next \in Loaded
  BY MemoryTyped
<1>3. CASE Load(c)
  <2>1. ~settings.current
    BY <1>1, <1>2, <1>3 DEF Load, Pcs, Loaded
  <2>2. mem' = [mem EXCEPT ![c] = [mem[c] EXCEPT !.lock = LockToday, !.unlock = LockPast,
                                                 !.panic = settings.panic]]
    BY <1>2, <1>3 DEF Load, TypeOK
  <2>3. ~LockToday
    BY <2>1 DEF LockToday
  <2>4. mem'[c].lock = LockToday
    BY <1>2, <2>2 DEF TypeOK, Memory
  <2> QED
    BY <1>3, <2>1, <2>3, <2>4
<1>4. CASE ~Load(c)
  <2>1. \/ Ends(c) \/ Refused(c)
        \/ \E l \in Pcs \ {"roll"} : Go(c, l)
    <3>1. CASE Roll(c) \/ Mock(c)
      BY <1>2, <3>1 DEF Roll, Mock, Loaded, Pcs
    <3>0. \A s \in scene.signals : Proposal(c, s) => Go(c, "load")
      BY DEF Proposal, Ask
    <3>5. CASE StrategyStart(c) \/ Propose(c)
      BY <3>0, <3>5 DEF StrategyStart, Propose, Pcs
    <3>2. CASE Start(c) /\ ~StrategyStart(c)
      BY <3>2 DEF Start, SettingsStart, AutoStart, Enter, DaemonTick,
           OrderStart, MonitorStart, SquareStart, Halt, Resume, PanicStop, ResetLock, Ask, Pcs
    <3>3. CASE \/ Answer(c) \/ DaemonCount(c) \/ DaemonLimit(c) \/ TurnedDown(c)
               \/ Vet(c) \/ Reserve(c) \/ Place(c) \/ Payable(c) \/ Debit(c)
      BY <3>3 DEF Answer, DaemonCount, DaemonLimit, Enter, TurnedDown, Vet,
                  Reserve, Place, Payable, Debit, Ask, Pcs
    <3>4. CASE \/ Persist(c) \/ Create(c) \/ Credit(c) \/ Report(c) \/ Close(c)
               \/ Tally(c) \/ Post(c) \/ Relock(c) \/ SwitchSaved(c) \/ ForgetStreak(c)
               \/ ExitRefused(c) \/ RelockFails(c)
      BY <3>4 DEF Persist, Create, Credit, ExitRefused, Report, Close, Tally, Post, Outcome,
                  Relock, RelockFails,
                  SwitchSaved, ForgetStreak, Ask, Pcs
    <3> QED
      BY <1>4, <3>1, <3>2, <3>3, <3>4, <3>5 DEF Step
  <2> QED
    BY <1>1, <2>1, EndsTyped
<1> QED
  BY <1>3, <1>4

\* The days that LossLocks is about.
Watched ==
    /\ scene.apart /\ ~Has({"reset"}) /\ ~Fault("read") /\ ~Fault("settings")
    /\ Has({"square"}) => ~Fault("crash") /\ \A d \in Calls : trade[d].pnl <= 0

Recording(c) == pc[c] \in {"tally", "post", "relock"}

\* What a square-off has saved and not counted yet, and what a monitor has counted
\* and not saved yet.
Uncounted(c) == IF scene.kind[c] = "square" /\ At(c, {"tally", "post"}) THEN mem[c].pnl ELSE 0
Ahead(c) == IF scene.kind[c] = "monitor" /\ pc[c] \in {"relock", "close"} THEN mem[c].pnl ELSE 0

\* No loss escapes the day's sum, nor the day its lock: while no call is under way,
LossAtRest ==
    /\ risk.known => risk.sum <= realized
    /\ realized <= -MaxDailyLoss => settings.lock
    /\ ~settings.current => realized = 0

\* while call c is,
SumAt(c) ==
    /\ risk.known => risk.sum <= realized - Uncounted(c) + Ahead(c)
    /\ pc[c] = "post" => mem[c].sum <= realized
    /\ scene.kind[c] = "square" /\ At(c, {"tally", "post"}) => mem[c].pnl <= 0

SettingsAt(c) ==
    /\ Recording(c) \/ pc[c] = "close" => settings.current
    /\ Recording(c) /\ mem[c].lock => settings.lock
    /\ pc[c] = "roll" => ~settings.current /\ ~mem[c].lock
    /\ ~settings.current => realized - Uncounted(c) = 0

LockedAt(c) ==
    /\ realized - Uncounted(c) <= -MaxDailyLoss =>
           settings.lock \/ (pc[c] = "relock" /\ scene.kind[c] = "square")
    /\ realized + Ahead(c) <= -MaxDailyLoss /\ pc[c] = "close" => settings.lock

LossAt(c) == SumAt(c) /\ SettingsAt(c) /\ LockedAt(c)

LossInv ==
    /\ AtRest => LossAtRest
    /\ \A c \in Calls : Busy(c) => LossAt(c)

\* A win that is realized ends the watch of a day with square-offs.
LEMMA WatchedBefore ==
  ASSUME TypeOK, Paths, DocsInv, NEW c \in Calls, Start(c) \/ Step(c), scene' = scene, Watched'
  PROVE  Watched
<1> SUFFICES ASSUME Has({"square"}), NEW d \in Calls PROVE trade[d].pnl <= 0
  BY DEF Watched, Has, Fault
<1>1. trade'[d].pnl <= 0
  BY DEF Watched, Has
<1>2. CASE Report(c) \/ (Close(c) /\ scene.kind[c] = "monitor")
  <2>1. /\ trade[mem[c].doc].pnl = 0
        /\ \A e \in Calls : e # mem[c].doc => trade'[e] = trade[e]
    BY <1>2, RealizedOnce
  <2> QED
    BY <1>1, <2>1
<1>3. CASE ~Report(c) /\ ~(Close(c) /\ scene.kind[c] = "monitor")
  BY <1>1, <1>3, ResultsKept
<1> QED
  BY <1>2, <1>3

\* A call that is no exit counts and saves no loss.
LEMMA NoExitNoLoss ==
  ASSUME TypeOK, Paths, NEW c \in Calls, scene.kind[c] \notin Exits
  PROVE  /\ Uncounted(c) = 0 /\ Ahead(c) = 0 /\ ~Recording(c)
         /\ pc[c] # "close" /\ pc[c] # "post"
BY DEF Uncounted, Ahead, Recording, Exits, Paths, Placed, Leaving, At

OthersNoLoss ==
    \A c \in Calls : scene.kind[c] \notin Exits =>
         /\ Uncounted(c) = 0 /\ Ahead(c) = 0 /\ ~Recording(c)
         /\ pc[c] # "close" /\ pc[c] # "post"

LEMMA NoLossOfOthers == TypeOK /\ Paths => OthersNoLoss
BY NoExitNoLoss DEF OthersNoLoss

\* What the limits are after a step of a call that is no exit, or of a start.
LEMMA LimitsLeft ==
  ASSUME TypeOK, Paths, DocsInv, NEW c \in Calls, Start(c) \/ Step(c), ~Has({"reset"}),
         scene.kind[c] \notin Exits \/ Start(c), ~Roll(c)
  PROVE  /\ risk'.known = risk.known /\ risk'.sum = risk.sum /\ realized' = realized
         /\ settings'.current = settings.current /\ settings'.lock = settings.lock
<1>1. ~Report(c) /\ ~(Close(c) /\ scene.kind[c] = "monitor") /\ ~Tally(c) /\ ~Post(c) /\ ~Relock(c)
  <2>1. CASE scene.kind[c] \notin Exits
    BY <2>1 DEF Report, Close, Tally, Post, Relock, RelockFails, Exits, Paths, Placed, Leaving, At
  <2>2. CASE Start(c)
    <3>1. pc[c] = "idle"
      BY <2>2 DEF Start, Starts, SettingsStart, AutoStart, DaemonTick, StrategyStart,
           OrderStart, MonitorStart, SquareStart, Halt, Resume, PanicStop, ResetLock
    <3> QED
      BY <3>1 DEF Report, Close, Tally, Post, Relock
  <2> QED
    BY <2>1, <2>2
<1>2. realized' = realized
  BY <1>1, ResultsKept
<1>3. ~ResetLock(c)
  BY DEF ResetLock, Starts, Has
<1>4. \/ UNCHANGED <<settings, risk>>
      \/ Load(c) \/ PanicStop(c) \/ ForgetStreak(c)
  BY <1>1, <1>3 DEF Start, Step, limits, SettingsStart, AutoStart, DaemonTick, StrategyStart,
       OrderStart, MonitorStart, SquareStart, Halt, Resume, Mock, RelockFails,
       Answer, DaemonCount, DaemonLimit, Propose, TurnedDown, Vet, Reserve, Place,
       Payable, Debit, Persist, Create, Credit, ExitRefused, Close, SwitchSaved
<1>5. CASE Load(c) \/ PanicStop(c) \/ ForgetStreak(c)
  BY <1>2, <1>5 DEF Load, PanicStop, ForgetStreak, TypeOK
<1> QED
  BY <1>2, <1>4, <1>5

\* A call that is no exit, or begins, leaves the day as it is.
LEMMA EntryLoss ==
  ASSUME TypeOK, Paths, DocsInv, TypeOK', Paths', Single, LossInv, Watched, scene' = scene,
         NEW c \in Calls, Start(c) \/ Step(c), scene.kind[c] \notin Exits \/ Start(c), ~Roll(c)
  PROVE  LossInv'
<1>1. /\ Alone(c) /\ \A b \in Calls \ {c} : ~Busy(b) /\ ~Busy(b)'
      /\ IF Busy(c) THEN Step(c) ELSE AtRest /\ Start(c)
  BY AloneBusy DEF Watched
<1>2. /\ risk'.known = risk.known /\ risk'.sum = risk.sum /\ realized' = realized
      /\ settings'.current = settings.current /\ settings'.lock = settings.lock
  BY LimitsLeft DEF Watched
<1>3. realized \in Int /\ risk.sum \in Int
  BY DEF TypeOK
<1>4. LossAtRest
  <2>1. CASE ~Busy(c)
    BY <1>1, <2>1 DEF LossInv
  <2>2. CASE Busy(c)
    <3>1. scene.kind[c] \notin Exits
      <4>1. ~Start(c)
        BY <2>2 DEF Busy, Start, Starts, SettingsStart, AutoStart, DaemonTick, StrategyStart,
             OrderStart, MonitorStart, SquareStart, Halt, Resume, PanicStop, ResetLock
      <4> QED
        BY <4>1
    <3>2. LossAt(c)
      BY <2>2 DEF LossInv
    <3> QED
      BY <1>3, <3>1, <3>2, NoExitNoLoss
         DEF LossAt, SumAt, SettingsAt, LockedAt, LossAtRest, Recording
  <2> QED
    BY <2>1, <2>2
<1>5. LossAtRest'
  BY <1>2, <1>4 DEF LossAtRest
<1>6. /\ Uncounted(c)' = 0 /\ Ahead(c)' = 0 /\ ~Recording(c)'
      /\ pc'[c] # "close" /\ pc'[c] # "post"
      /\ ~(scene'.kind[c] = "square" /\ At(c, {"tally", "post"})')
  <2>1. CASE scene.kind[c] \notin Exits
    <3>1. OthersNoLoss'
      BY NoLossOfOthers, PTL
    <3> QED
      BY <2>1, <3>1 DEF OthersNoLoss, Exits
  <2>2. CASE scene.kind[c] \in Exits
    <3>1. pc'[c] = "credit"
      BY <2>2 DEF Start, Starts, SettingsStart, AutoStart, DaemonTick, StrategyStart,
             OrderStart, MonitorStart, SquareStart, Halt, Resume, PanicStop, ResetLock,
             Exits, Entries, Automatic, Switching, Go, TypeOK
    <3> QED
      BY <3>1 DEF Uncounted, Ahead, Recording, At
  <2> QED
    BY <2>1, <2>2
<1>7. LossAt(c)'
  <2>1. pc'[c] = "roll" => ~settings'.current /\ ~mem'[c].lock
    BY <1>2, RollsFromLoad
  <2> QED
    BY <1>2, <1>3, <1>5, <1>6, <2>1 DEF LossAt, SumAt, SettingsAt, LockedAt, LossAtRest
<1> QED
  BY <1>1, <1>5, <1>7 DEF LossInv

\* The day depends on the one call that is under way.
LEMMA LossAlone ==
  ASSUME TypeOK, Paths, Single, LossInv, Watched, scene' = scene, NEW c \in Calls, Step(c)
  PROVE  /\ Busy(c) /\ SumAt(c) /\ SettingsAt(c) /\ LockedAt(c)
         /\ Busy(c)' /\ LossAt(c)' => LossInv'
         /\ ~Busy(c)' /\ LossAtRest' => LossInv'
<1>1. Busy(c)
  BY DEF Busy, Step, Load,
       Roll, Mock, Answer, DaemonCount, DaemonLimit, Propose, TurnedDown, Vet, Reserve, Place,
       Payable, Debit, Persist, Create, Credit, ExitRefused, Report, Close, Tally, Post, Relock,
       RelockFails, SwitchSaved, ForgetStreak
<1>2. \A b \in Calls \ {c} : ~Busy(b)'
  BY AloneBusy DEF Watched
<1>3. LossAt(c)
  BY <1>1 DEF LossInv
<1>4. Busy(c)' => ~AtRest'
  BY DEF AtRest
<1> QED
  BY <1>1, <1>2, <1>3, <1>4 DEF LossAt, LossInv

\* The roll-over unlocks a day on which nothing was realized yet.
LEMMA RollLoss ==
  ASSUME TypeOK, Paths, DocsInv, Single, LossInv, Watched, scene' = scene,
         NEW c \in Calls, Roll(c)
  PROVE  LossInv'
<1>1. /\ Busy(c) /\ SumAt(c) /\ SettingsAt(c) /\ LockedAt(c)
      /\ Busy(c)' /\ LossAt(c)' => LossInv'
  BY LossAlone DEF Step
<1>2. /\ mem' = mem /\ risk' = risk /\ realized' = realized /\ mem[c].next \in Loaded
      /\ pc[c] = "roll" /\ pc'[c] = mem[c].next /\ settings'.current
  BY MemoryTyped DEF Roll, Mock, documents, Go, TypeOK
<1>3. /\ Uncounted(c)' = Uncounted(c) /\ Ahead(c)' = Ahead(c)
      /\ At(c, {"tally", "post"})' <=> At(c, {"tally", "post"})
  BY <1>2 DEF Uncounted, Ahead, At, Loaded
<1>4. realized - Uncounted(c) = 0 /\ ~mem[c].lock
  BY <1>1, <1>2 DEF SettingsAt, Roll
<1>5. Busy(c)' /\ pc'[c] \notin {"close", "relock", "roll", "post"}
  BY <1>2 DEF Busy, Loaded
<1>6. ~(0 <= -MaxDailyLoss)
  BY EntriesAssumption
<1>7. SumAt(c)'
  BY <1>1, <1>2, <1>3, <1>5 DEF SumAt
<1>8. SettingsAt(c)'
  BY <1>2, <1>4, <1>5 DEF SettingsAt
<1>9. LockedAt(c)'
  BY <1>2, <1>3, <1>4, <1>5, <1>6 DEF LockedAt
<1> QED
  BY <1>1, <1>5, <1>7, <1>8, <1>9 DEF LossAt

\* An exit reads the lock of the day.
LEMMA LoadLoss ==
  ASSUME TypeOK, Paths, DocsInv, Single, LossInv, Watched, scene' = scene,
         NEW c \in Calls, Load(c), scene.kind[c] \in Exits
  PROVE  LossInv'
<1>1. /\ Busy(c) /\ SumAt(c) /\ SettingsAt(c) /\ LockedAt(c)
      /\ Busy(c)' /\ LossAt(c)' => LossInv'
  BY LossAlone DEF Step
<1>2. pc[c] = "load" /\ mem[c].next = "tally" /\ mem[c] \in Memory
  BY <1>1, MemoryTyped DEF Load, DocsInv, Leaves, InHand, At, ExitStops, Unreported, Loaded
<1>3. mem' = [mem EXCEPT ![c] = [mem[c] EXCEPT !.lock = LockToday, !.unlock = LockPast,
                                               !.panic = settings.panic]]
  BY <1>2 DEF Load, TypeOK
<1>4. /\ mem'[c].next = "tally" /\ mem'[c].pnl = mem[c].pnl /\ mem'[c].lock = LockToday
  BY <1>2, <1>3 DEF TypeOK, Memory
<1>5. /\ settings' = settings /\ realized' = realized
      /\ risk'.known = risk.known /\ risk'.sum = risk.sum
      /\ pc'[c] = IF settings.current THEN "tally" ELSE "roll"
  BY <1>2 DEF Load, documents, Go, TypeOK
<1>6. /\ Uncounted(c)' = Uncounted(c) /\ Ahead(c)' = Ahead(c)
      /\ At(c, {"tally", "post"})' /\ At(c, {"tally", "post"})
  BY <1>2, <1>4, <1>5 DEF Uncounted, Ahead, At
<1>7. Busy(c)' /\ pc'[c] \notin {"close", "relock", "post"}
  BY <1>5 DEF Busy
<1>8. SumAt(c)'
  BY <1>1, <1>4, <1>5, <1>6, <1>7 DEF SumAt
<1>9. SettingsAt(c)'
  BY <1>1, <1>4, <1>5, <1>6 DEF SettingsAt, Recording, LockToday
<1>10. LockedAt(c)'
  BY <1>1, <1>2, <1>5, <1>6, <1>7 DEF LockedAt
<1> QED
  BY <1>1, <1>7, <1>8, <1>9, <1>10 DEF LossAt

\* Before it saves a result, an exit changes nothing of the day.
LEMMA CreditLoss ==
  ASSUME TypeOK, Paths, DocsInv, Single, LossInv, Watched, scene' = scene,
         NEW c \in Calls, Credit(c) \/ Persist(c), scene.kind[c] \in Exits
  PROVE  LossInv'
<1>1. /\ Busy(c) /\ SumAt(c) /\ SettingsAt(c) /\ LockedAt(c)
      /\ Busy(c)' /\ LossAt(c)' => LossInv'
  BY LossAlone DEF Step
<1>2. /\ settings' = settings /\ realized' = realized /\ risk' = risk
      /\ pc[c] \in {"credit", "persist"}
      /\ \/ pc'[c] \in {"persist", "report"}
         \/ pc'[c] = "load" /\ scene.kind[c] = "monitor"
  BY DEF Credit, ExitRefused, Persist, Ask, documents, limits, Go, TypeOK, Exits
<1>3. /\ Uncounted(c) = 0 /\ Ahead(c) = 0 /\ Uncounted(c)' = 0 /\ Ahead(c)' = 0
      /\ ~(scene'.kind[c] = "square" /\ At(c, {"tally", "post"})')
  BY <1>2 DEF Uncounted, Ahead, At
<1>4. Busy(c)'
  BY <1>2 DEF Busy
<1>5. SumAt(c)'
  BY <1>1, <1>2, <1>3 DEF SumAt
<1>6. SettingsAt(c)'
  BY <1>1, <1>2, <1>3 DEF SettingsAt, Recording
<1>7. LockedAt(c)'
  BY <1>1, <1>2, <1>3 DEF LockedAt
<1> QED
  BY <1>1, <1>4, <1>5, <1>6, <1>7 DEF LossAt

\* The square-off saves a result that it has not counted.
LEMMA ReportLoss ==
  ASSUME TypeOK, Paths, DocsInv, Single, LossInv, Watched, Watched', scene' = scene,
         NEW c \in Calls, Report(c)
  PROVE  LossInv'
<1>1. /\ Busy(c) /\ SumAt(c) /\ SettingsAt(c) /\ LockedAt(c)
      /\ Busy(c)' /\ LossAt(c)' => LossInv'
  BY LossAlone DEF Step
<1>2. pc[c] = "report" /\ scene.kind[c] \in Exits /\ scene.kind[c] = "square"
  BY <1>1 DEF Report, Paths, Placed, Leaving, At, DocsInv, InHand, Leaves
<1>3. /\ realized' = realized + mem[c].pnl /\ mem[c].pnl \in Int /\ realized \in Int
      /\ mem[c].doc \in Calls /\ trade'[mem[c].doc].pnl = mem[c].pnl
  BY RealizedOnce DEF TypeOK
<1>4. /\ settings' = settings /\ risk' = risk /\ risk.sum \in Int
      /\ pc'[c] = "load" /\ mem'[c].next = "tally" /\ mem'[c].pnl = mem[c].pnl
  BY MemoryTyped DEF Report, limits, Ask, Go, TypeOK, Memory
<1>5. mem[c].pnl <= 0
  <2>1. Has({"square"})
    BY <1>2 DEF Has
  <2> QED
    BY <1>3, <2>1 DEF Watched, Has
<1>6. /\ Uncounted(c) = 0 /\ Ahead(c) = 0 /\ Uncounted(c)' = mem[c].pnl /\ Ahead(c)' = 0
  BY <1>2, <1>4 DEF Uncounted, Ahead, At
<1>7. realized' - Uncounted(c)' = realized
  BY <1>3, <1>6
<1>8. Busy(c)'
  BY <1>4 DEF Busy
<1>9. SumAt(c)'
  BY <1>1, <1>3, <1>4, <1>5, <1>6, <1>7 DEF SumAt
<1>10. SettingsAt(c)'
  BY <1>1, <1>3, <1>4, <1>6, <1>7 DEF SettingsAt, Recording
<1>11. LockedAt(c)'
  BY <1>1, <1>2, <1>3, <1>4, <1>6, <1>7 DEF LockedAt
<1> QED
  BY <1>1, <1>8, <1>9, <1>10, <1>11 DEF LossAt

\* An outcome is counted: a day that it brings to the limit is locked, or next.
LEMMA OutcomeLoss ==
  ASSUME TypeOK, Paths, DocsInv, Single, LossInv, Watched, scene' = scene,
         NEW c \in Calls, Tally(c) \/ Post(c), scene.kind[c] \in Exits, mem' = mem,
         NEW prior \in Int, NEW streak \in Nat, Outcome(c, prior, streak),
         prior + mem[c].pnl <= realized + (IF scene.kind[c] = "monitor" THEN mem[c].pnl ELSE 0)
  PROVE  LossInv'
<1>1. /\ Busy(c) /\ SumAt(c) /\ SettingsAt(c) /\ LockedAt(c)
      /\ Busy(c)' /\ LossAt(c)' => LossInv'
  BY LossAlone DEF Step
<1>2. PICK n \in Int : n = mem[c].pnl
  BY MemoryTyped DEF Memory
<1>3. /\ pc[c] \in {"tally", "post"} /\ settings' = settings /\ realized' = realized
      /\ realized \in Int
  BY DEF Tally, Post, documents, TypeOK
<1> DEFINE day == prior + n
           lockNow == (n < 0 /\ streak + 1 >= MaxConsecutiveLosses /\ day <= 0)
                          \/ day <= -MaxDailyLoss
<1>4. /\ risk'.sum = day /\ risk'.known
      /\ Go(c, IF lockNow /\ ~mem[c].lock THEN "relock" ELSE "close")
  BY <1>2 DEF Outcome
<1>5. /\ pc'[c] = IF lockNow /\ ~mem[c].lock THEN "relock" ELSE "close"
      /\ Busy(c)'
  BY <1>4 DEF Go, TypeOK, Busy
<1>6. settings.current /\ (mem[c].lock => settings.lock)
  BY <1>1, <1>3 DEF SettingsAt, Recording
<1>7. day \in Int /\ day <= realized + (IF scene.kind[c] = "monitor" THEN n ELSE 0)
  BY <1>2
<1>8. day <= -MaxDailyLoss => lockNow
  OBVIOUS
<1> HIDE DEF day, lockNow
<1>9. /\ Uncounted(c)' = 0 /\ Ahead(c)' = IF scene.kind[c] = "monitor" THEN n ELSE 0
      /\ ~At(c, {"tally", "post"})'
  BY <1>2, <1>5 DEF Uncounted, Ahead, At
<1>10. SumAt(c)'
  BY <1>2, <1>3, <1>4, <1>5, <1>7, <1>9 DEF SumAt
<1>11. SettingsAt(c)'
  BY <1>3, <1>5, <1>6 DEF SettingsAt
<1>12. LockedAt(c)'
  <2>1. CASE scene.kind[c] = "square"
    <3>1. day <= realized /\ Ahead(c)' = 0
      BY <1>3, <1>7, <1>9, <2>1
    <3>2. realized <= -MaxDailyLoss => lockNow
      BY <1>3, <1>7, <1>8, <3>1, EntriesAssumption
    <3> QED
      BY <1>3, <1>5, <1>6, <1>9, <2>1, <3>1, <3>2 DEF LockedAt
  <2>2. CASE scene.kind[c] = "monitor"
    <3>1. day <= realized + n /\ Ahead(c)' = n
      BY <1>7, <1>9, <2>2
    <3>2. realized + n <= -MaxDailyLoss => lockNow
      BY <1>2, <1>3, <1>7, <1>8, <3>1, EntriesAssumption
    <3>3. realized <= -MaxDailyLoss => settings.lock
      BY <1>1, <1>3, <2>2 DEF LockedAt, Uncounted
    <3> QED
      BY <1>3, <1>5, <1>6, <1>9, <3>1, <3>2, <3>3 DEF LockedAt
  <2> QED
    BY <2>1, <2>2 DEF Exits
<1> QED
  BY <1>1, <1>5, <1>10, <1>11, <1>12 DEF LossAt

\* On top of the sum that is known,
LEMMA TallyLoss ==
  ASSUME TypeOK, Paths, DocsInv, Single, LossInv, Watched, scene' = scene,
         NEW c \in Calls, Tally(c), scene.kind[c] \in Exits
  PROVE  LossInv'
<1>1. /\ Busy(c) /\ SumAt(c) /\ SettingsAt(c) /\ LockedAt(c)
      /\ Busy(c)' /\ LossAt(c)' => LossInv'
  BY LossAlone DEF Step
<1>2. pc[c] = "tally" /\ mem[c] \in Memory /\ mem[c].pnl \in Int
  BY MemoryTyped DEF Tally, Memory
<1>3. realized \in Int /\ risk.sum \in Int /\ risk.streak \in Nat
  BY DEF TypeOK
<1>4. /\ Uncounted(c) = IF scene.kind[c] = "square" THEN mem[c].pnl ELSE 0
      /\ Ahead(c) = 0
  BY <1>2 DEF Uncounted, Ahead, At
<1>5. CASE risk.known
  <2>1. risk.sum + mem[c].pnl <= realized + (IF scene.kind[c] = "monitor" THEN mem[c].pnl ELSE 0)
    <3>1. risk.sum <= realized - Uncounted(c) + Ahead(c)
      BY <1>1, <1>5 DEF SumAt
    <3> QED
      BY <1>2, <1>3, <1>4, <3>1 DEF Exits
  <2> QED
    BY <1>3, <1>5, <2>1, OutcomeLoss DEF Tally
<1>6. CASE ~risk.known
  <2>1. /\ mem' = [mem EXCEPT ![c].sum = realized, ![c].streak = risk.streak]
        /\ risk' = risk /\ settings' = settings /\ realized' = realized
    <3>1. DaySums = {realized}
      BY DEF DaySums, DaySum, Watched
    <3> QED
      BY <1>6, <3>1 DEF Tally, documents
  <2>2. pc'[c] = "post"
    BY <1>6 DEF Tally, Go, TypeOK
  <2>3. mem'[c].sum = realized /\ mem'[c].pnl = mem[c].pnl /\ mem'[c].lock = mem[c].lock
    BY <1>2, <2>1 DEF TypeOK, Memory
  <2>4. /\ Uncounted(c)' = Uncounted(c) /\ Ahead(c)' = 0 /\ Busy(c)'
        /\ At(c, {"tally", "post"})
    BY <1>2, <2>2, <2>3 DEF Uncounted, Ahead, At, Busy
  <2>5. SumAt(c)'
    BY <1>1, <1>3, <1>6, <2>1, <2>3, <2>4 DEF SumAt
  <2>6. SettingsAt(c)'
    BY <1>1, <1>2, <2>1, <2>2, <2>3 DEF SettingsAt, Recording
  <2>7. LockedAt(c)'
    BY <1>1, <1>2, <2>1, <2>2, <2>4 DEF LockedAt
  <2> QED
    BY <1>1, <2>4, <2>5, <2>6, <2>7 DEF LossAt
<1> QED
  BY <1>5, <1>6

\* or on top of the one the documents gave.
LEMMA PostLoss ==
  ASSUME TypeOK, Paths, DocsInv, Single, LossInv, Watched, scene' = scene,
         NEW c \in Calls, Post(c), scene.kind[c] \in Exits
  PROVE  LossInv'
<1>1. SumAt(c)
  BY LossAlone DEF Step
<1>2. pc[c] = "post" /\ mem' = mem
  BY DEF Post
<1>3. mem[c].pnl \in Int /\ mem[c].sum \in Int /\ mem[c].streak \in Nat /\ realized \in Int
  BY MemoryTyped DEF Memory, TypeOK
<1>4. mem[c].sum <= realized
  BY <1>1, <1>2 DEF SumAt
<1>5. scene.kind[c] = "square" => mem[c].pnl <= 0
  BY <1>1, <1>2 DEF SumAt, At
<1>6. mem[c].sum + mem[c].pnl <= realized + (IF scene.kind[c] = "monitor" THEN mem[c].pnl ELSE 0)
  BY <1>3, <1>4, <1>5 DEF Exits
<1> QED
  BY <1>2, <1>3, <1>6, OutcomeLoss DEF Post

\* The lock is saved.
LEMMA RelockLoss ==
  ASSUME TypeOK, Paths, DocsInv, DocInv, Single, LossInv, Watched, scene' = scene,
         NEW c \in Calls, Relock(c)
  PROVE  LossInv'
<1>1. /\ Busy(c) /\ SumAt(c) /\ SettingsAt(c) /\ LockedAt(c)
      /\ Busy(c)' /\ LossAt(c)' => LossInv'
  BY LossAlone DEF Step
<1>0. ~mem[c].mock
  BY DEF DocInv, Relock, Watched, Exits, Paths, Placed, Leaving, At
<1>2. /\ pc[c] = "relock" /\ pc'[c] = "close" /\ settings'.lock /\ mem' = mem
      /\ settings'.current = settings.current /\ risk' = risk /\ realized' = realized
  BY <1>0 DEF Relock, documents, Go, TypeOK
<1>3. /\ Uncounted(c) = 0 /\ Uncounted(c)' = 0 /\ Ahead(c)' = Ahead(c)
      /\ ~At(c, {"tally", "post"})' /\ Busy(c)'
  BY <1>2 DEF Uncounted, Ahead, At, Busy
<1>4. SumAt(c)'
  BY <1>1, <1>2, <1>3 DEF SumAt
<1>5. SettingsAt(c)'
  BY <1>1, <1>2 DEF SettingsAt, Recording
<1>6. LockedAt(c)'
  BY <1>2 DEF LockedAt
<1> QED
  BY <1>1, <1>3, <1>4, <1>5, <1>6 DEF LossAt

\* The exit is over: the monitor's result is saved on a day that is locked for it.
LEMMA CloseLoss ==
  ASSUME TypeOK, Paths, DocsInv, Single, LossInv, Watched, scene' = scene,
         NEW c \in Calls, Close(c)
  PROVE  LossInv'
<1>1. /\ Busy(c) /\ SumAt(c) /\ SettingsAt(c) /\ LockedAt(c)
      /\ ~Busy(c)' /\ LossAtRest' => LossInv'
  BY LossAlone DEF Step
<1>2. /\ pc[c] = "close" /\ scene.kind[c] \in Exits /\ settings' = settings /\ risk' = risk
      /\ ~Busy(c)'
  BY EndsTyped DEF Close, limits, Busy, Paths, Placed, Leaving, At
<1>3. PICK n \in Int : n = mem[c].pnl
  BY MemoryTyped DEF Memory
<1>4. realized' = realized + Ahead(c) /\ Uncounted(c) = 0 /\ Ahead(c) \in Int
  <2>1. CASE scene.kind[c] = "monitor"
    BY <1>2, <1>3, <2>1, RealizedOnce DEF Ahead, Uncounted
  <2>2. CASE scene.kind[c] = "square"
    BY <1>2, <2>2 DEF Close, Ahead, Uncounted, At, TypeOK
  <2> QED
    BY <1>2, <2>1, <2>2 DEF Exits
<1>5. realized \in Int /\ risk.sum \in Int
  BY DEF TypeOK
<1>6. risk.known => risk.sum <= realized'
  BY <1>1, <1>4, <1>5 DEF SumAt
<1>7. realized' <= -MaxDailyLoss => settings.lock
  BY <1>1, <1>2, <1>4 DEF LockedAt
<1>8. settings.current
  BY <1>1, <1>2 DEF SettingsAt
<1> QED
  BY <1>1, <1>2, <1>6, <1>7, <1>8 DEF LossAtRest

\* A refused exit has nothing to count.
LEMMA RefusedLoss ==
  ASSUME TypeOK, Paths, DocsInv, Single, LossInv, Watched, scene' = scene,
         NEW c \in Calls, ExitRefused(c)
  PROVE  LossInv'
<1>1. /\ Busy(c) /\ SumAt(c) /\ SettingsAt(c) /\ LockedAt(c)
      /\ ~Busy(c)' /\ LossAtRest' => LossInv'
  BY LossAlone DEF Step
<1>2. /\ pc[c] = "credit" /\ settings' = settings /\ risk' = risk /\ realized' = realized
      /\ ~Busy(c)'
  BY EndsTyped DEF ExitRefused, limits, Busy
<1>3. Uncounted(c) = 0 /\ Ahead(c) = 0
  BY <1>2 DEF Uncounted, Ahead, At
<1>4. realized \in Int /\ risk.sum \in Int
  BY DEF TypeOK
<1>5. LossAtRest'
  BY <1>1, <1>2, <1>3, <1>4 DEF SumAt, SettingsAt, LockedAt, LossAtRest
<1> QED
  BY <1>1, <1>2, <1>5

LEMMA StepLoss ==
  ASSUME TypeOK, Paths, DocsInv, DocInv, TypeOK', Paths', Single, LossInv, Watched, Watched',
         scene' = scene, NEW c \in Calls, Start(c) \/ Step(c)
  PROVE  LossInv'
<1>1. CASE Roll(c)
  BY <1>1, RollLoss
<1>2. CASE (scene.kind[c] \notin Exits \/ Start(c)) /\ ~Roll(c)
  BY <1>2, EntryLoss
<1>3. CASE scene.kind[c] \in Exits /\ Step(c) /\ ~Roll(c)
  <2>1. ~RelockFails(c)
    BY DEF RelockFails, Watched
  <2>2. ~Mock(c)
    <3>1. Busy(c)
      BY <1>3, ExitSteps DEF Leaves
    <3>2. boot = "up"
      BY <1>3, <3>1 DEF DocInv
    <3> QED
      BY <3>2 DEF Mock, Connected, Watched
  <2> QED
    BY <1>3, <2>1, <2>2, ExitSteps, LoadLoss, CreditLoss, RefusedLoss, ReportLoss, TallyLoss,
       PostLoss, RelockLoss, CloseLoss DEF Over
<1> QED
  BY <1>1, <1>2, <1>3

LEMMA NextLoss ==
  ASSUME TypeOK, Paths, DocsInv, DocInv, TypeOK', Paths', Single, Watched => LossInv, [Next]_vars
  PROVE  (Watched => LossInv)'
<1>1. scene' = scene
  BY NextScene
<1> SUFFICES ASSUME Watched' PROVE LossInv'
  OBVIOUS
<1>2. CASE UNCHANGED vars
  BY <1>2 DEF vars, documents, limits, Watched, LossInv, LossAt, SumAt, SettingsAt, LockedAt,
              LossAtRest, AtRest, Busy, Recording, Uncounted, Ahead, At, Has, Fault
<1>3. ASSUME NEW c \in Calls, Start(c) \/ Step(c)
      PROVE  LossInv'
  BY <1>1, <1>3, StepLoss, WatchedBefore
<1>4. CASE (\E s \in Strategies : CooldownOver(s)) \/ LossesOver
  <2>1. Watched /\ AtRest /\ AtRest'
    BY <1>1, <1>4 DEF CooldownOver, LossesOver, Watched, AtRest, Busy, Has, Fault
  <2>2. LossAtRest'
    BY <1>4, <2>1 DEF CooldownOver, LossesOver, limits, LossInv, LossAtRest, TypeOK
  <2> QED
    BY <2>1, <2>2 DEF AtRest, LossInv
<1>5. CASE NewDay
  <2>1. AtRest'
    BY <1>5 DEF NewDay, AtRest, Busy
  <2>2. LossAtRest'
    BY <1>5, EntriesAssumption DEF NewDay, LossAtRest, TypeOK
  <2> QED
    BY <2>1, <2>2 DEF AtRest, LossInv
<1>6. CASE Restart
  <2>1. Watched /\ ~Has({"square"})
    BY <1>1, <1>6 DEF Restart, documents, Watched, Has, Fault
  <2>2. AtRest'
    BY <1>6 DEF Restart, AtRest, Busy, TypeOK
  <2>3. /\ realized <= -MaxDailyLoss => settings.lock
        /\ ~settings.current => realized = 0
    <3>1. CASE AtRest
      BY <2>1, <3>1 DEF LossInv, LossAtRest
    <3>2. ASSUME NEW c \in Calls, Busy(c)
          PROVE  /\ realized <= -MaxDailyLoss => settings.lock
                 /\ ~settings.current => realized = 0
      <4>1. LossAt(c) /\ scene.kind[c] # "square"
        BY <2>1, <3>2 DEF LossInv, Has
      <4> QED
        BY <4>1 DEF LossAt, LockedAt, SettingsAt, Uncounted, TypeOK
    <3> QED
      BY <3>1, <3>2 DEF AtRest
  <2>4. LossAtRest'
    BY <1>6, <2>3 DEF Restart, documents, LossAtRest, NoRisk
  <2> QED
    BY <2>2, <2>4 DEF AtRest, LossInv
<1>7. CASE Recovering \/ Booting
  <2>1. /\ UNCHANGED <<realized, settings, risk, pc, mem>>
        /\ \A d \in Calls : trade'[d].pnl = trade[d].pnl
    <3>1. CASE Booting
      BY <3>1 DEF Booting, Connect, SwitchRestored, Hydrated, documents, limits
    <3>2. ASSUME NEW d \in Calls, Recovered(d)
          PROVE  /\ UNCHANGED <<realized, settings, risk, pc, mem>>
                 /\ \A e \in Calls : trade'[e].pnl = trade[e].pnl
      <4>1. trade' = [trade EXCEPT ![d].status = "OPEN", ![d].again = TRUE]
        BY <3>2 DEF Recovered, Reopened
      <4>2. UNCHANGED <<realized, settings, risk, pc, mem>>
        BY <3>2 DEF Recovered, limits
      <4> QED
        BY <4>1, <4>2 DEF TypeOK, Trade
    <3> QED
      BY <1>7, <3>1, <3>2 DEF Recovering
  <2>2. Watched
    BY <1>1, <2>1 DEF Watched, Has, Fault
  <2>3. LossInv
    BY <2>2
  <2> QED
    BY <1>1, <2>1, <2>3 DEF LossInv, LossAt, SumAt, SettingsAt, LockedAt,
              LossAtRest, AtRest, Busy, Recording, Uncounted, Ahead, At
<1> QED
  BY <1>2, <1>3, <1>4, <1>5, <1>6, <1>7 DEF Next, Recovering, Booting

\* While calls come one after the other and the settings can be read and saved, a
\* day that has lost the limit is locked, for any trades and results, exits that
\* are refused, restarts at any await of a monitor's exit, and over days: the sum
\* that is kept never misses a loss, the lock is saved before the loss that takes
\* it is, and no roll-over lifts the lock of a day with a loss.
THEOREM LossTakesLock == Spec => []LossLocks
<1>1. Init => Single /\ TodayInv /\ (Watched => LossInv)
  <2> SUFFICES ASSUME Init PROVE Single /\ TodayInv /\ LossInv
    OBVIOUS
  <2>1. \A d \in Calls : Result(d) = 0
    BY DEF Init, NoTrade, Result
  <2>2. RealizedToday = 0
    BY <2>1, TotalZero, EntriesAssumption DEF RealizedToday, Result
  <2>3. TodayInv
    BY <2>2 DEF Init, TodayInv
  <2>4. LossAtRest
    BY EntriesAssumption DEF Init, LossAtRest, NoRisk
  <2>5. \A c \in Calls : ~Busy(c)
    BY DEF Init, Busy
  <2> QED
    BY <2>3, <2>4, <2>5 DEF Single, LossInv
<1>2. TypeOK /\ Paths /\ Single /\ [Next]_vars => Single'
  BY NextSingle
<1>3. TypeOK /\ TypeOK' /\ Paths /\ DocsInv /\ TodayInv /\ [Next]_vars => TodayInv'
  BY NextToday
<1>4. /\ TypeOK /\ Paths /\ DocsInv /\ DocInv /\ TypeOK' /\ Paths' /\ Single
      /\ (Watched => LossInv) /\ [Next]_vars
      => (Watched => LossInv)'
  BY NextLoss
<1>5. TodayInv /\ (Watched => LossInv) => LossLocks
  BY DEF TodayInv, Watched, LossInv, LossAtRest, LossLocks
<1> QED
  BY <1>1, <1>2, <1>3, <1>4, <1>5, TypedInv, DocsAlways, DocumentInv, PTL DEF Spec
=============================================================================
