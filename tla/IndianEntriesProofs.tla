------------------------ MODULE IndianEntriesProofs ------------------------
(***************************************************************************)
(* Proofs about IndianEntries, for any calls, strategies and scenes.       *)
(***************************************************************************)
EXTENDS IndianEntries, TLAPS, FiniteSetTheorems

-----------------------------------------------------------------------------
(* The invariant that type correctness rests on: which calls may stand       *)
(* where, and what they have in hand there.                                  *)

\* A call stands at one of some awaits, or reads the settings on its way there.
At(c, labels) ==
    \/ pc[c] \in labels
    \/ pc[c] \in {"load", "roll"} /\ mem[c].next \in labels

\* Only a call that asks the guards, or holds what they granted, has a strategy
\* of the engine in hand.
Vetted(c) ==
    At(c, {"vet", "reserve", "place"}) =>
        /\ scene.kind[c] \in Automatic \cup {"strategy"}
        /\ mem[c].strategy \in Strategies

\* Only an automatic entry counts, waits its turn and proposes.
Automated(c) == At(c, {"count", "limit", "propose"}) => scene.kind[c] \in Automatic

\* Only an entry pays or creates.
Paying(c) ==
    /\ At(c, {"debit", "create"}) => scene.kind[c] \in Entries
    /\ At(c, {"persist"}) => scene.kind[c] \in Entries \cup Exits

\* Only an exit credits and records an outcome, of the trade it has in hand.
Leaving(c) ==
    /\ At(c, {"credit", "report", "tally", "post", "relock", "close"}) =>
           scene.kind[c] \in Exits
    /\ scene.kind[c] \in Exits /\ Busy(c) => mem[c].doc \in Calls

\* What POST /execute has in hand is no strategy of the engine.
Ordered(c) ==
    /\ scene.kind[c] = "order" => mem[c].strategy = ScannerStrategy
    /\ At(c, {"payable"}) => scene.kind[c] = "order"

\* An entry that has passed the guards pays for a strategy of the engine.
Granted(c) ==
    /\ At(c, {"debit", "persist", "create"})
    /\ scene.kind[c] \in Automatic \cup {"strategy"}
    => mem[c].strategy \in Strategies

\* A call that may be where it is.
Placed(c) ==
    /\ Automated(c) /\ Vetted(c) /\ Paying(c) /\ Leaving(c)
    /\ Ordered(c) /\ Granted(c)

Paths == \A c \in Calls : Placed(c)

-----------------------------------------------------------------------------
(* Facts about scenes, memories and labels. *)

\* The parts of a scene.
LEMMA SceneParts ==
  ASSUME TypeOK
  PROVE  /\ scene.kind \in [Calls -> Kinds]
         /\ scene.signals \subseteq Signals
         /\ scene.yesterday \in BOOLEAN /\ scene.carried \in BOOLEAN
BY EntriesAssumption DEF TypeOK, SceneType

\* There are as many open trades as a number says.
LEMMA OpenCounted == Cardinality(Open) \in Nat
<1>1. Open \subseteq Calls
  BY DEF Open
<1> QED
  BY <1>1, EntriesAssumption, FS_Subset, FS_CardinalityType

\* Values a call may have in hand.
LEMMA NoMemTyped == NoMem \in Memory
BY DEF NoMem, Memory, AllStrategies, Ways, Loaded

\* The initial states have their types.
LEMMA InitTyped == Init => TypeOK
<1> SUFFICES ASSUME Init PROVE TypeOK
  OBVIOUS
<1>1. scene \in Scenes /\ scene.yesterday \in BOOLEAN /\ scene.carried \in BOOLEAN
  BY EntriesAssumption DEF Init, SceneType
<1>2. trade \in [Calls -> Trade]
  BY DEF Init, NoTrade, Trade, AllStrategies, Ways
<1>3. mem \in [Calls -> Memory]
  BY NoMemTyped DEF Init
<1>4. settings \in [current : BOOLEAN, lock : BOOLEAN, panic : BOOLEAN]
  BY <1>1 DEF Init
<1>5. risk \in [streak : Nat, pause : BOOLEAN, known : BOOLEAN, sum : Int]
  BY DEF Init, NoRisk
<1>6. cash \in Int /\ saved \in Int /\ realized \in Int
  BY EntriesAssumption DEF Init
<1>7. pc \in [Calls -> Pcs]
  BY DEF Init, Pcs
<1>8. /\ locked \in BOOLEAN /\ inFlight \in BOOLEAN /\ ticking \in BOOLEAN
      /\ halted \in BOOLEAN /\ haltedDoc \in BOOLEAN /\ stopped \in BOOLEAN
      /\ boot \in Boots
  BY DEF Init, Boots
<1>9. young \subseteq Calls /\ lossy \subseteq Calls /\ cooling \subseteq Strategies
  BY DEF Init
<1>10. lock \in Calls \cup {NoCall}
  BY DEF Init
<1> QED
  BY <1>1, <1>2, <1>3, <1>4, <1>5, <1>6, <1>7, <1>8, <1>9, <1>10 DEF TypeOK

\* Nothing is under way at first.
LEMMA InitPaths == Init => Paths
BY DEF Init, Paths, Placed, Automated, Vetted, Paying, Leaving, Ordered, Granted, At, Busy, NoMem

\* A call that goes on leaves pc in its type.
LEMMA GoTyped ==
  ASSUME TypeOK, NEW c \in Calls, NEW l \in Pcs, Go(c, l)
  PROVE  /\ pc' \in [Calls -> Pcs]
         /\ pc'[c] = l
         /\ \A b \in Calls : b # c => pc'[b] = pc[b]
BY DEF TypeOK, Go

\* One that is over, with or without its turn.
LEMMA EndsTyped ==
  ASSUME TypeOK, NEW c \in Calls, Ends(c) \/ Refused(c)
  PROVE  /\ pc' \in [Calls -> Pcs] /\ mem' \in [Calls -> Memory]
         /\ inFlight' \in BOOLEAN /\ ticking' \in BOOLEAN
         /\ pc'[c] = "done" /\ mem'[c] = NoMem
         /\ \A b \in Calls : b # c => pc'[b] = pc[b] /\ mem'[b] = mem[b]
<1>1. /\ pc' = [pc EXCEPT ![c] = "done"] /\ mem' = [mem EXCEPT ![c] = NoMem]
  BY DEF Ends, Refused, Go
<1>2. pc \in [Calls -> Pcs] /\ mem \in [Calls -> Memory] /\ "done" \in Pcs
  BY DEF TypeOK, Pcs
<1>3. inFlight' \in BOOLEAN /\ ticking' \in BOOLEAN
  BY DEF TypeOK, Ends, Refused, TurnLeft
<1> QED
  BY <1>1, <1>2, <1>3, NoMemTyped

\* One that asks for the settings first.
LEMMA AskTyped ==
  ASSUME TypeOK, NEW c \in Calls, NEW n \in Loaded, NEW m \in Memory, Ask(c, n, m)
  PROVE  /\ pc' \in [Calls -> Pcs] /\ mem' \in [Calls -> Memory]
         /\ pc'[c] = "load" /\ mem'[c] = [m EXCEPT !.next = n]
         /\ mem'[c].next = n
         /\ \A b \in Calls : b # c => pc'[b] = pc[b] /\ mem'[b] = mem[b]
<1>1. [m EXCEPT !.next = n] \in Memory /\ [m EXCEPT !.next = n].next = n
  BY DEF Memory
<1> QED
  BY <1>1 DEF TypeOK, Ask, Go, Pcs

\* What a call has in hand, field by field.
LEMMA MemoryTyped ==
  ASSUME TypeOK, NEW c \in Calls
  PROVE  /\ mem[c] \in Memory
         /\ mem[c].strategy \in AllStrategies /\ mem[c].way \in Ways
         /\ mem[c].affords \in BOOLEAN /\ mem[c].clear \in BOOLEAN
         /\ mem[c].count \in Nat /\ mem[c].next \in Loaded
         /\ mem[c].lock \in BOOLEAN /\ mem[c].panic \in BOOLEAN
         /\ mem[c].unlock \in BOOLEAN /\ mem[c].doc \in Calls \cup {NoCall}
         /\ mem[c].pnl \in Int /\ mem[c].sum \in Int /\ mem[c].streak \in Nat
         /\ mem[c].mock \in BOOLEAN
BY DEF TypeOK, Memory

\* Other calls stand where they stood: what Paths says of them stays.
LEMMA PathsOfOthers ==
  ASSUME Paths, scene' = scene, NEW c \in Calls,
         \A b \in Calls : b # c => pc'[b] = pc[b] /\ mem'[b] = mem[b],
         Placed(c)'
  PROVE  Paths'
BY DEF Paths, Placed, Automated, Vetted, Paying, Leaving, Ordered, Granted, At, Busy

\* A call that is over stands nowhere.
LEMMA OverKept ==
  ASSUME TypeOK, Paths, scene' = scene, NEW c \in Calls, Ends(c) \/ Refused(c)
  PROVE  Paths'
<1>1. /\ pc'[c] = "done" /\ mem'[c] = NoMem
      /\ \A b \in Calls : b # c => pc'[b] = pc[b] /\ mem'[b] = mem[b]
  BY EndsTyped
<1>2. Placed(c)'
  BY <1>1 DEF Placed, Automated, Vetted, Paying, Leaving, Ordered, Granted, At, Busy, NoMem
<1> QED
  BY <1>1, <1>2, PathsOfOthers

-----------------------------------------------------------------------------
(* The settings: their read and their rollover. *)

\* The steps that read them, in the terms the proofs need.
LEMMA LoadStep ==
  ASSUME TypeOK, NEW c \in Calls, Load(c) \/ Mock(c)
  PROVE  /\ mem' \in [Calls -> Memory]
         /\ mem'[c].next = mem[c].next /\ mem'[c].strategy = mem[c].strategy
         /\ mem'[c].doc = mem[c].doc /\ mem'[c].clear = mem[c].clear
         /\ mem'[c].way = mem[c].way
         /\ \A b \in Calls : b # c => pc'[b] = pc[b] /\ mem'[b] = mem[b]
         /\ pc' \in [Calls -> Pcs]
         /\ pc'[c] = "roll" \/ pc'[c] = mem[c].next
         /\ risk' \in [streak : Nat, pause : BOOLEAN, known : BOOLEAN, sum : Int]
<1>1. LockToday \in BOOLEAN /\ LockPast \in BOOLEAN /\ settings.panic \in BOOLEAN
  BY DEF TypeOK, LockToday, LockPast
<1>2. mem[c] \in Memory /\ mem \in [Calls -> Memory]
  BY DEF TypeOK
<1> DEFINE m == IF Load(c)
                THEN [mem[c] EXCEPT !.lock = LockToday, !.unlock = LockPast,
                                    !.panic = settings.panic]
                ELSE [mem[c] EXCEPT !.lock = FALSE, !.unlock = FALSE, !.panic = FALSE,
                                    !.mock = TRUE]
<1>3. /\ m \in Memory /\ m.next = mem[c].next /\ m.strategy = mem[c].strategy
      /\ m.doc = mem[c].doc /\ m.clear = mem[c].clear /\ m.way = mem[c].way
  BY <1>1, <1>2 DEF Memory
<1>4. mem' = [mem EXCEPT ![c] = m]
  BY <1>2 DEF Load, Mock, Memory
<1> HIDE DEF m
<1>5. /\ mem' \in [Calls -> Memory] /\ mem'[c] = m
      /\ \A b \in Calls : b # c => mem'[b] = mem[b]
  BY <1>2, <1>3, <1>4
<1>6. mem[c].next \in Pcs /\ "roll" \in Pcs
  BY MemoryTyped DEF Pcs
<1>7. /\ pc' \in [Calls -> Pcs] /\ (pc'[c] = "roll" \/ pc'[c] = mem[c].next)
      /\ \A b \in Calls : b # c => pc'[b] = pc[b]
  <2>1. Go(c, "roll") \/ Go(c, mem[c].next)
    BY DEF Load, Mock
  <2> QED
    BY <2>1, <1>6, GoTyped
<1>8. risk' \in [streak : Nat, pause : BOOLEAN, known : BOOLEAN, sum : Int]
  BY DEF Load, Mock, TypeOK, limits
<1> QED
  BY <1>3, <1>5, <1>7, <1>8

\* The settings' calls.
LEMMA SettingsKept ==
  ASSUME TypeOK, Paths, NEW c \in Calls,
         SettingsStart(c) \/ Load(c) \/ Roll(c) \/ Mock(c) \/ Answer(c)
  PROVE  TypeOK' /\ Paths'
<1> USE EntriesAssumption
<1>1. CASE Load(c) \/ Mock(c)
  <2>1. TypeOK'
    <3>1. UNCHANGED <<scene, documents, wallet, settings, locked, cooling, flags, switch>>
      BY <1>1 DEF Load, Mock, limits
    <3> QED
      BY <1>1, <3>1, LoadStep DEF TypeOK, documents, wallet, flags, switch
  <2>2. scene' = scene /\ pc[c] \in {"load", "roll"}
    BY <1>1 DEF Load, Mock
  <2>3. Placed(c)'
    BY <1>1, <2>2, LoadStep, MemoryTyped
       DEF Paths, Placed, Automated, Vetted, Paying, Leaving, Ordered, Granted, At, Busy, Loaded
  <2>4. Paths'
    BY <1>1, <2>2, <2>3, LoadStep, PathsOfOthers
  <2> QED
    BY <2>1, <2>4
<1>2. CASE Roll(c)
  <2>1. scene' = scene /\ pc[c] = "roll" /\ mem' = mem /\ Go(c, mem[c].next)
    BY <1>2 DEF Roll
  <2>2. mem[c].next \in Loaded /\ mem[c].next \in Pcs
    BY MemoryTyped DEF Pcs
  <2>3. /\ pc' \in [Calls -> Pcs] /\ pc'[c] = mem[c].next
        /\ \A b \in Calls : b # c => pc'[b] = pc[b]
    BY <2>1, <2>2, GoTyped
  <2>4. settings' \in [current : BOOLEAN, lock : BOOLEAN, panic : BOOLEAN]
    <3>1. settings \in [current : BOOLEAN, lock : BOOLEAN, panic : BOOLEAN]
          /\ RolledLock(c) \in BOOLEAN
      BY DEF TypeOK, RolledLock
    <3>2. \A x, y \in BOOLEAN : [settings EXCEPT !.current = x, !.lock = y]
             \in [current : BOOLEAN, lock : BOOLEAN, panic : BOOLEAN]
      BY <3>1
    <3> QED
      BY <1>2, <3>1, <3>2, Zenon DEF Roll
  <2>5. TypeOK'
    BY <1>2, <2>1, <2>3, <2>4 DEF Roll, TypeOK, documents, wallet, flags, switch
  <2>6. Placed(c)'
    BY <2>1, <2>2, <2>3
       DEF Paths, Placed, Automated, Vetted, Paying, Leaving, Ordered, Granted, At, Busy,
           Loaded
  <2>7. Paths'
    BY <2>1, <2>3, <2>6, PathsOfOthers
  <2> QED
    BY <2>5, <2>7
<1>3. CASE SettingsStart(c)
  <2>1. scene' = scene /\ scene.kind[c] = "settings" /\ Ask(c, "answer", mem[c])
    BY <1>3 DEF SettingsStart, Starts
  <2>2. /\ pc' \in [Calls -> Pcs] /\ mem' \in [Calls -> Memory]
        /\ pc'[c] = "load" /\ mem'[c].next = "answer"
        /\ \A b \in Calls : b # c => pc'[b] = pc[b] /\ mem'[b] = mem[b]
    BY <2>1, AskTyped, MemoryTyped DEF Loaded
  <2>3. TypeOK'
    BY <1>3, <2>2 DEF SettingsStart, TypeOK, documents, wallet, limits, flags, switch
  <2>4. Placed(c)'
    BY <2>1, <2>2
       DEF Placed, Automated, Vetted, Paying, Leaving, Ordered, Granted, At, Busy, Exits,
           Automatic
  <2>5. Paths'
    BY <2>1, <2>2, <2>4, PathsOfOthers
  <2> QED
    BY <2>3, <2>5
<1>4. CASE Answer(c)
  <2>1. scene' = scene /\ Ends(c)
    BY <1>4 DEF Answer
  <2>2. TypeOK'
    BY <1>4, <2>1, EndsTyped DEF Answer, TypeOK, documents, wallet, limits, switch
  <2>3. Paths'
    BY <2>1, EndsTyped, OverKept
  <2> QED
    BY <2>2, <2>3
<1> QED
  BY <1>1, <1>2, <1>3, <1>4

-----------------------------------------------------------------------------
(* Automatic entries, up to the guards. *)

\* An entry that takes its turn.
LEMMA EnterKept ==
  ASSUME TypeOK, Paths, scene' = scene, NEW c \in Calls, Enter(c)
  PROVE  /\ pc' \in [Calls -> Pcs] /\ mem' = mem
         /\ inFlight' \in BOOLEAN /\ ticking' \in BOOLEAN
         /\ pc'[c] = "propose"
         /\ \A b \in Calls : b # c => pc'[b] = pc[b]
<1>1. Go(c, "propose") /\ "propose" \in Pcs
  BY DEF Enter, Pcs
<1> QED
  BY <1>1, GoTyped DEF Enter, TypeOK

\* A candidate goes to the guards with a strategy of the engine.
LEMMA ProposalKept ==
  ASSUME TypeOK, Paths, scene' = scene, NEW c \in Calls, NEW s \in scene.signals,
         Proposal(c, s), scene.kind[c] \in Automatic \cup {"strategy"}
  PROVE  /\ pc' \in [Calls -> Pcs] /\ mem' \in [Calls -> Memory]
         /\ pc'[c] = "load" /\ mem'[c].next = "vet" /\ mem'[c].strategy \in Strategies
         /\ mem'[c].way \in Ways
         /\ \A b \in Calls : b # c => pc'[b] = pc[b] /\ mem'[b] = mem[b]
         /\ Paths'
<1> DEFINE affords == cash >= Cost[s.strategy] \/ scene.kind[c] = "live"
           m == [mem[c] EXCEPT !.strategy = s.strategy, !.way = s.way, !.affords = affords]
<1>1. s.strategy \in Strategies /\ s.way \in Ways
  BY SceneParts DEF Signals
<1>2. affords \in BOOLEAN /\ mem[c] \in Memory
  BY MemoryTyped
<1>3. m \in Memory /\ m.strategy = s.strategy /\ m.way = s.way /\ m.doc = mem[c].doc
  <2> HIDE DEF affords
  <2> QED
    BY <1>1, <1>2 DEF Memory, AllStrategies
<1>4. Ask(c, "vet", m)
  BY DEF Proposal
<1>5. [m EXCEPT !.next = "vet"].strategy = m.strategy /\ [m EXCEPT !.next = "vet"].way = m.way
      /\ [m EXCEPT !.next = "vet"].doc = m.doc
  <2> HIDE DEF m
  <2> QED
    BY <1>3 DEF Memory
<1> HIDE DEF m
<1>6. /\ pc' \in [Calls -> Pcs] /\ mem' \in [Calls -> Memory]
      /\ pc'[c] = "load" /\ mem'[c] = [m EXCEPT !.next = "vet"] /\ mem'[c].next = "vet"
      /\ \A b \in Calls : b # c => pc'[b] = pc[b] /\ mem'[b] = mem[b]
  BY <1>3, <1>4, AskTyped DEF Loaded
<1>7. Placed(c)'
  BY <1>1, <1>3, <1>5, <1>6
     DEF Placed, Automated, Vetted, Paying, Leaving, Ordered, Granted, At, Busy, Exits, Automatic
<1>8. Paths'
  BY <1>6, <1>7, PathsOfOthers
<1> QED
  BY <1>1, <1>3, <1>5, <1>6, <1>8

\* The automatic entries' steps before the guards, and POST /execute-strategy's.
LEMMA ProposingKept ==
  ASSUME TypeOK, Paths, NEW c \in Calls,
         \/ AutoStart(c) \/ DaemonTick(c) \/ DaemonCount(c) \/ DaemonLimit(c)
         \/ Propose(c) \/ TurnedDown(c) \/ StrategyStart(c)
  PROVE  TypeOK' /\ Paths'
<1> USE EntriesAssumption
<1>1. CASE AutoStart(c) \/ DaemonLimit(c)
  <2>1. /\ scene' = scene /\ UNCHANGED <<documents, wallet, limits, cooling, switch>>
        /\ Enter(c) \/ Refused(c)
    BY <1>1 DEF AutoStart, DaemonLimit
  <2>2. CASE Enter(c)
    <3>1. TypeOK'
      BY <2>1, <2>2, EnterKept DEF TypeOK, documents, wallet, limits, switch
    <3>2. scene.kind[c] \in Automatic
      BY <1>1 DEF AutoStart, DaemonLimit, Starts, Automatic, Paths, Placed, Automated, At
    <3>3. Placed(c)'
      BY <2>1, <2>2, <3>2, EnterKept
         DEF Placed, Automated, Vetted, Paying, Leaving, Ordered, Granted, At, Busy, Exits,
             Automatic
    <3> QED
      BY <2>1, <2>2, <3>1, <3>3, EnterKept, PathsOfOthers
  <2>3. CASE Refused(c)
    <3>1. TypeOK'
      BY <2>1, <2>3, EndsTyped DEF TypeOK, documents, wallet, limits, switch
    <3> QED
      BY <2>1, <2>3, <3>1, OverKept
  <2> QED
    BY <2>1, <2>2, <2>3
<1>2. CASE DaemonTick(c)
  <2>1. /\ scene' = scene /\ mem' = mem /\ scene.kind[c] = "daemon"
        /\ Go(c, "done") \/ Go(c, "count")
    BY <1>2 DEF DaemonTick, Starts
  <2>2. /\ pc' \in [Calls -> Pcs] /\ pc'[c] \in {"done", "count"}
        /\ \A b \in Calls : b # c => pc'[b] = pc[b]
    BY <2>1, GoTyped DEF Pcs
  <2>3. TypeOK'
    BY <1>2, <2>1, <2>2 DEF DaemonTick, TypeOK, documents, wallet, limits, switch
  <2>4. Placed(c)'
    BY <2>1, <2>2
       DEF Placed, Automated, Vetted, Paying, Leaving, Ordered, Granted, At, Busy, Exits,
           Automatic
  <2> QED
    BY <2>1, <2>2, <2>3, <2>4, PathsOfOthers
<1>3. CASE DaemonCount(c)
  <2> DEFINE n == Cardinality(Open)
             m == [mem[c] EXCEPT !.count = n]
  <2>1. scene' = scene /\ Ask(c, "limit", m) /\ pc[c] = "count"
    BY <1>3 DEF DaemonCount
  <2>2. n \in Nat
    BY OpenCounted
  <2>3. m \in Memory /\ m.strategy = mem[c].strategy /\ m.doc = mem[c].doc
    <3> HIDE DEF n
    <3> QED
      BY <2>2, MemoryTyped DEF Memory
  <2> HIDE DEF m
  <2>4. /\ pc' \in [Calls -> Pcs] /\ mem' \in [Calls -> Memory]
        /\ pc'[c] = "load" /\ mem'[c] = [m EXCEPT !.next = "limit"] /\ mem'[c].next = "limit"
        /\ \A b \in Calls : b # c => pc'[b] = pc[b] /\ mem'[b] = mem[b]
    BY <2>1, <2>3, AskTyped DEF Loaded
  <2>5. mem'[c].strategy = mem[c].strategy /\ mem'[c].doc = mem[c].doc
    BY <2>3, <2>4 DEF Memory
  <2>6. TypeOK'
    BY <1>3, <2>4 DEF DaemonCount, TypeOK, documents, wallet, limits, flags, switch
  <2>7. Placed(c)'
    BY <2>1, <2>4, <2>5
       DEF Paths, Placed, Automated, Vetted, Paying, Leaving, Ordered, Granted, At, Busy
  <2> QED
    BY <2>1, <2>4, <2>6, <2>7, PathsOfOthers
<1>4. CASE Propose(c) \/ (StrategyStart(c) /\ ~halted)
  <2>1. PICK s \in scene.signals : Proposal(c, s)
    BY <1>4 DEF Propose, StrategyStart
  <2>2. scene' = scene /\ UNCHANGED <<documents, wallet, limits, cooling, flags, switch>>
    BY <1>4 DEF Propose, StrategyStart
  <2>3. scene.kind[c] \in Automatic \cup {"strategy"}
    BY <1>4 DEF Propose, StrategyStart, Starts, Paths, Placed, Automated, At
  <2> QED
    BY <2>1, <2>2, <2>3, ProposalKept DEF TypeOK, documents, wallet, limits, flags, switch
<1>5. CASE StrategyStart(c) /\ halted
  <2>1. /\ scene' = scene /\ mem' = mem /\ Go(c, "done") /\ "done" \in Pcs
        /\ UNCHANGED <<documents, wallet, limits, cooling, flags, switch>>
    BY <1>5 DEF StrategyStart, Pcs
  <2>2. /\ pc' \in [Calls -> Pcs] /\ pc'[c] = "done"
        /\ \A b \in Calls : b # c => pc'[b] = pc[b]
    BY <2>1, GoTyped
  <2>3. TypeOK'
    BY <2>1, <2>2 DEF TypeOK, documents, wallet, limits, flags, switch
  <2>4. Placed(c)'
    BY <2>1, <2>2
       DEF Paths, Placed, Automated, Vetted, Paying, Leaving, Ordered, Granted, At, Busy
  <2> QED
    BY <2>1, <2>2, <2>3, <2>4, PathsOfOthers
<1>6. CASE TurnedDown(c)
  <2>1. TypeOK'
    BY <1>6, EndsTyped DEF TurnedDown, TypeOK, documents, wallet, limits, switch
  <2> QED
    BY <1>6, <2>1, OverKept DEF TurnedDown
<1> QED
  BY <1>1, <1>2, <1>3, <1>4, <1>5, <1>6

-----------------------------------------------------------------------------
(* The guards, the order, the margin and the trade. *)

\* A call that moves on with what it has in hand.
LEMMA MovedKept ==
  ASSUME TypeOK, Paths, scene' = scene, mem' = mem, NEW c \in Calls, NEW l \in Pcs, Go(c, l),
         l \notin {"load", "roll"},
         pc' \in [Calls -> Pcs] /\ pc'[c] = l => Placed(c)'
  PROVE  pc' \in [Calls -> Pcs] /\ Paths'
<1>1. /\ pc' \in [Calls -> Pcs] /\ pc'[c] = l
      /\ \A b \in Calls : b # c => pc'[b] = pc[b]
  BY GoTyped
<1> QED
  BY <1>1, PathsOfOthers

\* The guards and the reservation, and the order of an automatic entry.
LEMMA GuardedKept ==
  ASSUME TypeOK, Paths, NEW c \in Calls, Vet(c) \/ Reserve(c) \/ Place(c)
  PROVE  TypeOK' /\ Paths'
<1> USE EntriesAssumption
<1>0. scene' = scene /\ At(c, {"vet", "reserve", "place"})
      /\ UNCHANGED <<documents, wallet, limits, switch>>
  BY DEF Vet, Reserve, Place, At
<1>1. /\ scene.kind[c] \in Automatic \cup {"strategy"} /\ mem[c].strategy \in Strategies
      /\ pc[c] \in {"vet", "reserve", "place"}
  BY <1>0 DEF Paths, Placed, Vetted, Vet, Reserve, Place
<1>2. ASSUME cooling' \subseteq Strategies, Ends(c)
      PROVE  TypeOK' /\ Paths'
  <2>1. TypeOK'
    BY <1>0, <1>2, EndsTyped DEF TypeOK, documents, wallet, limits, switch
  <2> QED
    BY <1>0, <1>2, <2>1, OverKept
<1>3. cooling \subseteq Strategies
  BY DEF TypeOK
<1>4. CASE Vet(c)
  <2>1. CASE Ends(c)
    BY <1>2, <1>3, <1>4, <2>1 DEF Vet
  <2>2. CASE ~Ends(c)
    <3>1. PICK clear \in {GuardsClear(c) \/ ~Connected} \cup {b \in {TRUE} : Fault("read")} :
            mem' = [mem EXCEPT ![c].clear = clear]
      BY <1>4, <2>2 DEF Vet
    <3>2. clear \in BOOLEAN
      BY <3>1 DEF GuardsClear
    <3>3. /\ mem' \in [Calls -> Memory]
          /\ mem'[c].strategy = mem[c].strategy /\ mem'[c].doc = mem[c].doc
          /\ mem'[c].next = mem[c].next
          /\ \A b \in Calls : b # c => mem'[b] = mem[b]
      <4>1. mem \in [Calls -> Memory] /\ mem[c] \in Memory
        BY MemoryTyped DEF TypeOK
      <4>2. /\ [mem[c] EXCEPT !.clear = clear] \in Memory
            /\ [mem[c] EXCEPT !.clear = clear].strategy = mem[c].strategy
            /\ [mem[c] EXCEPT !.clear = clear].doc = mem[c].doc
            /\ [mem[c] EXCEPT !.clear = clear].next = mem[c].next
        BY <4>1, <3>2 DEF Memory
      <4> QED
        BY <3>1, <4>1, <4>2
    <3>4. Go(c, "reserve") /\ "reserve" \in Pcs /\ UNCHANGED flags /\ UNCHANGED cooling
      BY <1>4, <2>2 DEF Vet, Pcs
    <3>5. /\ pc' \in [Calls -> Pcs] /\ pc'[c] = "reserve"
          /\ \A b \in Calls : b # c => pc'[b] = pc[b]
      BY <3>4, GoTyped
    <3>6. TypeOK'
      BY <1>0, <3>3, <3>4, <3>5 DEF TypeOK, documents, wallet, limits, flags, switch
    <3>7. Placed(c)'
      BY <1>0, <1>1, <3>3, <3>5
         DEF Paths, Placed, Automated, Vetted, Paying, Leaving, Ordered, Granted, At, Busy
    <3> QED
      BY <1>0, <3>3, <3>5, <3>6, <3>7, PathsOfOthers
  <2> QED
    BY <2>1, <2>2
<1>5. CASE Reserve(c)
  <2>1. cooling' \subseteq Strategies
    BY <1>1, <1>3, <1>5 DEF Reserve
  <2>2. CASE Ends(c)
    BY <1>2, <2>1, <2>2
  <2>3. CASE ~Ends(c)
    <3>1. /\ mem' = mem /\ UNCHANGED flags
          /\ Go(c, IF scene.kind[c] = "strategy" THEN "debit" ELSE "place")
      BY <1>5, <2>3 DEF Reserve
    <3>2. PICK l \in {"debit", "place"} : Go(c, l)
      BY <3>1
    <3>3. pc' \in [Calls -> Pcs] /\ pc'[c] = l => Placed(c)'
      BY <1>0, <1>1, <3>1, <3>2
         DEF Paths, Placed, Automated, Vetted, Paying, Leaving, Ordered, Granted, At, Busy,
             Entries
    <3>4. pc' \in [Calls -> Pcs] /\ Paths'
      BY <1>0, <3>1, <3>2, <3>3, MovedKept DEF Pcs
    <3> QED
      BY <1>0, <2>1, <3>1, <3>4 DEF TypeOK, documents, wallet, limits, flags, switch
  <2> QED
    BY <2>2, <2>3
<1>6. CASE Place(c)
  <2>1. cooling' \subseteq Strategies
    BY <1>3, <1>6 DEF Place, Released
  <2>2. CASE Ends(c)
    BY <1>2, <2>1, <2>2
  <2>3. CASE ~Ends(c)
    <3>1. mem' = mem /\ UNCHANGED flags /\ Go(c, "debit") /\ "debit" \in Pcs
      BY <1>6, <2>3 DEF Place, Pcs
    <3>2. pc' \in [Calls -> Pcs] /\ pc'[c] = "debit" => Placed(c)'
      BY <1>0, <1>1, <3>1
         DEF Paths, Placed, Automated, Vetted, Paying, Leaving, Ordered, Granted, At, Busy,
             Entries
    <3>3. pc' \in [Calls -> Pcs] /\ Paths'
      BY <1>0, <3>1, <3>2, MovedKept
    <3> QED
      BY <1>0, <2>1, <3>1, <3>3 DEF TypeOK, documents, wallet, limits, flags, switch
  <2> QED
    BY <2>2, <2>3
<1> QED
  BY <1>4, <1>5, <1>6

\* POST /execute, up to its debit.
LEMMA OrderingKept ==
  ASSUME TypeOK, Paths, NEW c \in Calls, OrderStart(c) \/ Payable(c)
  PROVE  TypeOK' /\ Paths'
<1> USE EntriesAssumption
<1>0. scene' = scene /\ UNCHANGED <<documents, wallet, limits, cooling, switch>>
  BY DEF OrderStart, Payable
<1>1. CASE OrderStart(c)
  <2>0. scene.kind[c] = "order" /\ UNCHANGED flags
    BY <1>1 DEF OrderStart, Starts
  <2>1. CASE Go(c, "done") /\ UNCHANGED mem
    <3>1. pc' \in [Calls -> Pcs] /\ pc'[c] = "done" => Placed(c)'
      BY <1>0, <2>0, <2>1
         DEF Paths, Placed, Automated, Vetted, Paying, Leaving, Ordered, Granted, At, Busy,
             Exits
    <3>2. pc' \in [Calls -> Pcs] /\ Paths'
      BY <1>0, <2>1, <3>1, MovedKept DEF Pcs
    <3> QED
      BY <1>0, <2>0, <2>1, <3>2 DEF TypeOK, documents, wallet, limits, flags, switch
  <2>2. CASE Ask(c, "payable", mem[c])
    <3>1. /\ pc' \in [Calls -> Pcs] /\ mem' \in [Calls -> Memory]
          /\ pc'[c] = "load" /\ mem'[c] = [mem[c] EXCEPT !.next = "payable"]
          /\ mem'[c].next = "payable"
          /\ \A b \in Calls : b # c => pc'[b] = pc[b] /\ mem'[b] = mem[b]
      BY <2>2, AskTyped, MemoryTyped DEF Loaded
    <3>2. mem'[c].strategy = mem[c].strategy
      BY <3>1, MemoryTyped DEF Memory
    <3>3. Placed(c)'
      BY <1>0, <2>0, <3>1, <3>2
         DEF Paths, Placed, Automated, Vetted, Paying, Leaving, Ordered, Granted, At, Busy,
             Exits
    <3>4. TypeOK'
      BY <1>0, <2>0, <3>1 DEF TypeOK, documents, wallet, limits, flags, switch
    <3> QED
      BY <1>0, <3>1, <3>3, <3>4, PathsOfOthers
  <2> QED
    BY <1>1, <2>1, <2>2 DEF OrderStart
<1>2. CASE Payable(c)
  <2>1. CASE Ends(c)
    <3>1. TypeOK'
      BY <1>0, <2>1, EndsTyped DEF TypeOK, documents, wallet, limits, switch
    <3> QED
      BY <1>0, <2>1, <3>1, OverKept
  <2>2. CASE Go(c, "debit") /\ UNCHANGED <<flags, mem>>
    <3>1. pc' \in [Calls -> Pcs] /\ pc'[c] = "debit" => Placed(c)'
      BY <1>0, <1>2, <2>2
         DEF Payable, Paths, Placed, Automated, Vetted, Paying, Leaving, Ordered, Granted,
             At, Busy, Entries, Exits, Automatic
    <3>2. pc' \in [Calls -> Pcs] /\ Paths'
      BY <1>0, <2>2, <3>1, MovedKept DEF Pcs
    <3> QED
      BY <1>0, <2>2, <3>2 DEF TypeOK, documents, wallet, limits, flags, switch
  <2> QED
    BY <1>2, <2>1, <2>2 DEF Payable
<1> QED
  BY <1>1, <1>2

\* The debit of the margin.
LEMMA DebitKept ==
  ASSUME TypeOK, Paths, NEW c \in Calls, Debit(c)
  PROVE  TypeOK' /\ Paths'
<1> USE EntriesAssumption
<1>0. /\ scene' = scene /\ pc[c] = "debit" /\ scene.kind[c] \in Entries
      /\ UNCHANGED <<documents, saved, limits, cooling, switch>>
  BY DEF Debit, Paths, Placed, Automated, Vetted, Paying, Leaving, Ordered, Granted, At, Busy
<1>1. cash' \in Int
  <2>1. Cost[mem[c].strategy] \in Int
    BY MemoryTyped
  <2> QED
    BY <2>1 DEF Debit, Remaining, TypeOK
<1>2. lock' \in Calls \cup {NoCall}
  BY DEF Debit, TypeOK
<1>3. CASE Ends(c)
  <2>1. TypeOK'
    BY <1>0, <1>1, <1>2, <1>3, EndsTyped DEF TypeOK, documents, limits, switch
  <2> QED
    BY <1>0, <1>3, <2>1, OverKept
<1>4. ASSUME NEW l \in {"create", "persist"}, Go(c, l), UNCHANGED <<flags, mem>>
      PROVE  TypeOK' /\ Paths'
  <2>1. pc' \in [Calls -> Pcs] /\ pc'[c] = l => Placed(c)'
    BY <1>0, <1>4
       DEF Paths, Placed, Automated, Vetted, Paying, Leaving, Ordered, Granted, At, Busy,
           Entries, Automatic, Exits
  <2>2. pc' \in [Calls -> Pcs] /\ Paths'
    BY <1>0, <1>4, <2>1, MovedKept DEF Pcs
  <2> QED
    BY <1>0, <1>1, <1>2, <1>4, <2>2 DEF TypeOK, documents, limits, flags, switch
<1> QED
  BY <1>3, <1>4 DEF Debit

\* The snapshot of the wallet, and where the call goes then.
LEMMA PersistKept ==
  ASSUME TypeOK, Paths, NEW c \in Calls, Persist(c)
  PROVE  TypeOK' /\ Paths'
<1> USE EntriesAssumption
<1>0. /\ scene' = scene /\ pc[c] = "persist" /\ lock' = NoCall
      /\ UNCHANGED <<documents, cash, limits, cooling, flags, switch>>
  BY DEF Persist
<1>1. saved' \in Int
  BY DEF Persist, Snapshots, TypeOK
<1>2. CASE scene.kind[c] = "monitor" /\ Ask(c, "tally", mem[c])
  <2>1. /\ pc' \in [Calls -> Pcs] /\ mem' \in [Calls -> Memory]
        /\ pc'[c] = "load" /\ mem'[c] = [mem[c] EXCEPT !.next = "tally"]
        /\ mem'[c].next = "tally"
        /\ \A b \in Calls : b # c => pc'[b] = pc[b] /\ mem'[b] = mem[b]
    BY <1>2, AskTyped, MemoryTyped DEF Loaded
  <2>2. mem'[c].doc = mem[c].doc
    BY <2>1, MemoryTyped DEF Memory
  <2>3. Placed(c)'
    BY <1>0, <1>2, <2>1, <2>2
       DEF Paths, Placed, Automated, Vetted, Paying, Leaving, Ordered, Granted, At, Busy,
           Exits, Automatic
  <2>4. TypeOK'
    BY <1>0, <1>1, <2>1 DEF TypeOK, documents, limits, flags, switch
  <2> QED
    BY <1>0, <2>1, <2>3, <2>4, PathsOfOthers
<1>3. ASSUME NEW l \in {"report", "create"}, Go(c, l), UNCHANGED mem,
             l = "report" <=> scene.kind[c] = "square", scene.kind[c] # "monitor"
      PROVE  TypeOK' /\ Paths'
  <2>1. scene.kind[c] \in Entries \cup {"square"}
    BY <1>0, <1>3 DEF Paths, Placed, Paying, At, Exits
  <2>2. pc' \in [Calls -> Pcs] /\ pc'[c] = l => Placed(c)'
    BY <1>0, <1>3, <2>1
       DEF Paths, Placed, Automated, Vetted, Paying, Leaving, Ordered, Granted, At, Busy,
           Exits, Entries, Automatic
  <2>3. pc' \in [Calls -> Pcs] /\ Paths'
    BY <1>0, <1>3, <2>2, MovedKept DEF Pcs
  <2> QED
    BY <1>0, <1>1, <1>3, <2>3 DEF TypeOK, documents, limits, flags, switch
<1> QED
  BY <1>2, <1>3 DEF Persist

\* The trade's document.
LEMMA CreateKept ==
  ASSUME TypeOK, Paths, NEW c \in Calls, Create(c)
  PROVE  TypeOK' /\ Paths'
<1>0. /\ scene' = scene /\ Ends(c)
      /\ UNCHANGED <<lossy, realized, wallet, limits, cooling, switch>>
  BY DEF Create
<1>1. trade' \in [Calls -> Trade] /\ young' \subseteq Calls
  <2>1. [status |-> "OPEN", strategy |-> mem[c].strategy, way |-> mem[c].way, pnl |-> 0,
         again |-> FALSE] \in Trade
    BY MemoryTyped DEF Trade
  <2> QED
    BY <2>1 DEF Create, TypeOK
<1>2. TypeOK'
  BY <1>0, <1>1, EndsTyped DEF TypeOK, wallet, limits, switch
<1> QED
  BY <1>0, <1>2, OverKept

-----------------------------------------------------------------------------
(* Exits and their outcomes. *)

\* An exit takes its trade, or credits it.
LEMMA LeavingKept ==
  ASSUME TypeOK, Paths, NEW c \in Calls, MonitorStart(c) \/ SquareStart(c) \/ Credit(c)
  PROVE  TypeOK' /\ Paths'
<1> USE EntriesAssumption
<1>1. CASE MonitorStart(c) \/ SquareStart(c)
  <2>1. /\ scene' = scene /\ scene.kind[c] \in Exits /\ Go(c, "credit")
        /\ UNCHANGED <<young, lossy, realized, wallet, limits, cooling, inFlight, switch>>
        /\ ticking' \in BOOLEAN
    BY <1>1 DEF MonitorStart, SquareStart, Starts, Exits, TypeOK, flags
  <2>2. PICK d \in Held, pnl \in Outcomes, s \in {"EXITING", "CLOSED"} :
          trade' = [trade EXCEPT ![d].status = s] /\ Takes(c, d, pnl)
    BY <1>1 DEF MonitorStart, SquareStart, Open, Held
  <2>3. trade' \in [Calls -> Trade]
    BY <2>2 DEF TypeOK, Trade, Held
  <2>4. /\ mem' \in [Calls -> Memory] /\ mem'[c].doc \in Calls
        /\ mem'[c].strategy = mem[c].strategy
        /\ \A b \in Calls : b # c => mem'[b] = mem[b]
    <3>1. mem \in [Calls -> Memory] /\ mem[c] \in Memory /\ d \in Calls /\ pnl \in Int
      BY <2>2, MemoryTyped DEF TypeOK, Held
    <3>2. [mem[c] EXCEPT !.doc = d, !.pnl = pnl] \in Memory
          /\ [mem[c] EXCEPT !.doc = d, !.pnl = pnl].doc = d
          /\ [mem[c] EXCEPT !.doc = d, !.pnl = pnl].strategy = mem[c].strategy
      BY <3>1 DEF Memory
    <3>3. mem' = [mem EXCEPT ![c] = [mem[c] EXCEPT !.doc = d, !.pnl = pnl]]
      BY <2>2, <3>1 DEF Takes, Memory
    <3> QED
      BY <3>1, <3>2, <3>3
  <2>5. /\ pc' \in [Calls -> Pcs] /\ pc'[c] = "credit"
        /\ \A b \in Calls : b # c => pc'[b] = pc[b]
    BY <2>1, GoTyped DEF Pcs
  <2>6. TypeOK'
    BY <2>1, <2>3, <2>4, <2>5 DEF TypeOK, wallet, limits, switch
  <2>7. Placed(c)'
    BY <2>1, <2>4, <2>5
       DEF Paths, Placed, Automated, Vetted, Paying, Leaving, Ordered, Granted, At, Busy,
           Exits, Automatic
  <2> QED
    BY <2>1, <2>4, <2>5, <2>6, <2>7, PathsOfOthers
<1>2. CASE Credit(c)
  <2>1. /\ scene' = scene /\ scene.kind[c] \in Exits /\ mem[c].doc \in Calls /\ pc[c] = "credit"
        /\ mem' = mem /\ Go(c, "persist") /\ lock' = c
        /\ UNCHANGED <<documents, saved, limits, cooling, flags, switch>>
    BY <1>2
       DEF Credit, Paths, Placed, Automated, Vetted, Paying, Leaving, Ordered, Granted, At,
           Busy
  <2>2. cash' \in Int
    <3>1. Cost[trade[mem[c].doc].strategy] \in Int
      BY <2>1 DEF TypeOK, Trade
    <3> QED
      BY <1>2, <3>1 DEF Credit, TypeOK
  <2>3. pc' \in [Calls -> Pcs] /\ pc'[c] = "persist" => Placed(c)'
    BY <2>1
       DEF Paths, Placed, Automated, Vetted, Paying, Leaving, Ordered, Granted, At, Busy,
           Exits, Automatic
  <2>4. pc' \in [Calls -> Pcs] /\ Paths'
    BY <2>1, <2>3, MovedKept DEF Pcs
  <2> QED
    BY <2>1, <2>2, <2>4 DEF TypeOK, documents, limits, flags, switch
<1> QED
  BY <1>1, <1>2

\* The P&L of a trade that is in hand reaches its document.
LEMMA RealizedTyped ==
  ASSUME TypeOK, NEW c \in Calls, mem[c].doc \in Calls, Realized(c)
  PROVE  trade' \in [Calls -> Trade] /\ realized' \in Int /\ lossy' \subseteq Calls
<1>1. mem[c].pnl \in Int /\ trade[mem[c].doc].pnl \in Int
  BY MemoryTyped DEF TypeOK, Trade
<1> QED
  BY <1>1 DEF Realized, TypeOK, Trade

\* A trade that is given back.
LEMMA ReopenedTyped ==
  ASSUME TypeOK, NEW d \in Calls
  PROVE  Reopened(d) \in [Calls -> Trade]
<1>0. trade \in [Calls -> Trade] /\ trade[d] \in Trade
  BY DEF TypeOK
<1>1. [trade[d] EXCEPT !.status = "OPEN", !.again = TRUE] \in Trade
  BY <1>0 DEF Trade
<1>2. Reopened(d) = [trade EXCEPT ![d] = [trade[d] EXCEPT !.status = "OPEN", !.again = TRUE]]
  BY <1>0 DEF Reopened, Trade
<1> QED
  BY <1>0, <1>1, <1>2

\* An exit saves its trade, or gives it back.
LEMMA ClosingKept ==
  ASSUME TypeOK, Paths, NEW c \in Calls,
         Report(c) \/ Close(c) \/ ExitRefused(c) \/ RelockFails(c)
  PROVE  TypeOK' /\ Paths'
<1>0. /\ scene' = scene /\ scene.kind[c] \in Exits /\ mem[c].doc \in Calls
      /\ UNCHANGED <<young, wallet, limits, cooling, switch>>
  BY DEF Report, Close, ExitRefused, RelockFails, Paths, Placed, Automated, Vetted, Paying,
         Leaving, Ordered,
         Granted, At, Busy
<1>1. trade' \in [Calls -> Trade] /\ realized' \in Int /\ lossy' \subseteq Calls
  <2>1. \/ Realized(c)
        \/ (trade' = trade \/ trade' = Reopened(mem[c].doc)) /\ UNCHANGED <<lossy, realized>>
    BY DEF Report, Close, ExitRefused, RelockFails
  <2> QED
    BY <1>0, <2>1, RealizedTyped, ReopenedTyped DEF TypeOK
<1>2. CASE Report(c)
  <2>1. /\ pc' \in [Calls -> Pcs] /\ mem' \in [Calls -> Memory]
        /\ pc'[c] = "load" /\ mem'[c] = [mem[c] EXCEPT !.next = "tally"]
        /\ mem'[c].next = "tally"
        /\ \A b \in Calls : b # c => pc'[b] = pc[b] /\ mem'[b] = mem[b]
    BY <1>2, AskTyped, MemoryTyped DEF Report, Loaded
  <2>2. mem'[c].doc = mem[c].doc
    BY <2>1, MemoryTyped DEF Memory
  <2>3. Placed(c)'
    BY <1>0, <2>1, <2>2
       DEF Paths, Placed, Automated, Vetted, Paying, Leaving, Ordered, Granted, At, Busy,
           Exits, Automatic
  <2>4. TypeOK'
    BY <1>0, <1>1, <1>2, <2>1 DEF Report, TypeOK, wallet, limits, flags, switch
  <2> QED
    BY <1>0, <2>1, <2>3, <2>4, PathsOfOthers
<1>3. CASE Close(c) \/ ExitRefused(c) \/ RelockFails(c)
  <2>0. Ends(c)
    BY <1>3 DEF Close, ExitRefused, RelockFails
  <2>1. TypeOK'
    BY <1>0, <1>1, <2>0, EndsTyped DEF TypeOK, wallet, limits, switch
  <2> QED
    BY <1>0, <2>0, <2>1, OverKept
<1> QED
  BY <1>2, <1>3

\* An outcome on a sum and a streak that are numbers.
LEMMA OutcomeTyped ==
  ASSUME TypeOK, NEW c \in Calls, NEW n \in Int, NEW k \in Nat, Outcome(c, n, k)
  PROVE  /\ risk' \in [streak : Nat, pause : BOOLEAN, known : BOOLEAN, sum : Int]
         /\ Go(c, "relock") \/ Go(c, "close")
<1> DEFINE day == n + mem[c].pnl
           loss == mem[c].pnl < 0
           run == loss /\ k + 1 >= MaxConsecutiveLosses
           streak == StreakAfter(loss, run /\ day > 0, k)
           pause == risk.pause \/ (run /\ day > 0)
<1>1. day \in Int
  BY MemoryTyped
<1>2. streak \in Nat
  BY DEF StreakAfter
<1>3. pause \in BOOLEAN
  BY DEF TypeOK
<1>4. risk' = [streak |-> streak, pause |-> pause, known |-> TRUE, sum |-> day]
  BY DEF Outcome
<1>5. Go(c, "relock") \/ Go(c, "close")
  BY DEF Outcome
<1> HIDE DEF day, streak, pause
<1> QED
  BY <1>1, <1>2, <1>3, <1>4, <1>5

\* What the documents of the day give is taken in hand; nothing else is.
LEMMA TallyKeeps ==
  ASSUME TypeOK, NEW c \in Calls, Tally(c)
  PROVE  /\ \E sum \in Int, streak \in Nat :
               mem' = [mem EXCEPT ![c].sum = sum, ![c].streak = streak]
         /\ mem' \in [Calls -> Memory]
         /\ \A b \in Calls : b # c => mem'[b] = mem[b]
         /\ mem'[c].doc = mem[c].doc /\ mem'[c].pnl = mem[c].pnl
         /\ mem'[c].unlock = mem[c].unlock /\ mem'[c].mock = mem[c].mock
<1>1. mem \in [Calls -> Memory] /\ mem[c] \in Memory
  BY MemoryTyped DEF TypeOK
<1>2. \E sum \in Int, streak \in Nat :
         mem' = [mem EXCEPT ![c].sum = sum, ![c].streak = streak]
  <2>1. CASE risk.known
    <3>1. mem' = [mem EXCEPT ![c].sum = mem[c].sum, ![c].streak = mem[c].streak]
      BY <1>1, <2>1 DEF Tally, Memory
    <3> QED
      BY <3>1, MemoryTyped
  <2>2. CASE ~risk.known
    <3>1. DaySums \subseteq Int /\ risk.streak \in Nat
      BY DEF DaySums, DaySum, TypeOK
    <3>2. \E sum \in DaySums : mem' = [mem EXCEPT ![c].sum = sum, ![c].streak = risk.streak]
      BY <2>2 DEF Tally
    <3> QED
      BY <3>1, <3>2
  <2> QED
    BY <2>1, <2>2
<1>3. PICK sum \in Int, streak \in Nat :
         mem' = [mem EXCEPT ![c].sum = sum, ![c].streak = streak]
  BY <1>2
<1>4. mem' = [mem EXCEPT ![c] = [mem[c] EXCEPT !.sum = sum, !.streak = streak]]
  BY <1>1, <1>3 DEF Memory
<1> DEFINE m == [mem[c] EXCEPT !.sum = sum, !.streak = streak]
<1>5. /\ m \in Memory /\ m.doc = mem[c].doc /\ m.pnl = mem[c].pnl
      /\ m.unlock = mem[c].unlock /\ m.mock = mem[c].mock
  BY <1>1 DEF Memory
<1>6. mem' = [mem EXCEPT ![c] = m]
  BY <1>4
<1> HIDE DEF m
<1>7. /\ mem' \in [Calls -> Memory] /\ mem'[c] = m
      /\ \A b \in Calls : b # c => mem'[b] = mem[b]
  BY <1>1, <1>5, <1>6
<1>8. /\ mem'[c].doc = mem[c].doc /\ mem'[c].pnl = mem[c].pnl
      /\ mem'[c].unlock = mem[c].unlock /\ mem'[c].mock = mem[c].mock
  BY <1>5, <1>7
<1> QED
  BY <1>2, <1>7, <1>8, Zenon

\* The outcome, and the daily lock it may lead to.
LEMMA OutcomeKept ==
  ASSUME TypeOK, Paths, NEW c \in Calls, Tally(c) \/ Post(c) \/ Relock(c)
  PROVE  TypeOK' /\ Paths'
<1> USE EntriesAssumption
<1>0. /\ scene' = scene /\ scene.kind[c] \in Exits /\ mem[c].doc \in Calls
      /\ UNCHANGED <<documents, wallet, cooling, flags, switch>>
  BY DEF Tally, Post, Relock, Paths, Placed, Automated, Vetted, Paying, Leaving, Ordered,
         Granted, At, Busy
<1>1. ASSUME NEW l \in {"relock", "close", "post"}, Go(c, l), UNCHANGED mem,
             settings' \in [current : BOOLEAN, lock : BOOLEAN, panic : BOOLEAN],
             locked' \in BOOLEAN,
             risk' \in [streak : Nat, pause : BOOLEAN, known : BOOLEAN, sum : Int]
      PROVE  TypeOK' /\ Paths'
  <2>1. pc' \in [Calls -> Pcs] /\ pc'[c] = l => Placed(c)'
    BY <1>0, <1>1
       DEF Paths, Placed, Automated, Vetted, Paying, Leaving, Ordered, Granted, At, Busy,
           Exits, Automatic
  <2>2. pc' \in [Calls -> Pcs] /\ Paths'
    BY <1>0, <1>1, <2>1, MovedKept DEF Pcs
  <2> QED
    BY <1>0, <1>1, <2>2 DEF TypeOK, documents, wallet, flags, switch
<1>2. CASE Tally(c) /\ risk.known
  <2>1. Outcome(c, risk.sum, risk.streak) /\ UNCHANGED <<settings, locked, mem>>
    BY <1>2 DEF Tally
  <2>2. risk.sum \in Int /\ risk.streak \in Nat
    BY DEF TypeOK
  <2> QED
    BY <1>1, <2>1, <2>2, OutcomeTyped DEF TypeOK
<1>3. CASE Tally(c) /\ ~risk.known
  <2>0. /\ DaySums \subseteq Int
        /\ \E sum \in DaySums : mem' = [mem EXCEPT ![c].sum = sum, ![c].streak = risk.streak]
    <3>1. DaySums \subseteq Int
      BY DEF DaySums, DaySum, TypeOK
    <3> QED
      BY <1>3, <3>1 DEF Tally
  <2> PICK sum \in DaySums : mem' = [mem EXCEPT ![c].sum = sum, ![c].streak = risk.streak]
    BY <2>0
  <2>1. /\ mem' = [mem EXCEPT ![c].sum = sum, ![c].streak = risk.streak]
        /\ Go(c, "post") /\ UNCHANGED <<settings, locked, risk>>
    BY <1>3 DEF Tally
  <2>2. /\ mem' \in [Calls -> Memory] /\ mem'[c].doc = mem[c].doc
        /\ mem'[c].strategy = mem[c].strategy
        /\ \A b \in Calls : b # c => mem'[b] = mem[b]
    <3>1. mem \in [Calls -> Memory] /\ mem[c] \in Memory /\ sum \in Int /\ risk.streak \in Nat
      BY <2>0, MemoryTyped DEF TypeOK
    <3>2. [mem[c] EXCEPT !.sum = sum, !.streak = risk.streak] \in Memory
          /\ [mem[c] EXCEPT !.sum = sum, !.streak = risk.streak].doc = mem[c].doc
          /\ [mem[c] EXCEPT !.sum = sum, !.streak = risk.streak].strategy = mem[c].strategy
      BY <3>1 DEF Memory
    <3>3. mem' = [mem EXCEPT ![c] = [mem[c] EXCEPT !.sum = sum, !.streak = risk.streak]]
      BY <2>1, <3>1 DEF Memory
    <3> QED
      BY <3>1, <3>2, <3>3
  <2>3. /\ pc' \in [Calls -> Pcs] /\ pc'[c] = "post"
        /\ \A b \in Calls : b # c => pc'[b] = pc[b]
    BY <2>1, GoTyped DEF Pcs
  <2>4. Placed(c)'
    BY <1>0, <2>2, <2>3
       DEF Paths, Placed, Automated, Vetted, Paying, Leaving, Ordered, Granted, At, Busy,
           Exits, Automatic
  <2>5. TypeOK'
    BY <1>0, <2>1, <2>2, <2>3 DEF TypeOK, documents, wallet, flags, switch
  <2> QED
    BY <1>0, <2>2, <2>3, <2>4, <2>5, PathsOfOthers
<1>4. CASE Post(c)
  <2>1. Outcome(c, mem[c].sum, mem[c].streak) /\ UNCHANGED <<settings, locked, mem>>
    BY <1>4 DEF Post
  <2> QED
    BY <1>1, <2>1, MemoryTyped, OutcomeTyped DEF TypeOK
<1>5. CASE Relock(c)
  <2>1. Go(c, "close") /\ UNCHANGED mem /\ UNCHANGED risk
    BY <1>5 DEF Relock
  <2>2. locked' \in BOOLEAN /\ settings' \in [current : BOOLEAN, lock : BOOLEAN, panic : BOOLEAN]
    BY <1>5 DEF Relock, TypeOK
  <2> QED
    BY <1>1, <2>1, <2>2 DEF TypeOK
<1> QED
  BY <1>2, <1>3, <1>4, <1>5

-----------------------------------------------------------------------------
(* The operator, the clock and restarts. *)

\* The operator's calls.
LEMMA OperatorKept ==
  ASSUME TypeOK, Paths, NEW c \in Calls,
         \/ Halt(c) \/ Resume(c) \/ SwitchSaved(c)
         \/ PanicStop(c) \/ ResetLock(c) \/ ForgetStreak(c)
  PROVE  TypeOK' /\ Paths'
<1>0. /\ scene' = scene /\ mem' = mem
      /\ UNCHANGED <<documents, wallet, cooling, flags>>
  BY DEF Halt, Resume, SwitchSaved, PanicStop, ResetLock, ForgetStreak
<1>1. settings' \in [current : BOOLEAN, lock : BOOLEAN, panic : BOOLEAN]
  <2>1. settings \in [current : BOOLEAN, lock : BOOLEAN, panic : BOOLEAN]
    BY DEF TypeOK
  <2>2. CASE PanicStop(c)
    BY <2>1, <2>2 DEF PanicStop
  <2>3. CASE ResetLock(c)
    BY <2>1, <2>3 DEF ResetLock
  <2>4. CASE UNCHANGED settings
    BY <2>1, <2>4
  <2> QED
    BY <2>2, <2>3, <2>4 DEF Halt, Resume, SwitchSaved, ForgetStreak, limits
<1>2. risk' \in [streak : Nat, pause : BOOLEAN, known : BOOLEAN, sum : Int]
  <2>1. risk \in [streak : Nat, pause : BOOLEAN, known : BOOLEAN, sum : Int]
    BY DEF TypeOK
  <2>2. CASE ForgetStreak(c)
    BY <2>1, <2>2 DEF ForgetStreak
  <2>3. CASE UNCHANGED risk
    BY <2>1, <2>3
  <2> QED
    BY <2>2, <2>3 DEF Halt, Resume, SwitchSaved, PanicStop, ResetLock, limits
<1>3. /\ locked' \in BOOLEAN
      /\ halted' \in BOOLEAN /\ haltedDoc' \in BOOLEAN /\ stopped' \in BOOLEAN
      /\ boot' \in Boots
  BY DEF Halt, Resume, SwitchSaved, PanicStop, ResetLock, ForgetStreak, TypeOK, limits, switch
<1>4. PICK l \in {"switch", "forget", "done"} :
        Go(c, l) /\ (l = "done" \/ scene.kind[c] \notin Exits)
  BY DEF Halt, Resume, SwitchSaved, PanicStop, ResetLock, ForgetStreak, Starts, Exits
<1>6. pc' \in [Calls -> Pcs] /\ pc'[c] = l => Placed(c)'
  BY <1>0, <1>4 DEF Paths, Placed, Automated, Vetted, Paying, Leaving, Ordered, Granted, At, Busy
<1>7. pc' \in [Calls -> Pcs] /\ Paths'
  BY <1>0, <1>4, <1>6, MovedKept DEF Pcs
<1> QED
  BY <1>0, <1>1, <1>2, <1>3, <1>7 DEF TypeOK, documents, wallet, flags

\* What lapses while every call is at rest.
LEMMA ClockKept ==
  ASSUME TypeOK, Paths, (\E s \in Strategies : CooldownOver(s)) \/ LossesOver \/ NewDay
  PROVE  TypeOK' /\ Paths'
<1>0. UNCHANGED <<scene, wallet, flags, switch, pc, mem>>
  BY DEF CooldownOver, LossesOver, NewDay, wallet, flags, switch
<1>1. Paths'
  BY <1>0 DEF Paths, Placed, Automated, Vetted, Paying, Leaving, Ordered, Granted, At, Busy
<1>2. young' \subseteq Calls /\ lossy' \subseteq Calls /\ cooling' \subseteq Strategies
  BY DEF CooldownOver, LossesOver, NewDay, TypeOK
<1>3. trade' \in [Calls -> Trade] /\ realized' \in Int
  <2>1. trade \in [Calls -> Trade] /\ realized \in Int
    BY DEF TypeOK
  <2>2. \A d \in Calls : [trade[d] EXCEPT !.pnl = 0] \in Trade
    BY <2>1 DEF Trade
  <2>3. CASE NewDay
    BY <2>2, <2>3 DEF NewDay
  <2>4. CASE UNCHANGED <<trade, realized>>
    BY <2>1, <2>4
  <2> QED
    BY <2>3, <2>4 DEF CooldownOver, LossesOver
<1>4. risk' \in [streak : Nat, pause : BOOLEAN, known : BOOLEAN, sum : Int]
  <2>1. risk \in [streak : Nat, pause : BOOLEAN, known : BOOLEAN, sum : Int]
    BY DEF TypeOK
  <2>2. CASE LossesOver
    BY <2>1, <2>2 DEF LossesOver
  <2>3. CASE NewDay
    <3>1. \A x, y \in BOOLEAN, n \in Int :
            [risk EXCEPT !.pause = x, !.known = y, !.sum = n]
              \in [streak : Nat, pause : BOOLEAN, known : BOOLEAN, sum : Int]
      BY <2>1
    <3>2. FALSE \in BOOLEAN /\ 0 \in Int
      OBVIOUS
    <3>3. [risk EXCEPT !.pause = FALSE, !.known = FALSE, !.sum = 0]
            \in [streak : Nat, pause : BOOLEAN, known : BOOLEAN, sum : Int]
      BY <3>1, <3>2, Zenon
    <3> QED
      BY <2>3, <3>3, Zenon DEF NewDay
  <2>4. CASE UNCHANGED risk
    BY <2>1, <2>4
  <2> QED
    BY <2>2, <2>3, <2>4 DEF CooldownOver, limits
<1>5. settings' \in [current : BOOLEAN, lock : BOOLEAN, panic : BOOLEAN]
  <2>1. settings \in [current : BOOLEAN, lock : BOOLEAN, panic : BOOLEAN]
    BY DEF TypeOK
  <2>2. CASE NewDay
    BY <2>1, <2>2 DEF NewDay
  <2>3. CASE UNCHANGED settings
    BY <2>1, <2>3
  <2> QED
    BY <2>2, <2>3 DEF CooldownOver, LossesOver, limits
<1>6. locked' \in BOOLEAN
  BY DEF CooldownOver, LossesOver, NewDay, TypeOK, limits
<1> QED
  BY <1>0, <1>1, <1>2, <1>3, <1>4, <1>5, <1>6 DEF TypeOK, wallet, flags, switch

\* A server that starts again has nothing under way.
LEMMA RestartKept ==
  ASSUME TypeOK, Paths, Restart
  PROVE  TypeOK' /\ Paths'
<1>1. /\ pc' \in [Calls -> Pcs] /\ mem' \in [Calls -> Memory]
      /\ \A b \in Calls : pc'[b] \in {"idle", "done"} /\ mem'[b] = NoMem
  BY NoMemTyped DEF Restart, TypeOK, Busy, Pcs
<1>2. \A c \in Calls : Placed(c)'
  BY <1>1 DEF Paths, Placed, Automated, Vetted, Paying, Leaving, Ordered, Granted, At, Busy, NoMem
<1>3. Paths'
  BY <1>2 DEF Paths
<1>4. risk' \in [streak : Nat, pause : BOOLEAN, known : BOOLEAN, sum : Int]
  BY DEF Restart, NoRisk
<1>5. /\ cash' \in Int /\ lock' \in Calls \cup {NoCall} /\ cooling' \subseteq Strategies
      /\ inFlight' \in BOOLEAN /\ ticking' \in BOOLEAN /\ halted' \in BOOLEAN
      /\ boot' \in Boots
  <2>1. cash' \in Int
    <3>1. cash' \in {saved, Equity}
      BY DEF Restart
    <3> QED
      BY <3>1, EntriesAssumption DEF TypeOK
  <2>2. halted' \in BOOLEAN
    BY DEF Restart, TypeOK, Switch, Restored
  <2>3. boot' \in Boots
    BY DEF Restart, Boots
  <2> QED
    BY <2>1, <2>2, <2>3 DEF Restart
<1> QED
  BY <1>1, <1>3, <1>4, <1>5 DEF Restart, TypeOK, documents

\* A server that comes up, and trades whose exit a restart has cut off.
Recovering == \E d \in Calls : Recovered(d)
Booting == Connect \/ SwitchRestored \/ Hydrated

\* Neither touches what calls have in hand.
LEMMA BootKept ==
  ASSUME TypeOK, Paths, Recovering \/ Booting
  PROVE  TypeOK' /\ Paths'
<1>1. UNCHANGED <<scene, limits, cooling, flags, pc, mem>>
  BY DEF Recovering, Recovered, Booting, Connect, SwitchRestored, Hydrated
<1>2. Paths'
  BY <1>1 DEF Paths, Placed, Automated, Vetted, Paying, Leaving, Ordered, Granted, At, Busy
<1>3. CASE Recovering
  BY <1>1, <1>2, <1>3, ReopenedTyped
     DEF Recovering, Recovered, TypeOK, wallet, limits, flags, switch
<1>4. CASE Booting
  <2>1. cash' \in Int /\ halted' \in BOOLEAN /\ boot' \in Boots
    BY <1>4
       DEF Booting, Connect, SwitchRestored, Hydrated, Switch, Restored, TypeOK, wallet, Boots
  <2> QED
    BY <1>1, <1>2, <1>4, <2>1
       DEF Booting, Connect, SwitchRestored, Hydrated, TypeOK, documents, wallet, limits, flags
<1> QED
  BY <1>3, <1>4

\* The scene stays what it is.
LEMMA NextScene ==
  ASSUME [Next]_vars
  PROVE  scene' = scene
<1>1. ASSUME NEW c \in Calls, Start(c) PROVE scene' = scene
  BY <1>1 DEF Start, SettingsStart, AutoStart, DaemonTick, StrategyStart, OrderStart,
              MonitorStart, SquareStart, Halt, Resume, PanicStop, ResetLock
<1>2. ASSUME NEW c \in Calls, Step(c) PROVE scene' = scene
  BY <1>2 DEF Step, Load, Roll, Mock, Answer, DaemonCount, DaemonLimit, Propose, TurnedDown,
              Vet, Reserve, Place, Payable, Debit, Persist, Create, Credit, ExitRefused,
              Report, Close, Tally, Post, Relock, RelockFails, SwitchSaved, ForgetStreak
<1>3. CASE Recovering \/ Booting
  BY <1>3 DEF Recovering, Booting, Recovered, Connect, SwitchRestored, Hydrated
<1>4. CASE (\E s \in Strategies : CooldownOver(s)) \/ LossesOver \/ NewDay \/ Restart
  BY <1>4 DEF CooldownOver, LossesOver, NewDay, Restart
<1> QED
  BY <1>1, <1>2, <1>3, <1>4 DEF Next, vars, Recovering, Booting

\* Every step keeps the types, and what Paths says.
LEMMA NextKept ==
  ASSUME TypeOK, Paths, [Next]_vars
  PROVE  TypeOK' /\ Paths'
<1>1. CASE UNCHANGED vars
  BY <1>1
     DEF vars, documents, wallet, limits, flags, switch, TypeOK, Paths, Placed, Automated,
         Vetted, Paying, Leaving, Ordered, Granted, At, Busy
<1>2. ASSUME NEW c \in Calls, Start(c)
      PROVE  TypeOK' /\ Paths'
  BY <1>2, SettingsKept, ProposingKept, OrderingKept, LeavingKept, OperatorKept DEF Start
<1>3. ASSUME NEW c \in Calls, Step(c)
      PROVE  TypeOK' /\ Paths'
  BY <1>3, SettingsKept, ProposingKept, GuardedKept, OrderingKept, DebitKept, PersistKept,
     CreateKept, LeavingKept, ClosingKept, OutcomeKept, OperatorKept DEF Step
<1>4. CASE (\E s \in Strategies : CooldownOver(s)) \/ LossesOver \/ NewDay
  BY <1>4, ClockKept
<1>5. CASE Restart
  BY <1>5, RestartKept
<1>6. CASE Recovering \/ Booting
  BY <1>6, BootKept
<1> QED
  BY <1>1, <1>2, <1>3, <1>4, <1>5, <1>6 DEF Next, Recovering, Booting

\* The strengthened invariant.
LEMMA TypedInv == Spec => [](TypeOK /\ Paths)
<1>1. Init => TypeOK /\ Paths
  BY InitTyped, InitPaths
<1>2. TypeOK /\ Paths /\ [Next]_vars => (TypeOK /\ Paths)'
  BY NextKept
<1> QED
  BY <1>1, <1>2, PTL DEF Spec

\* Type correctness: above all, an exit that credits, reports or records always
\* has a trade in hand, and only a strategy of the engine is reserved.
THEOREM TypeCorrect == Spec => []TypeOK
BY TypedInv, PTL

\* A server that answers nobody while it starts is up whenever anyone looks.
Up == ~(Fault("crash") /\ Fault("boot")) => boot = "up"

LEMMA BootLeft ==
  ASSUME NEW c \in Calls, Start(c) \/ Step(c)
  PROVE  boot' = boot
BY DEF Start, Step, switch, SettingsStart, AutoStart, DaemonTick, StrategyStart, OrderStart,
       MonitorStart, SquareStart, Halt, Resume, PanicStop, ResetLock, Load, Roll, Mock,
       Answer, DaemonCount, DaemonLimit, Propose, TurnedDown, Vet, Reserve, Place, Payable,
       Debit, Persist, Create, Credit, ExitRefused, Report, Close, Tally, Post, Relock,
       RelockFails, SwitchSaved, ForgetStreak

LEMMA NextUp ==
  ASSUME Up, [Next]_vars
  PROVE  Up'
<1>0. scene' = scene
  BY NextScene
<1> SUFFICES ASSUME ~(Fault("crash") /\ Fault("boot")), boot = "up" PROVE boot' = "up"
  BY <1>0 DEF Up, Fault
<1>1. ~Booting /\ (Restart => boot' = "up")
  BY DEF Booting, Connect, SwitchRestored, Hydrated, Restart
<1>2. Recovering \/ (\E s \in Strategies : CooldownOver(s)) \/ LossesOver \/ NewDay
        => boot' = boot
  BY DEF Recovering, Recovered, CooldownOver, LossesOver, NewDay, switch
<1> QED
  BY <1>1, <1>2, BootLeft DEF Next, vars, switch, Recovering, Booting

LEMMA UpInv == Spec => []Up
<1>1. Init => Up
  BY DEF Init, Up
<1> QED
  BY <1>1, NextUp, PTL DEF Spec

-----------------------------------------------------------------------------
(* One open trade of a strategy.                                             *)
(*                                                                           *)
(* An entry that was granted its strategy holds it until its trade is open.  *)
(* What it holds is in the cooldown map, nobody else holds it, and no trade  *)
(* of it is open; an entry that has yet to look at the map was answered by   *)
(* the query before, so that a trade opened since then is in the map.  Where *)
(* the query may throw, every open trade's strategy is in the map.           *)

Guarded == Automatic \cup {"strategy"}

Holding(c) ==
    pc[c] \in {"place", "debit", "persist", "create"} /\ scene.kind[c] \in Guarded

Reserved == \A c \in Calls : Holding(c) => mem[c].strategy \in cooling

HeldOnce ==
    \A b, c \in Calls :
        Holding(b) /\ Holding(c) /\ mem[b].strategy = mem[c].strategy => b = c

HeldUnopened ==
    \A c \in Calls, d \in Standing : Holding(c) => trade[d].strategy # mem[c].strategy

ClearOrCooling ==
    \A c \in Calls, d \in Standing :
        /\ pc[c] = "reserve" /\ mem[c].clear
        /\ trade[d].strategy = mem[c].strategy
        => mem[c].strategy \in cooling

OpenCools ==
    Fault("read") =>
        \A d \in Standing :
            trade[d].strategy # ScannerStrategy => trade[d].strategy \in cooling

OneStanding ==
    \A d, e \in Standing :
        trade[d].strategy = trade[e].strategy /\ trade[d].strategy # ScannerStrategy => d = e

OneInv ==
    /\ Reserved /\ HeldOnce /\ HeldUnopened /\ ClearOrCooling
    /\ OpenCools /\ OneStanding

\* The query or the map knows of every open trade.
Sighted == ~Fault("boot") /\ ~(Fault("read") /\ (scene.clock \/ Fault("crash")))

\* No trade opens, and no strategy is reserved or released.
Undisturbed ==
    /\ scene' = scene /\ cooling' = cooling
    /\ \A d \in Standing' :
           /\ d \in Standing
           /\ trade'[d].strategy = trade[d].strategy /\ trade'[d].way = trade[d].way

\* The other calls stay where they are.
Alone(c) == \A b \in Calls : b # c => pc'[b] = pc[b] /\ mem'[b] = mem[b]

\* A call that neither begins to hold nor comes to the reservation.
Quiet(c) ==
    /\ Undisturbed /\ Alone(c)
    /\ pc'[c] # "reserve"
    /\ Holding(c)' =>
           Holding(c) /\ mem'[c].strategy = mem[c].strategy /\ mem'[c].way = mem[c].way

\* Such a call disturbs nothing.
LEMMA QuietKept ==
  ASSUME OneInv, NEW c \in Calls, Quiet(c)
  PROVE  OneInv'
<1>0. Undisturbed /\ Alone(c)
  BY DEF Quiet
<1>1. \A d \in Calls : d \in Standing' =>
         d \in Standing /\ trade'[d].strategy = trade[d].strategy
  BY <1>0 DEF Undisturbed, Standing, Open
<1>2. \A b \in Calls : Holding(b)' => Holding(b) /\ mem'[b].strategy = mem[b].strategy
  BY <1>0 DEF Quiet, Undisturbed, Alone, Holding
<1>3. \A b \in Calls : pc'[b] = "reserve" =>
         pc[b] = "reserve" /\ mem'[b].clear = mem[b].clear
           /\ mem'[b].strategy = mem[b].strategy
  BY <1>0 DEF Quiet, Alone
<1>4. cooling' = cooling /\ Standing' \subseteq Calls
  BY <1>0 DEF Undisturbed, Standing, Open
<1>5. Reserved' /\ HeldOnce'
  BY <1>2, <1>4 DEF OneInv, Reserved, HeldOnce
<1>6. HeldUnopened'
  BY <1>1, <1>2, <1>4 DEF OneInv, HeldUnopened
<1>7. ClearOrCooling'
  BY <1>1, <1>3, <1>4 DEF OneInv, ClearOrCooling
<1>8. OneStanding' /\ OpenCools'
  BY <1>0, <1>1, <1>4 DEF OneInv, OneStanding, OpenCools, Undisturbed, Fault
<1> QED
  BY <1>5, <1>6, <1>7, <1>8 DEF OneInv

\* Steps that move one call on, to an await where nothing is held.
LEMMA FirstStepsQuiet ==
  ASSUME TypeOK, Paths, NEW c \in Calls, Start(c)
  PROVE  Quiet(c)
<1>1. scene' = scene /\ cooling' = cooling
  BY DEF Start, SettingsStart, AutoStart, DaemonTick, StrategyStart, OrderStart,
         MonitorStart, SquareStart, Halt, Resume, PanicStop, ResetLock
<1>2. Alone(c) /\ pc'[c] \notin {"place", "debit", "persist", "create", "reserve"}
  <2>1. CASE SettingsStart(c) \/ OrderStart(c) \/ StrategyStart(c)
    <3>1. \/ Go(c, "done") /\ UNCHANGED mem
          \/ Ask(c, "answer", mem[c]) \/ Ask(c, "payable", mem[c])
          \/ \E s \in scene.signals : Proposal(c, s)
      BY <2>1 DEF SettingsStart, OrderStart, StrategyStart
    <3>2. CASE \E s \in scene.signals : Proposal(c, s)
      BY <3>2 DEF Proposal, Ask, Go, Alone, TypeOK
    <3> QED
      BY <3>1, <3>2 DEF Ask, Go, Alone, TypeOK
  <2>2. CASE AutoStart(c)
    BY <2>2 DEF AutoStart, Enter, Refused, Go, Alone, TypeOK
  <2>3. CASE DaemonTick(c)
    BY <2>3 DEF DaemonTick, Go, Alone, TypeOK
  <2>4. CASE MonitorStart(c) \/ SquareStart(c)
    BY <2>4 DEF MonitorStart, SquareStart, Takes, Go, Alone, TypeOK
  <2>5. CASE Halt(c) \/ Resume(c) \/ PanicStop(c) \/ ResetLock(c)
    BY <2>5 DEF Halt, Resume, PanicStop, ResetLock, Go, Alone, TypeOK
  <2> QED
    BY <2>1, <2>2, <2>3, <2>4, <2>5 DEF Start
<1>3. \A d \in Standing' :
         /\ d \in Standing
         /\ trade'[d].strategy = trade[d].strategy /\ trade'[d].way = trade[d].way
  <2>1. CASE trade' = trade
    BY <2>1 DEF Standing, Open
  <2>2. ASSUME NEW x \in Calls, NEW s \in {"EXITING", "CLOSED"},
               trade' = [trade EXCEPT ![x].status = s]
        PROVE  \A d \in Standing' :
                 /\ d \in Standing
                 /\ trade'[d].strategy = trade[d].strategy /\ trade'[d].way = trade[d].way
    BY <2>2 DEF TypeOK, Trade, Standing, Open
  <2>3. trade' = trade \/ MonitorStart(c) \/ SquareStart(c)
    BY DEF Start, SettingsStart, AutoStart, DaemonTick, StrategyStart, OrderStart, Halt,
           Resume, PanicStop, ResetLock, documents
  <2> QED
    BY <2>1, <2>2, <2>3 DEF MonitorStart, SquareStart, Standing, Open, Held
<1> QED
  BY <1>1, <1>2, <1>3 DEF Quiet, Undisturbed, Holding

\* Calls on their way: nothing is held there, or what was held still is.
LEMMA LaterStepsQuiet ==
  ASSUME TypeOK, Paths, NEW c \in Calls,
         \/ Load(c) \/ Roll(c) \/ Mock(c) \/ Answer(c) \/ DaemonCount(c) \/ DaemonLimit(c)
         \/ Propose(c) \/ TurnedDown(c) \/ Payable(c) \/ Debit(c) \/ Persist(c)
         \/ Credit(c) \/ ExitRefused(c) \/ Report(c) \/ Close(c) \/ Tally(c) \/ Post(c)
         \/ Relock(c) \/ RelockFails(c) \/ SwitchSaved(c) \/ ForgetStreak(c)
  PROVE  Quiet(c)
<1>1. scene' = scene /\ cooling' = cooling
  BY DEF Load, Roll, Mock, Answer, DaemonCount, DaemonLimit, Propose, TurnedDown, Payable, Debit,
         Persist, Credit, ExitRefused, Report, Close, Tally, Post, Relock, RelockFails,
         SwitchSaved, ForgetStreak
<1>2. \A d \in Standing' :
         /\ d \in Standing
         /\ trade'[d].strategy = trade[d].strategy /\ trade'[d].way = trade[d].way
  <2>1. trade' = trade \/ Realized(c) \/ trade' = Reopened(mem[c].doc)
    BY DEF Load, Roll, Mock, Answer, DaemonCount, DaemonLimit, Propose, TurnedDown, Payable,
           Debit, Persist, Credit, ExitRefused, Report, Close, Tally, Post, Relock, RelockFails,
           SwitchSaved,
           ForgetStreak, documents
  <2>2. CASE Realized(c)
    BY <2>2 DEF Realized, TypeOK, Trade, Standing, Open
  <2>3. CASE trade' = Reopened(mem[c].doc)
    BY <2>3, MemoryTyped DEF Reopened, TypeOK, Trade, Standing, Open
  <2>4. CASE trade' = trade
    BY <2>4 DEF Standing, Open
  <2> QED
    BY <2>1, <2>2, <2>3, <2>4
<1> DEFINE Away == Alone(c) /\ pc'[c] \notin {"place", "debit", "persist", "create", "reserve"}
<1>3. CASE Load(c) \/ Roll(c) \/ Mock(c)
  <2>1. /\ pc'[c] = "roll" \/ pc'[c] = mem[c].next
        /\ Alone(c)
    BY <1>3, LoadStep DEF Roll, Go, Alone, TypeOK
  <2>2. mem[c].next \in Loaded
    BY MemoryTyped
  <2>3. Away
    BY <2>1, <2>2 DEF Loaded
  <2> QED
    BY <1>1, <1>2, <2>3 DEF Quiet, Undisturbed, Holding
<1>4. CASE \/ Answer(c) \/ TurnedDown(c) \/ DaemonLimit(c) \/ Close(c) \/ ExitRefused(c)
           \/ RelockFails(c)
  <2>1. Ends(c) \/ Refused(c) \/ Enter(c)
    BY <1>4 DEF Answer, TurnedDown, DaemonLimit, Close, ExitRefused, RelockFails
  <2>2. Away
    BY <2>1, EndsTyped DEF Enter, Go, Alone, TypeOK
  <2> QED
    BY <1>1, <1>2, <2>2 DEF Quiet, Undisturbed, Holding
<1>5. CASE DaemonCount(c) \/ Report(c)
  <2>1. Ask(c, "limit", [mem[c] EXCEPT !.count = Cardinality(Open)]) \/ Ask(c, "tally", mem[c])
    BY <1>5 DEF DaemonCount, Report
  <2>2. Away
    BY <2>1 DEF Ask, Go, Alone, TypeOK
  <2> QED
    BY <1>1, <1>2, <2>2 DEF Quiet, Undisturbed, Holding
<1>6. CASE Propose(c)
  <2>1. PICK s \in scene.signals : Proposal(c, s)
    BY <1>6 DEF Propose
  <2>2. Away
    BY <2>1 DEF Proposal, Ask, Go, Alone, TypeOK
  <2> QED
    BY <1>1, <1>2, <2>2 DEF Quiet, Undisturbed, Holding
<1>7. CASE Payable(c)
  <2>1. scene.kind[c] = "order"
    BY <1>7
       DEF Payable, Paths, Placed, Automated, Vetted, Paying, Leaving, Ordered, Granted,
           At, Busy
  <2>2. Alone(c) /\ pc'[c] # "reserve"
    BY <1>7, EndsTyped DEF Payable, Go, Alone, TypeOK
  <2> QED
    BY <1>1, <1>2, <2>1, <2>2
       DEF Quiet, Undisturbed, Holding, Guarded, Automatic
<1>8. CASE Debit(c) \/ Persist(c)
  <2>1. scene.kind[c] \in Entries \cup Exits /\ pc[c] \in {"debit", "persist"}
    BY <1>8
       DEF Debit, Persist, Paths, Placed, Automated, Vetted, Paying, Leaving, Ordered,
           Granted, At, Busy
  <2>2. Alone(c) /\ pc'[c] # "reserve"
    <3>1. \/ Ends(c)
          \/ UNCHANGED mem /\ (\E l \in {"create", "persist", "report"} : Go(c, l))
          \/ Ask(c, "tally", mem[c])
      BY <1>8 DEF Debit, Persist
    <3> QED
      BY <3>1, EndsTyped DEF Ask, Go, Alone, TypeOK
  <2>3. CASE scene.kind[c] \notin Guarded
    BY <1>1, <1>2, <2>2, <2>3 DEF Quiet, Undisturbed, Holding
  <2>4. CASE scene.kind[c] \in Guarded
    <3>1. Ends(c) \/ UNCHANGED mem
      BY <1>8, <2>1, <2>4 DEF Debit, Persist, Guarded, Automatic
    <3>2. CASE Ends(c)
      BY <1>1, <1>2, <2>2, <3>2, EndsTyped DEF Quiet, Undisturbed, Holding
    <3>3. CASE UNCHANGED mem
      BY <1>1, <1>2, <2>1, <2>2, <2>4, <3>3 DEF Quiet, Undisturbed, Holding
    <3> QED
      BY <3>1, <3>2, <3>3
  <2> QED
    BY <2>3, <2>4
<1>9. CASE Credit(c) \/ Tally(c) \/ Post(c) \/ Relock(c)
  <2>1. scene.kind[c] \notin Guarded
    BY <1>9
       DEF Credit, Tally, Post, Relock, Paths, Placed, Automated, Vetted, Paying, Leaving,
           Ordered, Granted, At, Busy, Exits, Guarded, Automatic
  <2>2. Alone(c) /\ pc'[c] # "reserve"
    BY <1>9 DEF Credit, Tally, Post, Relock, Outcome, Go, Alone, TypeOK
  <2> QED
    BY <1>1, <1>2, <2>1, <2>2 DEF Quiet, Undisturbed, Holding
<1>10. CASE SwitchSaved(c) \/ ForgetStreak(c)
  <2>1. Away
    BY <1>10 DEF SwitchSaved, ForgetStreak, Go, Alone, TypeOK
  <2> QED
    BY <1>1, <1>2, <2>1 DEF Quiet, Undisturbed, Holding
<1> QED
  BY <1>3, <1>4, <1>5, <1>6, <1>7, <1>8, <1>9, <1>10

\* The guards' query: a clear answer knows every open trade, or the map does.
LEMMA VetOne ==
  ASSUME TypeOK, Paths, OneInv, NEW c \in Calls, Vet(c), Connected
  PROVE  OneInv'
<1>1. UNCHANGED <<scene, trade, cooling>> /\ pc[c] = "vet"
  BY DEF Vet, documents
<1>2. CASE Ends(c)
  BY <1>1, <1>2, EndsTyped, QuietKept DEF Quiet, Undisturbed, Alone, Holding, Standing, Open
<1>3. CASE ~Ends(c)
  <2>1. PICK b \in BOOLEAN : /\ b = GuardsClear(c) \/ Fault("read")
                             /\ mem' = [mem EXCEPT ![c].clear = b] /\ Go(c, "reserve")
    BY <1>3 DEF Vet, GuardsClear
  <2>2. /\ mem'[c].clear = b /\ mem'[c].strategy = mem[c].strategy
        /\ pc'[c] = "reserve"
        /\ Alone(c)
    <3>1. mem[c] \in Memory
      BY MemoryTyped
    <3>2. /\ [mem[c] EXCEPT !.clear = b].clear = b
          /\ [mem[c] EXCEPT !.clear = b].strategy = mem[c].strategy
      BY <3>1 DEF Memory
    <3>3. mem' = [mem EXCEPT ![c] = [mem[c] EXCEPT !.clear = b]]
      BY <2>1, <3>1 DEF Memory, TypeOK
    <3> QED
      BY <2>1, <3>2, <3>3 DEF Go, Alone, TypeOK
  <2>3. Standing' = Standing /\ Standing \subseteq Open
    BY <1>1 DEF Standing, Open
  <2>4. \A d \in Standing' :
           mem'[c].clear /\ trade'[d].strategy = mem'[c].strategy
           => mem'[c].strategy \in cooling'
    <3>1. CASE Fault("read")
      <4>1. mem[c].strategy \in Strategies
        BY <1>1
           DEF Paths, Placed, Automated, Vetted, Paying, Leaving, Ordered, Granted, At, Busy
      <4> QED
        BY <1>1, <2>2, <2>3, <3>1, <4>1, EntriesAssumption DEF OneInv, OpenCools
    <3>2. CASE b = GuardsClear(c)
      BY <1>1, <2>2, <2>3, <3>2 DEF GuardsClear
    <3> QED
      BY <2>1, <3>1, <3>2
  <2>5. \A a \in Calls : Holding(a)' => Holding(a) /\ mem'[a] = mem[a]
    BY <1>1, <2>2 DEF Holding, Alone
  <2>6. Reserved' /\ HeldOnce' /\ HeldUnopened' /\ OneStanding' /\ OpenCools'
    BY <1>1, <2>3, <2>5
       DEF OneInv, Reserved, HeldOnce, HeldUnopened, OneStanding, OpenCools, Fault
  <2>7. ClearOrCooling'
    BY <1>1, <2>2, <2>3, <2>4 DEF OneInv, ClearOrCooling, Alone
  <2> QED
    BY <2>6, <2>7 DEF OneInv
<1> QED
  BY <1>2, <1>3

\* A strategy that is not cooling is not held, and has no open trade.
LEMMA ReserveOne ==
  ASSUME TypeOK, Paths, OneInv, NEW c \in Calls, Reserve(c)
  PROVE  OneInv'
<1>1. UNCHANGED <<scene, trade>> /\ pc[c] = "reserve" /\ Standing' = Standing
  BY DEF Reserve, documents, Standing, Open
<1>2. CASE Ends(c) /\ UNCHANGED cooling
  BY <1>1, <1>2, EndsTyped, QuietKept DEF Quiet, Undisturbed, Alone, Holding
<1>3. CASE Ends(c) /\ cooling' = cooling \cup {mem[c].strategy}
  <2>1. pc'[c] = "done" /\ Alone(c)
    BY <1>3, EndsTyped DEF Alone
  <2>2. \A b \in Calls : Holding(b)' => Holding(b) /\ mem'[b] = mem[b]
    BY <1>1, <2>1 DEF Holding, Alone
  <2>3. \A b \in Calls : pc'[b] = "reserve" => pc[b] = "reserve" /\ mem'[b] = mem[b]
    BY <2>1 DEF Alone
  <2> QED
    BY <1>1, <1>3, <2>2, <2>3
       DEF OneInv, Reserved, HeldOnce, HeldUnopened, ClearOrCooling, OneStanding, OpenCools,
           Fault
<1>4. CASE ~Ends(c)
  <2>1. /\ mem[c].clear /\ mem[c].strategy \notin cooling
        /\ cooling' = cooling \cup {mem[c].strategy}
        /\ UNCHANGED mem
        /\ Go(c, IF scene.kind[c] = "strategy" THEN "debit" ELSE "place")
    BY <1>4 DEF Reserve
  <2>2. pc'[c] # "reserve" /\ Alone(c)
    BY <2>1 DEF Go, Alone, TypeOK
  <2>3. \A b \in Calls : Holding(b) => mem[b].strategy # mem[c].strategy
    BY <2>1 DEF OneInv, Reserved
  <2>4. \A d \in Standing : trade[d].strategy # mem[c].strategy
    BY <1>1, <2>1 DEF OneInv, ClearOrCooling
  <2>5. \A b \in Calls : Holding(b)' => b = c \/ Holding(b)
    BY <1>1, <2>2 DEF Holding, Alone
  <2>6. Reserved'
    BY <2>1, <2>5 DEF OneInv, Reserved
  <2>7. HeldOnce'
    BY <2>1, <2>3, <2>5 DEF OneInv, HeldOnce
  <2>8. HeldUnopened'
    BY <1>1, <2>1, <2>4, <2>5 DEF OneInv, HeldUnopened
  <2>9. ClearOrCooling'
    BY <1>1, <2>1, <2>2 DEF OneInv, ClearOrCooling, Alone
  <2> QED
    BY <1>1, <2>1, <2>6, <2>7, <2>8, <2>9 DEF OneInv, OneStanding, OpenCools, Fault
<1> QED
  BY <1>2, <1>3, <1>4 DEF Reserve

\* A reservation that is given back was nobody else's.
LEMMA PlaceOne ==
  ASSUME TypeOK, Paths, OneInv, NEW c \in Calls, Place(c)
  PROVE  OneInv'
<1>1. UNCHANGED <<scene, trade>> /\ pc[c] = "place" /\ Standing' = Standing
  BY DEF Place, documents, Standing, Open
<1>2. Holding(c)
  BY <1>1
     DEF Holding, Guarded, Paths, Placed, Automated, Vetted, Paying, Leaving, Ordered,
         Granted, At, Busy
<1>3. CASE Ends(c) /\ cooling' = Released(c)
  <2>1. pc'[c] = "done" /\ Alone(c)
    BY <1>3, EndsTyped DEF Alone
  <2>2. \A b \in Calls : Holding(b)' =>
           Holding(b) /\ mem'[b] = mem[b] /\ mem[b].strategy # mem[c].strategy
    BY <1>1, <1>2, <2>1 DEF OneInv, HeldOnce, Holding, Alone
  <2>3. \A b \in Calls : pc'[b] = "reserve" => pc[b] = "reserve" /\ mem'[b] = mem[b]
    BY <2>1 DEF Alone
  <2>4. \A d \in Standing : trade[d].strategy # mem[c].strategy
    BY <1>2 DEF OneInv, HeldUnopened
  <2>5. Reserved' /\ HeldOnce' /\ HeldUnopened'
    BY <1>1, <1>3, <2>2 DEF OneInv, Reserved, HeldOnce, HeldUnopened, Released
  <2>6. ClearOrCooling'
    BY <1>1, <1>3, <2>3, <2>4 DEF OneInv, ClearOrCooling, Released
  <2> QED
    BY <1>1, <1>3, <2>4, <2>5, <2>6 DEF OneInv, OneStanding, OpenCools, Released, Fault
<1>4. CASE Go(c, "debit") /\ UNCHANGED <<cooling, mem>>
  BY <1>1, <1>2, <1>4, QuietKept DEF Quiet, Undisturbed, Alone, Go, TypeOK
<1> QED
  BY <1>3, <1>4 DEF Place

\* A trade opens for the strategy its entry holds.
LEMMA CreateOne ==
  ASSUME TypeOK, Paths, OneInv, NEW c \in Calls, Create(c)
  PROVE  OneInv'
<1>0. /\ UNCHANGED <<scene, cooling>> /\ pc[c] = "create" /\ pc'[c] = "done" /\ Alone(c)
      /\ scene.kind[c] \in Entries
  BY EndsTyped
     DEF Create, Alone, Paths, Placed, Automated, Vetted, Paying, Leaving, Ordered,
         Granted, At, Busy
<1>1. CASE UNCHANGED trade
  BY <1>0, <1>1, QuietKept DEF Quiet, Undisturbed, Holding, Standing, Open
<1>2. CASE trade' = [trade EXCEPT ![c] = [status |-> "OPEN", strategy |-> mem[c].strategy,
                                          way |-> mem[c].way, pnl |-> 0,
                                          again |-> FALSE]]
  <2>1. /\ trade'[c].strategy = mem[c].strategy
        /\ \A d \in Calls : d # c => trade'[d] = trade[d]
        /\ \A d \in Calls : d \in Standing' => d = c \/ d \in Standing
        /\ Standing' \subseteq Calls
    BY <1>2 DEF TypeOK, Standing, Open
  <2>2. \A b \in Calls : Holding(b)' => b # c /\ Holding(b) /\ mem'[b] = mem[b]
    BY <1>0 DEF Holding, Alone
  <2>3. \A b \in Calls : pc'[b] = "reserve" =>
           b # c /\ pc[b] = "reserve" /\ mem'[b] = mem[b]
    BY <1>0 DEF Alone
  <2>4. Reserved' /\ HeldOnce'
    BY <1>0, <2>2 DEF OneInv, Reserved, HeldOnce
  <2>5. CASE scene.kind[c] \in Guarded
    <3>1. Holding(c)
      BY <1>0, <2>5 DEF Holding
    <3>2. HeldUnopened'
      BY <2>1, <2>2, <3>1 DEF OneInv, HeldUnopened, HeldOnce
    <3>3. mem[c].strategy \in cooling
      BY <3>1 DEF OneInv, Reserved
    <3>4. ClearOrCooling'
      BY <1>0, <2>1, <2>3, <3>3 DEF OneInv, ClearOrCooling
    <3>5. OneStanding' /\ OpenCools'
      BY <1>0, <2>1, <3>1, <3>3 DEF OneInv, HeldUnopened, OneStanding, OpenCools, Fault
    <3> QED
      BY <2>4, <3>2, <3>4, <3>5 DEF OneInv
  <2>6. CASE scene.kind[c] = "order"
    <3>1. mem[c].strategy = ScannerStrategy
      BY <2>6 DEF Paths, Placed, Ordered
    <3>2. \A b \in Calls : Holding(b) \/ pc[b] = "reserve" =>
             mem[b].strategy # ScannerStrategy
      BY EntriesAssumption
         DEF Holding, Guarded, Paths, Placed, Automated, Vetted, Paying, Leaving, Ordered,
             Granted, At, Busy
    <3>3. HeldUnopened' /\ ClearOrCooling'
      BY <1>0, <2>1, <2>2, <2>3, <3>1, <3>2 DEF OneInv, HeldUnopened, ClearOrCooling
    <3>4. OneStanding' /\ OpenCools'
      BY <1>0, <2>1, <3>1 DEF OneInv, OneStanding, OpenCools, Fault
    <3> QED
      BY <2>4, <3>3, <3>4 DEF OneInv
  <2> QED
    BY <1>0, <2>5, <2>6 DEF Guarded, Entries
<1> QED
  BY <1>1, <1>2 DEF Create

\* While every call is at rest nothing is held, and after a restart nothing is.
LEMMA RestOne ==
  ASSUME TypeOK, OneInv, Sighted,
         (\E s \in Strategies : CooldownOver(s)) \/ LossesOver \/ NewDay \/ Restart
  PROVE  OneInv'
<1>1. \A b \in Calls : pc'[b] \in {"idle", "done"}
  <2>1. CASE Restart
    BY <2>1 DEF Restart, Busy, TypeOK
  <2>2. CASE AtRest /\ UNCHANGED pc
    BY <2>2 DEF AtRest, Busy
  <2> QED
    BY <2>1, <2>2 DEF CooldownOver, LossesOver, NewDay
<1>2. \A d \in Calls :
         trade'[d].status = trade[d].status /\ trade'[d].strategy = trade[d].strategy
  <2>1. CASE UNCHANGED trade
    BY <2>1
  <2>2. CASE NewDay
    BY <2>2 DEF NewDay, TypeOK, Trade
  <2> QED
    BY <2>1, <2>2 DEF CooldownOver, LossesOver, Restart, documents
<1>3. Standing' = Standing
  <2>1. \A d \in Calls : trade'[d].again = trade[d].again
    <3>1. CASE UNCHANGED trade
      BY <3>1
    <3>2. CASE NewDay
      BY <3>2 DEF NewDay, TypeOK, Trade
    <3> QED
      BY <3>1, <3>2 DEF CooldownOver, LossesOver, Restart, documents
  <2> QED
    BY <1>2, <2>1 DEF Standing, Open
<1>4. OneStanding'
  BY <1>2, <1>3 DEF OneInv, OneStanding, Standing, Open
<1>5. OpenCools'
  BY DEF Sighted, OpenCools, CooldownOver, LossesOver, NewDay, Restart, Fault
<1> QED
  BY <1>1, <1>4, <1>5 DEF OneInv, Reserved, HeldOnce, HeldUnopened, ClearOrCooling, Holding

\* A trade that is opened again is not among those that count, and a server
\* that starts changes none.
LEMMA RecoveringOne ==
  ASSUME TypeOK, OneInv, Recovering \/ Booting
  PROVE  OneInv'
<1>1. UNCHANGED <<scene, cooling, pc, mem>>
  BY DEF Recovering, Recovered, Booting, Connect, SwitchRestored, Hydrated
<1>2. \A d \in Standing' : d \in Standing /\ trade'[d].strategy = trade[d].strategy
  <2>1. CASE trade' = trade
    BY <2>1 DEF Standing, Open
  <2>2. ASSUME NEW x \in Calls, trade' = Reopened(x)
        PROVE  \A d \in Standing' : d \in Standing /\ trade'[d].strategy = trade[d].strategy
    BY <2>2 DEF Reopened, TypeOK, Trade, Standing, Open
  <2> QED
    BY <2>1, <2>2
       DEF Recovering, Recovered, Booting, Connect, SwitchRestored, Hydrated, documents
<1> QED
  BY <1>1, <1>2
     DEF OneInv, Reserved, HeldOnce, HeldUnopened, ClearOrCooling, OneStanding, OpenCools,
         Holding, Fault

\* Every step keeps one open trade of a strategy, where query or map know it.
LEMMA NextOne ==
  ASSUME TypeOK, Paths, Up, Sighted => OneInv, [Next]_vars
  PROVE  (Sighted => OneInv)'
<1>0. scene' = scene
  BY NextScene
<1> SUFFICES ASSUME Sighted, OneInv PROVE OneInv'
  BY <1>0 DEF Sighted, Fault
<1>1. CASE UNCHANGED vars
  BY <1>1 DEF vars, documents, OneInv, Reserved, HeldOnce, HeldUnopened, ClearOrCooling,
              OneStanding, OpenCools, Holding, Standing, Open, Fault
<1>2. ASSUME NEW c \in Calls, Start(c)
      PROVE  OneInv'
  BY <1>2, FirstStepsQuiet, QuietKept
<1>3. ASSUME NEW c \in Calls, Step(c)
      PROVE  OneInv'
  <2>1. Connected
    BY DEF Connected, Up, Sighted
  <2> QED
    BY <1>3, <2>1, LaterStepsQuiet, QuietKept, VetOne, ReserveOne, PlaceOne, CreateOne DEF Step
<1>4. CASE (\E s \in Strategies : CooldownOver(s)) \/ LossesOver \/ NewDay \/ Restart
  BY <1>4, RestOne
<1>5. CASE Recovering \/ Booting
  BY <1>5, RecoveringOne
<1> QED
  BY <1>1, <1>2, <1>3, <1>4, <1>5 DEF Next, Recovering, Booting

\* Of the trades that no exit has given back a strategy has one open at most,
\* whatever overlaps, restarts or runs out: between them, the guards' query and
\* the cooldown map leave no moment at which an entry of the strategy is unseen.
\* That is so unless the query throws while the map has run out or is lost, or an
\* entry comes before MongoDB is connected.
THEOREM OneOpen == Spec => []OneOpenPerStrategy
<1>1. Init => (Sighted => OneInv)
  BY DEF Init, OneInv, Reserved, HeldOnce, HeldUnopened, ClearOrCooling,
         OneStanding, OpenCools, Holding, Standing, Open, NoTrade
<1>2. TypeOK /\ Paths /\ Up /\ (Sighted => OneInv) /\ [Next]_vars => (Sighted => OneInv)'
  BY NextOne
<1>3. (Sighted => OneInv) => OneOpenPerStrategy
  BY DEF Sighted, OneInv, OneStanding, OneOpenPerStrategy
<1> QED
  BY <1>1, <1>2, <1>3, TypedInv, UpInv, PTL DEF Spec

-----------------------------------------------------------------------------
(* The kill switch.                                                          *)
(*                                                                           *)
(* What was answered is in memory and in the document, so that a restart     *)
(* finds it; a switching call that is under way is the only one, and has     *)
(* made its change in memory before it waits for the document.               *)

SwitchInv ==
    /\ stopped => halted /\ haltedDoc
    /\ \A c \in Calls :
           pc[c] = "switch" =>
               /\ scene.kind[c] \in Switching
               /\ scene.kind[c] = "halt" => halted
               /\ scene.kind[c] = "resume" => ~halted /\ ~stopped
    /\ \A b, c \in Calls : pc[b] = "switch" /\ pc[c] = "switch" => b = c

\* Calls that are no operator's leave the switch alone, and never come to it.
LEMMA SwitchLeft ==
  ASSUME TypeOK, Paths, NEW c \in Calls, Start(c) \/ Step(c),
         ~Halt(c), ~Resume(c), ~SwitchSaved(c)
  PROVE  /\ scene' = scene /\ UNCHANGED switch
         /\ Alone(c)
         /\ pc'[c] # "switch"
<1>1. scene' = scene /\ UNCHANGED switch
  BY DEF Start, Step, SettingsStart, AutoStart, DaemonTick, StrategyStart, OrderStart,
         MonitorStart, SquareStart, Halt, Resume, PanicStop, ResetLock, Load, Roll, Mock, Answer,
         DaemonCount, DaemonLimit, Propose, TurnedDown, Vet, Reserve, Place, Payable,
         Debit, Persist, Create, Credit, ExitRefused, Report, Close, Tally, Post, Relock,
         RelockFails, SwitchSaved,
         ForgetStreak
<1>2. CASE \/ SettingsStart(c) \/ OrderStart(c) \/ StrategyStart(c) \/ DaemonCount(c)
           \/ Propose(c) \/ Report(c) \/ Persist(c)
  <2>1. \/ \E n \in Loaded, m \in Memory : Ask(c, n, m)
        \/ \E s \in scene.signals : Proposal(c, s)
        \/ UNCHANGED mem /\ (\E l \in {"report", "create", "done"} : Go(c, l))
        \/ Ask(c, "limit", [mem[c] EXCEPT !.count = Cardinality(Open)])
    BY <1>2, MemoryTyped
       DEF SettingsStart, OrderStart, StrategyStart, DaemonCount, Propose, Report, Persist, Loaded
  <2>2. CASE \E s \in scene.signals : Proposal(c, s)
    <3>1. PICK s \in scene.signals : Proposal(c, s)
      BY <2>2
    <3> QED
      BY <1>1, <3>1 DEF Proposal, Ask, Go, Alone, TypeOK
  <2>3. CASE \E n \in Loaded, m \in Memory : Ask(c, n, m)
    BY <1>1, <2>3 DEF Ask, Go, Alone, TypeOK
  <2>4. CASE UNCHANGED mem /\ (\E l \in {"report", "create", "done"} : Go(c, l))
    BY <1>1, <2>4 DEF Go, Alone, TypeOK
  <2>5. CASE Ask(c, "limit", [mem[c] EXCEPT !.count = Cardinality(Open)])
    BY <1>1, <2>5 DEF Ask, Go, Alone, TypeOK
  <2> QED
    BY <2>1, <2>2, <2>3, <2>4, <2>5
<1>3. CASE \/ Answer(c) \/ TurnedDown(c) \/ DaemonLimit(c) \/ Close(c) \/ AutoStart(c)
           \/ ExitRefused(c) \/ RelockFails(c) \/ Payable(c) \/ Create(c) \/ Place(c) \/ Reserve(c) \/ Debit(c)
  <2>1. \/ Ends(c) \/ Refused(c)
        \/ UNCHANGED mem /\ (\E l \in {"propose", "debit", "place", "create", "persist"} : Go(c, l))
    BY <1>3 DEF Answer, TurnedDown, DaemonLimit, Close, AutoStart, Enter, ExitRefused,
                RelockFails, Payable, Create, Place, Reserve, Debit
  <2> QED
    BY <1>1, <2>1, EndsTyped DEF Go, Alone, TypeOK
<1>4. CASE Vet(c)
  <2>1. \/ Ends(c)
        \/ Go(c, "reserve") /\ \E b \in BOOLEAN : mem' = [mem EXCEPT ![c].clear = b]
    BY <1>4 DEF Vet, GuardsClear
  <2> QED
    BY <1>1, <2>1, EndsTyped DEF Go, Alone, TypeOK
<1>5. CASE Load(c) \/ Roll(c) \/ Mock(c)
  <2>1. (pc'[c] = "roll" \/ pc'[c] = mem[c].next) /\ Alone(c)
    BY <1>5, LoadStep DEF Roll, Go, Alone, TypeOK
  <2>2. mem[c].next \in Loaded
    BY MemoryTyped
  <2> QED
    BY <1>1, <2>1, <2>2 DEF Loaded
<1>6. CASE DaemonTick(c) \/ PanicStop(c) \/ ResetLock(c) \/ ForgetStreak(c)
  BY <1>1, <1>6 DEF DaemonTick, PanicStop, ResetLock, ForgetStreak, Go, Alone, TypeOK
<1>7. CASE MonitorStart(c) \/ SquareStart(c)
  BY <1>1, <1>7 DEF MonitorStart, SquareStart, Takes, Go, Alone, TypeOK
<1>8. CASE Credit(c) \/ Tally(c) \/ Post(c) \/ Relock(c)
  BY <1>1, <1>8 DEF Credit, Tally, Post, Relock, Outcome, Go, Alone, TypeOK
<1> QED
  BY <1>1, <1>2, <1>3, <1>4, <1>5, <1>6, <1>7, <1>8 DEF Start, Step

\* Every step keeps the switch and its document together.
LEMMA NextSwitch ==
  ASSUME TypeOK, Paths, Up, ~Fault("switch"), ~Fault("boot"), SwitchInv, [Next]_vars
  PROVE  SwitchInv'
<1>0. boot = "up" /\ Connected
  BY DEF Up, Connected
<1>1. CASE UNCHANGED vars
  BY <1>1 DEF vars, switch, SwitchInv
<1>2. ASSUME NEW c \in Calls, Start(c) \/ Step(c), ~Halt(c), ~Resume(c), ~SwitchSaved(c)
      PROVE  SwitchInv'
  BY <1>2, SwitchLeft DEF SwitchInv, Alone, switch
<1>3. ASSUME NEW c \in Calls, Halt(c) \/ Resume(c)
      PROVE  SwitchInv'
  <2>1. /\ scene' = scene /\ scene.kind[c] \in Switching /\ haltedDoc' = haltedDoc
        /\ halted' = (scene.kind[c] = "halt")
        /\ IF scene.kind[c] = "halt" THEN stopped' = stopped ELSE stopped' = FALSE
        /\ pc[c] = "idle" /\ pc' = [pc EXCEPT ![c] = "switch"]
    BY <1>3 DEF Halt, Resume, Starts, Switching, Go
  <2>2. \A b \in Calls : pc[b] # "switch"
    BY <1>3 DEF Halt, Resume, Starts, Switching, Busy, SwitchInv
  <2>3. \A b \in Calls : pc'[b] = "switch" => b = c
    BY <2>1, <2>2 DEF TypeOK
  <2> QED
    BY <2>1, <2>3 DEF SwitchInv, Switching
<1>4. ASSUME NEW c \in Calls, SwitchSaved(c)
      PROVE  SwitchInv'
  <2>1. /\ scene' = scene /\ halted' = halted /\ pc[c] = "switch"
        /\ haltedDoc' = (scene.kind[c] = "halt") /\ stopped' = (scene.kind[c] = "halt")
        /\ pc' = [pc EXCEPT ![c] = "done"]
    BY <1>0, <1>4 DEF SwitchSaved, Go
  <2>2. \A b \in Calls : pc'[b] # "switch"
    BY <2>1 DEF SwitchInv, TypeOK
  <2> QED
    BY <2>1, <2>2 DEF SwitchInv
<1>5. CASE (\E s \in Strategies : CooldownOver(s)) \/ LossesOver \/ NewDay
  BY <1>5 DEF CooldownOver, LossesOver, NewDay, switch, SwitchInv
<1>6. CASE Restart
  <2>1. \A b \in Calls : pc'[b] # "switch"
    BY <1>6 DEF Restart, Busy, TypeOK
  <2>2. halted' = haltedDoc /\ haltedDoc' = haltedDoc /\ stopped' = stopped
    BY <1>6 DEF Restart, Switch, Restored
  <2> QED
    BY <2>1, <2>2 DEF SwitchInv
<1>7. CASE Recovering \/ Booting
  BY <1>0, <1>7
     DEF Recovering, Recovered, Booting, Connect, SwitchRestored, Hydrated, switch, SwitchInv
<1> QED
  BY <1>1, <1>2, <1>3, <1>4, <1>5, <1>6, <1>7 DEF Next, Recovering, Booting

\* The count puts the limit's check behind a read of the settings.
LEMMA CountStep ==
  ASSUME TypeOK, NEW c \in Calls, DaemonCount(c)
  PROVE  pc'[c] = "load" /\ mem'[c].next = "limit"
<1> DEFINE n == Cardinality(Open)
           m == [mem[c] EXCEPT !.count = n]
<1>1. m \in Memory
  <2>1. n \in Nat
    BY OpenCounted
  <2> HIDE DEF n
  <2> QED
    BY <2>1, MemoryTyped DEF Memory
<1>2. Ask(c, "limit", m)
  BY DEF DaemonCount
<1> HIDE DEF m
<1> QED
  BY <1>1, <1>2, AskTyped DEF Loaded

\* An entry that passes the switch finds it off.
LEMMA EntersUnstopped ==
  ASSUME TypeOK, Paths, SwitchInv, stopped, [Next]_vars, NEW c \in Calls, ~Entering(c)
  PROVE  ~Entering(c)'
<1>0. halted
  BY DEF SwitchInv
<1>1. SUFFICES ASSUME scene' = scene, Entering(c)' PROVE FALSE
  BY NextScene DEF Entering
<1>2. scene.kind[c] \in Entries
  BY <1>1 DEF Entering
<1>3. CASE pc'[c] = pc[c] /\ mem'[c] = mem[c]
  BY <1>1, <1>3 DEF Entering
<1>4. ASSUME NEW b \in Calls, Start(b) \/ Step(b), b # c PROVE FALSE
  <2>1. Alone(b)
    BY <1>4, SwitchLeft DEF Halt, Resume, SwitchSaved, Go, Alone, TypeOK
  <2> QED
    BY <1>3, <1>4, <2>1 DEF Alone
<1>5. CASE Restart
  BY <1>1, <1>5 DEF Restart, Busy, Entering
<1>6. CASE \/ UNCHANGED vars \/ (\E s \in Strategies : CooldownOver(s)) \/ LossesOver \/ NewDay
           \/ Recovering \/ Booting
  BY <1>3, <1>6
     DEF vars, CooldownOver, LossesOver, NewDay, Recovering, Recovered, Booting, Connect,
         SwitchRestored, Hydrated
<1>7. ASSUME Start(c) PROVE FALSE
  <2>1. CASE AutoStart(c) \/ DaemonTick(c) \/ StrategyStart(c) \/ OrderStart(c)
    <3>1. pc'[c] \in {"done", "count"}
      BY <1>0, <2>1 DEF AutoStart, DaemonTick, StrategyStart, OrderStart, Enter, MayEnter,
                        Refused, Go, TypeOK
    <3> QED
      BY <1>1, <3>1 DEF Entering
  <2>2. CASE \/ SettingsStart(c) \/ MonitorStart(c) \/ SquareStart(c) \/ Halt(c) \/ Resume(c)
             \/ PanicStop(c) \/ ResetLock(c)
    BY <1>2, <2>2
       DEF SettingsStart, MonitorStart, SquareStart, Halt, Resume, PanicStop, ResetLock,
                      Starts, Entries, Automatic
  <2> QED
    BY <1>7, <2>1, <2>2 DEF Start
<1>8. ASSUME Step(c) PROVE FALSE
  <2>1. \/ pc[c] \in {"count", "limit"}
        \/ pc[c] \in {"load", "roll"} /\ mem[c].next = "limit"
    BY <1>2, <1>8
       DEF Entering, Step, SettingsStart, AutoStart, DaemonTick, StrategyStart, OrderStart,
           MonitorStart, SquareStart, Halt, Resume, PanicStop, ResetLock, Load, Roll, Mock,
           Answer, DaemonCount, DaemonLimit, Propose, TurnedDown, Vet, Reserve, Place,
           Payable, Debit, Persist, Create, Credit, ExitRefused, Report, Close, Tally, Post,
           Relock, RelockFails,
           SwitchSaved, ForgetStreak
  <2>2. CASE DaemonCount(c)
    <3>1. pc'[c] = "load" /\ mem'[c].next = "limit"
      BY <2>2, CountStep
    <3> QED
      BY <1>1, <3>1 DEF Entering
  <2>3. CASE DaemonLimit(c)
    <3>1. pc'[c] = "done"
      BY <1>0, <2>3 DEF DaemonLimit, Enter, MayEnter, Refused, Go, TypeOK
    <3> QED
      BY <1>1, <3>1 DEF Entering
  <2>4. CASE Load(c) \/ Roll(c) \/ Mock(c)
    <3>1. mem[c].next = "limit"
      BY <2>1, <2>4 DEF Load, Roll, Mock
    <3>2. /\ pc'[c] \in {"roll", "limit"}
          /\ mem'[c].next = "limit"
      BY <2>4, <3>1, LoadStep DEF Roll, Go, TypeOK
    <3> QED
      BY <1>1, <3>2 DEF Entering
  <2> QED
    BY <1>8, <2>1, <2>2, <2>3, <2>4
       DEF Step, SettingsStart, AutoStart, DaemonTick, StrategyStart, OrderStart,
           MonitorStart, SquareStart, Halt, Resume, PanicStop, ResetLock, Load, Roll, Mock,
           Answer, DaemonCount, DaemonLimit, Propose, TurnedDown, Vet, Reserve, Place,
           Payable, Debit, Persist, Create, Credit, ExitRefused, Report, Close, Tally, Post,
           Relock, RelockFails,
           SwitchSaved, ForgetStreak
<1> QED
  BY <1>4, <1>5, <1>6, <1>7, <1>8 DEF Next, Recovering, Booting

\* From the answer to a halt until trading is resumed no entry begins, over
\* restarts too, as long as the switch's document can be written and read and
\* nobody is answered before it has been.
THEOREM HaltStops == Spec => HaltHolds
<1> DEFINE Switched == ~Fault("switch") /\ ~Fault("boot") => SwitchInv
<1>1. Init => Switched
  BY DEF Init, SwitchInv
<1>2. TypeOK /\ Paths /\ Up /\ Switched /\ [Next]_vars => Switched'
  BY NextSwitch, NextScene DEF Fault
<1>3. TypeOK /\ Paths /\ Switched /\ [Next]_vars
      => [\A c \in Calls : stopped /\ ~Entering(c) /\ ~Fault("switch") /\ ~Fault("boot")
               => ~Entering(c)']_vars
  BY EntersUnstopped
<1> QED
  BY <1>1, <1>2, <1>3, TypedInv, UpInv, PTL DEF Spec, HaltHolds

-----------------------------------------------------------------------------
(* The wallet.                                                               *)

\* What is saved was in the map once, so that a restart finds no less than that.
NotNegative == ~Has({"strategy"}) => cash >= 0 /\ saved >= 0

\* Every step that moves money keeps the map and the snapshot from zero.
LEMMA NextNotNegative ==
  ASSUME TypeOK, Paths, NotNegative, [Next]_vars
  PROVE  NotNegative'
<1>0. scene' = scene
  BY NextScene
<1> SUFFICES ASSUME ~Has({"strategy"}) PROVE cash' >= 0 /\ saved' >= 0
  BY <1>0 DEF NotNegative, Has
<1>1. cash \in Int /\ saved \in Int /\ cash >= 0 /\ saved >= 0
  BY DEF NotNegative, TypeOK
<1>2. CASE UNCHANGED <<cash, saved>>
  BY <1>1, <1>2
<1>3. ASSUME NEW c \in Calls, Debit(c)
      PROVE  cash' >= 0 /\ saved' >= 0
  <2>1. scene.kind[c] # "strategy"
    BY DEF Has
  <2>2. Cost[mem[c].strategy] \in Int
    BY MemoryTyped, EntriesAssumption
  <2>3. /\ saved' = saved
        /\ \/ cash' = cash
           \/ cash >= Cost[mem[c].strategy] /\ cash' = cash - Cost[mem[c].strategy]
    BY <1>3, <2>1 DEF Debit, Covers, Remaining
  <2> QED
    BY <1>1, <2>2, <2>3
<1>4. ASSUME NEW c \in Calls, Credit(c)
      PROVE  cash' >= 0 /\ saved' >= 0
  <2>1. mem[c].doc \in Calls
    BY <1>4
       DEF Credit, Paths, Placed, Automated, Vetted, Paying, Leaving, Ordered, Granted, At,
           Busy
  <2>2. Cost[trade[mem[c].doc].strategy] \in Nat
    BY <2>1, EntriesAssumption DEF TypeOK, Trade
  <2> QED
    BY <1>1, <1>4, <2>2 DEF Credit
<1>5. ASSUME NEW c \in Calls, Persist(c)
      PROVE  cash' >= 0 /\ saved' >= 0
  BY <1>1, <1>5 DEF Persist, Snapshots
<1>6. CASE Restart \/ Booting
  <2>1. cash' \in {cash, saved, Equity} /\ saved' = saved
    BY <1>6 DEF Restart, Booting, Connect, SwitchRestored, Hydrated, wallet
  <2>2. Equity \in Nat
    BY EntriesAssumption
  <2> QED
    BY <1>1, <2>1, <2>2
<1>7. ASSUME NEW c \in Calls, Start(c) \/ Step(c), ~Debit(c), ~Credit(c), ~Persist(c)
      PROVE  UNCHANGED <<cash, saved>>
  BY <1>7 DEF Start, Step, wallet, SettingsStart, AutoStart, DaemonTick, StrategyStart,
              OrderStart, MonitorStart, SquareStart, Halt, Resume, PanicStop, ResetLock,
              Load, Roll, Mock, Answer, DaemonCount, DaemonLimit, Propose, TurnedDown, Vet,
              Reserve, Place, Payable, Create, ExitRefused, Report, Close, Tally, Post, Relock,
              RelockFails, SwitchSaved, ForgetStreak
<1>8. CASE \/ UNCHANGED vars \/ (\E s \in Strategies : CooldownOver(s)) \/ LossesOver \/ NewDay
           \/ Recovering
  BY <1>2, <1>8 DEF vars, wallet, CooldownOver, LossesOver, NewDay, Recovering, Recovered
<1> QED
  BY <1>2, <1>3, <1>4, <1>5, <1>6, <1>7, <1>8 DEF Next, Recovering, Booting

\* No entry but POST /execute-strategy spends what is not there: the balance is
\* checked where it is debited.
THEOREM NeverOverdrawn == Spec => []NotOverdrawn
<1>1. Init => NotNegative
  BY EntriesAssumption DEF Init, NotNegative
<1>2. TypeOK /\ Paths /\ NotNegative /\ [Next]_vars => NotNegative'
  BY NextNotNegative
<1>3. NotNegative => NotOverdrawn
  BY DEF NotNegative, NotOverdrawn
<1> QED
  BY <1>1, <1>2, <1>3, TypedInv, PTL DEF Spec

-----------------------------------------------------------------------------
(* Turns, and which way the trades bet.                                      *)
(*                                                                           *)
(* An automatic entry has its turn from the kill switch to its end, and the  *)
(* flag says so; the flag admits one.  Where every entry is automatic, no    *)
(* trade opens between an entry's query and its own, so that what the query  *)
(* found is still so.                                                        *)

Turn(c) == scene.kind[c] \in Automatic /\ Entering(c)

TurnInv ==
    /\ \A c \in Calls : Turn(c) => inFlight
    /\ \A b, c \in Calls : Turn(b) /\ Turn(c) => b = c

\* The query found no trade that bets the other way.
Sure(c) ==
    /\ scene.kind[c] \in Automatic
    /\ Holding(c) \/ (pc[c] = "reserve" /\ mem[c].clear)
    /\ mem[c].way # "NEUTRAL"

AgreeInv ==
    /\ \A c \in Calls, d \in Standing : Sure(c) => trade[d].way \in {"NEUTRAL", mem[c].way}
    /\ \A d, e \in Standing : {trade[d].way, trade[e].way} # {"BULL", "BEAR"}

\* Every step is one call's: it keeps the flag, takes the turn, or is over.
LEMMA FlagSteps ==
  ASSUME NEW c \in Calls, Start(c) \/ Step(c)
  PROVE  UNCHANGED inFlight \/ Enter(c) \/ Ends(c)
BY DEF Start, Step, flags, Refused, SettingsStart, AutoStart, DaemonTick, StrategyStart,
       OrderStart, MonitorStart, SquareStart, Halt, Resume, PanicStop, ResetLock, Load,
       Roll, Mock, Answer, DaemonCount, DaemonLimit, Propose, TurnedDown, Vet, Reserve, Place,
       Payable, Debit, Persist, Create, Credit, ExitRefused, Report, Close, Tally, Post, Relock,
       RelockFails,
       SwitchSaved, ForgetStreak

\* Every step leaves the other calls where they are.
LEMMA StepAlone ==
  ASSUME TypeOK, Paths, NEW c \in Calls, Start(c) \/ Step(c)
  PROVE  Alone(c)
BY SwitchLeft DEF Halt, Resume, SwitchSaved, Go, Alone, TypeOK

\* What gives the flag back comes after the turn began.
LEMMA ReleasedAfterTurn ==
  ASSUME NEW c \in Calls, Start(c) \/ Step(c), ~Enter(c), inFlight' # inFlight
  PROVE  pc[c] \notin {"idle", "done", "count", "limit", "load", "roll"}
BY DEF Start, Step, flags, Refused, SettingsStart, AutoStart, DaemonTick, StrategyStart,
       OrderStart, MonitorStart, SquareStart, Halt, Resume, PanicStop, ResetLock, Load,
       Roll, Mock, Answer, DaemonCount, DaemonLimit, Propose, TurnedDown, Vet, Reserve, Place,
       Payable, Debit, Persist, Create, Credit, ExitRefused, Report, Close, Tally, Post, Relock,
       RelockFails,
       SwitchSaved, ForgetStreak

\* An automatic entry gets its turn by taking it.
LEMMA TurnTaken ==
  ASSUME TypeOK, Paths, NEW c \in Calls, Start(c) \/ Step(c), scene' = scene,
         Turn(c)', ~Turn(c)
  PROVE  Enter(c)
<1>0. scene.kind[c] \in Automatic /\ Entering(c)' /\ ~Entering(c)
  BY DEF Turn
<1>1. scene.kind[c] \in Entries
  BY <1>0 DEF Entries
<1>2. CASE Start(c)
  <2>1. AutoStart(c) \/ DaemonTick(c)
    BY <1>0, <1>2 DEF Start, SettingsStart, StrategyStart, OrderStart, MonitorStart,
                      SquareStart, Halt, Resume, PanicStop, ResetLock, Starts, Automatic
  <2>2. CASE DaemonTick(c)
    <3>1. pc'[c] \in {"done", "count"}
      BY <2>2 DEF DaemonTick, Go, TypeOK
    <3> QED
      BY <1>0, <3>1 DEF Entering
  <2>3. CASE AutoStart(c)
    <3>1. Enter(c) \/ Refused(c)
      BY <2>3 DEF AutoStart
    <3>2. Refused(c) => pc'[c] = "done"
      BY EndsTyped
    <3> QED
      BY <1>0, <3>1, <3>2 DEF Entering
  <2> QED
    BY <2>1, <2>2, <2>3
<1>3. CASE Step(c)
  <2>1. \/ pc[c] \in {"idle", "done", "count", "limit"}
        \/ pc[c] \in {"load", "roll"} /\ mem[c].next = "limit"
    BY <1>0, <1>1 DEF Entering
  <2>2. DaemonCount(c) \/ DaemonLimit(c) \/ Load(c) \/ Roll(c) \/ Mock(c)
    BY <1>3, <2>1
       DEF Step, SettingsStart, AutoStart, DaemonTick, StrategyStart, OrderStart,
           MonitorStart, SquareStart, Halt, Resume, PanicStop, ResetLock, Load, Roll, Mock,
           Answer, DaemonCount, DaemonLimit, Propose, TurnedDown, Vet, Reserve, Place,
           Payable, Debit, Persist, Create, Credit, ExitRefused, Report, Close, Tally, Post,
           Relock, RelockFails,
           SwitchSaved, ForgetStreak
  <2>3. CASE DaemonLimit(c)
    <3>1. Enter(c) \/ Refused(c)
      BY <2>3 DEF DaemonLimit
    <3>2. Refused(c) => pc'[c] = "done"
      BY EndsTyped
    <3> QED
      BY <1>0, <3>1, <3>2 DEF Entering
  <2>4. CASE DaemonCount(c)
    <3>1. pc'[c] = "load" /\ mem'[c].next = "limit"
      BY <2>4, CountStep
    <3> QED
      BY <1>0, <3>1 DEF Entering
  <2>5. CASE Load(c) \/ Roll(c) \/ Mock(c)
    <3>1. mem[c].next = "limit"
      BY <2>1, <2>5 DEF Load, Roll, Mock
    <3>2. pc'[c] \in {"roll", "limit"} /\ mem'[c].next = "limit"
      BY <2>5, <3>1, LoadStep DEF Roll, Go, TypeOK
    <3> QED
      BY <1>0, <3>2 DEF Entering
  <2> QED
    BY <2>2, <2>3, <2>4, <2>5
<1> QED
  BY <1>2, <1>3

\* Every step keeps the turns apart.
LEMMA NextTurn ==
  ASSUME TypeOK, Paths, TurnInv, [Next]_vars
  PROVE  TurnInv'
<1>0. scene' = scene
  BY NextScene
<1>1. CASE UNCHANGED <<inFlight, pc, mem>>
  BY <1>0, <1>1 DEF TurnInv, Turn, Entering
<1>2. ASSUME NEW c \in Calls, Start(c) \/ Step(c)
      PROVE  TurnInv'
  <2>1. \A b \in Calls : b # c => (Turn(b)' <=> Turn(b))
    BY <1>0, <1>2, StepAlone DEF Alone, Turn, Entering
  <2>2. CASE Enter(c)
    <3>1. \A b \in Calls : ~Turn(b)
      BY <2>2 DEF Enter, MayEnter, TurnInv
    <3>2. inFlight'
      BY <2>2 DEF Enter
    <3> QED
      BY <2>1, <3>1, <3>2 DEF TurnInv
  <2>3. ASSUME Ends(c), ~Enter(c), inFlight' # inFlight
        PROVE  TurnInv'
    <3>1. ~Turn(c)'
      BY <2>3, EndsTyped DEF Turn, Entering
    <3>2. scene.kind[c] \in Automatic
      BY <2>3 DEF Ends, TurnLeft, TypeOK
    <3>3. Turn(c)
      BY <1>2, <2>3, <3>2, ReleasedAfterTurn DEF Turn, Entering, Entries
    <3> QED
      BY <2>1, <3>1, <3>3 DEF TurnInv
  <2>4. ASSUME UNCHANGED inFlight, ~Enter(c)
        PROVE  TurnInv'
    <3>1. Turn(c)' => Turn(c)
      BY <1>0, <1>2, <2>4, TurnTaken
    <3> QED
      BY <2>1, <2>4, <3>1 DEF TurnInv
  <2> QED
    BY <1>2, <2>2, <2>3, <2>4, FlagSteps
<1>3. CASE Restart
  <2>1. \A c \in Calls : ~Turn(c)'
    BY <1>3 DEF Restart, Busy, Turn, Entering, TypeOK
  <2> QED
    BY <2>1 DEF TurnInv
<1>4. CASE \/ UNCHANGED vars \/ (\E s \in Strategies : CooldownOver(s)) \/ LossesOver \/ NewDay
           \/ Recovering \/ Booting
  BY <1>1, <1>4
     DEF vars, flags, CooldownOver, LossesOver, NewDay, Recovering, Recovered, Booting,
         Connect, SwitchRestored, Hydrated
<1> QED
  BY <1>2, <1>3, <1>4 DEF Next, Recovering, Booting

\* Every entry of the scene is automatic, and its query is answered.
Alike == ~Has({"strategy", "order"}) /\ ~Fault("read") /\ ~Fault("boot")

\* A quiet step opens no trade, and makes no entry sure.
LEMMA QuietAgrees ==
  ASSUME AgreeInv, NEW c \in Calls, Quiet(c)
  PROVE  AgreeInv'
<1>0. Undisturbed /\ Alone(c)
  BY DEF Quiet
<1>1. \A d \in Calls : d \in Standing' => d \in Standing /\ trade'[d].way = trade[d].way
  BY <1>0 DEF Undisturbed, Standing, Open
<1>2. \A b \in Calls : Sure(b)' => Sure(b) /\ mem'[b].way = mem[b].way
  BY <1>0 DEF Quiet, Undisturbed, Alone, Holding, Sure
<1>3. Standing' \subseteq Calls
  BY DEF Standing, Open
<1> QED
  BY <1>1, <1>2, <1>3 DEF AgreeInv

\* A clear answer names no trade that bets the other way.
LEMMA VetAgrees ==
  ASSUME TypeOK, Paths, Up, Alike, AgreeInv, NEW c \in Calls, Vet(c)
  PROVE  AgreeInv'
<1>1. UNCHANGED <<scene, trade, cooling>> /\ pc[c] = "vet" /\ Standing' = Standing
  BY DEF Vet, documents, Standing, Open
<1>2. CASE Ends(c)
  BY <1>1, <1>2, EndsTyped, QuietAgrees DEF Quiet, Undisturbed, Alone, Holding, Standing, Open
<1>3. CASE ~Ends(c)
  <2>1. mem' = [mem EXCEPT ![c].clear = GuardsClear(c)] /\ Go(c, "reserve")
    BY <1>3 DEF Vet, Up, Alike, Connected, GuardsClear
  <2>2. /\ mem'[c].clear = GuardsClear(c) /\ mem'[c].way = mem[c].way
        /\ pc'[c] = "reserve"
        /\ Alone(c)
    <3>1. mem[c] \in Memory /\ GuardsClear(c) \in BOOLEAN
      BY MemoryTyped DEF GuardsClear
    <3>2. /\ [mem[c] EXCEPT !.clear = GuardsClear(c)].clear = GuardsClear(c)
          /\ [mem[c] EXCEPT !.clear = GuardsClear(c)].way = mem[c].way
      BY <3>1 DEF Memory
    <3>3. mem' = [mem EXCEPT ![c] = [mem[c] EXCEPT !.clear = GuardsClear(c)]]
      BY <2>1, <3>1 DEF Memory, TypeOK
    <3> QED
      BY <2>1, <3>2, <3>3 DEF Go, Alone, TypeOK
  <2>3. \A d \in Standing' : Sure(c)' => trade'[d].way \in {"NEUTRAL", mem'[c].way}
    BY <1>1, <2>2 DEF GuardsClear, Sure, Holding, Standing
  <2>4. \A b \in Calls : b # c => (Sure(b)' => Sure(b) /\ mem'[b].way = mem[b].way)
    BY <1>1, <2>2 DEF Sure, Holding, Alone
  <2> QED
    BY <1>1, <2>3, <2>4 DEF AgreeInv
<1> QED
  BY <1>2, <1>3

\* The reservation and the order take a sure entry further.
LEMMA ReserveAgrees ==
  ASSUME TypeOK, Paths, Alike, AgreeInv, NEW c \in Calls, Reserve(c) \/ Place(c)
  PROVE  AgreeInv'
<1>1. UNCHANGED <<scene, trade>> /\ pc[c] \in {"reserve", "place"} /\ Standing' = Standing
  BY DEF Reserve, Place, documents, Standing, Open
<1>2. \/ Ends(c)
      \/ /\ UNCHANGED mem /\ (pc[c] = "reserve" => mem[c].clear)
         /\ \E l \in {"debit", "place"} : Go(c, l)
  BY DEF Reserve, Place
<1>3. Alone(c)
  BY <1>2, EndsTyped DEF Go, Alone, TypeOK
<1>4. Sure(c)' => Sure(c) /\ mem'[c].way = mem[c].way
  <2>1. CASE Ends(c)
    BY <2>1, EndsTyped DEF Sure, Holding
  <2>2. CASE UNCHANGED mem /\ (pc[c] = "reserve" => mem[c].clear)
    BY <1>1, <2>2 DEF Sure, Holding, Guarded
  <2> QED
    BY <1>2, <2>1, <2>2
<1>5. \A b \in Calls : Sure(b)' => Sure(b) /\ mem'[b].way = mem[b].way
  BY <1>1, <1>3, <1>4 DEF Sure, Holding, Alone
<1> QED
  BY <1>1, <1>5 DEF AgreeInv

\* A trade opens that agrees with those that are open; no other entry is on its
\* way, to whom it would be news.
LEMMA CreateAgrees ==
  ASSUME TypeOK, Paths, Alike, AgreeInv, TurnInv, NEW c \in Calls, Create(c)
  PROVE  AgreeInv'
<1>0. /\ UNCHANGED <<scene, cooling>> /\ pc[c] = "create" /\ pc'[c] = "done" /\ Alone(c)
      /\ scene.kind[c] \in Automatic
  BY EndsTyped
     DEF Create, Alone, Alike, Has, Entries, Paths, Placed, Automated, Vetted, Paying,
         Leaving, Ordered, Granted, At, Busy
<1>1. CASE UNCHANGED trade
  BY <1>0, <1>1, QuietAgrees DEF Quiet, Undisturbed, Holding, Standing, Open
<1>2. CASE trade' = [trade EXCEPT ![c] = [status |-> "OPEN", strategy |-> mem[c].strategy,
                                          way |-> mem[c].way, pnl |-> 0,
                                          again |-> FALSE]]
  <2>1. /\ trade'[c].way = mem[c].way
        /\ \A d \in Calls : d # c => trade'[d] = trade[d]
        /\ \A d \in Calls : d \in Standing' => d = c \/ d \in Standing
        /\ Standing' \subseteq Calls
    BY <1>2 DEF TypeOK, Standing, Open
  <2>2. Turn(c)
    BY <1>0 DEF Turn, Entering, Entries
  <2>3. \A b \in Calls : ~Sure(b)'
    <3>1. ~Sure(c)'
      BY <1>0 DEF Sure, Holding
    <3>2. ASSUME NEW b \in Calls, b # c, Sure(b)' PROVE FALSE
      <4>1. Turn(b)
        BY <1>0, <3>2 DEF Alone, Sure, Holding, Turn, Entering, Entries
      <4> QED
        BY <2>2, <3>2, <4>1 DEF TurnInv
    <3> QED
      BY <3>1, <3>2
  <2>4. mem[c].way # "NEUTRAL" => Sure(c)
    BY <1>0 DEF Sure, Holding, Guarded
  <2>5. mem[c].way \in Ways
    BY MemoryTyped
  <2>6. \A d \in Standing : {trade[d].way, mem[c].way} # {"BULL", "BEAR"}
    BY <2>4, <2>5 DEF AgreeInv, Ways
  <2>7. \A d, e \in Standing' : {trade'[d].way, trade'[e].way} # {"BULL", "BEAR"}
    <3>1. SUFFICES ASSUME NEW d \in Standing', NEW e \in Standing'
                   PROVE  {trade'[d].way, trade'[e].way} # {"BULL", "BEAR"}
      OBVIOUS
    <3>2. CASE d = c /\ e = c
      BY <3>2
    <3>3. CASE d = c /\ e # c
      BY <2>1, <2>6, <3>3
    <3>4. CASE d # c /\ e = c
      BY <2>1, <2>6, <3>4
    <3>5. CASE d # c /\ e # c
      BY <2>1, <3>5 DEF AgreeInv
    <3> QED
      BY <3>2, <3>3, <3>4, <3>5
  <2> QED
    BY <2>3, <2>7 DEF AgreeInv
<1> QED
  BY <1>1, <1>2 DEF Create

\* Nothing is sure while every call is at rest, or after a restart.
LEMMA RestAgrees ==
  ASSUME TypeOK, AgreeInv,
         (\E s \in Strategies : CooldownOver(s)) \/ LossesOver \/ NewDay \/ Restart
  PROVE  AgreeInv'
<1>1. \A b \in Calls : pc'[b] \in {"idle", "done"}
  <2>1. CASE Restart
    BY <2>1 DEF Restart, Busy, TypeOK
  <2>2. CASE AtRest /\ UNCHANGED pc
    BY <2>2 DEF AtRest, Busy
  <2> QED
    BY <2>1, <2>2 DEF CooldownOver, LossesOver, NewDay
<1>2. \A d \in Calls : trade'[d].status = trade[d].status /\ trade'[d].way = trade[d].way
  <2>1. CASE UNCHANGED trade
    BY <2>1
  <2>2. CASE NewDay
    BY <2>2 DEF NewDay, TypeOK, Trade
  <2> QED
    BY <2>1, <2>2 DEF CooldownOver, LossesOver, Restart, documents
<1>3. Standing' = Standing /\ Standing \subseteq Calls
  <2>1. \A d \in Calls : trade'[d].again = trade[d].again
    <3>1. CASE UNCHANGED trade
      BY <3>1
    <3>2. CASE NewDay
      BY <3>2 DEF NewDay, TypeOK, Trade
    <3> QED
      BY <3>1, <3>2 DEF CooldownOver, LossesOver, Restart, documents
  <2> QED
    BY <1>2, <2>1 DEF Standing, Open
<1> QED
  BY <1>1, <1>2, <1>3 DEF AgreeInv, Sure, Holding

\* A trade that is opened again is not among those that count.
LEMMA RecoveringAgrees ==
  ASSUME TypeOK, AgreeInv, Recovering \/ Booting
  PROVE  AgreeInv'
<1>1. UNCHANGED <<scene, pc, mem>>
  BY DEF Recovering, Recovered, Booting, Connect, SwitchRestored, Hydrated
<1>2. \A d \in Standing' : d \in Standing /\ trade'[d].way = trade[d].way
  <2>1. CASE trade' = trade
    BY <2>1 DEF Standing, Open
  <2>2. ASSUME NEW x \in Calls, trade' = Reopened(x)
        PROVE  \A d \in Standing' : d \in Standing /\ trade'[d].way = trade[d].way
    BY <2>2 DEF Reopened, TypeOK, Trade, Standing, Open
  <2> QED
    BY <2>1, <2>2
       DEF Recovering, Recovered, Booting, Connect, SwitchRestored, Hydrated, documents
<1> QED
  BY <1>1, <1>2 DEF AgreeInv, Sure, Holding

\* Every step keeps the trades in agreement, where every entry is automatic.
LEMMA NextAgree ==
  ASSUME TypeOK, Paths, Up, TurnInv, Alike => AgreeInv, [Next]_vars
  PROVE  (Alike => AgreeInv)'
<1>0. scene' = scene
  BY NextScene
<1> SUFFICES ASSUME Alike, AgreeInv PROVE AgreeInv'
  BY <1>0 DEF Alike, Has, Fault
<1>1. CASE UNCHANGED vars
  BY <1>1 DEF vars, documents, AgreeInv, Sure, Holding, Standing, Open
<1>2. ASSUME NEW c \in Calls, Start(c)
      PROVE  AgreeInv'
  BY <1>2, FirstStepsQuiet, QuietAgrees
<1>3. ASSUME NEW c \in Calls, Step(c)
      PROVE  AgreeInv'
  BY <1>3, LaterStepsQuiet, QuietAgrees, VetAgrees, ReserveAgrees, CreateAgrees DEF Step
<1>4. CASE (\E s \in Strategies : CooldownOver(s)) \/ LossesOver \/ NewDay \/ Restart
  BY <1>4, RestAgrees
<1>5. CASE Recovering \/ Booting
  BY <1>5, RecoveringAgrees
<1> QED
  BY <1>1, <1>2, <1>3, <1>4, <1>5 DEF Next, Recovering, Booting

\* Where every entry is automatic and its query is answered, no two open trades
\* bet against each other, of those that no exit has given back: the turn keeps a
\* trade from opening unseen.
THEOREM NeverOpposite == Spec => []NoOpposite
<1>1. Init => TurnInv /\ (Alike => AgreeInv)
  BY DEF Init, TurnInv, Turn, Entering, AgreeInv, Sure, Holding, Standing, Open, NoTrade
<1>2. TypeOK /\ Paths /\ Up /\ TurnInv /\ (Alike => AgreeInv) /\ [Next]_vars
      => TurnInv' /\ (Alike => AgreeInv)'
  BY NextTurn, NextAgree
<1>3. (Alike => AgreeInv) => NoOpposite
  BY DEF Alike, AgreeInv, NoOpposite
<1> QED
  BY <1>1, <1>2, <1>3, TypedInv, UpInv, PTL DEF Spec

-----------------------------------------------------------------------------
(* The day's lock.                                                           *)
(*                                                                           *)
(* Within a day that began without a lock no copy of the settings has a lock *)
(* of the day before, so that no save lifts one.  Where one call follows the *)
(* other, nobody is at the rollover while another takes the lock.  Either    *)
(* way an outcome is counted after the rollover, unless a mock stands in.    *)

Counting(c) == pc[c] \in {"tally", "post", "relock"}

Counted == \A c \in Calls : Counting(c) /\ ~mem[c].mock => settings.current

LockInv ==
    /\ settings.lock => settings.current
    /\ \A c \in Calls : ~mem[c].unlock
    /\ locked => settings.lock
    /\ Counted

ApartInv ==
    /\ \A b, c \in Calls : Busy(b) /\ Busy(c) => b = c
    /\ locked => settings.current /\ settings.lock
    /\ \A c \in Calls : pc[c] = "roll" => ~locked
    /\ Counted

SettingsWriters(c) ==
    \/ Load(c) \/ Roll(c) \/ Mock(c) \/ Tally(c) \/ Post(c) \/ Relock(c)
    \/ PanicStop(c) \/ ResetLock(c)

\* Other steps leave the settings alone, and lead to no outcome.
LEMMA LockLeft ==
  ASSUME TypeOK, Paths, NEW c \in Calls, Start(c) \/ Step(c), ~SettingsWriters(c)
  PROVE  /\ UNCHANGED <<settings, locked>>
         /\ ~Counting(c)' /\ pc'[c] # "roll"
         /\ mem'[c].unlock => mem[c].unlock
         /\ mem'[c].mock => mem[c].mock
<1>1. UNCHANGED <<settings, locked>>
  BY DEF SettingsWriters, Start, Step, limits, SettingsStart, AutoStart, DaemonTick,
         StrategyStart, OrderStart, MonitorStart, SquareStart, Halt, Resume, Answer,
         DaemonCount, DaemonLimit, Propose, TurnedDown, Vet, Reserve, Place, Payable,
         Debit, Persist, Create, Credit, ExitRefused, Report, Close, RelockFails, SwitchSaved,
         ForgetStreak
<1>2. \A n \in Loaded, m \in Memory :
         Ask(c, n, m) => ~Counting(c)' /\ pc'[c] # "roll"
                         /\ (mem'[c].unlock <=> m.unlock) /\ (mem'[c].mock <=> m.mock)
  <2> SUFFICES ASSUME NEW n \in Loaded, NEW m \in Memory, Ask(c, n, m)
               PROVE  ~Counting(c)' /\ pc'[c] # "roll"
                      /\ (mem'[c].unlock <=> m.unlock) /\ (mem'[c].mock <=> m.mock)
    OBVIOUS
  <2>1. pc'[c] = "load" /\ mem'[c] = [m EXCEPT !.next = n]
    BY AskTyped
  <2> QED
    BY <2>1 DEF Counting, Memory
<1>3. CASE \/ SettingsStart(c) \/ OrderStart(c) \/ Persist(c) \/ Report(c)
  <2>1. \/ \E n \in Loaded : Ask(c, n, mem[c])
        \/ UNCHANGED mem /\ (\E l \in {"report", "create", "done"} : Go(c, l))
    BY <1>3 DEF SettingsStart, OrderStart, Persist, Report, Loaded
  <2> QED
    BY <1>1, <1>2, <2>1, MemoryTyped DEF Go, Counting, TypeOK
<1>4. CASE StrategyStart(c) \/ Propose(c)
  <2>1. CASE UNCHANGED mem /\ Go(c, "done")
    BY <1>1, <2>1 DEF Go, Counting, TypeOK
  <2>2. ASSUME NEW s \in scene.signals, Proposal(c, s)
        PROVE  ~Counting(c)' /\ pc'[c] # "roll"
               /\ (mem'[c].unlock => mem[c].unlock) /\ (mem'[c].mock => mem[c].mock)
    <3>1. /\ pc'[c] = "load"
          /\ mem'[c].unlock = mem[c].unlock /\ mem'[c].mock = mem[c].mock
      BY <2>2, MemoryTyped DEF Proposal, Ask, Go, TypeOK, Memory
    <3> QED
      BY <3>1 DEF Counting
  <2> QED
    BY <1>1, <1>4, <2>1, <2>2 DEF StrategyStart, Propose
<1>5. CASE DaemonCount(c)
  <2> DEFINE n == Cardinality(Open)
             m == [mem[c] EXCEPT !.count = n]
  <2>1. m \in Memory /\ m.unlock = mem[c].unlock /\ m.mock = mem[c].mock
    <3>1. n \in Nat
      BY OpenCounted
    <3> HIDE DEF n
    <3> QED
      BY <3>1, MemoryTyped DEF Memory
  <2>2. Ask(c, "limit", m)
    BY <1>5 DEF DaemonCount
  <2> HIDE DEF m
  <2> QED
    BY <1>1, <1>2, <2>1, <2>2 DEF Loaded
<1>6. CASE \/ Answer(c) \/ TurnedDown(c) \/ DaemonLimit(c) \/ Close(c) \/ AutoStart(c)
           \/ Payable(c) \/ Create(c) \/ Place(c) \/ Reserve(c) \/ Debit(c) \/ Credit(c)
           \/ DaemonTick(c) \/ Halt(c) \/ Resume(c) \/ SwitchSaved(c) \/ ForgetStreak(c)
           \/ ExitRefused(c) \/ RelockFails(c)
  <2>1. \/ Ends(c) \/ Refused(c)
        \/ /\ UNCHANGED mem
           /\ \E l \in {"propose", "debit", "place", "create", "persist", "done", "count", "switch"} :
                  Go(c, l)
    BY <1>6 DEF Answer, TurnedDown, DaemonLimit, Close, AutoStart, Enter, Payable, Create,
                Place, Reserve, Debit, Credit, DaemonTick, Halt, Resume, SwitchSaved,
                ForgetStreak, ExitRefused, RelockFails
  <2> QED
    BY <1>1, <2>1, EndsTyped DEF Go, Counting, TypeOK, NoMem
<1>7. CASE Vet(c)
  <2>1. \/ Ends(c)
        \/ Go(c, "reserve") /\ \E b \in BOOLEAN : mem' = [mem EXCEPT ![c].clear = b]
    BY <1>7 DEF Vet, GuardsClear
  <2> QED
    BY <1>1, <2>1, EndsTyped DEF Go, Counting, TypeOK, NoMem, Memory
<1>8. CASE MonitorStart(c) \/ SquareStart(c)
  <2>1. PICK d \in Calls, pnl \in Outcomes : Takes(c, d, pnl)
    BY <1>8 DEF MonitorStart, SquareStart, Open, Held
  <2>2. mem'[c].unlock = mem[c].unlock /\ mem'[c].mock = mem[c].mock
    BY <2>1, MemoryTyped DEF Takes, TypeOK, Memory
  <2>3. pc'[c] = "credit"
    BY <1>8 DEF MonitorStart, SquareStart, Go, TypeOK
  <2> QED
    BY <1>1, <2>2, <2>3 DEF Counting
<1> QED
  BY <1>3, <1>4, <1>5, <1>6, <1>7, <1>8 DEF SettingsWriters, Start, Step

\* Loads, rollovers, outcomes and the operator keep it within a day.
LEMMA WritersKeepLock ==
  ASSUME TypeOK, Paths, LockInv, NEW c \in Calls, SettingsWriters(c)
  PROVE  LockInv'
<1>0. Alone(c)
  BY StepAlone DEF SettingsWriters, Start, Step
<1> USE DEF Counted
<1>1. CASE Load(c)
  <2>1. ~LockPast
    BY DEF LockPast, LockInv
  <2>2. ~mem'[c].unlock
    BY <1>1, <2>1, MemoryTyped DEF Load, TypeOK, Memory
  <2>3. Counting(c)' => settings.current
    BY <1>1 DEF Load, Go, Counting, TypeOK
  <2> QED
    BY <1>0, <1>1, <2>2, <2>3 DEF Load, LockInv, Counting, Alone
<1>2. CASE Roll(c)
  <2>1. settings'.current /\ (settings'.lock <=> settings.lock)
    BY <1>2 DEF Roll, RolledLock, LockInv, TypeOK
  <2> QED
    BY <1>0, <1>2, <2>1 DEF Roll, LockInv, Counting, Alone
<1>6. CASE Mock(c)
  <2>1. ~mem'[c].unlock /\ mem'[c].mock
    BY <1>6, MemoryTyped DEF Mock, TypeOK, Memory
  <2> QED
    BY <1>0, <1>6, <2>1 DEF Mock, limits, LockInv, Alone, Counting
<1>3. CASE Tally(c) \/ Post(c)
  <2>1. /\ UNCHANGED <<settings, locked>>
        /\ mem'[c].unlock = mem[c].unlock /\ mem'[c].mock = mem[c].mock
        /\ Counting(c)
    BY <1>3, TallyKeeps DEF Tally, Post, Counting
  <2> QED
    BY <1>0, <2>1 DEF LockInv, Counting, Alone
<1>4. CASE Relock(c)
  <2>1. CASE mem[c].mock
    BY <1>0, <1>4, <2>1 DEF Relock, LockInv, Alone, Counting
  <2>2. CASE ~mem[c].mock
    <3>1. settings.current
      BY <1>4, <2>2 DEF Relock, LockInv, Counting
    <3>2. settings'.current /\ settings'.lock
      BY <1>4, <2>2, <3>1 DEF Relock, TypeOK
    <3> QED
      BY <1>0, <1>4, <3>2 DEF Relock, LockInv, Alone
  <2> QED
    BY <2>1, <2>2
<1>5. CASE PanicStop(c) \/ ResetLock(c)
  <2>1. /\ settings'.current = settings.current
        /\ locked' => locked /\ settings'.lock = settings.lock
        /\ settings'.lock => settings.lock
        /\ mem' = mem
    BY <1>5 DEF PanicStop, ResetLock, TypeOK
  <2>2. ~Counting(c)'
    BY <1>5 DEF PanicStop, ResetLock, Go, Counting, TypeOK
  <2> QED
    BY <1>0, <2>1, <2>2 DEF LockInv, Counting, Alone
<1> QED
  BY <1>1, <1>2, <1>3, <1>4, <1>5, <1>6 DEF SettingsWriters

\* A step is that of a call under way.
LEMMA StepBusy ==
  ASSUME NEW c \in Calls, Step(c)
  PROVE  Busy(c)
BY DEF Busy, Step, Load, Roll, Mock, Answer, DaemonCount, DaemonLimit, Propose, TurnedDown,
       Vet, Reserve, Place, Payable, Debit, Persist, Create, Credit, ExitRefused, Report,
       Close, Tally, Post, Relock, RelockFails, SwitchSaved, ForgetStreak

\* Where one call follows the other they keep it too, with a lock of the day
\* before and over new days.
LEMMA WritersKeepApart ==
  ASSUME TypeOK, Paths, ApartInv, NEW c \in Calls, SettingsWriters(c),
         \A b, d \in Calls : Busy(b)' /\ Busy(d)' => b = d
  PROVE  ApartInv'
<1>0. Alone(c)
  BY StepAlone DEF SettingsWriters, Start, Step
<1> USE DEF Counted
<1>1. CASE Load(c)
  <2>1. UNCHANGED <<settings, locked>>
    BY <1>1 DEF Load
  <2>2. mem[c].next \in Loaded /\ "roll" \notin Loaded
    BY MemoryTyped DEF Loaded
  <2>3. (Counting(c)' => settings.current) /\ (pc'[c] = "roll" => ~settings.current)
    BY <1>1, <2>2 DEF Load, Go, Counting, TypeOK
  <2> QED
    BY <1>0, <2>1, <2>3 DEF ApartInv, Counting, Alone
<1>2. CASE Roll(c)
  <2>1. ~locked /\ ~locked' /\ settings'.current
    BY <1>2 DEF Roll, ApartInv, TypeOK
  <2> QED
    BY <2>1 DEF ApartInv
<1>3. CASE Mock(c)
  <2>1. mem[c].next \in Loaded /\ "roll" \notin Loaded
    BY MemoryTyped DEF Loaded
  <2>2. mem'[c].mock /\ pc'[c] # "roll" /\ UNCHANGED <<settings, locked>>
    BY <1>3, <2>1, MemoryTyped DEF Mock, limits, Go, TypeOK, Memory
  <2> QED
    BY <1>0, <2>2 DEF ApartInv, Counting, Alone
<1>4. CASE Tally(c) \/ Post(c)
  <2>1. /\ UNCHANGED <<settings, locked>> /\ mem'[c].mock = mem[c].mock
        /\ Counting(c)
    BY <1>4, TallyKeeps DEF Tally, Post, Counting
  <2>2. pc'[c] # "roll"
    BY <1>4 DEF Tally, Post, Outcome, Go, TypeOK
  <2> QED
    BY <1>0, <2>1, <2>2 DEF ApartInv, Counting, Alone
<1>5. CASE Relock(c)
  <2>1. pc'[c] = "close" /\ mem' = mem /\ Counting(c)
    BY <1>5 DEF Relock, Go, TypeOK, Counting
  <2>2. CASE mem[c].mock
    BY <1>0, <1>5, <2>1, <2>2 DEF Relock, ApartInv, Alone, Counting
  <2>3. CASE ~mem[c].mock
    <3>1. settings'.current /\ settings'.lock
      BY <1>5, <2>1, <2>3 DEF Relock, ApartInv, TypeOK
    <3>2. \A b \in Calls : b # c => pc[b] # "roll"
      BY <1>5 DEF Relock, ApartInv, Busy
    <3> QED
      BY <1>0, <2>1, <3>1, <3>2 DEF ApartInv, Alone, Counting
  <2> QED
    BY <2>2, <2>3
<1>6. CASE PanicStop(c) \/ ResetLock(c)
  <2>1. /\ settings'.current = settings.current
        /\ locked' => locked /\ settings'.lock = settings.lock
        /\ mem' = mem
    BY <1>6 DEF PanicStop, ResetLock, TypeOK
  <2>2. ~Counting(c)' /\ pc'[c] # "roll"
    BY <1>6 DEF PanicStop, ResetLock, Go, Counting, TypeOK
  <2> QED
    BY <1>0, <2>1, <2>2 DEF ApartInv, Counting, Alone
<1> QED
  BY <1>1, <1>2, <1>3, <1>4, <1>5, <1>6 DEF SettingsWriters

\* Every step of a run without new days keeps it.
LEMMA NextLock ==
  ASSUME TypeOK, Paths, ~scene.clock, LockInv, [Next]_vars
  PROVE  LockInv'
<1> USE DEF Counted
<1>1. CASE UNCHANGED vars \/ Recovering \/ Booting
  BY <1>1 DEF vars, limits, LockInv, Counting, Recovering, Recovered, Booting, Connect,
              SwitchRestored, Hydrated
<1>2. ASSUME NEW c \in Calls, SettingsWriters(c)
      PROVE  LockInv'
  BY <1>2, WritersKeepLock
<1>3. ASSUME NEW c \in Calls, Start(c) \/ Step(c), ~SettingsWriters(c)
      PROVE  LockInv'
  BY <1>3, LockLeft, StepAlone DEF LockInv, Counting, Alone
<1>4. CASE Restart
  <2>1. \A b \in Calls : ~Counting(b)' /\ ~mem'[b].unlock
    BY <1>4 DEF Restart, Busy, Counting, TypeOK, NoMem
  <2> QED
    BY <1>4, <2>1 DEF Restart, LockInv
<1> QED
  BY <1>1, <1>2, <1>3, <1>4 DEF Next, CooldownOver, LossesOver, NewDay, Recovering, Booting

\* Every step of a run of one call after the other does.
LEMMA NextApart ==
  ASSUME TypeOK, Paths, scene.apart, ApartInv, [Next]_vars
  PROVE  ApartInv'
<1> USE DEF Counted
<1>1. CASE UNCHANGED vars \/ Recovering \/ Booting
  BY <1>1 DEF vars, limits, ApartInv, Counting, Busy, Recovering, Recovered, Booting,
              Connect, SwitchRestored, Hydrated
<1>2. ASSUME NEW c \in Calls, Start(c) \/ Step(c)
      PROVE  ApartInv'
  <2>1. Alone(c)
    BY <1>2, StepAlone
  <2>2. \A b \in Calls : b # c => ~Busy(b)
    <3>1. CASE Start(c)
      BY <3>1 DEF Start, SettingsStart, AutoStart, DaemonTick, StrategyStart, OrderStart,
                  MonitorStart, SquareStart, Halt, Resume, PanicStop, ResetLock, Starts, AtRest
    <3>2. CASE Step(c)
      BY <3>2, StepBusy DEF ApartInv
    <3> QED
      BY <1>2, <3>1, <3>2
  <2>3. \A b, d \in Calls : Busy(b)' /\ Busy(d)' => b = d
    BY <2>1, <2>2 DEF Alone, Busy
  <2>4. CASE SettingsWriters(c)
    BY <2>3, <2>4, WritersKeepApart
  <2>5. CASE ~SettingsWriters(c)
    BY <1>2, <2>1, <2>3, <2>5, LockLeft DEF ApartInv, Counting, Alone
  <2> QED
    BY <2>4, <2>5
<1>3. CASE Restart
  <2>1. \A b \in Calls : ~Busy(b)' /\ ~Counting(b)' /\ pc'[b] # "roll"
    BY <1>3 DEF Restart, Busy, Counting, TypeOK
  <2> QED
    BY <1>3, <2>1 DEF Restart, ApartInv
<1>4. CASE (\E s \in Strategies : CooldownOver(s)) \/ LossesOver
  BY <1>4 DEF CooldownOver, LossesOver, limits, ApartInv, Counting, Busy
<1>5. CASE NewDay
  <2>1. ~locked' /\ pc' = pc /\ mem' = mem /\ AtRest
    BY <1>5 DEF NewDay
  <2>2. \A b \in Calls : ~Counting(b)
    BY <2>1 DEF AtRest, Busy, Counting
  <2> QED
    BY <2>1, <2>2 DEF ApartInv, Counting, Busy
<1> QED
  BY <1>1, <1>2, <1>3, <1>4, <1>5 DEF Next, Recovering, Booting

\* A lock that a loss has taken is lifted by the operator only, over restarts and
\* over settings that cannot be read: for any number of loads, rollovers and
\* outcomes that overlap within a day that began without a lock, and, where one
\* call follows the other, with a lock of the day before and over new days.
THEOREM LockStays == Spec => []LockKept
<1> DEFINE InDay == ~(scene.carried \/ scene.clock) => LockInv
           OneByOne == scene.apart => ApartInv
<1>1. Init => InDay /\ OneByOne
  BY DEF Init, LockInv, ApartInv, Counted, Counting, Busy, NoMem
<1>2. TypeOK /\ Paths /\ InDay /\ [Next]_vars => InDay'
  BY NextLock, NextScene
<1>3. TypeOK /\ Paths /\ OneByOne /\ [Next]_vars => OneByOne'
  BY NextApart, NextScene
<1>4. InDay /\ OneByOne => LockKept
  BY DEF LockInv, ApartInv, LockKept
<1> QED
  BY <1>1, <1>2, <1>3, <1>4, TypedInv, PTL DEF Spec

-----------------------------------------------------------------------------
(* The limit on open trades.                                                 *)
(*                                                                           *)
(* One tick is under way at a time, and tickInFlight says so.  Where ticks   *)
(* are the only entries, the count a tick has in hand stays an upper bound   *)
(* until it opens its trade.                                                 *)

Tick(c) == scene.kind[c] \in {"daemon", "monitor"} /\ Busy(c)

TickInv ==
    /\ \A c \in Calls : Tick(c) => ticking
    /\ \A b, c \in Calls : Tick(b) /\ Tick(c) => b = c

DaemonOnly == ~Has(Entries \ {"daemon"}) /\ ~Fault("settings")

\* Ticks and exits begin when the server is up, so that a mock of the settings
\* means that they could not be read.
DocInv ==
    \A c \in Calls :
        scene.kind[c] \in {"daemon"} \cup Exits =>
            /\ Busy(c) => boot = "up"
            /\ mem[c].mock => Fault("settings")

LimitInv ==
    /\ \A c \in Calls : At(c, {"limit"}) => Cardinality(Standing) <= mem[c].count
    /\ \A c \in Calls : Entering(c) => Cardinality(Standing) < MaxConcurrentTrades
    /\ Cardinality(Standing) <= MaxConcurrentTrades

\* A call gets to be a tick when none is under way.
LEMMA TickTaken ==
  ASSUME TypeOK, NEW c \in Calls, Start(c) \/ Step(c), scene' = scene, Tick(c)', ~Tick(c)
  PROVE  ~ticking /\ ticking'
<1>1. scene.kind[c] \in {"daemon", "monitor"} /\ Busy(c)' /\ ~Busy(c)
  BY DEF Tick
<1>2. ~Step(c)
  BY <1>1
     DEF Busy, Step, Load, Roll, Mock, Answer, DaemonCount, DaemonLimit, Propose, TurnedDown, Vet,
         Reserve, Place, Payable, Debit, Persist, Create, Credit, ExitRefused, Report, Close,
         Tally, Post,
         Relock, RelockFails, SwitchSaved, ForgetStreak
<1>3. DaemonTick(c) \/ MonitorStart(c)
  BY <1>1, <1>2
     DEF Start, SettingsStart, AutoStart, StrategyStart, OrderStart, SquareStart, Halt,
         Resume, PanicStop, ResetLock, Starts, Switching
<1>4. DaemonTick(c) /\ TickUnderWay => pc'[c] = "done"
  BY DEF DaemonTick, Go, TypeOK
<1> QED
  BY <1>1, <1>3, <1>4 DEF DaemonTick, MonitorStart, TickUnderWay, Busy, TypeOK

\* A step that lets the flag go is the end of a tick.
LEMMA TickReleased ==
  ASSUME TypeOK, NEW c \in Calls, Start(c) \/ Step(c), scene' = scene, ticking, ~ticking'
  PROVE  Tick(c) /\ ~Tick(c)'
<1>1. Ends(c) \/ Refused(c)
  BY DEF Start, Step, flags, Enter, SettingsStart, AutoStart, DaemonTick, StrategyStart,
         OrderStart, MonitorStart, SquareStart, Halt, Resume, PanicStop, ResetLock, Load,
         Roll, Mock, Answer, DaemonCount, DaemonLimit, Propose, TurnedDown, Vet, Reserve, Place,
         Payable, Debit, Persist, Create, Credit, ExitRefused, Report, Close, Tally, Post,
         Relock, RelockFails,
         SwitchSaved, ForgetStreak
<1>2. scene.kind[c] \in {"daemon", "monitor"}
  BY <1>1 DEF Ends, Refused
<1>3. pc'[c] = "done"
  BY <1>1, EndsTyped
<1>4. Step(c)
  BY <1>2
     DEF Start, flags, SettingsStart, AutoStart, DaemonTick, StrategyStart, OrderStart,
         MonitorStart, SquareStart, Halt, Resume, PanicStop, ResetLock, Starts, Switching
<1>5. Busy(c)
  BY <1>4, StepBusy
<1> QED
  BY <1>2, <1>3, <1>5 DEF Tick, Busy

\* Every step keeps the ticks apart.
LEMMA NextTick ==
  ASSUME TypeOK, Paths, TickInv, [Next]_vars
  PROVE  TickInv'
<1>0. scene' = scene /\ ticking \in BOOLEAN
  BY NextScene DEF TypeOK
<1>1. CASE UNCHANGED <<ticking, pc>>
  BY <1>0, <1>1 DEF TickInv, Tick, Busy
<1>2. ASSUME NEW c \in Calls, Start(c) \/ Step(c)
      PROVE  TickInv'
  <2>1. \A b \in Calls : b # c => (Tick(b)' <=> Tick(b))
    BY <1>0, <1>2, StepAlone DEF Alone, Tick, Busy
  <2>2. CASE Tick(c)' /\ ~Tick(c)
    <3>1. ~ticking /\ ticking'
      BY <1>0, <1>2, <2>2, TickTaken
    <3> QED
      BY <2>1, <3>1 DEF TickInv
  <2>3. CASE Tick(c)' => Tick(c)
    <3>1. CASE ticking => ticking'
      BY <2>1, <2>3, <3>1 DEF TickInv
    <3>2. CASE ticking /\ ~ticking'
      <4>1. Tick(c) /\ ~Tick(c)'
        BY <1>0, <1>2, <3>2, TickReleased
      <4> QED
        BY <2>1, <4>1 DEF TickInv
    <3> QED
      BY <3>1, <3>2
  <2> QED
    BY <2>2, <2>3
<1>3. CASE Restart
  <2>1. \A c \in Calls : ~Tick(c)'
    BY <1>3 DEF Restart, Busy, Tick, TypeOK
  <2> QED
    BY <2>1 DEF TickInv
<1>4. CASE \/ UNCHANGED vars \/ (\E s \in Strategies : CooldownOver(s)) \/ LossesOver \/ NewDay
           \/ Recovering \/ Booting
  BY <1>1, <1>4
     DEF vars, flags, CooldownOver, LossesOver, NewDay, Recovering, Recovered, Booting,
         Connect, SwitchRestored, Hydrated
<1> QED
  BY <1>2, <1>3, <1>4 DEF Next, Recovering, Booting

\* A mock is handed out where the settings cannot be read.
LEMMA MockLeft ==
  ASSUME TypeOK, Paths, NEW c \in Calls, Start(c) \/ Step(c), ~Mock(c)
  PROVE  mem'[c].mock => mem[c].mock
<1>1. CASE Load(c)
  BY <1>1, MemoryTyped DEF Load, TypeOK, Memory
<1>2. CASE Tally(c) \/ Post(c)
  BY <1>2, TallyKeeps DEF Tally, Post
<1>3. CASE Roll(c) \/ Relock(c) \/ PanicStop(c) \/ ResetLock(c)
  BY <1>3 DEF Roll, Relock, PanicStop, ResetLock
<1> QED
  BY <1>1, <1>2, <1>3, LockLeft DEF SettingsWriters

LEMMA NextDoc ==
  ASSUME TypeOK, Paths, DocInv, [Next]_vars
  PROVE  DocInv'
<1>0. scene' = scene
  BY NextScene
<1>1. ASSUME NEW c \in Calls, Start(c) \/ Step(c)
      PROVE  DocInv'
  <2>1. Alone(c) /\ boot' = boot
    BY <1>1, StepAlone, BootLeft
  <2> SUFFICES ASSUME scene.kind[c] \in {"daemon"} \cup Exits
               PROVE  (Busy(c)' => boot = "up") /\ (mem'[c].mock => Fault("settings"))
    BY <1>0, <2>1 DEF DocInv, Alone, Busy, Fault
  <2>2. Busy(c)' => boot = "up"
    <3>1. CASE Step(c)
      BY <3>1, StepBusy DEF DocInv
    <3>2. CASE Start(c)
      BY <3>2 DEF Start, SettingsStart, AutoStart, DaemonTick, StrategyStart, OrderStart,
                  MonitorStart, SquareStart, Halt, Resume, PanicStop, ResetLock, Starts,
                  Exits, Switching
    <3> QED
      BY <1>1, <3>1, <3>2
  <2>3. mem'[c].mock => Fault("settings")
    <3>1. CASE Mock(c)
      <4>1. Busy(c)
        BY <3>1 DEF Mock, Busy
      <4> QED
        BY <3>1, <4>1 DEF DocInv, Mock, Connected
    <3>2. CASE ~Mock(c)
      BY <1>1, <3>2, MockLeft DEF DocInv
    <3> QED
      BY <3>1, <3>2
  <2> QED
    BY <2>2, <2>3
<1>2. CASE UNCHANGED vars \/ (\E s \in Strategies : CooldownOver(s)) \/ LossesOver \/ NewDay
           \/ Recovering
  BY <1>2 DEF vars, switch, CooldownOver, LossesOver, NewDay, Recovering, Recovered, DocInv,
              Busy, Fault
<1>3. CASE Booting
  <2>1. boot # "up" /\ UNCHANGED <<scene, pc, mem>>
    BY <1>3 DEF Booting, Connect, SwitchRestored, Hydrated
  <2> QED
    BY <2>1 DEF DocInv, Busy, Fault
<1>4. CASE Restart
  <2>1. \A b \in Calls : ~Busy(b)' /\ ~mem'[b].mock
    BY <1>4 DEF Restart, Busy, TypeOK, NoMem
  <2> QED
    BY <2>1 DEF DocInv
<1> QED
  BY <1>1, <1>2, <1>3, <1>4 DEF Next, Recovering, Booting

LEMMA DocumentInv == Spec => []DocInv
<1>1. Init => DocInv
  BY DEF Init, DocInv, Busy, NoMem
<1>2. TypeOK /\ Paths /\ DocInv /\ [Next]_vars => DocInv'
  BY NextDoc
<1> QED
  BY <1>1, <1>2, TypedInv, PTL DEF Spec

\* Open trades are finite, and fewer of them do not count for more.
LEMMA FewerOpen ==
  ASSUME Standing' \subseteq Standing
  PROVE  Cardinality(Standing) \in Nat /\ Cardinality(Standing') \in Nat
         /\ Cardinality(Standing') <= Cardinality(Standing)
<1>1. IsFiniteSet(Standing)
  BY EntriesAssumption, FS_Subset DEF Standing, Open
<1> QED
  BY <1>1, FS_Subset, FS_CardinalityType

\* Every step but the creation of a trade.
LEMMA NoneOpened ==
  ASSUME TypeOK, Paths, NEW c \in Calls, Start(c) \/ Step(c), ~Create(c)
  PROVE  Standing' \subseteq Standing
<1>1. Quiet(c) \/ UNCHANGED trade
  BY FirstStepsQuiet, LaterStepsQuiet DEF Step, Vet, Reserve, Place, documents
<1> QED
  BY <1>1 DEF Quiet, Undisturbed, Standing, Open

\* Where the count and the read of the settings lead.
LEMMA CountInHand ==
  ASSUME TypeOK, NEW c \in Calls, DaemonCount(c) \/ Load(c) \/ Roll(c) \/ Mock(c)
  PROVE  /\ DaemonCount(c) => mem'[c].count = Cardinality(Open)
         /\ Load(c) \/ Roll(c) \/ Mock(c) =>
                /\ mem'[c].count = mem[c].count /\ mem'[c].next = mem[c].next
                /\ pc'[c] \in {"roll", mem[c].next}
<1>1. mem[c] \in Memory /\ mem \in [Calls -> Memory]
  BY DEF TypeOK
<1>2. CASE DaemonCount(c)
  <2> DEFINE n == Cardinality(Open)
  <2>1. mem' = [mem EXCEPT ![c] = [[mem[c] EXCEPT !.count = n] EXCEPT !.next = "limit"]]
    BY <1>2 DEF DaemonCount, Ask
  <2>2. pc[c] = "count"
    BY <1>2 DEF DaemonCount
  <2> HIDE DEF n
  <2>3. mem'[c].count = n
    BY <1>1, <2>1 DEF Memory
  <2> QED
    BY <2>2, <2>3 DEF n, Load, Roll, Mock
<1>3. CASE Load(c) \/ Mock(c)
  <2>1. CASE Load(c)
    <3>1. mem'[c].count = mem[c].count
      BY <1>1, <2>1 DEF Load, Memory
    <3>2. ~DaemonCount(c)
      BY <2>1 DEF Load, DaemonCount
    <3> QED
      BY <2>1, <3>1, <3>2, LoadStep
  <2>2. CASE Mock(c)
    <3>1. mem'[c].count = mem[c].count
      BY <1>1, <2>2 DEF Mock, Memory
    <3>2. ~DaemonCount(c)
      BY <2>2 DEF Mock, DaemonCount
    <3> QED
      BY <2>2, <3>1, <3>2, LoadStep
  <2> QED
    BY <1>3, <2>1, <2>2
<1>4. CASE Roll(c)
  <2>1. ~DaemonCount(c) /\ mem' = mem /\ pc'[c] = mem[c].next
    BY <1>4 DEF Roll, DaemonCount, Go, TypeOK
  <2> QED
    BY <2>1
<1> QED
  BY <1>2, <1>3, <1>4

\* The check of the limit is reached from the count only.
LEMMA LimitReached ==
  ASSUME TypeOK, Paths, NEW c \in Calls, Start(c) \/ Step(c), At(c, {"limit"})'
  PROVE  DaemonCount(c) \/ (At(c, {"limit"}) /\ (Load(c) \/ Roll(c) \/ Mock(c)))
<1>1. \A n \in Loaded, m \in Memory : Ask(c, n, m) /\ n # "limit" => FALSE
  BY AskTyped DEF At
<1>2. mem[c] \in Memory /\ mem[c].next \in Loaded
  BY MemoryTyped
<1>3. ~Ends(c) /\ ~Refused(c)
  BY EndsTyped DEF At
<1>4. \A l \in Pcs : Go(c, l) /\ l \notin {"limit", "load", "roll"} => FALSE
  BY GoTyped DEF At
<1>5. CASE Start(c)
  <2>1. CASE SettingsStart(c) \/ OrderStart(c)
    BY <1>1, <1>2, <1>4, <2>1 DEF SettingsStart, OrderStart, Loaded, Pcs
  <2>2. CASE StrategyStart(c)
    <3>1. PICK s \in scene.signals : Proposal(c, s)
      BY <1>4, <2>2 DEF StrategyStart, Pcs
    <3>2. pc'[c] = "load" /\ mem'[c].next = "vet"
      BY <1>2, <3>1 DEF Proposal, Ask, Go, TypeOK, Memory
    <3> QED
      BY <3>2 DEF At
  <2>3. CASE AutoStart(c) \/ DaemonTick(c)
    BY <1>3, <1>4, <2>3 DEF AutoStart, DaemonTick, Enter, Pcs
  <2>4. CASE MonitorStart(c) \/ SquareStart(c)
    BY <1>4, <2>4 DEF MonitorStart, SquareStart, Pcs
  <2>5. CASE Halt(c) \/ Resume(c) \/ PanicStop(c) \/ ResetLock(c)
    BY <1>4, <2>5 DEF Halt, Resume, PanicStop, ResetLock, Pcs
  <2> QED
    BY <1>5, <2>1, <2>2, <2>3, <2>4, <2>5 DEF Start
<1>6. CASE Step(c)
  <2>1. CASE Load(c) \/ Roll(c) \/ Mock(c)
    <3>0. pc[c] \in {"load", "roll"}
      BY <2>1 DEF Load, Roll, Mock
    <3>1. pc[c] \in {"load", "roll"} /\ mem'[c].next = mem[c].next
      BY <2>1, <3>0, CountInHand
    <3>2. mem[c].next = "limit"
      BY <1>2, <2>1, <3>1, CountInHand DEF At, Loaded
    <3> QED
      BY <2>1, <3>1, <3>2 DEF At
  <2>2. CASE Propose(c)
    <3>1. PICK s \in scene.signals : Proposal(c, s)
      BY <2>2 DEF Propose
    <3>2. pc'[c] = "load" /\ mem'[c].next = "vet"
      BY <1>2, <3>1 DEF Proposal, Ask, Go, TypeOK, Memory
    <3> QED
      BY <3>2 DEF At
  <2>3. CASE \/ Answer(c) \/ TurnedDown(c) \/ DaemonLimit(c) \/ Create(c) \/ Close(c)
             \/ ExitRefused(c) \/ RelockFails(c)
    BY <1>3, <1>4, <2>3
       DEF Answer, TurnedDown, DaemonLimit, Create, Close, ExitRefused, RelockFails, Enter, Pcs
  <2>4. CASE Vet(c) \/ Payable(c) \/ Place(c) \/ Credit(c)
    BY <1>3, <1>4, <2>4 DEF Vet, Payable, Place, Credit, Pcs
  <2>5. CASE Reserve(c)
    <3>1. \E l \in {"debit", "place"} : Go(c, l)
      BY <1>3, <2>5 DEF Reserve
    <3> QED
      BY <1>4, <3>1 DEF Pcs
  <2>6. CASE Debit(c) \/ Persist(c) \/ Report(c)
    <3>1. \/ Ask(c, "tally", mem[c])
          \/ \E l \in {"create", "persist", "report"} : Go(c, l)
      BY <1>3, <2>6 DEF Debit, Persist, Report
    <3> QED
      BY <1>1, <1>2, <1>4, <3>1 DEF Loaded, Pcs
  <2>7. CASE Tally(c) \/ Post(c) \/ Relock(c) \/ SwitchSaved(c) \/ ForgetStreak(c)
    <3>1. \E l \in {"post", "relock", "close", "done"} : Go(c, l)
      BY <2>7 DEF Tally, Post, Relock, RelockFails, SwitchSaved, ForgetStreak, Outcome
    <3> QED
      BY <1>4, <3>1 DEF Pcs
  <2> QED
    BY <1>6, <2>1, <2>2, <2>3, <2>4, <2>5, <2>6, <2>7 DEF Step
<1> QED
  BY <1>5, <1>6

\* A tick takes its turn behind its check of the limit.
LEMMA EnterOnly ==
  ASSUME TypeOK, NEW c \in Calls, Start(c) \/ Step(c), Enter(c), scene.kind[c] = "daemon"
  PROVE  DaemonLimit(c)
<1>1. pc'[c] = "propose"
  BY DEF Enter, Go, TypeOK
<1> QED
  BY <1>1, EndsTyped
     DEF Enter, MayEnter, Start, Step, Starts, Switching, Go, TypeOK, flags, SettingsStart,
         AutoStart, DaemonTick,
         StrategyStart, OrderStart, MonitorStart, SquareStart, Halt, Resume, PanicStop,
         ResetLock, Load, Roll, Mock, Answer, DaemonCount, DaemonLimit, Propose, TurnedDown, Vet,
         Reserve, Place, Payable, Debit, Persist, Create, Credit, ExitRefused, Report, Close,
         Tally, Post,
         Relock, RelockFails, SwitchSaved, ForgetStreak, TurnLeft, Ends

\* While ticks are the only entries, no trade is opened over the limit.
LEMMA NextLimit ==
  ASSUME TypeOK, Paths, TickInv, DocInv, DaemonOnly => LimitInv, [Next]_vars
  PROVE  (DaemonOnly => LimitInv)'
<1>0. scene' = scene
  BY NextScene
<1> SUFFICES ASSUME DaemonOnly, LimitInv PROVE LimitInv'
  BY <1>0 DEF DaemonOnly, Has, Fault
<1>1. MaxConcurrentTrades \in Nat \ {0} /\ \A b \in Calls : mem[b].count \in Nat
  BY EntriesAssumption, MemoryTyped
<1>2. \A b \in Calls : scene.kind[b] \in Entries => scene.kind[b] = "daemon"
  BY DEF DaemonOnly, Has
<1>3. ASSUME NEW c \in Calls, Start(c) \/ Step(c), ~Create(c)
      PROVE  LimitInv'
  <2>1. /\ Cardinality(Standing) \in Nat /\ Cardinality(Standing') \in Nat
        /\ Cardinality(Standing') <= Cardinality(Standing)
    BY <1>3, NoneOpened, FewerOpen
  <2>2. \A b \in Calls : b # c => pc'[b] = pc[b] /\ mem'[b] = mem[b]
    BY <1>3, StepAlone DEF Alone
  <2>3. At(c, {"limit"})' => Cardinality(Standing') <= mem'[c].count
    <3>1. SUFFICES ASSUME At(c, {"limit"})' PROVE Cardinality(Standing') <= mem'[c].count
      OBVIOUS
    <3>2. \/ DaemonCount(c) /\ mem'[c].count = Cardinality(Open)
          \/ At(c, {"limit"}) /\ mem'[c].count = mem[c].count
      BY <1>3, <3>1, LimitReached, CountInHand
    <3>3. Cardinality(Open) \in Nat /\ Cardinality(Standing) <= Cardinality(Open)
      <4>1. IsFiniteSet(Open) /\ Standing \subseteq Open
        BY EntriesAssumption, FS_Subset DEF Standing, Open
      <4> QED
        BY <4>1, FS_Subset, FS_CardinalityType
    <3> QED
      BY <1>1, <2>1, <3>2, <3>3 DEF LimitInv
  <2>4. Entering(c)' => Cardinality(Standing') < MaxConcurrentTrades
    <3>1. CASE Entering(c)
      BY <1>1, <2>1, <3>1 DEF LimitInv
    <3>2. CASE Entering(c)' /\ ~Entering(c)
      <4>1. scene.kind[c] = "daemon"
        BY <1>0, <1>2, <3>2 DEF Entering
      <4>2. Enter(c)
        BY <1>0, <1>3, <3>2, <4>1, TurnTaken DEF Turn, Automatic
      <4>3. DaemonLimit(c)
        BY <1>3, <4>1, <4>2, EnterOnly
      <4>4. mem[c].count < MaxConcurrentTrades /\ At(c, {"limit"})
        <5>1. ~mem[c].mock
          BY <4>1 DEF DocInv, DaemonOnly
        <5> QED
          BY <4>2, <4>3, <5>1, EndsTyped DEF DaemonLimit, Enter, Refused, At, Go, TypeOK
      <4> QED
        BY <1>1, <2>1, <4>4 DEF LimitInv
    <3> QED
      BY <3>1, <3>2
  <2>5. \A b \in Calls : b # c => /\ At(b, {"limit"})' => Cardinality(Standing') <= mem'[b].count
                                  /\ Entering(b)' => Cardinality(Standing') < MaxConcurrentTrades
    BY <1>0, <1>1, <2>1, <2>2 DEF LimitInv, At, Entering
  <2> QED
    BY <1>1, <2>1, <2>3, <2>4, <2>5 DEF LimitInv
<1>4. ASSUME NEW c \in Calls, Create(c)
      PROVE  LimitInv'
  <2>1. pc[c] = "create" /\ scene.kind[c] = "daemon" /\ Entering(c) /\ Tick(c)
    BY <1>2, <1>4
       DEF Create, Paths, Placed, Automated, Vetted, Paying, Leaving, Ordered, Granted, At,
           Entering, Tick, Busy
  <2>2. pc'[c] = "done" /\ \A b \in Calls : b # c => pc'[b] = pc[b] /\ mem'[b] = mem[b]
    BY <1>4, EndsTyped DEF Create
  <2>3. \A b \in Calls : ~At(b, {"limit"})' /\ ~Entering(b)'
    <3>1. ~At(c, {"limit"})' /\ ~Entering(c)'
      BY <2>2 DEF At, Entering
    <3>2. ASSUME NEW b \in Calls, b # c
          PROVE  ~At(b, {"limit"})' /\ ~Entering(b)'
      <4>1. ~Tick(b)
        BY <2>1, <3>2 DEF TickInv
      <4>2. ~(scene.kind[b] = "daemon" /\ Busy(b))
        BY <4>1 DEF Tick
      <4>3. ~At(b, {"limit"})
        BY <1>2, <4>2
           DEF At, Busy, Paths, Placed, Automated, Entries
      <4>4. ~Entering(b)
        BY <1>2, <4>2 DEF Entering, Busy
      <4> QED
        BY <1>0, <2>2, <3>2, <4>3, <4>4 DEF At, Entering
    <3> QED
      BY <3>1, <3>2
  <2>4. Cardinality(Standing') <= MaxConcurrentTrades
    <3>1. Standing' \subseteq Standing \cup {c}
      BY <1>4 DEF Create, Standing, Open, TypeOK
    <3>2. IsFiniteSet(Standing)
      BY EntriesAssumption, FS_Subset DEF Standing, Open
    <3>3. /\ Cardinality(Standing) < MaxConcurrentTrades /\ Cardinality(Standing) \in Nat
      BY <2>1, <3>2, FS_CardinalityType DEF LimitInv
    <3>4. /\ IsFiniteSet(Standing \cup {c}) /\ Cardinality(Standing \cup {c}) \in Nat
          /\ Cardinality(Standing \cup {c}) <= Cardinality(Standing) + 1
      <4>1. /\ IsFiniteSet(Standing \cup {c})
            /\ Cardinality(Standing \cup {c}) =
                  IF c \in Standing THEN Cardinality(Standing) ELSE Cardinality(Standing) + 1
        BY <3>2, FS_AddElement
      <4> QED
        BY <3>3, <4>1
    <3>5. Cardinality(Standing') \in Nat /\ Cardinality(Standing') <= Cardinality(Standing \cup {c})
      BY <3>1, <3>4, FS_Subset, FS_CardinalityType
    <3> QED
      BY <1>1, <3>3, <3>4, <3>5
  <2> QED
    BY <2>3, <2>4 DEF LimitInv
<1>5. CASE UNCHANGED vars \/ (\E s \in Strategies : CooldownOver(s)) \/ LossesOver \/ NewDay
           \/ Restart \/ Recovering \/ Booting
  <2>1. Standing' \subseteq Standing
    <3>1. CASE UNCHANGED trade
      BY <3>1 DEF Standing, Open
    <3>2. CASE NewDay
      BY <3>2 DEF NewDay, TypeOK, Trade, Standing, Open
    <3>3. ASSUME NEW x \in Calls, trade' = Reopened(x)
          PROVE  Standing' \subseteq Standing
      BY <3>3 DEF Reopened, TypeOK, Trade, Standing, Open
    <3> QED
      BY <1>5, <3>1, <3>2, <3>3
         DEF vars, documents, CooldownOver, LossesOver, Restart, Recovering, Recovered,
             Booting, Connect, SwitchRestored, Hydrated
  <2>2. /\ Cardinality(Standing) \in Nat /\ Cardinality(Standing') \in Nat
        /\ Cardinality(Standing') <= Cardinality(Standing)
    BY <2>1, FewerOpen
  <2>3. CASE UNCHANGED <<pc, mem>>
    BY <1>0, <1>1, <2>2, <2>3 DEF LimitInv, At, Entering
  <2>4. CASE Restart
    <3>1. \A b \in Calls : pc'[b] \in {"idle", "done"}
      BY <2>4 DEF Restart, Busy, TypeOK
    <3> QED
      BY <1>1, <2>2, <3>1 DEF LimitInv, At, Entering
  <2> QED
    BY <1>5, <2>3, <2>4
       DEF vars, CooldownOver, LossesOver, NewDay, Recovering, Recovered, Booting, Connect,
           SwitchRestored, Hydrated
<1> QED
  BY <1>3, <1>4, <1>5 DEF Next, Recovering, Booting

\* The daemon alone never opens more than maxConcurrentTrades, whatever exits,
\* restarts and slow ticks come in between, as long as the settings can be read.
\* What an exit, or its recovery, gives back comes on top.
THEOREM LimitHolds == Spec => []WithinLimit
<1>1. Init => TickInv /\ (DaemonOnly => LimitInv)
  <2> SUFFICES ASSUME Init PROVE TickInv /\ LimitInv
    OBVIOUS
  <2>1. Standing = {}
    BY DEF Init, Standing, Open, NoTrade
  <2>2. Cardinality(Standing) = 0
    BY <2>1, FS_EmptySet
  <2> QED
    BY <2>2, EntriesAssumption DEF Init, TickInv, Tick, Busy, LimitInv, At, Entering
<1>2. TypeOK /\ Paths /\ TickInv /\ DocInv /\ (DaemonOnly => LimitInv) /\ [Next]_vars
      => TickInv' /\ (DaemonOnly => LimitInv)'
  BY NextTick, NextLimit
<1>3. (DaemonOnly => LimitInv) => WithinLimit
  BY DEF DaemonOnly, LimitInv, WithinLimit
<1> QED
  BY <1>1, <1>2, <1>3, TypedInv, DocumentInv, PTL DEF Spec
=============================================================================
