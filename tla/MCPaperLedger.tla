--------------------------- MODULE MCPaperLedger ---------------------------
(***************************************************************************)
(* PaperLedger and its mappings to WalletContract on small sets of calls.  *)
(* A run lists its calls by kind.                                          *)
(***************************************************************************)
EXTENDS PaperLedgerRefinement, TLC

\* Calls <<name, kind, amount>>.
KindOf(list)   == [j \in {c[1] : c \in list} |-> (CHOOSE c \in list : c[1] = j)[2]]
AmountOf(list) == [j \in {c[1] : c \in list} |-> (CHOOSE c \in list : c[1] = j)[3]]

\* Two entries that the balance of 10 cannot both pay, two closers that can
\* race for one trade, a queued deposit and a transfer that takes no lock.
Traffic == { <<"open1", "debit", 6>>, <<"open2", "debit", 5>>,
             <<"close1", "credit", 7>>, <<"close2", "credit", 4>>,
             <<"upi", "deposit", 2>>, <<"xfer", "transferIn", 3>> }
TrafficJobs == DOMAIN KindOf(Traffic)
TrafficKind == KindOf(Traffic)
TrafficAmount == AmountOf(Traffic)

\* Trades only: three entries and two closers.
Trading == { <<"open1", "debit", 6>>, <<"open2", "debit", 5>>, <<"open3", "debit", 3>>,
             <<"close1", "credit", 7>>, <<"close2", "credit", 4>> }
TradingJobs == DOMAIN KindOf(Trading)
TradingKind == KindOf(Trading)
TradingAmount == AmountOf(Trading)

\* One call of each kind that waits for the database after it has its turn.
Mixed == { <<"open1", "debit", 6>>, <<"close1", "credit", 7>>,
           <<"cashout", "withdraw", 5>>, <<"xferOut", "transferOut", 3>> }
MixedJobs == DOMAIN KindOf(Mixed)
MixedKind == KindOf(Mixed)
MixedAmount == AmountOf(Mixed)

DocSymmetry == Permutations(Docs)

=============================================================================
