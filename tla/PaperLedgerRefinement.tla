----------------------- MODULE PaperLedgerRefinement -----------------------
(***************************************************************************)
(* The two mappings from PaperLedger to WalletContract: what the process   *)
(* sees, and what a restart would find.                                    *)
(***************************************************************************)
EXTENDS PaperLedger

\* Memory: the map with the one outstanding sum posted.
Posted == LET P == {j \in Jobs : Pending(j)}
          IN IF P = {} THEN mem ELSE mem + Unposted(CHOOSE j \in P : TRUE)

Sums == {Amount[j] : j \in Jobs}

InMemory == INSTANCE WalletContract WITH balance <- Posted, moved <- external

OnDisk == INSTANCE WalletContract WITH balance <- snap, moved <- 0

\* In memory every step of every call is a step of the contract or none:
\* each takes effect at one point, whatever ran during its awaits.
MemoryContract == InMemory!Spec

\* On disk too, and a crash at any point is no step of the contract.
DiskContract == OnDisk!Spec

=============================================================================
