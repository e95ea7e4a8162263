--------------------------- MODULE WalletContract ---------------------------
(***************************************************************************)
(* What a paper wallet promises its callers: opening a trade takes its     *)
(* margin, closing it pays its refund once, money moves in and out, all at *)
(* a single point and never below zero.  PaperLedger implements it, in     *)
(* memory (balance <- what the map holds once the call in the lock has     *)
(* posted) and, for a wallet only trades move, on disk across crashes      *)
(* (balance <- the snapshot).                                              *)
(***************************************************************************)
EXTENDS Integers

CONSTANTS Docs, Initial, Sums   \* Sums: the amounts a call can move

VARIABLES balance, moved, status, margin, refund

contractVars == <<balance, moved, status, margin, refund>>

Init ==
    /\ balance = Initial
    /\ moved = 0
    /\ status = [d \in Docs |-> "none"]
    /\ margin = [d \in Docs |-> 0]
    /\ refund = [d \in Docs |-> 0]

Open(d, m) ==
    /\ status[d] = "none" /\ balance >= m
    /\ balance' = balance - m
    /\ status' = [status EXCEPT ![d] = "OPEN"]
    /\ margin' = [margin EXCEPT ![d] = m]
    /\ UNCHANGED <<refund, moved>>

Close(d, r) ==
    /\ status[d] = "OPEN"
    /\ balance' = balance + r
    /\ status' = [status EXCEPT ![d] = "CLOSED"]
    /\ refund' = [refund EXCEPT ![d] = r]
    /\ UNCHANGED <<margin, moved>>

Move(n) ==
    /\ balance + n >= 0
    /\ balance' = balance + n
    /\ moved' = moved + n
    /\ UNCHANGED <<status, margin, refund>>

Next ==
    \/ \E d \in Docs, n \in Sums : Open(d, n) \/ Close(d, n)
    \/ \E n \in Sums : Move(n) \/ Move(- n)

Spec == Init /\ [][Next]_contractVars

=============================================================================
