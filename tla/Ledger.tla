-------------------------------- MODULE Ledger --------------------------------
(***************************************************************************)
(* What the billing tables promise about the hotel's invoices, with        *)
(* neither handlers nor transactions: an invoice is credited in amounts    *)
(* that fit what is left, is PAID from the credit that completes it, and   *)
(* may be written off only while nothing was credited to it.               *)
(***************************************************************************)
EXTENDS Integers

CONSTANTS Invoices, Total

VARIABLES
    credited,      \* credited[i] is the money booked on invoice i
    standing       \* standing[i] is i's status

ledgerVars == <<credited, standing>>

LedgerInit ==
    /\ credited = [i \in Invoices |-> 0]
    /\ standing = [i \in Invoices |-> "OPEN"]

Credit(i, amt) ==
    /\ standing[i] = "OPEN"
    /\ amt <= Total[i] - credited[i]
    /\ credited' = [credited EXCEPT ![i] = @ + amt]
    /\ standing' = [standing EXCEPT ![i] = IF credited'[i] = Total[i] THEN "PAID" ELSE @]

WriteOff(i) ==
    /\ standing[i] = "OPEN"
    /\ credited[i] = 0
    /\ standing' = [standing EXCEPT ![i] = "VOID"]
    /\ UNCHANGED credited

LedgerNext ==
    \E i \in Invoices : WriteOff(i) \/ \E amt \in 1 .. Total[i] : Credit(i, amt)

LedgerSpec == LedgerInit /\ [][LedgerNext]_ledgerVars
=============================================================================
