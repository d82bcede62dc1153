---------------------------- MODULE ChargeLedger ----------------------------
(***************************************************************************)
(* What billing promises about the money collected on a charge, with       *)
(* nothing said of requests, transactions, locks or retries: a charge is   *)
(* opened once for an amount; a collection entered by hand credits its     *)
(* source while something is still due, and may overshoot; Mercado Pago    *)
(* can only raise the credit of a source, and never past the amount due.   *)
(* ChargePayments implements this specification (ChargePayments!Ledger).   *)
(***************************************************************************)
EXTENDS Integers

CONSTANTS
    Charges,    \* the billing charges of the branch
    Sources,    \* the payment records that may credit a charge
    Dues,       \* the amounts a charge may be opened for
    Credits     \* the gross amounts a collection may have

VARIABLES
    open,       \* the charges that exist
    due,        \* due[c]: BillingCharge.amount
    paid,       \* paid[c]: BillingCharge.amountPaid
    credit      \* credit[c][s]: what source s has settled on charge c

ledgerVars == <<open, due, paid, credit>>

LedgerInit ==
    /\ open = {}
    /\ due = [c \in Charges |-> 0]
    /\ paid = [c \in Charges |-> 0]
    /\ credit = [c \in Charges |-> [s \in Sources |-> 0]]

Open(c, a) ==
    /\ c \notin open
    /\ open' = open \cup {c}
    /\ due' = [due EXCEPT ![c] = a]
    /\ UNCHANGED <<paid, credit>>

\* The credit of s becomes g, and the balance moves by exactly the difference.
Settle(c, s, g) ==
    /\ c \in open
    /\ credit' = [credit EXCEPT ![c] = [credit[c] EXCEPT ![s] = g]]
    /\ paid' = [paid EXCEPT ![c] = paid[c] + (g - credit[c][s])]
    /\ UNCHANGED <<open, due>>

\* A new source, while something is due: nothing bounds g by what is due.
CollectByHand(c, s, g) ==
    /\ paid[c] < due[c]
    /\ credit[c][s] = 0
    /\ Settle(c, s, g)

\* A source confirmed by Mercado Pago: its credit never falls, and what it
\* adds never takes the balance past the amount due.
Reconcile(c, s, g) ==
    /\ g >= credit[c][s]
    /\ paid[c] + (g - credit[c][s]) <= due[c]
    /\ Settle(c, s, g)

LedgerNext ==
    \E c \in Charges :
        \/ \E a \in Dues : Open(c, a)
        \/ \E s \in Sources, g \in Credits :
               CollectByHand(c, s, g) \/ Reconcile(c, s, g)

LedgerSpec == LedgerInit /\ [][LedgerNext]_ledgerVars
=============================================================================
