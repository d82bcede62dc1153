-------------------------- MODULE PreferenceRegister --------------------------
(***************************************************************************)
(* What checkout promises about Mercado Pago preferences, with nothing     *)
(* said of rows, amounts, races or retries: every connection keeps, for    *)
(* every charge, a register that is written once, by the request whose     *)
(* preference it holds from then on.  A request hands out what a register  *)
(* holds, and from then on the charge refers to a preference of ours.      *)
(* CheckoutPreferences implements it (CheckoutPreferences!Register).       *)
(***************************************************************************)
CONSTANTS
    Charges,
    Connections,
    Requests,       \* a request makes one preference at most, known by its name
    None

VARIABLES
    chosen,     \* chosen[k][c]: the preference stored for charge c at connection k
    refers,     \* refers[c]: the preference of ours that charge c refers to
    handed      \* handed[x]: the preference request x has handed out, and for what

registerVars == <<chosen, refers, handed>>

RegisterInit ==
    /\ chosen = [k \in Connections |-> [c \in Charges |-> None]]
    /\ refers = [c \in Charges |-> None]
    /\ handed = [x \in Requests |-> None]

\* The first request that stores a preference wins, and it stores no second one.
Choose(k, c, x) ==
    /\ chosen[k][c] = None
    /\ \A j \in Connections, d \in Charges : chosen[j][d] # x
    /\ chosen' = [chosen EXCEPT ![k] = [chosen[k] EXCEPT ![c] = x]]
    /\ UNCHANGED <<refers, handed>>

\* Winner or not, a request hands out what is stored.  The charge refers to it,
\* or still to what was stored for it at another connection.
HandOut(k, c, x) ==
    /\ handed[x] = None
    /\ chosen[k][c] # None
    /\ handed' = [handed EXCEPT ![x] = [pref |-> chosen[k][c], via |-> k, charge |-> c]]
    /\ \E p \in {chosen[k][c], refers[c]} \ {None} : refers' = [refers EXCEPT ![c] = p]
    /\ UNCHANGED chosen

RegisterNext ==
    \E k \in Connections, c \in Charges, x \in Requests : Choose(k, c, x) \/ HandOut(k, c, x)

RegisterSpec == RegisterInit /\ [][RegisterNext]_registerVars
=============================================================================
