------------------------- MODULE CheckoutPreferences -------------------------
(***************************************************************************)
(* Mercado Pago preferences for the charges of one branch, and the         *)
(* connections of the branch to Mercado Pago (src/src/billing and          *)
(* src/src/integrations).  A request reads the charge, picks the one       *)
(* active connection, looks for a stored link, creates a preference at the *)
(* provider, stores the link and lets the charge refer to it.  Operators   *)
(* create, activate and reconfigure connections meanwhile.  There is no    *)
(* transaction: every step is one statement or one HTTP call, and the only *)
(* protection is the unique index on (connection, charge).                 *)
(*                                                                         *)
(* A request creates at most one preference, which bears its name.         *)
(* Amounts are what a charge still owes; no defaults from the environment  *)
(* complete a configuration.                                               *)
(***************************************************************************)
EXTENDS Integers, FiniteSets

CONSTANTS
    Charges,
    Connections,        \* Mercado Pago connections of the branch
    Requests,           \* preference requests, each used once
    Admins,             \* calls that create or update a connection, each used once
    MaxDue,             \* bound: what a charge may owe
    TypedReference,     \* a reference entered by hand when the charge was created
    None

ASSUME NoneIsNothing == None \notin Charges \cup Connections \cup Requests
ASSUME CallsHaveDistinctNames == Requests \cap Admins = {}
ASSUME TypedIsForeign == TypedReference \notin Requests \cup {None}
ASSUME DueIsBounded == MaxDue \in Nat

VARIABLES
    charge,         \* charge[c]: balance, provider and reference of the BillingCharge
    connection,     \* connection[k]: the IntegrationConnection row
    link,           \* link[k][c]: the ExternalEntityLink of charge c at connection k
    pc,             \* pc[x]: how far request or call x has got
    job,            \* job[x]: what request x has read
    change,         \* change[a]: the update that call a is about to write
    unseen,         \* history: unseen[a], the connections activated since call a has counted
    answer          \* answer[x]: the preference that request x has handed out

vars == <<charge, connection, link, pc, job, change, unseen, answer>>

Providers == {"none", "MERCADO_PAGO", "other"}
References == Requests \cup {None, TypedReference}
Charge == [due : 0..MaxDue, provider : Providers, ref : References]

\* INACTIVE stands for ERROR and DISCONNECTED too: a status is only ever compared
\* with ACTIVE.
Statuses == {"ABSENT", "INACTIVE", "ACTIVE"}
\* keyless: ready for activation, but without the public key of the checkout.
Configs == {"null", "keyless", "complete"}
Connection == [status : Statuses, config : Configs]

Link == [due : 0..MaxDue, pref : Requests \cup {None}]
NoLink == [due |-> 0, pref |-> None]

Job == [charge : Charges \cup {None}, pref : Requests \cup {None}, row : Charge,
        via : Connections \cup {None}]
NoJob == [charge |-> None, pref |-> None,
          row |-> [due |-> 0, provider |-> "none", ref |-> None], via |-> None]

\* unchanged: the field is not in the body of the call.
Change == [status : Statuses \cup {"unchanged"},
           config : Configs \cup {"unchanged"}, of : Connections \cup {None}]
NoChange == [status |-> "unchanged", config |-> "unchanged", of |-> None]

\* The branch starts without connections or with one that is active.
Init ==
    /\ charge \in [Charges -> {c \in Charge : /\ c.ref \notin Requests
                                              /\ c.provider = "none" => c.ref = None}]
    /\ \E former \in {{}} \cup {{k} : k \in Connections} :
          connection = [k \in Connections |->
                           IF k \in former THEN [status |-> "ACTIVE", config |-> "complete"]
                                           ELSE [status |-> "ABSENT", config |-> "null"]]
    /\ link = [k \in Connections |-> [c \in Charges |-> NoLink]]
    /\ pc = [x \in Requests \cup Admins |-> "idle"]
    /\ job = [x \in Requests |-> NoJob]
    /\ change = [a \in Admins |-> NoChange]
    /\ unseen = [a \in Admins |-> {}]
    /\ answer = [x \in Requests |-> None]

Goto(x, point) == pc' = [pc EXCEPT ![x] = point]

\* Payments and reconciliation, modelled in ChargePayments, lower what is due.
Pay(c) ==
    /\ charge[c].due > 0
    /\ charge' = [charge EXCEPT ![c].due = charge[c].due - 1]
    /\ UNCHANGED <<connection, link, pc, job, change, unseen, answer>>

-----------------------------------------------------------------------------
(***************************************************************************)
(* Connections: create and update read, count and write without a lock.    *)
(***************************************************************************)
Active == {k \in Connections : connection[k].status = "ACTIVE"}

\* What connection k would be after change ch, as the call computes it.
Result(k, ch) ==
    [status |-> IF ch.status = "unchanged" THEN connection[k].status ELSE ch.status,
     config |-> IF ch.config = "unchanged" THEN connection[k].config ELSE ch.config]

\* A new connection has a status and a configuration, and no other call knows it.
Creates(ch) ==
    /\ ch.status # "unchanged" /\ ch.config # "unchanged"
    /\ \A b \in Admins : change[b].of # ch.of

\* A connection that is or becomes active needs credentials.
ReadConnection(a, ch) ==
    LET next == Result(ch.of, ch)
    IN  /\ pc[a] = "idle"
        /\ connection[ch.of].status = "ABSENT" => Creates(ch)
        /\ next.status = "ACTIVE" => next.config # "null"
        /\ Goto(a, IF next.status = "ACTIVE" THEN "activating" ELSE "writing")
        /\ change' = [change EXCEPT ![a] = ch]
        /\ UNCHANGED <<charge, connection, link, job, unseen, answer>>

\* Mutant of HasAnotherActive: the call does not count connections.
HasAnotherActiveNever(k) == k \in Active /\ k \notin Active

HasAnotherActive(k) == \E j \in Active : j # k

CountActive(a) ==
    /\ pc[a] = "activating"
    /\ UNCHANGED <<charge, connection, link, job, unseen, answer>>
    /\ \/ HasAnotherActive(change[a].of) /\ Goto(a, "done")
                                         /\ change' = [change EXCEPT ![a] = NoChange]
       \/ ~HasAnotherActive(change[a].of) /\ Goto(a, "writing") /\ UNCHANGED change

\* Call a has counted and is about to make its connection active.
Activating(a) == pc[a] = "writing" /\ change[a].status = "ACTIVE"

\* History: calls that have counted miss what the write of call a activates.
MissedByOthers(a) ==
    unseen' = [b \in Admins |->
                  IF b = a THEN {}
                  ELSE IF Activating(b) THEN unseen[b] \cup (Active' \ Active)
                  ELSE unseen[b]]

\* Mutant of WriteConnection: absent fields are written like the others.
WriteConnectionVerbatim(a) ==
    LET k == change[a].of
    IN  /\ pc[a] = "writing"
        /\ connection' = [connection EXCEPT ![k] = [status |-> change[a].status,
                                                    config |-> change[a].config]]
        /\ Goto(a, "done")
        /\ change' = [change EXCEPT ![a] = NoChange]
        /\ MissedByOthers(a)
        /\ UNCHANGED <<charge, link, job, answer>>

\* Only the fields of the body are written, whatever the row is by now.
WriteConnection(a) ==
    LET k == change[a].of
    IN  /\ pc[a] = "writing"
        /\ connection' = [connection EXCEPT ![k] = Result(k, change[a])]
        /\ Goto(a, "done")
        /\ change' = [change EXCEPT ![a] = NoChange]
        /\ MissedByOthers(a)
        /\ UNCHANGED <<charge, link, job, answer>>

-----------------------------------------------------------------------------
(***************************************************************************)
(* A request for a preference.                                             *)
(***************************************************************************)
End(x) ==
    /\ Goto(x, "done")
    /\ job' = [job EXCEPT ![x] = NoJob]

ReadCharge(x, c) ==
    /\ pc[x] = "idle"
    /\ charge[c].due > 0
    /\ charge[c].provider # "other"
    /\ Goto(x, "eligible")
    /\ job' = [job EXCEPT ![x].charge = c, ![x].row = charge[c]]
    /\ UNCHANGED <<charge, connection, link, change, unseen, answer>>

\* Requests that find no active connection, or more than one, are refused.
PickConnection(x) ==
    /\ pc[x] = "eligible"
    /\ UNCHANGED <<charge, connection, link, change, unseen, answer>>
    /\ \/ \E k \in Active : /\ Active = {k}
                            /\ connection[k].config = "complete"
                            /\ Goto(x, "connected")
                            /\ job' = [job EXCEPT ![x].via = k]
       \/ /\ \A k \in Active : Active # {k} \/ connection[k].config # "complete"
          /\ End(x)

LinkOf(x) == link[job[x].via][job[x].charge]

\* What the charge refers to, as the request has read it.
KnownReference(x) == IF job[x].row.provider = "MERCADO_PAGO" THEN job[x].row.ref ELSE None

Reusable(x) ==
    /\ KnownReference(x) \in {None, LinkOf(x).pref}
    /\ LinkOf(x).due = job[x].row.due

ReuseLink(x) ==
    \/ Reusable(x) /\ Goto(x, "linked") /\ job' = [job EXCEPT ![x].pref = LinkOf(x).pref]
    \/ ~Reusable(x) /\ End(x)

FindLink(x) ==
    /\ pc[x] = "connected"
    /\ UNCHANGED <<charge, connection, link, change, unseen, answer>>
    /\ \/ LinkOf(x) # NoLink /\ ReuseLink(x)
       \/ LinkOf(x) = NoLink /\ KnownReference(x) # None /\ End(x)
       \/ LinkOf(x) = NoLink /\ KnownReference(x) = None /\ Goto(x, "unlinked")
                             /\ UNCHANGED job

\* The provider creates a preference, or the call fails and the request with it.
CreatePreference(x) ==
    /\ pc[x] = "unlinked"
    /\ UNCHANGED <<charge, connection, link, change, unseen, answer>>
    /\ \/ Goto(x, "created") /\ job' = [job EXCEPT ![x].pref = x]
       \/ End(x)

\* Mutant of CreateLink: the unique index is missing, the last insert wins.
CreateLinkAgain(x) ==
    /\ pc[x] = "created"
    /\ link' = [link EXCEPT ![job[x].via][job[x].charge] =
                   [due |-> job[x].row.due, pref |-> x]]
    /\ Goto(x, "linked")
    /\ UNCHANGED <<charge, connection, job, change, unseen, answer>>

CreateLink(x) ==
    /\ pc[x] = "created"
    /\ UNCHANGED <<charge, connection, job, change, unseen, answer>>
    /\ \/ /\ LinkOf(x) = NoLink
          /\ link' = [link EXCEPT ![job[x].via][job[x].charge] =
                         [due |-> job[x].row.due, pref |-> x]]
          /\ Goto(x, "linked")
       \/ LinkOf(x) # NoLink /\ Goto(x, "beaten") /\ UNCHANGED link

\* Mutant of ReuseConcurrentLink: the loser goes on with its own preference.
ReuseConcurrentLinkNever(x) ==
    /\ pc[x] = "beaten"
    /\ Goto(x, "linked")
    /\ UNCHANGED <<charge, connection, link, job, change, unseen, answer>>

ReuseConcurrentLink(x) ==
    /\ pc[x] = "beaten"
    /\ ReuseLink(x)
    /\ UNCHANGED <<charge, connection, link, change, unseen, answer>>

\* Mutant of SyncChargeExternalReference: a preference of this request's own is
\* attached, a reused one is not.
SyncChargeIfCreated(x) ==
    LET c == job[x].charge
    IN  /\ pc[x] = "linked"
        /\ charge' = IF job[x].pref = x
                     THEN [charge EXCEPT ![c].provider = "MERCADO_PAGO", ![c].ref = x]
                     ELSE charge
        /\ answer' = [answer EXCEPT ![x] = job[x].pref]
        /\ Goto(x, "answered")
        /\ UNCHANGED <<connection, link, job, change, unseen>>

\* The comparison is with the charge that was read at the start, and the update
\* overwrites whatever the charge refers to by now.
SyncChargeExternalReference(x) ==
    LET c == job[x].charge
    IN  /\ pc[x] = "linked"
        /\ charge' = IF KnownReference(x) = job[x].pref THEN charge
                     ELSE [charge EXCEPT ![c].provider = "MERCADO_PAGO",
                                         ![c].ref = job[x].pref]
        /\ answer' = [answer EXCEPT ![x] = job[x].pref]
        /\ Goto(x, "answered")
        /\ UNCHANGED <<connection, link, job, change, unseen>>

\* The process dies or the database refuses a statement.
Abandon(x) ==
    /\ pc[x] \notin {"idle", "answered", "done"}
    /\ IF x \in Requests
       THEN job' = [job EXCEPT ![x] = NoJob] /\ UNCHANGED <<change, unseen>>
       ELSE /\ change' = [change EXCEPT ![x] = NoChange]
            /\ unseen' = [unseen EXCEPT ![x] = {}]
            /\ UNCHANGED job
    /\ Goto(x, "done")
    /\ UNCHANGED <<charge, connection, link, answer>>

-----------------------------------------------------------------------------
Changes == [status : (Statuses \ {"ABSENT"}) \cup {"unchanged"},
            config : Configs \cup {"unchanged"}, of : Connections]

Progress(x) ==
    \/ PickConnection(x)
    \/ FindLink(x)
    \/ CreatePreference(x)
    \/ CreateLink(x)
    \/ ReuseConcurrentLink(x)
    \/ SyncChargeExternalReference(x)

Next ==
    \/ \E c \in Charges : Pay(c) \/ \E x \in Requests : ReadCharge(x, c)
    \/ \E x \in Requests : Progress(x)
    \/ \E a \in Admins : CountActive(a) \/ WriteConnection(a)
    \/ \E a \in Admins, ch \in Changes : ReadConnection(a, ch)
    \/ \E x \in Requests \cup Admins : Abandon(x)

Spec == Init /\ [][Next]_vars

-----------------------------------------------------------------------------
(***************************************************************************)
(* Checkout as a set of registers: what PreferenceRegister sees of it.     *)
(***************************************************************************)
\* The charge refers to a preference of ours.
Attached(c) == charge[c].provider = "MERCADO_PAGO" /\ charge[c].ref \in Requests

Chosen == [k \in Connections |-> [c \in Charges |-> link[k][c].pref]]

Refers == [c \in Charges |-> IF Attached(c) THEN charge[c].ref ELSE None]

Handed == [x \in Requests |->
              IF answer[x] = None THEN None
              ELSE [pref |-> answer[x], via |-> job[x].via, charge |-> job[x].charge]]

Register == INSTANCE PreferenceRegister
                WITH chosen <- Chosen, refers <- Refers, handed <- Handed

-----------------------------------------------------------------------------
(***************************************************************************)
(* Properties.                                                             *)
(***************************************************************************)
TypeOK ==
    /\ charge \in [Charges -> Charge]
    /\ connection \in [Connections -> Connection]
    /\ link \in [Connections -> [Charges -> Link]]
    /\ pc \in [Requests \cup Admins ->
                  {"idle", "eligible", "connected", "unlinked", "created", "beaten",
                   "linked", "answered", "activating", "writing", "done"}]
    /\ job \in [Requests -> Job]
    /\ change \in [Admins -> Change]
    /\ unseen \in [Admins -> SUBSET Connections]
    /\ answer \in [Requests -> Requests \cup {None}]

\* Requests that race on one charge and one connection all hand out the
\* preference that was stored first, also the request whose own preference
\* exists at the provider but lost the race for the index.
AnswersConverge ==
    \A x \in Requests : answer[x] # None => LinkOf(x).pref = answer[x]

\* Requests that race, die, or lose the race after they have created a preference
\* make the stored links write-once registers: a link that is there is never
\* replaced, no preference is stored for two charges or connections, and no answer
\* is taken back, nor the reference to ours that a charge has.
ImplementsRegister == Register!RegisterSpec

\* Whoever pays through a preference that was handed out pays a charge that is
\* attached to Mercado Pago and refers to a stored link, so that the webhook run
\* does not ignore the payment; and the charge refers to that very preference
\* unless a second connection has been used for it.
AnswerIsObservable ==
    \A x \in Requests : answer[x] # None =>
        LET c == job[x].charge
            linked == {k \in Connections : link[k][c] # NoLink}
        IN  /\ charge[c].provider = "MERCADO_PAGO"
            /\ \E k \in linked : link[k][c].pref = charge[c].ref
            /\ linked = {job[x].via} => charge[c].ref = answer[x]

\* A reference of ours that a charge carries is stored: a request that dies, or
\* loses the race, between the provider's answer and the last update leaves no
\* charge that refuses every later request.
ReferenceIsStored ==
    \A c \in Charges : charge[c].ref \in Requests =>
        \E k \in Connections : link[k][c].pref = charge[c].ref

\* What call a activates joins only connections that became active after a counted.
JoinsOnlyUnseen(a) ==
    \A k \in Active' \ Active, j \in Active :
        k = change[a].of /\ (j = k \/ j \in unseen[a])

\* Calls that activate connections count and write without a lock, in any order: a
\* connection joins active ones only if each of these became active between the
\* count and the write of its call.  So two are active only if calls overlapped.
ActivationMissesOnlyLaterOnes ==
    [][Active' \subseteq Active \/
          \E a \in Admins : pc[a] = "writing" /\ pc'[a] = "done" /\ JoinsOnlyUnseen(a)]_vars

\* What DD-020 promises: the branch never has two active connections.
OneActiveConnection == \A j, k \in Active : j = k
=============================================================================
