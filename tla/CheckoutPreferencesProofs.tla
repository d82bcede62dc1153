---------------------- MODULE CheckoutPreferencesProofs ----------------------
(***************************************************************************)
(* Proofs about CheckoutPreferences for every number of charges,           *)
(* connections, requests and connection calls.                             *)
(***************************************************************************)
EXTENDS CheckoutPreferences, TLAPS

Holding == {"eligible", "connected", "unlinked", "created", "beaten", "linked", "answered"}

\* What a request knows although the charge, the links and the connections move
\* under it.
Knows(x) ==
    /\ answer[x] # None => pc[x] = "answered"
    /\ pc[x] \in Holding =>
          /\ job[x].charge \in Charges
          /\ KnownReference(x) \in Requests => Attached(job[x].charge)
    /\ pc[x] \in Holding \ {"eligible"} => job[x].via \in Connections
    /\ pc[x] = "created" => job[x].pref = x
    /\ pc[x] \in {"beaten", "linked", "answered"} => LinkOf(x) # NoLink
    /\ pc[x] \in {"linked", "answered"} =>
          job[x].pref \in Requests /\ LinkOf(x).pref = job[x].pref
    /\ pc[x] = "answered" => answer[x] = job[x].pref /\ Attached(job[x].charge)

AllKnow == \A x \in Requests : Knows(x)

LinksName == \A k \in Connections, c \in Charges :
    link[k][c] # NoLink => link[k][c].pref \in Requests

IInv == TypeOK /\ AllKnow /\ LinksName /\ ReferenceIsStored

-----------------------------------------------------------------------------
(***************************************************************************)
(* What every step leaves as it is.                                        *)
(***************************************************************************)
LinksStay == \A k \in Connections, c \in Charges :
    link[k][c] # NoLink => link'[k][c] = link[k][c]

AttachedStay == \A c \in Charges : Attached(c) => Attached(c)'

LEMMA NothingTyped == NoLink \in Link /\ NoJob \in Job /\ NoChange \in Change
BY DueIsBounded DEF NoLink, Link, NoJob, Job, NoChange, Change, Charge, Providers,
                    References, Statuses, Configs

LEMMA OthersKnow ==
    ASSUME IInv, NEW x \in Requests, LinksStay, AttachedStay,
           pc'[x] = pc[x], job'[x] = job[x], answer'[x] = answer[x]
    PROVE  Knows(x)'
<1>1. Knows(x)
  BY DEF IInv, AllKnow
<1>2. ASSUME job[x].charge \in Charges, Attached(job[x].charge)
      PROVE  Attached(job[x].charge)'
  BY <1>2 DEF AttachedStay, Attached
<1>3. ASSUME job[x].charge \in Charges, job[x].via \in Connections, LinkOf(x) # NoLink
      PROVE  LinkOf(x)' = LinkOf(x)
  BY <1>3 DEF LinksStay, LinkOf
<1>4. KnownReference(x)' = KnownReference(x)
  BY DEF KnownReference
<1> QED
  BY <1>1, <1>2, <1>3, <1>4 DEF Knows, Holding, Attached

\* A step of request x.
LEMMA StepPreserves ==
    ASSUME IInv, TypeOK', NEW x \in Requests, LinksStay, AttachedStay, Knows(x)',
           \A y \in Requests \ {x} : /\ pc'[y] = pc[y]
                                     /\ job'[y] = job[y]
                                     /\ answer'[y] = answer[y],
           LinksName', ReferenceIsStored'
    PROVE  IInv'
BY OthersKnow DEF IInv, AllKnow

\* A step of request x that writes neither charges nor links.
LEMMA QuietPreserves ==
    ASSUME IInv, TypeOK', NEW x \in Requests, UNCHANGED <<charge, link>>, Knows(x)',
           \A y \in Requests \ {x} : /\ pc'[y] = pc[y]
                                     /\ job'[y] = job[y]
                                     /\ answer'[y] = answer[y]
    PROVE  IInv'
<1>1. LinksStay /\ AttachedStay /\ LinksName' /\ ReferenceIsStored'
  BY DEF IInv, LinksStay, AttachedStay, Attached, LinksName, ReferenceIsStored
<1> QED
  BY <1>1, StepPreserves

\* A step of no request: connection calls, and payments.
LEMMA OutsidePreserves ==
    ASSUME IInv, TypeOK', UNCHANGED <<link, job, answer>>,
           \A y \in Requests : pc'[y] = pc[y],
           \A c \in Charges : /\ charge'[c].provider = charge[c].provider
                              /\ charge'[c].ref = charge[c].ref
    PROVE  IInv'
<1>1. LinksStay /\ AttachedStay /\ LinksName' /\ ReferenceIsStored'
  BY DEF IInv, LinksStay, AttachedStay, Attached, LinksName, ReferenceIsStored
<1> QED
  BY <1>1, OthersKnow DEF IInv, AllKnow

-----------------------------------------------------------------------------
(***************************************************************************)
(* The inductive invariant.                                                *)
(***************************************************************************)
LEMMA InvInit == Init => IInv
<1> SUFFICES ASSUME Init PROVE IInv
  OBVIOUS
<1>1. TypeOK
  BY NothingTyped DEF Init, TypeOK, Connection, Statuses, Configs
<1>2. AllKnow
  BY DEF Init, AllKnow, Knows, Holding
<1>3. LinksName /\ ReferenceIsStored
  BY DEF Init, LinksName, ReferenceIsStored, Charge
<1> QED
  BY <1>1, <1>2, <1>3 DEF IInv

LEMMA PayPreserves ==
    ASSUME IInv, NEW c \in Charges, Pay(c)
    PROVE  IInv'
<1>1. charge[c] \in Charge /\ charge[c].due \in 1..MaxDue
  BY DueIsBounded DEF Pay, IInv, TypeOK, Charge
<1>2. charge[c].due - 1 \in 0..MaxDue
  BY <1>1, DueIsBounded
<1>3. TypeOK'
  <2>1. [charge[c] EXCEPT !.due = charge[c].due - 1] \in Charge
    BY <1>1, <1>2 DEF Charge
  <2>2. charge' \in [Charges -> Charge]
    BY <2>1 DEF Pay, IInv, TypeOK
  <2> QED
    BY <2>2 DEF Pay, IInv, TypeOK
<1>4. \A d \in Charges : /\ charge'[d].provider = charge[d].provider
                         /\ charge'[d].ref = charge[d].ref
  BY DEF Pay, IInv, TypeOK, Charge
<1> QED
  BY <1>3, <1>4, OutsidePreserves DEF Pay

LEMMA ReadConnectionPreserves ==
    ASSUME IInv, NEW a \in Admins, NEW ch \in Changes, ReadConnection(a, ch)
    PROVE  IInv'
<1>1. ch \in Change
  BY DEF Changes, Change
<1>2. TypeOK'
  BY <1>1 DEF ReadConnection, Goto, IInv, TypeOK
<1>3. \A y \in Requests : pc'[y] = pc[y]
  BY CallsHaveDistinctNames DEF ReadConnection, Goto, IInv, TypeOK
<1> QED
  BY <1>2, <1>3, OutsidePreserves DEF ReadConnection

LEMMA CountActivePreserves ==
    ASSUME IInv, NEW a \in Admins, CountActive(a)
    PROVE  IInv'
<1>1. TypeOK'
  BY NothingTyped DEF CountActive, Goto, IInv, TypeOK
<1>2. \A y \in Requests : pc'[y] = pc[y]
  BY CallsHaveDistinctNames DEF CountActive, Goto, IInv, TypeOK
<1> QED
  BY <1>1, <1>2, OutsidePreserves DEF CountActive

LEMMA WriteConnectionPreserves ==
    ASSUME IInv, NEW a \in Admins, change[a].of \in Connections, WriteConnection(a)
    PROVE  IInv'
<1>1. Result(change[a].of, change[a]) \in Connection
  BY DEF Result, IInv, TypeOK, Connection, Change
<1>2. TypeOK'
  <2>1. unseen' \in [Admins -> SUBSET Connections]
    BY DEF WriteConnection, MissedByOthers, Active, IInv, TypeOK
  <2> QED
    BY <1>1, <2>1, NothingTyped DEF WriteConnection, Goto, IInv, TypeOK
<1>3. \A y \in Requests : pc'[y] = pc[y]
  BY CallsHaveDistinctNames DEF WriteConnection, Goto, IInv, TypeOK
<1> QED
  BY <1>2, <1>3, OutsidePreserves DEF WriteConnection

-----------------------------------------------------------------------------
LEMMA EndPreserves ==
    ASSUME IInv, NEW x \in Requests, pc[x] # "answered", Goto(x, "done"),
           job' = [job EXCEPT ![x] = NoJob],
           UNCHANGED <<charge, connection, link, change, unseen, answer>>
    PROVE  IInv'
<1>1. /\ TypeOK'
      /\ pc'[x] = "done"
      /\ \A y \in Requests \ {x} : pc'[y] = pc[y] /\ job'[y] = job[y]
  BY NothingTyped DEF Goto, IInv, TypeOK
<1>2. Knows(x)'
  BY <1>1 DEF IInv, AllKnow, Knows, Holding
<1> QED
  BY <1>1, <1>2, QuietPreserves

\* A request that goes on, with what it has read.
LEMMA GoPreserves ==
    ASSUME IInv, NEW x \in Requests, NEW point \in Holding, NEW j \in Job,
           Goto(x, point), job' = [job EXCEPT ![x] = j],
           UNCHANGED <<charge, connection, link, change, unseen, answer>>,
           Knows(x)'
    PROVE  IInv'
<1>1. /\ TypeOK'
      /\ \A y \in Requests \ {x} : pc'[y] = pc[y] /\ job'[y] = job[y]
  BY DEF Goto, IInv, TypeOK, Holding
<1> QED
  BY <1>1, QuietPreserves

LEMMA ReadChargePreserves ==
    ASSUME IInv, NEW x \in Requests, NEW c \in Charges, ReadCharge(x, c)
    PROVE  IInv'
<1> DEFINE j1 == [job[x] EXCEPT !.charge = c]
           j == [j1 EXCEPT !.row = charge[c]]
<1>1. j \in Job /\ j.charge = c /\ j.row = charge[c]
  BY DEF IInv, TypeOK, Job
<1>2. job' = [job EXCEPT ![x] = j]
  BY DEF ReadCharge, IInv, TypeOK, Job
<1> HIDE DEF j
<1>3. job'[x] = j /\ pc'[x] = "eligible" /\ UNCHANGED <<charge, answer>> /\ pc[x] = "idle"
  BY <1>2 DEF ReadCharge, Goto, IInv, TypeOK
<1>4. Knows(x)'
  <2>1. charge[c].provider = "MERCADO_PAGO" /\ charge[c].ref \in Requests => Attached(c)'
    BY <1>3 DEF Attached
  <2>2. KnownReference(x)' = IF charge[c].provider = "MERCADO_PAGO" THEN charge[c].ref ELSE None
    BY <1>1, <1>3 DEF KnownReference
  <2>3. KnownReference(x)' \in Requests => Attached(c)'
    BY <2>1, <2>2, NoneIsNothing
  <2> QED
    BY <1>1, <1>3, <2>3 DEF IInv, AllKnow, Knows, Holding, Attached
<1> QED
  BY <1>1, <1>2, <1>4, GoPreserves DEF ReadCharge, Holding

LEMMA PickConnectionPreserves ==
    ASSUME IInv, NEW x \in Requests, PickConnection(x)
    PROVE  IInv'
<1>1. CASE End(x)
  BY <1>1, EndPreserves DEF PickConnection, End
<1>2. CASE \E k \in Active : Goto(x, "connected") /\ job' = [job EXCEPT ![x].via = k]
  <2>1. PICK k \in Connections : Goto(x, "connected") /\ job' = [job EXCEPT ![x].via = k]
    BY <1>2 DEF Active
  <2> DEFINE j == [job[x] EXCEPT !.via = k]
  <2>2. /\ j \in Job
        /\ j.via = k
        /\ j.charge = job[x].charge
        /\ j.row = job[x].row
        /\ job' = [job EXCEPT ![x] = j]
    BY <2>1 DEF IInv, TypeOK, Job
  <2> HIDE DEF j
  <2>3. job'[x] = j /\ pc'[x] = "connected"
    BY <2>1, <2>2 DEF Goto, IInv, TypeOK
  <2>4. Knows(x)'
    BY <2>2, <2>3 DEF PickConnection, IInv, AllKnow, Knows, Holding, Attached, KnownReference
  <2> QED
    BY <2>1, <2>2, <2>4, GoPreserves DEF PickConnection, Holding
<1> QED
  BY <1>1, <1>2 DEF PickConnection

LEMMA ReuseLinkPreserves ==
    ASSUME IInv, NEW x \in Requests, pc[x] \in {"connected", "beaten"},
           LinkOf(x) # NoLink, ReuseLink(x),
           UNCHANGED <<charge, connection, link, change, unseen, answer>>
    PROVE  IInv'
<1>1. CASE Goto(x, "done") /\ job' = [job EXCEPT ![x] = NoJob]
  BY <1>1, EndPreserves
<1>2. CASE Goto(x, "linked") /\ job' = [job EXCEPT ![x].pref = LinkOf(x).pref]
  <2>1. /\ Knows(x)
        /\ job[x].charge \in Charges
        /\ job[x].via \in Connections
    BY DEF IInv, AllKnow, Knows, Holding
  <2>2. LinkOf(x).pref \in Requests
    BY <2>1 DEF IInv, LinksName, LinkOf
  <2> DEFINE j == [job[x] EXCEPT !.pref = LinkOf(x).pref]
  <2>3. /\ j \in Job
        /\ j.pref = LinkOf(x).pref
        /\ j.via = job[x].via
        /\ j.charge = job[x].charge
        /\ j.row = job[x].row
        /\ job' = [job EXCEPT ![x] = j]
    BY <1>2, <2>2 DEF IInv, TypeOK, Job
  <2> HIDE DEF j
  <2>4. job'[x] = j /\ pc'[x] = "linked"
    BY <1>2, <2>3 DEF Goto, IInv, TypeOK
  <2>5. LinkOf(x)' = LinkOf(x) /\ KnownReference(x)' = KnownReference(x)
    BY <2>3, <2>4 DEF LinkOf, KnownReference
  <2>6. Knows(x)'
    BY <2>1, <2>2, <2>3, <2>4, <2>5 DEF Knows, Holding, Attached
  <2> QED
    BY <1>2, <2>3, <2>6, GoPreserves DEF Holding
<1> QED
  BY <1>1, <1>2 DEF ReuseLink, End

LEMMA FindLinkPreserves ==
    ASSUME IInv, NEW x \in Requests, FindLink(x)
    PROVE  IInv'
<1>1. pc[x] = "connected" /\ UNCHANGED <<charge, connection, link, change, unseen, answer>>
  BY DEF FindLink
<1>2. CASE LinkOf(x) # NoLink /\ ReuseLink(x)
  BY <1>1, <1>2, ReuseLinkPreserves
<1>3. CASE End(x)
  BY <1>1, <1>3, EndPreserves DEF End
<1>4. CASE Goto(x, "unlinked") /\ UNCHANGED job
  <2>1. job[x] \in Job /\ job' = [job EXCEPT ![x] = job[x]] /\ pc'[x] = "unlinked"
    BY <1>4 DEF IInv, TypeOK, Goto
  <2>2. Knows(x)'
    BY <1>1, <1>4, <2>1 DEF IInv, AllKnow, Knows, Holding, Attached, KnownReference
  <2> QED
    BY <1>1, <1>4, <2>1, <2>2, GoPreserves DEF Holding
<1> QED
  BY <1>2, <1>3, <1>4 DEF FindLink

LEMMA CreatePreferencePreserves ==
    ASSUME IInv, NEW x \in Requests, CreatePreference(x)
    PROVE  IInv'
<1>1. pc[x] = "unlinked" /\ UNCHANGED <<charge, connection, link, change, unseen, answer>>
  BY DEF CreatePreference
<1>2. CASE End(x)
  BY <1>1, <1>2, EndPreserves DEF End
<1>3. CASE Goto(x, "created") /\ job' = [job EXCEPT ![x].pref = x]
  <2> DEFINE j == [job[x] EXCEPT !.pref = x]
  <2>1. /\ j \in Job
        /\ j.pref = x
        /\ j.via = job[x].via
        /\ j.charge = job[x].charge
        /\ j.row = job[x].row
        /\ job' = [job EXCEPT ![x] = j]
    BY <1>3 DEF IInv, TypeOK, Job
  <2> HIDE DEF j
  <2>2. job'[x] = j /\ pc'[x] = "created"
    BY <1>3, <2>1 DEF Goto, IInv, TypeOK
  <2>3. Knows(x)'
    BY <1>1, <2>1, <2>2 DEF IInv, AllKnow, Knows, Holding, Attached, KnownReference
  <2> QED
    BY <1>1, <1>3, <2>1, <2>3, GoPreserves DEF Holding
<1> QED
  BY <1>2, <1>3 DEF CreatePreference

\* The unique index: a link that is there stays.
LEMMA CreateLinkPreserves ==
    ASSUME IInv, NEW x \in Requests, CreateLink(x)
    PROVE  IInv'
<1> DEFINE k == job[x].via
           c == job[x].charge
           new == [due |-> job[x].row.due, pref |-> x]
<1>1. /\ pc[x] = "created"
      /\ UNCHANGED <<charge, connection, job, change, unseen, answer>>
      /\ Knows(x)
      /\ k \in Connections
      /\ c \in Charges
      /\ job[x] \in Job
  BY DEF CreateLink, IInv, TypeOK, AllKnow, Knows, Holding
<1>2. CASE LinkOf(x) = NoLink /\ link' = [link EXCEPT ![k][c] = new] /\ Goto(x, "linked")
  <2>1. new \in Link /\ new # NoLink /\ new.pref = x
    BY <1>1, NoneIsNothing DEF Link, Job, Charge, NoLink
  <2>2. /\ link'[k][c] = new
        /\ \A h \in Connections, d \in Charges : (h = k /\ d = c) \/ link'[h][d] = link[h][d]
        /\ link' \in [Connections -> [Charges -> Link]]
    <3> HIDE DEF new, k, c
    <3> QED
      BY <1>1, <1>2, <2>1 DEF IInv, TypeOK
  <2>3. link[k][c] = NoLink
    BY <1>2 DEF LinkOf
  <2>4. /\ TypeOK'
        /\ pc'[x] = "linked"
        /\ \A y \in Requests \ {x} : pc'[y] = pc[y]
    BY <1>1, <1>2, <2>2 DEF Goto, IInv, TypeOK
  <2>5. LinksStay
    <3> HIDE DEF new, k, c
    <3> QED
      BY <2>2, <2>3 DEF LinksStay
  <2>6. AttachedStay
    BY <1>1 DEF AttachedStay, Attached
  <2>7. LinksName'
    <3> HIDE DEF new, k, c
    <3> QED
      BY <2>1, <2>2 DEF IInv, LinksName
  <2>8. ReferenceIsStored'
    <3>1. ASSUME NEW d \in Charges, charge[d].ref \in Requests
          PROVE  \E h \in Connections : link'[h][d].pref = charge[d].ref
      <4>1. PICK h \in Connections : link[h][d].pref = charge[d].ref
        BY <3>1 DEF IInv, ReferenceIsStored
      <4>2. link[h][d] # NoLink
        BY <3>1, <4>1, NoneIsNothing DEF NoLink
      <4> QED
        BY <2>5, <4>1, <4>2 DEF LinksStay
    <3> QED
      BY <1>1, <3>1 DEF ReferenceIsStored
  <2>9. LinkOf(x)' = new
    <3>1. job'[x] = job[x]
      BY <1>1
    <3> QED
      BY <3>1, <2>2 DEF LinkOf
  <2>10. Knows(x)'
    BY <1>1, <2>1, <2>4, <2>9 DEF Knows, Holding, Attached, KnownReference
  <2> QED
    BY <1>1, <2>4, <2>5, <2>6, <2>7, <2>8, <2>10, StepPreserves
<1>3. CASE LinkOf(x) # NoLink /\ Goto(x, "beaten") /\ UNCHANGED link
  <2>1. job' = [job EXCEPT ![x] = job[x]] /\ pc'[x] = "beaten"
    BY <1>1, <1>3 DEF IInv, TypeOK, Goto
  <2>2. LinkOf(x)' = LinkOf(x)
    BY <1>1, <1>3 DEF LinkOf
  <2>3. Knows(x)'
    BY <1>1, <1>3, <2>1, <2>2 DEF Knows, Holding, Attached, KnownReference
  <2> QED
    BY <1>1, <1>3, <2>1, <2>3, GoPreserves DEF Holding
<1> QED
  BY <1>2, <1>3 DEF CreateLink

\* Either the charge referred to the preference when it was read, and some
\* reference of ours has stood since, or the update attaches it.
LEMMA SyncChargeExternalReferencePreserves ==
    ASSUME IInv, NEW x \in Requests, SyncChargeExternalReference(x)
    PROVE  IInv'
<1> DEFINE c == job[x].charge
           pref == job[x].pref
<1>1. /\ pc[x] = "linked"
      /\ UNCHANGED <<connection, link, job, change, unseen>>
      /\ answer' = [answer EXCEPT ![x] = pref]
      /\ Goto(x, "answered")
      /\ Knows(x)
      /\ c \in Charges
      /\ pref \in Requests
      /\ job[x].via \in Connections
      /\ link[job[x].via][c].pref = pref
      /\ charge[c] \in Charge
  BY DEF SyncChargeExternalReference, IInv, TypeOK, AllKnow, Knows, Holding, LinkOf
<1>2. /\ charge' \in [Charges -> Charge]
      /\ Attached(c)'
      /\ \A d \in Charges \ {c} : charge'[d] = charge[d]
      /\ charge'[c].ref \in {charge[c].ref, pref}
  <2>1. CASE KnownReference(x) = pref
    <3>1. charge' = charge /\ Attached(c)
      BY <1>1, <2>1 DEF SyncChargeExternalReference, Knows, Holding
    <3>2. Attached(c)'
      BY <1>1, <3>1 DEF Attached
    <3> QED
      BY <3>1, <3>2 DEF IInv, TypeOK
  <2>2. CASE KnownReference(x) # pref
    <3>1. charge' = [charge EXCEPT ![c].provider = "MERCADO_PAGO", ![c].ref = pref]
      BY <2>2 DEF SyncChargeExternalReference
    <3> HIDE DEF pref
    <3>2. /\ charge'[c].provider = "MERCADO_PAGO"
          /\ charge'[c].ref = pref
          /\ \A d \in Charges \ {c} : charge'[d] = charge[d]
          /\ charge' \in [Charges -> Charge]
      BY <1>1, <3>1 DEF IInv, TypeOK, Charge, Providers, References
    <3>3. Attached(c)'
      <4>1. c' = c
        BY <1>1
      <4> QED
        BY <1>1, <3>2, <4>1 DEF Attached
    <3> QED
      BY <3>2, <3>3
  <2> QED
    BY <2>1, <2>2
<1>3. /\ TypeOK'
      /\ pc'[x] = "answered"
      /\ answer'[x] = pref
      /\ \A y \in Requests \ {x} : pc'[y] = pc[y] /\ answer'[y] = answer[y]
  BY <1>1, <1>2 DEF Goto, IInv, TypeOK
<1>4. LinksStay /\ LinksName'
  BY <1>1 DEF IInv, LinksStay, LinksName
<1>5. AttachedStay
  <2> SUFFICES ASSUME NEW d \in Charges, Attached(d) PROVE Attached(d)'
    BY DEF AttachedStay
  <2>1. CASE d = c
    <3>1. c' = c
      BY <1>1
    <3> QED
      BY <1>2, <2>1, <3>1 DEF Attached
  <2>2. CASE d # c
    BY <1>2, <2>2 DEF Attached
  <2> QED
    BY <2>1, <2>2
<1>6. ReferenceIsStored'
  BY <1>1, <1>2 DEF IInv, ReferenceIsStored
<1>7. Knows(x)'
  <2>1. LinkOf(x)' = LinkOf(x) /\ KnownReference(x)' = KnownReference(x) /\ job'[x] = job[x]
    BY <1>1 DEF LinkOf, KnownReference
  <2>2. Attached(job[x].charge)'
    BY <1>2
  <2> QED
    BY <1>1, <1>3, <2>1, <2>2 DEF Knows, Holding, Attached
<1> QED
  BY <1>1, <1>3, <1>4, <1>5, <1>6, <1>7, StepPreserves

LEMMA AbandonPreserves ==
    ASSUME IInv, NEW x \in Requests \cup Admins, Abandon(x)
    PROVE  IInv'
<1>1. CASE x \in Requests
  BY <1>1, EndPreserves DEF Abandon
<1>2. CASE x \in Admins
  <2>1. x \notin Requests
    BY <1>2, CallsHaveDistinctNames
  <2>2. TypeOK'
    BY <1>2, <2>1, NothingTyped DEF Abandon, Goto, IInv, TypeOK
  <2>3. \A y \in Requests : pc'[y] = pc[y]
    BY <2>1 DEF Abandon, Goto, IInv, TypeOK
  <2> QED
    BY <2>1, <2>2, <2>3, OutsidePreserves DEF Abandon
<1> QED
  BY <1>1, <1>2

-----------------------------------------------------------------------------
(***************************************************************************)
(* Connection calls know the connection they are about.                    *)
(***************************************************************************)
AdminsKnow == \A a \in Admins :
    pc[a] \in {"activating", "writing"} => change[a].of \in Connections

\* Requests leave the calls alone.
LEMMA RequestSteps ==
    ASSUME TypeOK, NEW x \in Requests, Progress(x) \/ \E c \in Charges : ReadCharge(x, c)
    PROVE  UNCHANGED <<connection, change, unseen>> /\ \A a \in Admins : pc'[a] = pc[a]
<1>1. \A point : Goto(x, point) => \A a \in Admins : pc'[a] = pc[a]
  BY CallsHaveDistinctNames DEF Goto, TypeOK
<1> QED
  BY <1>1 DEF Progress, ReadCharge, PickConnection, FindLink, ReuseLink, CreatePreference,
     CreateLink, ReuseConcurrentLink, SyncChargeExternalReference, End

\* What a call that dies leaves of the others.
LEMMA AbandonStep ==
    ASSUME TypeOK, NEW x \in Requests \cup Admins, Abandon(x)
    PROVE  /\ UNCHANGED connection
           /\ \A a \in Admins : \/ pc'[a] = pc[a] /\ change'[a] = change[a]
                                   /\ unseen'[a] = unseen[a]
                                \/ pc'[a] = "done"
<1>1. CASE x \in Requests
  BY <1>1, CallsHaveDistinctNames DEF Abandon, Goto, TypeOK
<1>2. CASE x \in Admins
  BY <1>2, CallsHaveDistinctNames DEF Abandon, Goto, TypeOK
<1> QED
  BY <1>1, <1>2

LEMMA AdminsStep ==
    ASSUME TypeOK, AdminsKnow, [Next]_vars
    PROVE  AdminsKnow'
<1>1. CASE UNCHANGED <<pc, change, unseen>>
  BY <1>1 DEF AdminsKnow
<1>2. ASSUME NEW x \in Requests, Progress(x) \/ \E c \in Charges : ReadCharge(x, c)
      PROVE  AdminsKnow'
  BY <1>2, RequestSteps DEF AdminsKnow
<1>3. ASSUME NEW x \in Requests \cup Admins, Abandon(x)
      PROVE  AdminsKnow'
  BY <1>3, AbandonStep DEF AdminsKnow
<1>4. ASSUME NEW a \in Admins, CountActive(a) \/ WriteConnection(a)
      PROVE  AdminsKnow'
  BY <1>4 DEF CountActive, WriteConnection, Goto, TypeOK, AdminsKnow
<1>5. ASSUME NEW a \in Admins, NEW ch \in Changes, ReadConnection(a, ch)
      PROVE  AdminsKnow'
  BY <1>5 DEF ReadConnection, Goto, Changes, TypeOK, AdminsKnow
<1> QED
  BY <1>1, <1>2, <1>3, <1>4, <1>5 DEF Next, vars, Pay

LEMMA InvNext == IInv /\ AdminsKnow /\ [Next]_vars => IInv' /\ AdminsKnow'
<1> SUFFICES ASSUME IInv, AdminsKnow, [Next]_vars PROVE IInv'
  BY AdminsStep DEF IInv
<1>1. ASSUME NEW c \in Charges, Pay(c) PROVE IInv'
  BY <1>1, PayPreserves
<1>2. ASSUME NEW x \in Requests, NEW c \in Charges, ReadCharge(x, c) PROVE IInv'
  BY <1>2, ReadChargePreserves
<1>3. ASSUME NEW x \in Requests, Progress(x) PROVE IInv'
  <2>1. ReuseConcurrentLink(x) => IInv'
    BY ReuseLinkPreserves DEF ReuseConcurrentLink, IInv, AllKnow, Knows
  <2> QED
    BY <1>3, <2>1, PickConnectionPreserves, FindLinkPreserves, CreatePreferencePreserves,
       CreateLinkPreserves, SyncChargeExternalReferencePreserves DEF Progress
<1>4. ASSUME NEW a \in Admins, CountActive(a) PROVE IInv'
  BY <1>4, CountActivePreserves
<1>5. ASSUME NEW a \in Admins, WriteConnection(a) PROVE IInv'
  BY <1>5, WriteConnectionPreserves DEF AdminsKnow, WriteConnection
<1>6. ASSUME NEW a \in Admins, NEW ch \in Changes, ReadConnection(a, ch) PROVE IInv'
  BY <1>6, ReadConnectionPreserves
<1>7. ASSUME NEW x \in Requests \cup Admins, Abandon(x) PROVE IInv'
  BY <1>7, AbandonPreserves
<1>8. CASE UNCHANGED vars
  <2>1. TypeOK'
    BY <1>8 DEF vars, IInv, TypeOK
  <2> QED
    BY <1>8, <2>1, OutsidePreserves DEF vars
<1> QED
  BY <1>1, <1>2, <1>3, <1>4, <1>5, <1>6, <1>7, <1>8 DEF Next

LEMMA Invariant == Spec => [](IInv /\ AdminsKnow)
<1>1. Init => IInv /\ AdminsKnow
  BY InvInit DEF Init, AdminsKnow
<1>2. (IInv /\ AdminsKnow) /\ [Next]_vars => (IInv /\ AdminsKnow)'
  BY InvNext
<1> QED
  BY <1>1, <1>2, PTL DEF Spec

-----------------------------------------------------------------------------
(***************************************************************************)
(* Connection calls that overlap.                                          *)
(***************************************************************************)
\* What a call that is about to activate its connection has counted, and what has
\* become active since, make up all there is.
Seen(a) == Active \subseteq {change[a].of} \cup unseen[a]

AllSeen == \A a \in Admins : Activating(a) => Seen(a)

\* Of steps that write no connection.
LEMMA SeenQuiet ==
    ASSUME AllSeen, UNCHANGED connection,
           \A a \in Admins :
               \/ pc'[a] = pc[a] /\ change'[a] = change[a] /\ unseen'[a] = unseen[a]
               \/ pc'[a] # "writing"
    PROVE  AllSeen' /\ Active' = Active
<1>1. Active' = Active
  BY DEF Active
<1> QED
  BY <1>1 DEF AllSeen, Activating, Seen

LEMMA SeenRead ==
    ASSUME TypeOK, AllSeen, NEW a \in Admins, NEW ch \in Changes, ReadConnection(a, ch)
    PROVE  AllSeen' /\ Active' = Active
<1>1. /\ \A b \in Admins \ {a} : pc'[b] = pc[b] /\ change'[b] = change[b]
      /\ change'[a] = ch
      /\ pc'[a] = IF Result(ch.of, ch).status = "ACTIVE" THEN "activating" ELSE "writing"
      /\ UNCHANGED <<connection, unseen>>
  BY DEF ReadConnection, Goto, TypeOK
<1>2. Active' = Active
  BY <1>1 DEF Active
<1>3. ~Activating(a)'
  BY <1>1 DEF Activating, Result
<1> QED
  BY <1>1, <1>2, <1>3 DEF AllSeen, Activating, Seen

LEMMA SeenCount ==
    ASSUME TypeOK, AllSeen, NEW a \in Admins, CountActive(a)
    PROVE  AllSeen' /\ Active' = Active
<1>1. /\ UNCHANGED <<connection, unseen>>
      /\ \A b \in Admins \ {a} : pc'[b] = pc[b] /\ change'[b] = change[b]
      /\ \/ pc'[a] = "done"
         \/ /\ change'[a] = change[a]
            /\ Active \subseteq {change[a].of}
  BY DEF CountActive, HasAnotherActive, Goto, TypeOK
<1>2. Active' = Active
  BY <1>1 DEF Active
<1>3. Activating(a)' => Seen(a)'
  BY <1>1, <1>2 DEF Activating, Seen
<1> QED
  BY <1>1, <1>2, <1>3 DEF AllSeen, Activating, Seen

\* The write tells the calls that have counted, and activates at most its own.
LEMMA SeenWrite ==
    ASSUME TypeOK, AdminsKnow, AllSeen, NEW a \in Admins, WriteConnection(a)
    PROVE  /\ AllSeen'
           /\ pc[a] = "writing" /\ pc'[a] = "done"
           /\ Active' \subseteq Active \/ JoinsOnlyUnseen(a)
<1>1. PICK k \in Connections : k = change[a].of
  BY DEF WriteConnection, AdminsKnow
<1>2. /\ pc[a] = "writing"
      /\ pc'[a] = "done"
      /\ \A b \in Admins \ {a} : pc'[b] = pc[b] /\ change'[b] = change[b]
      /\ connection'[k] = Result(k, change[a])
      /\ \A j \in Connections \ {k} : connection'[j] = connection[j]
      /\ \A b \in Admins \ {a} :
             Activating(b) => unseen'[b] = unseen[b] \cup (Active' \ Active)
  BY <1>1 DEF WriteConnection, MissedByOthers, Goto, TypeOK
<1>3. AllSeen'
  <2> SUFFICES ASSUME NEW b \in Admins, Activating(b)' PROVE Seen(b)'
    BY DEF AllSeen
  <2>1. b # a /\ Activating(b)
    BY <1>2 DEF Activating
  <2> QED
    BY <1>2, <2>1 DEF AllSeen, Seen
<1>4. Active' \subseteq Active \/ JoinsOnlyUnseen(a)
  <2>1. Active' \ Active \subseteq {k}
    BY <1>2 DEF Active
  <2>2. Active' \ Active # {} => Activating(a)
    BY <1>1, <1>2 DEF Active, Result, Activating
  <2>3. Activating(a) => Seen(a)
    BY DEF AllSeen
  <2> QED
    BY <1>1, <2>1, <2>2, <2>3 DEF JoinsOnlyUnseen, Seen
<1> QED
  BY <1>2, <1>3, <1>4

LEMMA SeenNext ==
    ASSUME TypeOK, AdminsKnow, AllSeen, [Next]_vars
    PROVE  /\ AllSeen'
           /\ \/ Active' \subseteq Active
              \/ \E a \in Admins : pc[a] = "writing" /\ pc'[a] = "done" /\ JoinsOnlyUnseen(a)
<1>1. CASE UNCHANGED <<connection, pc, change, unseen>>
  BY <1>1, SeenQuiet
<1>2. ASSUME NEW x \in Requests, Progress(x) \/ \E c \in Charges : ReadCharge(x, c)
      PROVE  AllSeen' /\ Active' = Active
  BY <1>2, RequestSteps, SeenQuiet
<1>3. ASSUME NEW x \in Requests \cup Admins, Abandon(x)
      PROVE  AllSeen' /\ Active' = Active
  BY <1>3, AbandonStep, SeenQuiet
<1>4. ASSUME NEW a \in Admins, CountActive(a)
      PROVE  AllSeen' /\ Active' = Active
  BY <1>4, SeenCount
<1>5. ASSUME NEW a \in Admins, WriteConnection(a)
      PROVE  /\ AllSeen'
             /\ \/ Active' \subseteq Active
                \/ pc[a] = "writing" /\ pc'[a] = "done" /\ JoinsOnlyUnseen(a)
  BY <1>5, SeenWrite
<1>6. ASSUME NEW a \in Admins, NEW ch \in Changes, ReadConnection(a, ch)
      PROVE  AllSeen' /\ Active' = Active
  BY <1>6, SeenRead
<1> QED
  BY <1>1, <1>2, <1>3, <1>4, <1>5, <1>6 DEF Next, vars, Pay

-----------------------------------------------------------------------------
(***************************************************************************)
(* The links are write-once registers.                                     *)
(***************************************************************************)
Mapped == <<Chosen, Refers, Handed>>

\* A request stores its preference and goes on: it will store no other.
StoredOnce == \A k \in Connections, c \in Charges, x \in Requests :
    link[k][c].pref = x => pc[x] \in {"linked", "answered", "done"}

Stores(x) == CreateLink(x) /\ LinkOf(x) = NoLink

\* Steps that neither store a link nor answer.
LEMMA OthersKeepRegisters ==
    ASSUME IInv, StoredOnce, UNCHANGED <<link, answer>>,
           \A c \in Charges : /\ charge'[c].provider = charge[c].provider
                              /\ charge'[c].ref = charge[c].ref,
           \A x \in Requests :
               /\ pc[x] = "answered" => job'[x] = job[x]
               /\ pc[x] \in {"linked", "answered", "done"} =>
                     pc'[x] \in {"linked", "answered", "done"}
    PROVE  Mapped' = Mapped /\ StoredOnce'
<1>1. Chosen' = Chosen
  BY DEF Chosen
<1>2. Refers' = Refers
  BY DEF Refers, Attached
<1>3. Handed' = Handed
  <2>1. \A x \in Requests : answer[x] # None => job'[x] = job[x]
    BY DEF IInv, AllKnow, Knows
  <2> QED
    BY <2>1 DEF Handed
<1>4. StoredOnce'
  BY DEF StoredOnce
<1> QED
  BY <1>1, <1>2, <1>3, <1>4 DEF Mapped

LEMMA ProgressKeepsRegisters ==
    ASSUME IInv, StoredOnce, NEW x \in Requests,
           Progress(x) \/ \E c \in Charges : ReadCharge(x, c),
           ~Stores(x), ~SyncChargeExternalReference(x)
    PROVE  Mapped' = Mapped /\ StoredOnce'
<1>1. /\ pc[x] \in {"idle", "eligible", "connected", "unlinked", "created", "beaten"}
      /\ UNCHANGED <<charge, link, answer>>
  BY DEF Progress, ReadCharge, PickConnection, FindLink, CreatePreference, CreateLink,
     Stores, ReuseConcurrentLink
<1>2. \E point : Goto(x, point)
  BY DEF Progress, ReadCharge, PickConnection, FindLink, CreatePreference, CreateLink,
     ReuseConcurrentLink, ReuseLink, End
<1>3. \A y \in Requests \ {x} : job'[y] = job[y]
  BY DEF IInv, TypeOK, Progress, ReadCharge, PickConnection, FindLink, CreatePreference,
     CreateLink, ReuseConcurrentLink, ReuseLink, End
<1>4. \A y \in Requests \ {x} : pc'[y] = pc[y]
  BY <1>2 DEF Goto, IInv, TypeOK
<1> QED
  BY <1>1, <1>3, <1>4, OthersKeepRegisters

LEMMA StoreMaps ==
    ASSUME IInv, StoredOnce, NEW x \in Requests, Stores(x)
    PROVE  /\ Register!Choose(job[x].via, job[x].charge, x)
           /\ job[x].via \in Connections /\ job[x].charge \in Charges
           /\ StoredOnce'
<1>1. PICK k \in Connections, c \in Charges : k = job[x].via /\ c = job[x].charge
  BY DEF Stores, CreateLink, IInv, AllKnow, Knows, Holding
<1>2. /\ pc[x] = "created"
      /\ pc'[x] = "linked"
      /\ \A y \in Requests \ {x} : pc'[y] = pc[y]
      /\ UNCHANGED <<charge, job, answer>>
      /\ link[k][c] = NoLink
  BY <1>1 DEF Stores, CreateLink, Goto, LinkOf, IInv, TypeOK
<1>3. PICK due : link' = [link EXCEPT ![k][c] = [due |-> due, pref |-> x]]
  BY <1>1 DEF Stores, CreateLink
<1>4. \A h \in Connections, d \in Charges :
          link'[h][d].pref = IF h = k /\ d = c THEN x ELSE link[h][d].pref
  BY <1>3 DEF IInv, TypeOK
<1>5. Chosen[k][c] = None /\ \A h \in Connections, d \in Charges : Chosen[h][d] # x
  BY <1>2 DEF Chosen, NoLink, StoredOnce
<1>6. Chosen' = [Chosen EXCEPT ![k] = [Chosen[k] EXCEPT ![c] = x]]
  <2>1. \A h \in Connections, d \in Charges :
            Chosen'[h][d] = IF h = k /\ d = c THEN x ELSE Chosen[h][d]
    BY <1>4 DEF Chosen
  <2>2. \A h \in Connections \ {k} : Chosen'[h] = Chosen[h]
    BY <1>4 DEF Chosen
  <2>3. Chosen'[k] = [Chosen[k] EXCEPT ![c] = x]
    BY <2>1 DEF Chosen
  <2> QED
    BY <2>2, <2>3 DEF Chosen
<1>7. UNCHANGED <<Refers, Handed>>
  BY <1>2 DEF Refers, Attached, Handed
<1>8. StoredOnce'
  BY <1>2, <1>4 DEF StoredOnce
<1> QED
  BY <1>1, <1>5, <1>6, <1>7, <1>8 DEF Register!Choose

LEMMA AnswerMaps ==
    ASSUME IInv, StoredOnce, NEW x \in Requests, SyncChargeExternalReference(x)
    PROVE  /\ Register!HandOut(job[x].via, job[x].charge, x)
           /\ job[x].via \in Connections /\ job[x].charge \in Charges
           /\ StoredOnce'
<1>1. PICK k \in Connections, c \in Charges : k = job[x].via /\ c = job[x].charge
  BY DEF SyncChargeExternalReference, IInv, AllKnow, Knows, Holding
<1>2. PICK p \in Requests : p = job[x].pref /\ link[k][c].pref = p
  BY <1>1 DEF SyncChargeExternalReference, IInv, AllKnow, Knows, Holding, LinkOf
<1>3. /\ pc[x] = "linked"
      /\ pc'[x] = "answered"
      /\ \A y \in Requests \ {x} : pc'[y] = pc[y]
      /\ UNCHANGED <<link, job>>
      /\ answer[x] = None
      /\ answer'[x] = p
      /\ \A y \in Requests \ {x} : answer'[y] = answer[y]
  BY <1>2 DEF SyncChargeExternalReference, Goto, IInv, TypeOK, AllKnow, Knows
<1>4. Chosen' = Chosen /\ Chosen[k][c] = p
  BY <1>2, <1>3 DEF Chosen
<1>5. /\ Handed[x] = None
      /\ Handed' = [Handed EXCEPT ![x] = [pref |-> p, via |-> k, charge |-> c]]
  BY <1>1, <1>3, NoneIsNothing DEF Handed
<1>6. \E q \in {p, Refers[c]} \ {None} : Refers' = [Refers EXCEPT ![c] = q]
  <2>1. CASE KnownReference(x) = p
    <3>1. charge' = charge /\ Attached(c)
      BY <1>1, <1>2, <1>3, <2>1
      DEF SyncChargeExternalReference, IInv, AllKnow, Knows, Holding
    <3>2. Refers' = Refers /\ Refers[c] # None
      BY <3>1, NoneIsNothing DEF Refers, Attached
    <3>3. Refers = [Refers EXCEPT ![c] = Refers[c]]
      BY DEF Refers
    <3> QED
      BY <3>2, <3>3
  <2>2. CASE KnownReference(x) # p
    <3>1. charge' = [charge EXCEPT ![c].provider = "MERCADO_PAGO", ![c].ref = p]
      BY <1>1, <1>2, <2>2 DEF SyncChargeExternalReference
    <3>2. /\ charge'[c].provider = "MERCADO_PAGO"
          /\ charge'[c].ref = p
          /\ \A d \in Charges \ {c} : charge'[d] = charge[d]
      BY <3>1 DEF IInv, TypeOK, Charge
    <3>3. Refers' = [Refers EXCEPT ![c] = p]
      BY <3>2 DEF Refers, Attached
    <3> QED
      BY <3>3, NoneIsNothing
  <2> QED
    BY <2>1, <2>2
<1>7. StoredOnce'
  BY <1>3 DEF StoredOnce
<1>8. Register!HandOut(k, c, x)
  BY <1>4, <1>5, <1>6, NoneIsNothing DEF Register!HandOut
<1> QED
  BY <1>1, <1>7, <1>8

LEMMA AbandonKeepsRegisters ==
    ASSUME IInv, StoredOnce, NEW x \in Requests \cup Admins, Abandon(x)
    PROVE  Mapped' = Mapped /\ StoredOnce'
<1>1. \A y \in Requests : \/ pc'[y] = pc[y] /\ job'[y] = job[y]
                          \/ pc[y] # "answered" /\ pc'[y] = "done"
  BY CallsHaveDistinctNames DEF Abandon, Goto, IInv, TypeOK
<1>2. UNCHANGED <<charge, link, answer>>
  BY DEF Abandon
<1> QED
  BY <1>1, <1>2, OthersKeepRegisters

LEMMA AdminsKeepRegisters ==
    ASSUME IInv, StoredOnce, NEW a \in Admins,
           CountActive(a) \/ WriteConnection(a) \/ \E ch \in Changes : ReadConnection(a, ch)
    PROVE  Mapped' = Mapped /\ StoredOnce'
<1>1. \A y \in Requests : pc'[y] = pc[y]
  BY CallsHaveDistinctNames
  DEF CountActive, WriteConnection, ReadConnection, Goto, IInv, TypeOK
<1>2. UNCHANGED <<charge, link, job, answer>>
  BY DEF CountActive, WriteConnection, ReadConnection
<1> QED
  BY <1>1, <1>2, OthersKeepRegisters

\* Every step is a step of the registers, or none of their business.
LEMMA StepMaps ==
    ASSUME IInv, StoredOnce, [Next]_vars
    PROVE  [Register!RegisterNext]_(Register!registerVars) /\ StoredOnce'
<1> USE DEF Register!registerVars
<1>1. ASSUME NEW x \in Requests, Stores(x)
      PROVE  Register!RegisterNext /\ StoredOnce'
  BY <1>1, StoreMaps DEF Register!RegisterNext
<1>2. ASSUME NEW x \in Requests, SyncChargeExternalReference(x)
      PROVE  Register!RegisterNext /\ StoredOnce'
  BY <1>2, AnswerMaps DEF Register!RegisterNext
<1>3. ASSUME NEW x \in Requests,
             Progress(x) \/ \E c \in Charges : ReadCharge(x, c)
      PROVE  \/ Stores(x) \/ SyncChargeExternalReference(x)
             \/ Mapped' = Mapped /\ StoredOnce'
  BY <1>3, ProgressKeepsRegisters
<1>4. ASSUME NEW x \in Requests \cup Admins, Abandon(x)
      PROVE  Mapped' = Mapped /\ StoredOnce'
  BY <1>4, AbandonKeepsRegisters
<1>5. ASSUME NEW a \in Admins,
             CountActive(a) \/ WriteConnection(a) \/ \E ch \in Changes : ReadConnection(a, ch)
      PROVE  Mapped' = Mapped /\ StoredOnce'
  BY <1>5, AdminsKeepRegisters
<1>6. ASSUME NEW c \in Charges, Pay(c)
      PROVE  Mapped' = Mapped /\ StoredOnce'
  <2>1. /\ UNCHANGED <<link, answer, job, pc>>
        /\ \A d \in Charges : /\ charge'[d].provider = charge[d].provider
                              /\ charge'[d].ref = charge[d].ref
    BY <1>6 DEF Pay, IInv, TypeOK, Charge
  <2> QED
    BY <2>1, OthersKeepRegisters
<1>7. ASSUME UNCHANGED vars
      PROVE  Mapped' = Mapped /\ StoredOnce'
  <2>1. UNCHANGED <<charge, link, answer, job, pc>>
    BY <1>7 DEF vars
  <2> QED
    BY <2>1, OthersKeepRegisters
<1> QED
  BY <1>1, <1>2, <1>3, <1>4, <1>5, <1>6, <1>7 DEF Next, Mapped

-----------------------------------------------------------------------------
(***************************************************************************)
(* The theorems.                                                           *)
(***************************************************************************)
\* Charges, links and what the calls hold stay well typed whatever overlaps.
THEOREM TypeCorrect == Spec => []TypeOK
BY Invariant, PTL DEF IInv

\* Every request that hands out a preference hands out the stored one.
THEOREM Converge == Spec => []AnswersConverge
<1>1. IInv => AnswersConverge
  BY DEF IInv, AllKnow, Knows, AnswersConverge
<1> QED
  BY <1>1, Invariant, PTL

\* A charge refers to a preference of ours only when its link is stored,
\* wherever a request dies.
THEOREM Stored == Spec => []ReferenceIsStored
BY Invariant, PTL DEF IInv

\* Who pays through a preference that was handed out pays a charge that is
\* attached and refers to a stored link: to this one, if no other connection was
\* used for the charge.
THEOREM Observable == Spec => []AnswerIsObservable
<1>1. IInv => AnswerIsObservable
  <2> SUFFICES ASSUME IInv, NEW x \in Requests, answer[x] # None
               PROVE  LET c == job[x].charge
                          linked == {k \in Connections : link[k][c] # NoLink}
                      IN  /\ charge[c].provider = "MERCADO_PAGO"
                          /\ \E k \in linked : link[k][c].pref = charge[c].ref
                          /\ linked = {job[x].via} => charge[c].ref = answer[x]
    BY DEF AnswerIsObservable
  <2> DEFINE c == job[x].charge
             linked == {k \in Connections : link[k][c] # NoLink}
  <2>1. /\ c \in Charges
        /\ Attached(c)
        /\ link[job[x].via][c].pref = answer[x]
    BY DEF IInv, AllKnow, Knows, Holding, LinkOf
  <2>2. PICK k \in Connections : link[k][c].pref = charge[c].ref
    BY <2>1 DEF IInv, ReferenceIsStored, Attached
  <2>3. k \in linked
    BY <2>1, <2>2, NoneIsNothing DEF Attached, NoLink
  <2> HIDE DEF c, linked
  <2>4. linked = {job[x].via} => charge[c].ref = answer[x]
    BY <2>1, <2>2, <2>3
  <2> QED
    BY <2>1, <2>2, <2>3, <2>4 DEF Attached, c, linked
<1> QED
  BY <1>1, Invariant, PTL

\* However connection calls overlap, an activation joins only connections that
\* became active after its call had counted.
THEOREM OnlyLaterMissed == Spec => ActivationMissesOnlyLaterOnes
<1>1. Init => AllSeen
  BY DEF Init, AllSeen, Activating
<1>2. IInv /\ AdminsKnow /\ AllSeen /\ [Next]_vars => AllSeen'
  BY SeenNext DEF IInv
<1>3. Spec => []AllSeen
  BY <1>1, <1>2, Invariant, PTL DEF Spec
<1>4. IInv /\ AdminsKnow /\ AllSeen /\ [Next]_vars
      => [Active' \subseteq Active \/
             \E a \in Admins : pc[a] = "writing" /\ pc'[a] = "done" /\ JoinsOnlyUnseen(a)]_vars
  BY SeenNext DEF IInv
<1> QED
  BY <1>3, <1>4, Invariant, PTL DEF Spec, ActivationMissesOnlyLaterOnes

\* Checkout implements write-once registers, however many requests and connection
\* calls race, and wherever they die.
THEOREM Registers == Spec => ImplementsRegister
<1>1. Init => Register!RegisterInit /\ StoredOnce
  BY NoneIsNothing
  DEF Init, Register!RegisterInit, Chosen, Refers, Handed, Attached, NoLink, StoredOnce
<1>2. Spec => []StoredOnce
  <2>1. IInv /\ StoredOnce /\ [Next]_vars => StoredOnce'
    BY StepMaps
  <2> QED
    BY <1>1, <2>1, Invariant, PTL DEF Spec
<1>3. IInv /\ StoredOnce /\ [Next]_vars => [Register!RegisterNext]_(Register!registerVars)
  BY StepMaps
<1> QED
  BY <1>1, <1>2, <1>3, Invariant, PTL DEF Spec, ImplementsRegister, Register!RegisterSpec
=============================================================================
