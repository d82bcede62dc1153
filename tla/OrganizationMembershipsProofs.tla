-------------------- MODULE OrganizationMembershipsProofs --------------------
(***************************************************************************)
(* Proofs about OrganizationMemberships for every number of members,       *)
(* branches and concurrent calls.                                          *)
(***************************************************************************)
EXTENDS OrganizationMemberships, TLAPS

\* What a pending call asks for has passed the checks, and what it has deleted
\* belongs to what it replaces.
CallsAreAdmitted ==
    \A c \in Calls :
        pc[c] \in {"admitted", "deleted"} =>
            /\ call[c] \in Call
            /\ Assignable(call[c].asks.roles)
            /\ call[c].kind # "role" => ValidScope(call[c].asks)
            /\ call[c].kind \in Kinds => call[c].member \in Existing
            /\ pc[c] = "deleted" =>
                  /\ call[c].kind \in Kinds
                  /\ \A r \in call[c].found :
                        r.member = call[c].member /\ r.kind = call[c].kind

RowsHaveMembers == \A r \in rows : r.member \in Existing

\* Rows that a replacement has not deleted were inserted after its deletion.
LeftIsNew ==
    \A c \in Calls, r \in rows :
        /\ pc[c] = "deleted"
        /\ r.member = call[c].member
        /\ r.kind = call[c].kind
        /\ r \notin call[c].found
        => r.value \in meanwhile[c]

IInv == TypeOK /\ CallsAreAdmitted /\ RowsHaveMembers /\ LeftIsNew /\ GrantedAsAsked

-----------------------------------------------------------------------------
(***************************************************************************)
(* What the operators do.                                                  *)
(***************************************************************************)
LEMMA ExistingTyped ==
    ASSUME TypeOK, NEW m \in Existing
    PROVE  m \in Members /\ membership[m] \in Membership
BY DEF TypeOK, Existing

LEMMA MembershipsExist == NoMembership \notin Membership
BY DEF NoMembership, Membership

LEMMA RowsTyped ==
    ASSUME NEW by \in Calls \cup {Founding}, NEW m \in Members, NEW kind \in Kinds,
           NEW values \in SUBSET Grantable
    PROVE  Rows(by, m, kind, values) \subseteq Row
BY DEF Rows, Row

LEMMA RowsOf ==
    ASSUME NEW by, NEW m, NEW kind, NEW values, NEW r \in Rows(by, m, kind, values)
    PROVE  r.member = m /\ r.kind = kind /\ r.value \in values
BY DEF Rows

LEMMA ValuesOfRows ==
    ASSUME NEW by, NEW m, NEW kind, NEW values
    PROVE  Values(Rows(by, m, kind, values)) = values
<1>1. \A v \in values : v \in Values(Rows(by, m, kind, values))
  <2> TAKE v \in values
  <2> DEFINE r == [by |-> by, kind |-> kind, member |-> m, value |-> v]
  <2>1. r \in Rows(by, m, kind, values) /\ r.value = v
    BY DEF Rows
  <2> QED
    BY <2>1 DEF Values
<1>2. \A v \in Values(Rows(by, m, kind, values)) : v \in values
  BY RowsOf DEF Values
<1> QED
  BY <1>1, <1>2

LEMMA WantedTyped ==
    ASSUME NEW grant \in Grant, Assignable(grant.roles), NEW kind \in Kinds
    PROVE  Wanted(grant, kind) \in SUBSET Grantable
BY DEF Wanted, Assignable, Grant, Kinds, Grantable

\* What one membership holds of one kind, after rows of it were exchanged.
LEMMA HeldAfter ==
    ASSUME NEW m, NEW kind, NEW gone, NEW new,
           rows' = (rows \ gone) \cup new,
           \A r \in new : r.member = m /\ r.kind = kind
    PROVE  Held(m, kind)' = (Held(m, kind) \ gone) \cup new
BY DEF Held

-----------------------------------------------------------------------------
(***************************************************************************)
(* The inductive invariant.                                                *)
(***************************************************************************)
LEMMA InvInit == Init => IInv
<1> SUFFICES ASSUME Init PROVE IInv
  OBVIOUS
<1>1. PICK p \in Branches \cup {None} :
          LET grant == [NoGrant EXCEPT !.primary = p, !.roles = {"MESTRE"}]
          IN  /\ membership =
                    [m \in Members |->
                        IF m # Founder THEN NoMembership
                        ELSE [primary |-> p, scopeType |-> grant.scopeType,
                              status |-> "ACTIVE"]]
              /\ rows = Rows(Founding, Founder, "role", grant.roles)
              /\ granted = [m \in Members |-> IF m = Founder THEN grant ELSE NoGrant]
  BY DEF Init
<1> DEFINE grant == [NoGrant EXCEPT !.primary = p, !.roles = {"MESTRE"}]
<1>2. /\ grant \in Grant
      /\ NoGrant \in Grant
      /\ grant.primary = p
      /\ grant.roles = {"MESTRE"}
      /\ grant.branches = {}
      /\ grant.scopeType = "ORGANIZATION_WIDE"
  BY DEF Grant, NoGrant, Roles
<1>3. rows = Rows(Founding, Founder, "role", {"MESTRE"})
  BY <1>1, <1>2
<1>4. membership[Founder] = [primary |-> p, scopeType |-> "ORGANIZATION_WIDE",
                             status |-> "ACTIVE"]
  BY <1>1, <1>2, FounderIsMember
<1>5. membership[Founder] \in Membership
  BY <1>4 DEF Membership
<1>6. Existing = {Founder}
  BY <1>1, <1>5, FounderIsMember, MembershipsExist DEF Existing
<1>7. rows \subseteq Row
  BY <1>3, RowsTyped, FounderIsMember DEF Kinds, Roles, Grantable
<1>8. TypeOK
  <2>1. membership \in [Members -> Membership \cup {NoMembership}]
    BY <1>1, <1>4, <1>5
  <2>2. granted \in [Members -> Grant]
    BY <1>1, <1>2
  <2> QED
    BY <1>7, <2>1, <2>2 DEF TypeOK, Init, Grantable
<1>9. CallsAreAdmitted
  BY DEF Init, CallsAreAdmitted
<1>10. RowsHaveMembers /\ LeftIsNew
  BY <1>3, <1>6, RowsOf DEF RowsHaveMembers, LeftIsNew, Init
<1>11. GrantedAsAsked
  <2>1. Held(Founder, "role") = rows /\ Held(Founder, "scope") = {}
    BY <1>3, RowsOf DEF Held
  <2>2. Values(Held(Founder, "role")) = {"MESTRE"}
    BY <1>3, <2>1, ValuesOfRows
  <2>3. Values(Held(Founder, "scope")) = {}
    BY <2>1 DEF Values
  <2>4. granted[Founder] = grant
    BY <1>1, FounderIsMember
  <2>5. membership[Founder].primary = p
        /\ membership[Founder].scopeType = "ORGANIZATION_WIDE"
    BY <1>4
  <2> HIDE DEF grant
  <2> QED
    BY <1>2, <1>6, <2>2, <2>3, <2>4, <2>5 DEF GrantedAsAsked, Kinds, Wanted
<1> QED
  BY <1>8, <1>9, <1>10, <1>11 DEF IInv

\* Nobody leaves the organization: what is known of other calls stays known.
LEMMA CallsPreserved ==
    ASSUME CallsAreAdmitted, Existing \subseteq Existing', NEW c \in Calls,
           \A d \in Calls \ {c} : pc'[d] = pc[d] /\ call'[d] = call[d],
           pc'[c] \in {"admitted", "deleted"} =>
               /\ call'[c] \in Call
               /\ Assignable(call'[c].asks.roles)
               /\ call'[c].kind # "role" => ValidScope(call'[c].asks)
               /\ call'[c].kind \in Kinds => call'[c].member \in Existing'
               /\ pc'[c] = "deleted" =>
                     /\ call'[c].kind \in Kinds
                     /\ \A r \in call'[c].found :
                           r.member = call'[c].member /\ r.kind = call'[c].kind
    PROVE  CallsAreAdmitted'
BY DEF CallsAreAdmitted, Assignable, ValidScope

LEMMA EndTyped ==
    ASSUME TypeOK, NEW c \in Calls, End(c)
    PROVE  /\ pc' \in [Calls -> {"idle", "admitted", "deleted", "done"}]
           /\ call' \in [Calls -> Call \cup {NoCall}]
           /\ pc'[c] = "done"
           /\ \A d \in Calls \ {c} : pc'[d] = pc[d] /\ call'[d] = call[d]
BY DEF TypeOK, End, Goto

LEMMA AdmittedPreserves ==
    ASSUME IInv, NEW c \in Calls, NEW kind \in Kinds \cup {"invitation"}, NEW m \in Members,
           NEW grant \in Grant, Admitted(c, kind, m, grant), Assignable(grant.roles),
           kind # "role" => ValidScope(grant), kind \in Kinds => m \in Existing
    PROVE  IInv'
<1> DEFINE asked == [asks |-> grant, found |-> {}, kind |-> kind, member |-> m]
<1>1. asked \in Call
  BY DEF Call
<1>2. /\ pc' = [pc EXCEPT ![c] = "admitted"]
      /\ call' = [call EXCEPT ![c] = asked]
      /\ UNCHANGED <<membership, rows, granted, meanwhile, beside>>
  BY DEF Admitted, Goto
<1>3. TypeOK'
  BY <1>1, <1>2 DEF IInv, TypeOK
<1>4. pc'[c] = "admitted" /\ call'[c] = asked
  BY <1>2 DEF IInv, TypeOK
<1>5. \A d \in Calls \ {c} : pc'[d] = pc[d] /\ call'[d] = call[d]
  BY <1>2 DEF IInv, TypeOK
<1>6. Existing' = Existing
  BY <1>2 DEF Existing
<1>7. CallsAreAdmitted'
  BY <1>1, <1>4, <1>5, <1>6, CallsPreserved DEF IInv
<1>8. RowsHaveMembers' /\ GrantedAsAsked'
  BY <1>2, <1>6 DEF IInv, RowsHaveMembers, GrantedAsAsked, Held
<1>9. LeftIsNew'
  BY <1>2, <1>4, <1>5 DEF IInv, LeftIsNew
<1> QED
  BY <1>3, <1>7, <1>8, <1>9 DEF IInv

LEMMA AskInvitationPreserves ==
    ASSUME IInv, NEW c \in Calls, NEW m \in Members, NEW roles \in RoleRequests,
           NEW scope \in Scopes, AskInvitation(c, m, roles, scope)
    PROVE  IInv'
<1> DEFINE grant == [scope EXCEPT !.roles = roles]
<1>1. roles \in SUBSET Roles
  BY RolesAreNamed
<1>2. scope \in Grant /\ ValidScope(scope)
  BY DEF Scopes
<1>3. /\ grant \in Grant
      /\ grant.roles = roles
      /\ grant.branches = scope.branches
      /\ grant.primary = scope.primary
      /\ grant.scopeType = scope.scopeType
  BY <1>1, <1>2 DEF Grant
<1>4. ValidScope(grant)
  BY <1>2, <1>3 DEF ValidScope
<1>5. Assignable(grant.roles) /\ Admitted(c, "invitation", m, grant)
  BY <1>3 DEF AskInvitation
<1> HIDE DEF grant
<1> QED
  BY <1>3, <1>4, <1>5, AdmittedPreserves DEF Kinds

LEMMA AskRolesPreserves ==
    ASSUME IInv, NEW c \in Calls, NEW m \in Members, NEW roles \in RoleRequests,
           AskRoles(c, m, roles)
    PROVE  IInv'
<1> DEFINE grant == [NoGrant EXCEPT !.roles = roles]
<1>1. grant \in Grant /\ grant.roles = roles
  BY RolesAreNamed DEF Grant, NoGrant
<1>2. Assignable(grant.roles) /\ Admitted(c, "role", m, grant) /\ m \in Existing
  BY <1>1 DEF AskRoles
<1> HIDE DEF grant
<1> QED
  BY <1>1, <1>2, AdmittedPreserves DEF Kinds

LEMMA AskScopesPreserves ==
    ASSUME IInv, NEW c \in Calls, NEW m \in Members, NEW scope \in Scopes,
           AskScopes(c, m, scope)
    PROVE  IInv'
<1>1. scope \in Grant /\ ValidScope(scope) /\ Assignable(scope.roles)
  BY DEF Scopes, Assignable
<1> QED
  BY <1>1, AdmittedPreserves DEF AskScopes, Kinds

LEMMA InvitePreserves ==
    ASSUME IInv, NEW c \in Calls, Invite(c)
    PROVE  IInv'
<1>0. PICK m \in Members, grant \in Grant : m = call[c].member /\ grant = call[c].asks
  BY DEF Invite, IInv, CallsAreAdmitted, Call
<1> DEFINE roleRows == Rows(c, m, "role", grant.roles)
           scopeRows == Rows(c, m, "scope", grant.branches)
           invited == [primary |-> grant.primary, scopeType |-> grant.scopeType,
                       status |-> "INVITED"]
<1>1. Assignable(grant.roles) /\ ValidScope(grant)
  BY <1>0 DEF Invite, IInv, CallsAreAdmitted
<1>2. /\ m \notin Existing
      /\ membership' = [membership EXCEPT ![m] = invited]
      /\ rows' = rows \cup roleRows \cup scopeRows
      /\ granted' = [granted EXCEPT ![m] = grant]
      /\ UNCHANGED <<meanwhile, beside>>
      /\ End(c)
  BY <1>0 DEF Invite
<1>3. invited \in Membership
  BY <1>1 DEF Membership, Grant
<1>4. roleRows \subseteq Row /\ scopeRows \subseteq Row
  BY <1>1, RowsTyped DEF Grant, Assignable, Kinds, Grantable
<1>5. /\ \A r \in roleRows : r.member = m /\ r.kind = "role"
      /\ \A r \in scopeRows : r.member = m /\ r.kind = "scope"
  BY RowsOf
<1>6. /\ Values(roleRows) = grant.roles
      /\ Values(scopeRows) = grant.branches
  BY ValuesOfRows
<1> HIDE DEF roleRows, scopeRows
<1>7. /\ membership'[m] = invited
      /\ granted'[m] = grant
      /\ \A n \in Members \ {m} : membership'[n] = membership[n] /\ granted'[n] = granted[n]
  BY <1>1, <1>2 DEF IInv, TypeOK
<1>8. TypeOK'
  <2>1. membership' \in [Members -> Membership \cup {NoMembership}]
    BY <1>1, <1>2, <1>3 DEF IInv, TypeOK
  <2>2. rows' \subseteq Row /\ granted' \in [Members -> Grant]
    BY <1>1, <1>2, <1>4 DEF IInv, TypeOK
  <2> QED
    BY <1>2, <2>1, <2>2, EndTyped DEF IInv, TypeOK
<1>9. Existing' = Existing \cup {m}
  BY <1>1, <1>3, <1>7, MembershipsExist DEF Existing
<1>10. CallsAreAdmitted'
  BY <1>2, <1>9, EndTyped, CallsPreserved DEF IInv
<1>11. RowsHaveMembers'
  BY <1>2, <1>5, <1>9 DEF IInv, RowsHaveMembers
<1>12. /\ Held(m, "role")' = roleRows
       /\ Held(m, "scope")' = scopeRows
       /\ \A n \in Existing, kind \in Kinds : Held(n, kind)' = Held(n, kind)
  BY <1>2, <1>5 DEF IInv, RowsHaveMembers, Held
<1>13. GrantedAsAsked'
  <2> SUFFICES ASSUME NEW n \in Existing'
               PROVE  /\ membership'[n].scopeType = granted'[n].scopeType
                      /\ membership'[n].primary = granted'[n].primary
                      /\ membership'[n].scopeType = "SELECTED_BRANCHES" =>
                            membership'[n].primary \in Values(Held(n, "scope")')
                      /\ \A kind \in Kinds :
                            /\ Wanted(granted'[n], kind) \subseteq Values(Held(n, kind)')
                            /\ Values(Held(n, kind)') \subseteq
                                  Wanted(granted'[n], kind) \cup beside'[n][kind]
    BY DEF GrantedAsAsked, Values
  <2>1. CASE n = m
    <3>1. /\ membership'[m].scopeType = grant.scopeType
          /\ membership'[m].primary = grant.primary
      BY <1>7
    <3>2. \A kind \in Kinds : Values(Held(m, kind)') = Wanted(granted'[m], kind)
      BY <1>6, <1>7, <1>12 DEF Kinds, Wanted
    <3>3. grant.scopeType = "SELECTED_BRANCHES" => grant.primary \in grant.branches
      BY <1>1 DEF ValidScope
    <3> QED
      BY <2>1, <3>1, <3>2, <3>3, <1>6, <1>7, <1>12
  <2>2. CASE n # m
    <3>1. n \in Existing /\ n \in Members
      BY <1>9, <2>2 DEF Existing
    <3>2. membership'[n] = membership[n] /\ granted'[n] = granted[n]
      BY <1>7, <2>2, <3>1
    <3>3. \A kind \in Kinds : Held(n, kind)' = Held(n, kind)
      BY <1>12, <3>1
    <3> QED
      BY <1>2, <3>1, <3>2, <3>3 DEF IInv, GrantedAsAsked, Kinds
  <2> QED
    BY <2>1, <2>2
<1>14. LeftIsNew'
  <2> SUFFICES ASSUME NEW d \in Calls, NEW r \in rows',
                      pc'[d] = "deleted",
                      r.member = call'[d].member,
                      r.kind = call'[d].kind,
                      r \notin call'[d].found
               PROVE  r.value \in meanwhile'[d]
    BY DEF LeftIsNew
  <2>1. pc[d] = "deleted" /\ call'[d] = call[d]
    BY <1>2, EndTyped DEF IInv
  <2>2. call[d].member \in Existing
    BY <2>1 DEF IInv, CallsAreAdmitted
  <2>3. r \in rows
    BY <1>2, <1>5, <2>1, <2>2
  <2> QED
    BY <1>2, <2>1, <2>3 DEF IInv, LeftIsNew
<1> QED
  BY <1>8, <1>10, <1>11, <1>13, <1>14 DEF IInv

LEMMA DeleteRowsPreserves ==
    ASSUME IInv, NEW c \in Calls, DeleteRows(c)
    PROVE  IInv'
<1>1. /\ call[c] \in Call
      /\ call[c].kind \in Kinds
      /\ Assignable(call[c].asks.roles)
      /\ call[c].kind # "role" => ValidScope(call[c].asks)
      /\ call[c].member \in Existing
  BY DEF DeleteRows, IInv, CallsAreAdmitted
<1> DEFINE new == [call[c] EXCEPT !.found = Held(call[c].member, call[c].kind)]
<1>2. /\ pc' = [pc EXCEPT ![c] = "deleted"]
      /\ call' = [call EXCEPT ![c] = new]
      /\ UNCHANGED <<membership, rows, granted, meanwhile, beside>>
  BY DEF DeleteRows, Goto
<1>3. Held(call[c].member, call[c].kind) \subseteq Row
  BY DEF Held, IInv, TypeOK
<1>4. /\ new \in Call
      /\ new.asks = call[c].asks
      /\ new.kind = call[c].kind
      /\ new.member = call[c].member
      /\ new.found = Held(call[c].member, call[c].kind)
  BY <1>1, <1>3 DEF Call
<1>5. \A r \in Held(call[c].member, call[c].kind) : r.member = call[c].member /\ r.kind = call[c].kind
  BY DEF Held
<1> HIDE DEF new
<1>6. TypeOK'
  BY <1>2, <1>4 DEF IInv, TypeOK
<1>7. /\ pc'[c] = "deleted"
      /\ call'[c] = new
      /\ \A d \in Calls \ {c} : pc'[d] = pc[d] /\ call'[d] = call[d]
  BY <1>2 DEF IInv, TypeOK
<1>8. Existing' = Existing
  BY <1>2 DEF Existing
<1>9. CallsAreAdmitted'
  BY <1>1, <1>4, <1>5, <1>7, <1>8, CallsPreserved DEF IInv
<1>10. RowsHaveMembers' /\ GrantedAsAsked'
  BY <1>2, <1>8 DEF IInv, RowsHaveMembers, GrantedAsAsked, Held
<1>11. LeftIsNew'
  BY <1>2, <1>4, <1>7 DEF IInv, LeftIsNew, Held
<1> QED
  BY <1>6, <1>9, <1>10, <1>11 DEF IInv

LEMMA InsertRowsPreserves ==
    ASSUME IInv, NEW c \in Calls, InsertRows(c)
    PROVE  IInv'
<1>0. PICK m \in Members, kind \in Kinds, grant \in Grant, found \in SUBSET Row :
          m = call[c].member /\ kind = call[c].kind /\ grant = call[c].asks
          /\ found = call[c].found
  BY DEF InsertRows, IInv, CallsAreAdmitted, Call
<1> DEFINE left == Held(m, kind) \ found
           new == Rows(c, m, kind, Wanted(grant, kind))
<1>1. /\ m \in Existing
      /\ Assignable(grant.roles)
      /\ kind = "scope" => ValidScope(grant)
      /\ \A r \in found : r.member = m /\ r.kind = kind
  BY <1>0 DEF InsertRows, IInv, CallsAreAdmitted
<1>2. /\ rows' = (rows \ found) \cup new
      /\ beside' = [beside EXCEPT ![m][kind] = meanwhile[c]]
      /\ ToldOthers(c, m, kind, Wanted(grant, kind))
      /\ End(c)
  BY <1>0 DEF InsertRows, Deleted
<1>3. /\ beside'[m][kind] = meanwhile[c]
      /\ \A n \in Members, other \in Kinds :
            <<n, other>> # <<m, kind>> => beside'[n][other] = beside[n][other]
      /\ beside' \in [Members -> [Kinds -> SUBSET Grantable]]
  BY <1>0, <1>2 DEF IInv, TypeOK
<1>4. /\ kind = "role" =>
            /\ granted' = [granted EXCEPT ![m].roles = grant.roles]
            /\ membership' = membership
      /\ kind # "role" =>
            /\ granted' = [granted EXCEPT ![m] = [grant EXCEPT !.roles = granted[m].roles]]
            /\ membership' = [membership EXCEPT ![m].primary = grant.primary,
                                                 ![m].scopeType = grant.scopeType]
  BY <1>0 DEF InsertRows
<1>5. /\ new \subseteq Row
      /\ \A r \in new : r.member = m /\ r.kind = kind
      /\ Values(new) = Wanted(grant, kind)
  BY <1>1, RowsTyped, RowsOf, ValuesOfRows, WantedTyped, ExistingTyped DEF IInv
<1> HIDE DEF new
<1>6. m \in Members /\ membership[m] \in Membership /\ granted[m] \in Grant
  BY <1>1, ExistingTyped DEF IInv, TypeOK
<1> DEFINE row == IF kind = "role" THEN membership[m]
                  ELSE [membership[m] EXCEPT !.primary = grant.primary,
                                             !.scopeType = grant.scopeType]
           last == IF kind = "role" THEN [granted[m] EXCEPT !.roles = grant.roles]
                   ELSE [grant EXCEPT !.roles = granted[m].roles]
<1>7. /\ membership' = [membership EXCEPT ![m] = row]
      /\ granted' = [granted EXCEPT ![m] = last]
  BY <1>4, <1>6 DEF IInv, TypeOK
<1>8. row \in Membership /\ last \in Grant
  BY <1>1, <1>6 DEF Membership, Grant
<1>9. /\ kind = "role" =>
            /\ row.scopeType = membership[m].scopeType
            /\ row.primary = membership[m].primary
            /\ last.roles = grant.roles
            /\ last.branches = granted[m].branches
            /\ last.primary = granted[m].primary
            /\ last.scopeType = granted[m].scopeType
      /\ kind = "scope" =>
            /\ row.scopeType = grant.scopeType
            /\ row.primary = grant.primary
            /\ last.roles = granted[m].roles
            /\ last.branches = grant.branches
            /\ last.primary = grant.primary
            /\ last.scopeType = grant.scopeType
  BY <1>1, <1>6 DEF Membership, Grant
<1> HIDE DEF row, last
<1>10. /\ membership'[m] = row
       /\ granted'[m] = last
       /\ \A n \in Members \ {m} : membership'[n] = membership[n] /\ granted'[n] = granted[n]
  BY <1>6, <1>7 DEF IInv, TypeOK
<1>11. TypeOK'
  <2>1. membership' \in [Members -> Membership \cup {NoMembership}]
    BY <1>6, <1>7, <1>8 DEF IInv, TypeOK
  <2>2. granted' \in [Members -> Grant]
    BY <1>6, <1>7, <1>8 DEF IInv, TypeOK
  <2>3. rows' \subseteq Row
    BY <1>1, <1>2, <1>5, <1>6 DEF IInv, TypeOK
  <2>4. meanwhile' \in [Calls -> SUBSET Grantable]
    BY <1>1, <1>2, WantedTyped DEF IInv, TypeOK, ToldOthers
  <2> QED
    BY <1>2, <1>3, <2>1, <2>2, <2>3, <2>4, EndTyped DEF IInv, TypeOK
<1>12. Existing' = Existing
  BY <1>1, <1>6, <1>8, <1>10, MembershipsExist DEF Existing
<1>13. CallsAreAdmitted'
  BY <1>2, <1>12, EndTyped, CallsPreserved DEF IInv
<1>14. RowsHaveMembers'
  BY <1>1, <1>2, <1>5, <1>12 DEF IInv, RowsHaveMembers
<1>15. Held(m, kind)' = left \cup new
  BY <1>2, <1>5, HeldAfter
<1>16. \A n, other : <<n, other>> # <<m, kind>> => Held(n, other)' = Held(n, other)
  <2> TAKE n, other
  <2> HAVE <<n, other>> # <<m, kind>>
  <2>1. \A r \in new \cup found : r.member = m /\ r.kind = kind
    BY <1>1, <1>5
  <2>2. n # m \/ other # kind
    OBVIOUS
  <2>3. rows' = (rows \ found) \cup new
    BY <1>2
  <2> HIDE DEF left
  <2> QED
    BY <2>1, <2>2, <2>3 DEF Held
<1>17. /\ Wanted(grant, kind) \subseteq Values(Held(m, kind)')
       /\ Values(Held(m, kind)') \subseteq Wanted(grant, kind) \cup beside'[m][kind]
  <2>1. \A r \in left : r.value \in meanwhile[c]
    BY <1>0 DEF InsertRows, IInv, LeftIsNew, Held
  <2> HIDE DEF left
  <2> QED
    BY <1>3, <1>5, <1>15, <2>1 DEF Values
<1>18. /\ Wanted(last, kind) = Wanted(grant, kind)
       /\ \A other \in Kinds \ {kind} : Wanted(last, other) = Wanted(granted[m], other)
  BY <1>1, <1>9 DEF Wanted, Kinds
<1>19. LeftIsNew'
  <2> SUFFICES ASSUME NEW d \in Calls, NEW r \in rows',
                      pc'[d] = "deleted",
                      r.member = call'[d].member,
                      r.kind = call'[d].kind,
                      r \notin call'[d].found
               PROVE  r.value \in meanwhile'[d]
    BY DEF LeftIsNew
  <2>1. d # c /\ pc[d] = "deleted" /\ call'[d] = call[d]
    BY <1>2, EndTyped DEF IInv
  <2>2. meanwhile'[d] = IF call[d].member = m /\ call[d].kind = kind
                        THEN meanwhile[d] \cup Wanted(grant, kind) ELSE meanwhile[d]
    BY <1>2, <2>1 DEF ToldOthers
  <2>3. CASE r \in rows
    BY <2>1, <2>2, <2>3 DEF IInv, LeftIsNew
  <2>4. CASE r \in new
    <3>1. r.member = m /\ r.kind = kind /\ r.value \in Wanted(grant, kind)
      BY <1>5, <2>4 DEF Values
    <3> QED
      BY <2>1, <2>2, <3>1
  <2> QED
    BY <1>2, <2>3, <2>4
<1>20. GrantedAsAsked'
  <2> SUFFICES ASSUME NEW n \in Existing
               PROVE  /\ membership'[n].scopeType = granted'[n].scopeType
                      /\ membership'[n].primary = granted'[n].primary
                      /\ membership'[n].scopeType = "SELECTED_BRANCHES" =>
                            membership'[n].primary \in Values(Held(n, "scope")')
                      /\ \A other \in Kinds :
                            /\ Wanted(granted'[n], other) \subseteq Values(Held(n, other)')
                            /\ Values(Held(n, other)') \subseteq
                                  Wanted(granted'[n], other) \cup beside'[n][other]
    BY <1>12 DEF GrantedAsAsked, Values
  <2>1. /\ membership[n].scopeType = granted[n].scopeType
        /\ membership[n].primary = granted[n].primary
        /\ membership[n].scopeType = "SELECTED_BRANCHES" =>
              membership[n].primary \in Values(Held(n, "scope"))
        /\ \A other \in Kinds :
              /\ Wanted(granted[n], other) \subseteq Values(Held(n, other))
              /\ Values(Held(n, other)) \subseteq
                    Wanted(granted[n], other) \cup beside[n][other]
    BY DEF IInv, GrantedAsAsked
  <2>2. CASE n # m
    <3>1. membership'[n] = membership[n] /\ granted'[n] = granted[n]
      BY <1>10, <2>2 DEF Existing
    <3>2. \A other \in Kinds : Held(n, other)' = Held(n, other)
      BY <1>16, <2>2
    <3>3. \A other \in Kinds : beside'[n][other] = beside[n][other]
      BY <1>3, <2>2 DEF Existing
    <3> QED
      BY <2>1, <2>2, <3>1, <3>2, <3>3 DEF Kinds
  <2>3. CASE n = m
    <3>1. \A other \in Kinds :
              /\ Wanted(last, other) \subseteq Values(Held(m, other)')
              /\ Values(Held(m, other)') \subseteq Wanted(last, other) \cup beside'[m][other]
      <4> TAKE other \in Kinds
      <4>1. CASE other = kind
        BY <1>17, <1>18, <4>1
      <4>2. CASE other # kind
        BY <1>3, <1>16, <1>18, <2>1, <2>3, <4>2
      <4> QED
        BY <4>1, <4>2
    <3>2. row.scopeType = last.scopeType /\ row.primary = last.primary
      BY <1>1, <1>9, <2>1, <2>3 DEF Kinds
    <3>3. row.scopeType = "SELECTED_BRANCHES" => row.primary \in Values(Held(m, "scope")')
      <4>1. CASE kind = "role"
        BY <1>9, <1>16, <2>1, <2>3, <4>1
      <4>2. CASE kind = "scope"
        BY <1>1, <1>9, <1>17, <4>2 DEF ValidScope, Wanted
      <4> QED
        BY <1>1, <4>1, <4>2 DEF Kinds
    <3> QED
      BY <1>10, <2>3, <3>1, <3>2, <3>3
  <2> QED
    BY <2>2, <2>3
<1> QED
  BY <1>11, <1>13, <1>14, <1>19, <1>20 DEF IInv

LEMMA AbandonPreserves ==
    ASSUME IInv, NEW c \in Calls, Abandon(c)
    PROVE  IInv'
<1>1. /\ End(c)
      /\ UNCHANGED <<membership, rows, granted, beside>>
      /\ meanwhile' = [meanwhile EXCEPT ![c] = {}]
  BY DEF Abandon
<1>2. TypeOK'
  BY <1>1, EndTyped DEF IInv, TypeOK
<1>3. Existing' = Existing
  BY <1>1 DEF Existing
<1>4. CallsAreAdmitted'
  BY <1>1, <1>3, EndTyped, CallsPreserved DEF IInv
<1>5. RowsHaveMembers' /\ GrantedAsAsked'
  BY <1>1, <1>3 DEF IInv, RowsHaveMembers, GrantedAsAsked, Held
<1>6. LeftIsNew'
  BY <1>1, EndTyped DEF IInv, TypeOK, LeftIsNew
<1> QED
  BY <1>2, <1>4, <1>5, <1>6 DEF IInv

LEMMA InvNext == IInv /\ [Next]_vars => IInv'
<1> SUFFICES ASSUME IInv, [Next]_vars PROVE IInv'
  OBVIOUS
<1>1. ASSUME NEW c \in Calls, Invitation(c) PROVE IInv'
  BY <1>1, AskInvitationPreserves, InvitePreserves DEF Invitation
<1>2. ASSUME NEW c \in Calls, Replacement(c) PROVE IInv'
  BY <1>2, AskRolesPreserves, AskScopesPreserves, DeleteRowsPreserves, InsertRowsPreserves
     DEF Replacement
<1>3. ASSUME NEW c \in Calls, Abandon(c) PROVE IInv'
  BY <1>3, AbandonPreserves
<1>4. CASE UNCHANGED vars
  <2>1. /\ membership' = membership /\ rows' = rows /\ pc' = pc /\ call' = call
        /\ granted' = granted /\ meanwhile' = meanwhile /\ beside' = beside
    BY <1>4 DEF vars
  <2>2. TypeOK'
    BY <2>1 DEF IInv, TypeOK
  <2>3. Existing' = Existing
    BY <2>1 DEF Existing
  <2>4. CallsAreAdmitted' /\ RowsHaveMembers'
    BY <2>1, <2>3 DEF IInv, CallsAreAdmitted, RowsHaveMembers
  <2>5. LeftIsNew'
    BY <2>1 DEF IInv, LeftIsNew
  <2>6. GrantedAsAsked'
    BY <2>1, <2>3 DEF IInv, GrantedAsAsked, Held
  <2> QED
    BY <2>2, <2>4, <2>5, <2>6 DEF IInv
<1> QED
  BY <1>1, <1>2, <1>3, <1>4 DEF Next

LEMMA Invariant == Spec => []IInv
BY InvInit, InvNext, PTL DEF Spec

-----------------------------------------------------------------------------
(***************************************************************************)
(* The theorems.                                                           *)
(***************************************************************************)
\* Memberships, their rows and pending calls stay well typed; HEAD_COACH is never
\* the role of a row.
THEOREM TypeCorrect == Spec => []TypeOK
BY Invariant, PTL DEF IInv

\* Scope, primary branch, roles and branches of a membership are what was asked
\* for last, and besides only what overlapping replacements have inserted meanwhile
\* (update-membership-roles, update-membership-scopes, invite).
THEOREM AsAsked == Spec => []GrantedAsAsked
BY Invariant, PTL DEF IInv
=============================================================================
