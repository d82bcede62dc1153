----------------------- MODULE OrganizationMemberships -----------------------
(***************************************************************************)
(* The memberships of one organization (src/src/memberships, src/src/users *)
(* and the two founders' transactions), with the roles and the branch      *)
(* scopes each is granted.  A membership is founded or invited in one      *)
(* transaction; later calls replace its roles or its scopes by deleting    *)
(* the rows they find and inserting those that were asked for.  These      *)
(* transactions are READ COMMITTED: what a deletion finds is what was      *)
(* committed when it started, and rows that another replacement commits    *)
(* before the insertion stay beside the new ones, unless both want the     *)
(* same value, which a unique index refuses.                               *)
(*                                                                         *)
(* Calls carry the claims of MESTRE that the founder has logged in with: a *)
(* token of ORG_ADMIN may do part of what they may.  Nothing in the code   *)
(* activates, suspends or removes a membership, or removes a branch.       *)
(***************************************************************************)

CONSTANTS
    Members,        \* the users, by e-mail
    Founder,        \* who founded the organization
    Branches,
    Calls,          \* calls that invite or replace, each used once
    RoleRequests,   \* bound: the roles that calls ask for
    Founding,       \* stands for the founders' transaction where a call is named
    None

ASSUME FounderIsMember == Founder \in Members
ASSUME NoneIsNoBranch == None \notin Branches
ASSUME FoundingIsNoCall == Founding \notin Calls

VARIABLES
    membership,     \* membership[m]: the OrganizationMembership row of m
    rows,           \* the MembershipRoleAssignment and MembershipBranchScope rows
    pc,             \* pc[c]: how far call c has got
    call,           \* call[c]: what it asks for, and the rows its deletion has found
    granted,        \* history: what was asked for m last, of roles and of scopes
    meanwhile,      \* history: what others have inserted for what c replaces, since its deletion
    beside          \* history: what the last replacement may have left beside its own

vars == <<membership, rows, pc, call, granted, meanwhile, beside>>

Roles == {"MESTRE", "ORG_ADMIN", "HEAD_COACH", "ACADEMY_MANAGER", "INSTRUCTOR",
          "STAFF", "STUDENT"}

\* Mutant of Assignable: no role is left to the branches to assign.
AssignableAny(roles) == roles # {}

\* A head coach is appointed by a branch.
Assignable(roles) == "HEAD_COACH" \notin roles

ASSUME RolesAreNamed == RoleRequests \subseteq (SUBSET Roles) \ {{}}

Kinds == {"role", "scope"}

Membership == [primary : Branches \cup {None},
               scopeType : {"ORGANIZATION_WIDE", "SELECTED_BRANCHES"},
               status : {"ACTIVE", "INVITED"}]
NoMembership == [primary |-> None, scopeType |-> "SELECTED_BRANCHES", status |-> "ABSENT"]

Grantable == Branches \cup (Roles \ {"HEAD_COACH"})

Row == [by : Calls \cup {Founding}, kind : Kinds, member : Members, value : Grantable]

\* What a call asks for: a replacement ignores what is not of its kind.
Grant == [roles : SUBSET Roles, primary : Branches \cup {None},
          scopeType : {"ORGANIZATION_WIDE", "SELECTED_BRANCHES"},
          branches : SUBSET Branches]
NoGrant == [roles |-> {}, primary |-> None, scopeType |-> "ORGANIZATION_WIDE",
            branches |-> {}]

Call == [kind : Kinds \cup {"invitation"}, member : Members, asks : Grant,
         found : SUBSET Row]
NoCall == [kind |-> "none", member |-> Founder, asks |-> NoGrant, found |-> {}]

-----------------------------------------------------------------------------
Existing == {m \in Members : membership[m] # NoMembership}

Held(m, kind) == {r \in rows : r.member = m /\ r.kind = kind}

Values(some) == {r.value : r \in some}

Wanted(grant, kind) == IF kind = "role" THEN grant.roles ELSE grant.branches

Rows(by, m, kind, values) ==
    {[by |-> by, kind |-> kind, member |-> m, value |-> v] : v \in values}

ValidScope(grant) ==
    IF grant.scopeType = "ORGANIZATION_WIDE"
    THEN grant.branches = {}
    ELSE grant.branches # {} /\ grant.primary \in grant.branches

Scopes == {g \in Grant : g.roles = {} /\ ValidScope(g)}

\* Bootstrapping names the first branch, founding another organization none.
Init ==
    /\ \E p \in Branches \cup {None} :
          LET grant == [NoGrant EXCEPT !.primary = p, !.roles = {"MESTRE"}]
          IN  /\ membership =
                    [m \in Members |->
                        IF m # Founder THEN NoMembership
                        ELSE [primary |-> p, scopeType |-> grant.scopeType,
                              status |-> "ACTIVE"]]
              /\ rows = Rows(Founding, Founder, "role", grant.roles)
              /\ granted = [m \in Members |-> IF m = Founder THEN grant ELSE NoGrant]
    /\ pc = [c \in Calls |-> "idle"]
    /\ call = [c \in Calls |-> NoCall]
    /\ meanwhile = [c \in Calls |-> {}]
    /\ beside = [m \in Members |-> [kind \in Kinds |-> {}]]

-----------------------------------------------------------------------------
Goto(c, point) == pc' = [pc EXCEPT ![c] = point]

End(c) ==
    /\ Goto(c, "done")
    /\ call' = [call EXCEPT ![c] = NoCall]

Admitted(c, kind, m, grant) ==
    /\ pc[c] = "idle"
    /\ Goto(c, "admitted")
    /\ call' = [call EXCEPT ![c] = [kind |-> kind, member |-> m, asks |-> grant,
                                    found |-> {}]]
    /\ UNCHANGED <<membership, rows, granted, meanwhile, beside>>

AskInvitation(c, m, roles, scope) ==
    /\ m \notin Existing
    /\ Assignable(roles)
    /\ Admitted(c, "invitation", m, [scope EXCEPT !.roles = roles])

AskRoles(c, m, roles) ==
    /\ m \in Existing
    /\ Assignable(roles)
    /\ Admitted(c, "role", m, [NoGrant EXCEPT !.roles = roles])

AskScopes(c, m, scope) ==
    /\ m \in Existing
    /\ Admitted(c, "scope", m, scope)

\* One membership of a user: another invitation may have been faster.
Invite(c) ==
    LET m == call[c].member
        grant == call[c].asks
    IN  /\ pc[c] = "admitted"
        /\ call[c].kind = "invitation"
        /\ m \notin Existing
        /\ membership' = [membership EXCEPT
              ![m] = [primary |-> grant.primary, scopeType |-> grant.scopeType,
                      status |-> "INVITED"]]
        /\ rows' = rows \cup Rows(c, m, "role", grant.roles)
                        \cup Rows(c, m, "scope", grant.branches)
        /\ granted' = [granted EXCEPT ![m] = grant]
        /\ End(c)
        /\ UNCHANGED <<meanwhile, beside>>

\* The transaction begins with its deletion.
DeleteRows(c) ==
    /\ pc[c] = "admitted"
    /\ call[c].kind \in Kinds
    /\ Goto(c, "deleted")
    /\ call' = [call EXCEPT ![c].found = Held(call[c].member, call[c].kind)]
    /\ UNCHANGED <<membership, rows, granted, meanwhile, beside>>

\* Mutant of Deleted: the rows are deleted only where new ones follow.
DeletedIfReplaced(c) ==
    IF Wanted(call[c].asks, call[c].kind) = {} THEN {} ELSE call[c].found

Deleted(c) == call[c].found

\* History: replacements of the same rows that have deleted do not find these values.
ToldOthers(c, m, kind, values) ==
    meanwhile' = [d \in Calls |->
                     IF d = c THEN {}
                     ELSE IF pc[d] = "deleted" /\ call[d].member = m /\ call[d].kind = kind
                     THEN meanwhile[d] \cup values
                     ELSE meanwhile[d]]

\* The insertion waits for rows that others are about to insert or have deleted,
\* and commits beside those that others have committed meanwhile.
InsertRows(c) ==
    LET m == call[c].member
        kind == call[c].kind
        grant == call[c].asks
        left == Held(m, kind) \ call[c].found
    IN  /\ pc[c] = "deleted"
        /\ Values(left) \cap Wanted(grant, kind) = {}
        /\ rows' = (rows \ Deleted(c)) \cup Rows(c, m, kind, Wanted(grant, kind))
        /\ IF kind = "role"
           THEN /\ granted' = [granted EXCEPT ![m].roles = grant.roles]
                /\ UNCHANGED membership
           ELSE /\ granted' = [granted EXCEPT ![m] = [grant EXCEPT !.roles = granted[m].roles]]
                /\ membership' = [membership EXCEPT
                      ![m].primary = grant.primary, ![m].scopeType = grant.scopeType]
        /\ beside' = [beside EXCEPT ![m][kind] = meanwhile[c]]
        /\ ToldOthers(c, m, kind, Wanted(grant, kind))
        /\ End(c)

\* A unique index or a deadlock ends the call, or it dies, at whatever point.
Abandon(c) ==
    /\ pc[c] \in {"admitted", "deleted"}
    /\ End(c)
    /\ meanwhile' = [meanwhile EXCEPT ![c] = {}]
    /\ UNCHANGED <<membership, rows, granted, beside>>

-----------------------------------------------------------------------------
Replacement(c) ==
    \/ \E m \in Members, roles \in RoleRequests : AskRoles(c, m, roles)
    \/ \E m \in Members, scope \in Scopes : AskScopes(c, m, scope)
    \/ DeleteRows(c)
    \/ InsertRows(c)

Invitation(c) ==
    \/ \E m \in Members, roles \in RoleRequests, scope \in Scopes :
          AskInvitation(c, m, roles, scope)
    \/ Invite(c)

Next == \E c \in Calls : Invitation(c) \/ Replacement(c) \/ Abandon(c)

Spec == Init /\ [][Next]_vars

-----------------------------------------------------------------------------
(***************************************************************************)
(* Properties.                                                             *)
(***************************************************************************)
TypeOK ==
    /\ membership \in [Members -> Membership \cup {NoMembership}]
    /\ rows \subseteq Row
    /\ pc \in [Calls -> {"idle", "admitted", "deleted", "done"}]
    /\ call \in [Calls -> Call \cup {NoCall}]
    /\ granted \in [Members -> Grant]
    /\ meanwhile \in [Calls -> SUBSET Grantable]
    /\ beside \in [Members -> [Kinds -> SUBSET Grantable]]

\* The scope type and the primary branch of a membership are those of the last
\* call that set them, and its primary branch is one of its branches, although
\* they are in different tables and replaced without a lock.  It holds at least
\* the roles and branches of that call, and at most those that other replacements
\* have inserted between the deletion and the insertion of that call: nothing from
\* before the deletion survives, and without overlap nothing else is left.
GrantedAsAsked ==
    \A m \in Existing :
        /\ membership[m].scopeType = granted[m].scopeType
        /\ membership[m].primary = granted[m].primary
        /\ membership[m].scopeType = "SELECTED_BRANCHES" =>
              membership[m].primary \in Values(Held(m, "scope"))
        /\ \A kind \in Kinds :
              /\ Wanted(granted[m], kind) \subseteq Values(Held(m, kind))
              /\ Values(Held(m, kind)) \subseteq Wanted(granted[m], kind) \cup beside[m][kind]
=============================================================================
