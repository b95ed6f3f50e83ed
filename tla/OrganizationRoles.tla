------------------------- MODULE OrganizationRoles -------------------------
(***************************************************************************)
(* The roles in one organization, the invitations that lead to them, and   *)
(* the deletion of accounts.  A request is authorised, and its subject     *)
(* read, before the statement or the transaction that writes; a written    *)
(* row belongs to its transaction until that commits.                      *)
(***************************************************************************)
EXTENDS FiniteSets

CONSTANTS Users, Invitations,  \* Invitations: rows, numbered by their ids
          Requests,            \* slots for requests that run at the same time
          Nobody, NoRow

ASSUME RolesAssumption == Nobody \notin Users \union Requests /\ NoRow \notin Invitations

VARIABLES exists,      \* whether the organization does
          accounts,    \* users that have not deleted their account
          role,        \* OrganizationRole, "NONE" without a row
          invitation,
          roleHeld, invitationHeld,
          req,
          outdated     \* history: a role was written by a request that went by
                       \* a role that was no longer the one it had read

vars == <<exists, accounts, role, invitation, roleHeld, invitationHeld, req, outdated>>

Ops == {"changeRole", "changeOwner", "deleteMember", "invite", "answer", "deleteAccount",
        "remove"}
OrganizationRole == {"MEMBER", "ADMIN", "OWNER"}
InvitationStatus == {"PENDING", "ACCEPTED", "DECLINED", "IGNORED", "CANCELLED"}
Administrators == {"ADMIN", "OWNER"}

(* ROLE_RANK, and that having no role ranks below all.                     *)
AtLeast(r) ==
    CASE r = "NONE" -> OrganizationRole \union {"NONE"}
      [] r = "MEMBER" -> OrganizationRole
      [] r = "ADMIN" -> Administrators
      [] r = "OWNER" -> {"OWNER"}

Unused == [status |-> "NONE", from |-> Nobody, to |-> Nobody, role |-> "MEMBER"]
Invitation == [status : InvitationStatus \union {"NONE"}, from : Users \union {Nobody},
               to : Users \union {Nobody}, role : {"MEMBER", "ADMIN"}]

Idle == [phase |-> "idle", op |-> "remove", actor |-> Nobody, subject |-> Nobody,
         row |-> NoRow, value |-> "NONE", seen |-> "NONE"]
Request == [phase : {"idle", "guarded", "checked", "verified", "demoted", "accepted",
                     "planned", "alone", "written"},
            op : Ops,
            actor : Users \union {Nobody}, subject : Users \union {Nobody},
            row : Invitations \union {NoRow},
            value : OrganizationRole \union InvitationStatus \union {"NONE"},
            seen : OrganizationRole \union {"NONE"}]

TypeOK ==
    /\ exists \in BOOLEAN
    /\ accounts \subseteq Users
    /\ role \in [Users -> OrganizationRole \union {"NONE"}]
    /\ invitation \in [Invitations -> Invitation]
    /\ roleHeld \in [Users -> Requests \union {Nobody}]
    /\ invitationHeld \in [Invitations -> Requests \union {Nobody}]
    /\ req \in [Requests -> Request]
    /\ outdated \in BOOLEAN

(* create: the creator is the OWNER and has nobody beside them.            *)
Init ==
    /\ exists = TRUE
    /\ accounts = Users
    /\ \E creator \in Users : role = [u \in Users |-> IF u = creator THEN "OWNER" ELSE "NONE"]
    /\ invitation = [n \in Invitations |-> Unused]
    /\ roleHeld = [u \in Users |-> Nobody]
    /\ invitationHeld = [n \in Invitations |-> Nobody]
    /\ req = [t \in Requests |-> Idle]
    /\ outdated = FALSE

Free(f, t) == [x \in DOMAIN f |-> IF f[x] = t THEN Nobody ELSE f[x]]
Members == {u \in Users : role[u] # "NONE"}

(* The unique key of an invitation is its role, its invitee and its status.*)
Taken(n, status) ==
    \E m \in Invitations \ {n} :
        /\ invitation[m].to = invitation[n].to /\ invitation[m].role = invitation[n].role
        /\ invitation[m].status = status
Held(n) == \E m \in Invitations : /\ invitation[m].to = invitation[n].to
                                  /\ invitation[m].role = invitation[n].role
                                  /\ invitationHeld[m] # Nobody

(* The request ends; what its transaction wrote is undone.                 *)
Fail(t) ==
    /\ roleHeld' = Free(roleHeld, t)
    /\ invitationHeld' = Free(invitationHeld, t)
    /\ req' = [req EXCEPT ![t] = Idle]
    /\ UNCHANGED <<exists, accounts, role, invitation, outdated>>

(* What an action on requests and locks alone leaves as it is.             *)
Stored == <<exists, accounts, role, invitation, outdated>>

(* A role is written by a request that read what the role of u was.        *)
WritesBy(t, u) == outdated' = (outdated \/ req[t].seen # role[u])

-----------------------------------------------------------------------------
(* OrganizationRolesGuard, where the route has it, reads the actor's role; *)
(* only a transfer goes by it when it writes.                              *)
Allowed(op, u) ==
    CASE op \in {"changeRole", "invite"} -> role[u] \in Administrators
      [] op \in {"changeOwner", "remove"} -> role[u] = "OWNER"
      [] op = "deleteMember" -> role[u] # "NONE"
      [] op = "deleteAccount" -> u \in accounts
      [] OTHER -> FALSE

Guard(t, op, u, v, r) ==
    /\ req[t].phase = "idle"
    /\ Allowed(op, u)
    /\ (v = Nobody) <=> (op \in {"deleteAccount", "remove"})
    /\ IF op \in {"changeRole", "invite"} THEN r \in {"MEMBER", "ADMIN"} ELSE r = "NONE"
    /\ req' = [req EXCEPT ![t] = [Idle EXCEPT !.phase = "guarded", !.op = op, !.actor = u,
                                              !.subject = v, !.value = r,
                       !.seen = IF op = "changeOwner" THEN role[u] ELSE "NONE"]]
    /\ UNCHANGED <<Stored, roleHeld, invitationHeld>>

(* The controllers read the roles of both users and decide.                *)
(* Mutant: the owner's role is a role like any other.                      *)
MayChangeAnyRole(u, v) == u # v /\ role[u] = "ADMIN" => role[v] = "MEMBER"
MayChangeRole(u, v) ==
    /\ role[v] # "OWNER"
    /\ u # v /\ role[u] = "ADMIN" => role[v] = "MEMBER"
MayDelete(u, v) ==
    /\ role[v] \notin {"NONE", "OWNER"}
    /\ role[u] = "OWNER" \/ (role[u] = "ADMIN" /\ role[v] = "MEMBER") \/ u = v

Check(t) ==
    LET q == req[t]
    IN /\ q.phase = "guarded" /\ q.op \in {"changeRole", "deleteMember"}
       /\ IF q.op = "changeRole" THEN MayChangeRole(q.actor, q.subject)
                                 ELSE MayDelete(q.actor, q.subject)
       /\ req' = [req EXCEPT ![t].phase = "checked", ![t].actor = Nobody, ![t].seen = role[q.subject]]
       /\ UNCHANGED <<Stored, roleHeld, invitationHeld>>

Refuse(t) ==
    LET q == req[t]
    IN /\ q.phase = "guarded"
       /\ \/ q.op = "changeRole" /\ ~MayChangeRole(q.actor, q.subject)
          \/ q.op = "deleteMember" /\ ~MayDelete(q.actor, q.subject)
       /\ Fail(t)

(* changeUserRole is one update of the row, whatever it holds by now.      *)
ChangeUserRole(t) ==
    LET v == req[t].subject
    IN /\ req[t].phase = "checked" /\ req[t].op = "changeRole"
       /\ roleHeld[v] = Nobody /\ role[v] # "NONE"
       /\ role' = [role EXCEPT ![v] = req[t].value] /\ WritesBy(t, v)
       /\ req' = [req EXCEPT ![t] = Idle]
       /\ UNCHANGED <<exists, accounts, invitation, roleHeld, invitationHeld>>

DeleteMember(t) ==
    LET v == req[t].subject
    IN /\ req[t].phase = "checked" /\ req[t].op = "deleteMember"
       /\ roleHeld[v] = Nobody /\ role[v] # "NONE"
       /\ role' = [role EXCEPT ![v] = "NONE"] /\ WritesBy(t, v)
       /\ req' = [req EXCEPT ![t] = Idle]
       /\ UNCHANGED <<exists, accounts, invitation, roleHeld, invitationHeld>>

-----------------------------------------------------------------------------
(* changeOwner: the old owner's row first, then the new one's.             *)
Demote(t) ==
    LET u == req[t].actor
    IN /\ req[t].phase = "guarded" /\ req[t].op = "changeOwner"
       /\ roleHeld[u] = Nobody /\ role[u] # "NONE"
       /\ roleHeld' = [roleHeld EXCEPT ![u] = t]
       /\ req' = [req EXCEPT ![t].phase = "demoted"]
       /\ UNCHANGED <<Stored, invitationHeld>>

Promote(t) ==
    LET v == req[t].subject
    IN /\ req[t].phase = "demoted"
       /\ roleHeld[v] \in {Nobody, t} /\ role[v] # "NONE"
       /\ role' = [role EXCEPT ![req[t].actor] = "ADMIN", ![v] = "OWNER"]
       /\ WritesBy(t, req[t].actor)
       /\ roleHeld' = Free(roleHeld, t)
       /\ req' = [req EXCEPT ![t] = Idle]
       /\ UNCHANGED <<exists, accounts, invitation, invitationHeld>>

(* What is to be updated or deleted is not there (any more): P2025.        *)
NotFound(t) ==
    LET q == req[t]
        missing(u) == roleHeld[u] \in {Nobody, t} /\ role[u] = "NONE"
    IN /\ \/ q.phase = "checked" /\ q.op \in {"changeRole", "deleteMember"} /\ missing(q.subject)
          \/ q.phase = "guarded" /\ q.op = "changeOwner" /\ missing(q.actor)
          \/ q.phase \in {"demoted", "planned"} /\ missing(q.subject)
          \/ q.phase = "written" /\ q.actor \notin accounts
          \/ (q.phase = "alone" \/ (q.phase = "guarded" /\ q.op = "remove")) /\ ~exists
          \/ /\ q.phase = "checked" /\ q.op = "answer" /\ q.value # "ACCEPTED"
             /\ invitation[q.row].status = "NONE"
          \/ /\ q.op = "answer" /\ q.value = "ACCEPTED" /\ q.phase \in {"checked", "verified"}
             /\ invitation[q.row].status = "NONE"
       /\ Fail(t)

-----------------------------------------------------------------------------
(* createInvitations: users without a role, and members asked to be ADMIN, *)
(* whose invitation takes its role from their row: they are asked to be    *)
(* what they are.  skipDuplicates passes over one that is pending already. *)
(* The row of one that is deleted stays unused while a request has its id. *)
RoleAsked(u, r) == IF role[u] = "NONE" THEN r ELSE role[u]

CreateInvitation(t, n) ==
    LET q == req[t]
        row == [status |-> "PENDING", from |-> q.actor, to |-> q.subject,
                role |-> RoleAsked(q.subject, q.value)]
        same == {m \in Invitations : invitation[m].to = row.to /\ invitation[m].role = row.role}
        pending == \E m \in same : invitation[m].status = "PENDING"
        asked == role[q.subject] = "NONE" \/ (role[q.subject] = "MEMBER" /\ q.value = "ADMIN")
    IN /\ q.phase = "guarded" /\ q.op = "invite"
       /\ exists /\ {q.actor, q.subject} \subseteq accounts
       /\ invitation[n] = Unused /\ \A s \in Requests : req[s].row # n
       /\ \A m \in same : invitationHeld[m] = Nobody
       /\ invitation' = IF asked /\ ~pending THEN [invitation EXCEPT ![n] = row] ELSE invitation
       /\ req' = [req EXCEPT ![t] = Idle]
       /\ UNCHANGED <<exists, accounts, role, roleHeld, invitationHeld, outdated>>

CreateFails(t) ==
    /\ req[t].phase = "guarded" /\ req[t].op = "invite"
    /\ ~(exists /\ {req[t].actor, req[t].subject} \subseteq accounts)
    /\ Fail(t)

(* updateInvitation: CANCELLED by the sender, the rest by the invitee.     *)
ReadInvitation(t, n, to) ==
    /\ req[t].phase = "idle"
    /\ invitation[n].status = "PENDING"
    /\ to \in InvitationStatus \ {"PENDING"}
    /\ req' = [req EXCEPT ![t] = [Idle EXCEPT !.phase = "checked", !.op = "answer",
                                              !.row = n, !.value = to]]
    /\ UNCHANGED <<Stored, roleHeld, invitationHeld>>

(* setInvitationStatus updates the row by its id alone.                    *)
SetInvitationStatus(t) ==
    LET n == req[t].row
    IN /\ req[t].phase = "checked" /\ req[t].op = "answer" /\ req[t].value # "ACCEPTED"
       /\ invitation[n].status # "NONE" /\ ~Held(n) /\ ~Taken(n, req[t].value)
       /\ invitation' = [invitation EXCEPT ![n].status = req[t].value]
       /\ req' = [req EXCEPT ![t] = Idle]
       /\ UNCHANGED <<exists, accounts, role, roleHeld, invitationHeld, outdated>>

(* acceptInvitation reads the row and its inviter's role, in a transaction.*)
Verify(t) ==
    LET i == invitation[req[t].row]
    IN /\ req[t].phase = "checked" /\ req[t].op = "answer" /\ req[t].value = "ACCEPTED"
       /\ i.status # "NONE"
       /\ role[i.from] \in Administrators
       /\ req' = [req EXCEPT ![t].phase = "verified"]
       /\ UNCHANGED <<Stored, roleHeld, invitationHeld>>

(* The inviter is no administrator any more, or the invitation is too old, *)
(* which any may be at any time.                                           *)
TooOldOrRevoked(t) ==
    /\ req[t].phase = "checked" /\ req[t].op = "answer" /\ req[t].value = "ACCEPTED"
    /\ invitation[req[t].row].status # "NONE"
    /\ Fail(t)

(* Then it updates the row and reads the invitee's current role.           *)
MarkAccepted(t) ==
    LET n == req[t].row
    IN /\ req[t].phase = "verified"
       /\ invitation[n].status # "NONE" /\ ~Held(n) /\ ~Taken(n, "ACCEPTED")
       /\ invitationHeld' = [invitationHeld EXCEPT ![n] = t]
       /\ req' = [req EXCEPT ![t].phase = "accepted", ![t].seen = role[invitation[n].to]]
       /\ UNCHANGED <<Stored, roleHeld>>

(* There is such an invitation with that status already: P2002.            *)
Duplicate(t) ==
    LET n == req[t].row
    IN /\ req[t].phase = "verified" \/ (req[t].phase = "checked" /\ req[t].op = "answer"
                                                                /\ req[t].value # "ACCEPTED")
       /\ invitation[n].status # "NONE" /\ ~Held(n) /\ Taken(n, req[t].value)
       /\ Fail(t)

(* Mutant: the role of the invitation is written whatever it replaces.     *)
UpsertAlways(t) ==
    LET n == req[t].row
        u == invitation[n].to
    IN /\ req[t].phase = "accepted"
       /\ roleHeld[u] = Nobody
       /\ invitation' = [invitation EXCEPT ![n].status = "ACCEPTED"]
       /\ role' = [role EXCEPT ![u] = invitation[n].role] /\ WritesBy(t, u)
       /\ invitationHeld' = Free(invitationHeld, t)
       /\ req' = [req EXCEPT ![t] = Idle]
       /\ UNCHANGED <<exists, accounts, roleHeld>>

(* The upsert, unless the role that was read ranks at least as high.       *)
FinishAccept(t) ==
    LET n == req[t].row
        u == invitation[n].to
        keeps == req[t].seen \in AtLeast(invitation[n].role)
    IN /\ req[t].phase = "accepted"
       /\ keeps \/ roleHeld[u] = Nobody
       /\ invitation' = [invitation EXCEPT ![n].status = "ACCEPTED"]
       /\ IF keeps THEN UNCHANGED <<role, outdated>>
          ELSE role' = [role EXCEPT ![u] = invitation[n].role] /\ WritesBy(t, u)
       /\ invitationHeld' = Free(invitationHeld, t)
       /\ req' = [req EXCEPT ![t] = Idle]
       /\ UNCHANGED <<exists, accounts, roleHeld>>

(* Reading the notifications of u: one statement ignores those in swept,   *)
(* which are PENDING for too long, or fails as a whole.                    *)
IgnoreOld(u, swept) ==
    /\ swept # {}
    /\ \A n \in swept : /\ invitation[n].to = u /\ invitation[n].status = "PENDING"
                        /\ ~Held(n) /\ ~Taken(n, "IGNORED")
    /\ invitation' = [n \in Invitations |->
                        IF n \in swept THEN [invitation[n] EXCEPT !.status = "IGNORED"]
                                       ELSE invitation[n]]
    /\ UNCHANGED <<exists, accounts, role, roleHeld, invitationHeld, req, outdated>>

-----------------------------------------------------------------------------
(* reassignOwnedOrganizations: an ADMIN, else a MEMBER.  That it is the one *)
(* who has been there longest makes no difference here.                    *)
Candidates(u) ==
    LET admins == {v \in Users \ {u} : role[v] = "ADMIN"}
    IN IF admins # {} THEN admins ELSE {v \in Users \ {u} : role[v] = "MEMBER"}

Plan(t) ==
    LET u == req[t].actor
    IN /\ req[t].phase = "guarded" /\ req[t].op = "deleteAccount"
       /\ \/ /\ role[u] # "OWNER"
             /\ req' = [req EXCEPT ![t].phase = "written", ![t].seen = role[u]]
          \/ /\ role[u] = "OWNER" /\ Candidates(u) = {}
             /\ req' = [req EXCEPT ![t].phase = "alone", ![t].seen = role[u]]
          \/ /\ role[u] = "OWNER"
             /\ \E v \in Candidates(u) :
                   req' = [req EXCEPT ![t].phase = "planned", ![t].subject = v,
                                      ![t].seen = role[u]]
       /\ UNCHANGED <<Stored, roleHeld, invitationHeld>>

PromoteSuccessor(t) ==
    LET v == req[t].subject
    IN /\ req[t].phase = "planned"
       /\ roleHeld[v] = Nobody /\ role[v] # "NONE"
       /\ roleHeld' = [roleHeld EXCEPT ![v] = t]
       /\ req' = [req EXCEPT ![t].phase = "written"]
       /\ UNCHANGED <<Stored, invitationHeld>>

(* The cascade takes the role and the invitations of the account.          *)
DeleteAccount(t) ==
    LET u == req[t].actor
        v == req[t].subject
        theirs == {n \in Invitations : u \in {invitation[n].from, invitation[n].to}}
    IN /\ req[t].phase = "written" /\ u \in accounts
       /\ roleHeld[u] = Nobody /\ \A n \in theirs : invitationHeld[n] = Nobody
       /\ accounts' = accounts \ {u}
       /\ role' = [w \in Users |-> IF w = u THEN "NONE" ELSE IF w = v THEN "OWNER" ELSE role[w]]
       /\ WritesBy(t, u)
       /\ invitation' = [n \in Invitations |-> IF n \in theirs THEN Unused ELSE invitation[n]]
       /\ roleHeld' = Free(roleHeld, t)
       /\ req' = [req EXCEPT ![t] = Idle]
       /\ UNCHANGED <<exists, invitationHeld>>

(* The organization goes, with its owner's account or by itself.           *)
RemoveOrganization(t) ==
    LET u == req[t].actor
    IN /\ req[t].phase = "alone" \/ (req[t].phase = "guarded" /\ req[t].op = "remove")
       /\ exists
       /\ \A v \in Users : roleHeld[v] = Nobody
       /\ \A n \in Invitations : invitationHeld[n] = Nobody
       /\ exists' = FALSE
       /\ accounts' = IF req[t].phase = "alone" THEN accounts \ {u} ELSE accounts
       /\ role' = [v \in Users |-> "NONE"]
       /\ invitation' = [n \in Invitations |-> Unused]
       /\ req' = [req EXCEPT ![t] = Idle]
       /\ UNCHANGED <<roleHeld, invitationHeld, outdated>>

(* A deadlock's victim, a timeout, a lost connection.                      *)
Abort(t) ==
    /\ req[t].phase \in {"verified", "demoted", "accepted", "planned", "alone", "written"}
    /\ Fail(t)

-----------------------------------------------------------------------------
Next ==
    \/ \E t \in Requests :
          \/ \E op \in Ops, u \in Users, v \in Users \union {Nobody},
                r \in {"MEMBER", "ADMIN", "NONE"} : Guard(t, op, u, v, r)
          \/ Check(t) \/ Refuse(t) \/ ChangeUserRole(t) \/ DeleteMember(t)
          \/ Demote(t) \/ Promote(t) \/ NotFound(t)
          \/ \E n \in Invitations : CreateInvitation(t, n)
          \/ CreateFails(t)
          \/ \E n \in Invitations, to \in InvitationStatus : ReadInvitation(t, n, to)
          \/ SetInvitationStatus(t) \/ Verify(t) \/ TooOldOrRevoked(t) \/ MarkAccepted(t)
          \/ Duplicate(t) \/ FinishAccept(t)
          \/ Plan(t) \/ PromoteSuccessor(t) \/ DeleteAccount(t) \/ RemoveOrganization(t)
          \/ Abort(t)
    \/ \E u \in Users, swept \in SUBSET Invitations : IgnoreOld(u, swept)

Spec == Init /\ [][Next]_vars
-----------------------------------------------------------------------------
(* "An organization always has an owner", whose account exists: after any  *)
(* sequence of role changes, removals, invitations and account deletions.  *)
AlwaysAnOwner == exists => \E u \in accounts : role[u] = "OWNER"

(* A role belongs to an account and an organization that still exist, and  *)
(* so does an invitation, whatever is deleted while it is accepted.        *)
NothingOutlivesItsAccount ==
    /\ \A u \in Users : role[u] # "NONE" => exists /\ u \in accounts
    /\ \A n \in Invitations :
          invitation[n].status # "NONE" => exists /\ {invitation[n].from, invitation[n].to} \subseteq accounts

(* "Ownership is singular and transfers only through" changeOwner.         *)
OwnershipIsSingular == \A u, v \in Users : role[u] = "OWNER" /\ role[v] = "OWNER" => u = v

(* An organization has exactly one owner, unless a role was written by a   *)
(* request that went by an outdated one, and roles and invitations end     *)
(* with the accounts and the organization they belong to.                  *)
OwnershipInv ==
    /\ TypeOK /\ NothingOutlivesItsAccount
    /\ ~outdated => AlwaysAnOwner /\ OwnershipIsSingular

(* Accepting never demotes: the invitee's role does not drop when the      *)
(* acceptance commits, if it is still the one the acceptance has read.     *)
AcceptNeverDemotes ==
    [][\A t \in Requests :
          FinishAccept(t) => LET u == invitation[req[t].row].to
                             IN role[u] = req[t].seen => role'[u] \in AtLeast(role[u])]_vars

(* "Members can be invited to be admins": whoever is sent an invitation    *)
(* would be raised by it at that moment.                                   *)
InvitationsRaise ==
    [][\A n \in Invitations :
          invitation[n] = Unused /\ invitation'[n] # Unused
             => role[invitation'[n].to] \notin AtLeast(invitation'[n].role)]_vars
=============================================================================
