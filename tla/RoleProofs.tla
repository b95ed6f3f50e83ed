----------------------------- MODULE RoleProofs -----------------------------
(***************************************************************************)
(* Theorems about OrganizationRoles for any users, invitations and number  *)
(* of requests.                                                            *)
(***************************************************************************)
EXTENDS OrganizationRoles, TLAPS

(* What is known of a request that runs from its operation and its phase:  *)
(* above all whether it has read that somebody is the owner.               *)
WellFormed(q) ==
    \/ q.phase = "idle"
    \/ /\ q.phase = "guarded"
       /\ q.op # "answer" /\ q.actor \in Users
       /\ q.op \in {"changeRole", "changeOwner", "deleteMember", "invite"} => q.subject \in Users
       /\ q.op = "deleteAccount" => q.subject = Nobody
       /\ q.op \in {"changeRole", "invite"} => q.value \in {"MEMBER", "ADMIN"}
       /\ q.op = "changeOwner" => q.seen = "OWNER"
    \/ /\ q.phase = "checked" /\ q.op \in {"changeRole", "deleteMember"}
       /\ q.subject \in Users
       /\ q.op = "changeRole" => q.value \in {"MEMBER", "ADMIN"}
       /\ q.seen # "OWNER"
    \/ /\ q.phase \in {"checked", "verified", "accepted"} /\ q.op = "answer"
       /\ q.row \in Invitations /\ q.value \in InvitationStatus
    \/ /\ q.phase = "demoted" /\ q.op = "changeOwner"
       /\ q.actor \in Users /\ q.subject \in Users
       /\ q.seen = "OWNER"
    \/ /\ q.phase \in {"planned", "alone", "written"} /\ q.op = "deleteAccount"
       /\ q.actor \in Users
       /\ q.phase = "planned" => q.subject \in Users
       /\ q.subject # q.actor
       /\ q.phase # "alone" => (q.seen = "OWNER" <=> q.subject # Nobody)

(* A row that is held belongs to a transaction that has written it, and a  *)
(* transaction holds the rows it has written.                              *)
LocksHeld ==
    \A t \in Requests :
        /\ \A u \in Users :
              roleHeld[u] = t <=> \/ req[t].phase = "demoted" /\ req[t].actor = u
                                  \/ req[t].phase = "written" /\ req[t].subject = u
        /\ \A n \in Invitations :
              invitationHeld[n] = t <=> req[t].phase = "accepted" /\ req[t].row = n

(* Nobody else takes away a row that is held.                              *)
HeldThere(q) ==
    /\ q.phase = "demoted" => role[q.actor] # "NONE"
    /\ q.phase = "written" /\ q.subject # Nobody => role[q.subject] # "NONE"
    /\ q.phase = "accepted" => invitation[q.row].status # "NONE"

Sound(q) == WellFormed(q) /\ HeldThere(q)

RolesInv == OwnershipInv /\ LocksHeld /\ \A t \in Requests : Sound(req[t])

LEMMA IdleSound == Idle \in Request /\ Idle.phase = "idle" /\ Sound(Idle) /\ Sound(Idle)'
<1>1. /\ Idle \in Request /\ Idle.phase = "idle"
  BY DEF Idle, Request, Ops
<1> QED
  BY <1>1 DEF Sound, WellFormed, HeldThere

LEMMA InitRoles == Init => RolesInv
<1> SUFFICES ASSUME Init PROVE RolesInv
  OBVIOUS
<1>1. \A t \in Requests : req[t] = Idle
  BY DEF Init
<1>2. PICK creator \in Users : role = [u \in Users |-> IF u = creator THEN "OWNER" ELSE "NONE"]
  BY DEF Init
<1>3. Unused \in Invitation /\ Unused.status = "NONE"
  BY DEF Unused, Invitation
<1>4. TypeOK
  BY IdleSound, <1>2, <1>3 DEF Init, TypeOK, OrganizationRole
<1>5. AlwaysAnOwner /\ OwnershipIsSingular /\ NothingOutlivesItsAccount
  BY <1>2, <1>3 DEF Init, AlwaysAnOwner, OwnershipIsSingular, NothingOutlivesItsAccount
<1>6. LocksHeld
  BY <1>1, IdleSound, RolesAssumption DEF Init, LocksHeld
<1> QED
  BY <1>1, <1>4, <1>5, <1>6, IdleSound DEF RolesInv, OwnershipInv

(* Locks of a request that ends are free, the others are as they were.     *)
LEMMA FreeLocks ==
    ASSUME TypeOK, NEW t \in Requests
    PROVE  /\ Free(roleHeld, t) \in [Users -> Requests \union {Nobody}]
           /\ \A u \in Users, s \in Requests :
                 Free(roleHeld, t)[u] = s <=> s # t /\ roleHeld[u] = s
           /\ Free(invitationHeld, t) \in [Invitations -> Requests \union {Nobody}]
           /\ \A n \in Invitations, s \in Requests :
                 Free(invitationHeld, t)[n] = s <=> s # t /\ invitationHeld[n] = s
BY RolesAssumption DEF Free, TypeOK

(* One request goes on as q, or ends.                                      *)
LEMMA OneMoves ==
    ASSUME RolesInv, NEW t \in Requests, NEW q \in Request, req' = [req EXCEPT ![t] = q]
    PROVE  /\ req' \in [Requests -> Request]
           /\ req'[t] = q /\ \A s \in Requests \ {t} : req'[s] = req[s]
BY DEF RolesInv, OwnershipInv, TypeOK

(* The others stay as they are while the rows they hold are there.         *)
LEMMA OthersSound ==
    ASSUME RolesInv, NEW s \in Requests, req'[s] = req[s],
           \A u \in Users : roleHeld[u] = s /\ role[u] # "NONE" => role'[u] # "NONE",
           \A n \in Invitations : invitationHeld[n] = s /\ invitation[n].status # "NONE"
                                     => invitation'[n].status # "NONE"
    PROVE  Sound(req[s])'
<1>1. WellFormed(req[s]) /\ HeldThere(req[s]) /\ LocksHeld!(s) /\ req[s] \in Request
  BY DEF RolesInv, Sound, LocksHeld, OwnershipInv, TypeOK
<1>2. WellFormed(req[s])'
  BY <1>1 DEF WellFormed
<1>3. HeldThere(req[s])'
  <2>1. CASE req[s].phase = "demoted"
    BY <2>1, <1>1 DEF WellFormed, HeldThere
  <2>2. CASE req[s].phase = "written" /\ req[s].subject # Nobody
    BY <2>2, <1>1 DEF WellFormed, HeldThere, Request
  <2>3. CASE req[s].phase = "accepted"
    BY <2>3, <1>1 DEF WellFormed, HeldThere
  <2> QED BY <2>1, <2>2, <2>3 DEF HeldThere
<1> QED
  BY <1>2, <1>3 DEF Sound

(* A write that is not outdated finds the role that was read.              *)
LEMMA WritesWhatWasRead ==
    ASSUME TypeOK, NEW t \in Requests, NEW u \in Users, WritesBy(t, u)
    PROVE  /\ outdated' \in BOOLEAN
           /\ ~outdated' => ~outdated /\ req[t].seen = role[u]
<1>1. outdated \in BOOLEAN
  BY DEF TypeOK
<1>2. CASE outdated
  BY <1>2 DEF WritesBy
<1>3. CASE ~outdated
  BY <1>3 DEF WritesBy
<1> QED BY <1>1, <1>2, <1>3

LEMMA FailKeeps ==
    ASSUME RolesInv, NEW t \in Requests, Fail(t)
    PROVE  RolesInv'
<1>0. TypeOK
  BY DEF RolesInv, OwnershipInv
<1>1. Idle \in Request /\ Idle.phase = "idle"
  BY IdleSound
<1>2. /\ req' \in [Requests -> Request]
      /\ req'[t] = Idle /\ \A s \in Requests \ {t} : req'[s] = req[s]
  BY <1>1, OneMoves DEF Fail
<1>3. UNCHANGED <<exists, accounts, role, invitation, outdated>>
  BY DEF Fail
<1>4. OwnershipInv'
  BY <1>0, <1>2, <1>3, FreeLocks DEF Fail, RolesInv, OwnershipInv, TypeOK, AlwaysAnOwner,
     OwnershipIsSingular, NothingOutlivesItsAccount
<1>5. LocksHeld'
  BY <1>0, <1>1, <1>2, FreeLocks DEF Fail, RolesInv, LocksHeld
<1>6. ASSUME NEW s \in Requests PROVE Sound(req[s])'
  BY <1>2, <1>3, IdleSound, OthersSound
<1> QED
  BY <1>4, <1>5, <1>6 DEF RolesInv

(***************************************************************************)
(* Steps that read: they change a request and nothing else, and the        *)
(* request holds no row before or after.                                   *)
(***************************************************************************)
LEMMA ReadKeeps ==
    ASSUME RolesInv, NEW t \in Requests, NEW q \in Request, req' = [req EXCEPT ![t] = q],
           UNCHANGED <<Stored, roleHeld, invitationHeld>>,
           req[t].phase \notin {"demoted", "written", "accepted"},
           q.phase \notin {"demoted", "accepted"}, q.phase = "written" => q.subject = Nobody,
           WellFormed(q)
    PROVE  RolesInv'
<1>1. /\ req' \in [Requests -> Request]
      /\ req'[t] = q /\ \A s \in Requests \ {t} : req'[s] = req[s]
  BY OneMoves
<1>2. UNCHANGED <<exists, accounts, role, invitation, outdated, roleHeld, invitationHeld>>
  BY DEF Stored
<1>3. OwnershipInv'
  BY <1>1, <1>2 DEF RolesInv, OwnershipInv, TypeOK, AlwaysAnOwner, OwnershipIsSingular,
     NothingOutlivesItsAccount
<1>4. LocksHeld'
  <2> SUFFICES ASSUME NEW s \in Requests PROVE LocksHeld!(s)'
    BY DEF LocksHeld
  <2>1. CASE s = t
    BY <2>1, <1>1, <1>2, RolesAssumption DEF RolesInv, LocksHeld
  <2>2. CASE s # t
    BY <2>2, <1>1, <1>2 DEF RolesInv, LocksHeld
  <2> QED BY <2>1, <2>2
<1>5. ASSUME NEW s \in Requests PROVE Sound(req[s])'
  <2>1. CASE s = t
    BY <2>1, <1>1 DEF Sound, WellFormed, HeldThere
  <2>2. CASE s # t
    BY <2>2, <1>1, <1>2, OthersSound
  <2> QED BY <2>1, <2>2
<1> QED
  BY <1>3, <1>4, <1>5 DEF RolesInv

LEMMA GuardKeeps ==
    ASSUME RolesInv, NEW t \in Requests,
           NEW op \in Ops, NEW u \in Users, NEW v \in Users \union {Nobody},
           NEW r \in {"MEMBER", "ADMIN", "NONE"}, Guard(t, op, u, v, r)
    PROVE  RolesInv'
<1> DEFINE seen == IF op = "changeOwner" THEN role[u] ELSE "NONE"
           q == [Idle EXCEPT !.phase = "guarded", !.op = op, !.actor = u, !.subject = v,
                             !.value = r, !.seen = seen]
<1>0. seen \in OrganizationRole \union {"NONE"}
  BY DEF RolesInv, OwnershipInv, TypeOK
<1>1. /\ q.phase = "guarded" /\ q.op = op /\ q.actor = u /\ q.subject = v /\ q.value = r
      /\ q.seen = seen /\ q \in Request
  BY <1>0 DEF Idle, Request, OrganizationRole
<1>2. req' = [req EXCEPT ![t] = q] /\ req[t].phase = "idle"
      /\ UNCHANGED <<Stored, roleHeld, invitationHeld>>
  BY DEF Guard
<1>3. WellFormed(q)
  BY <1>1, RolesAssumption DEF Guard, WellFormed, Allowed
<1> HIDE DEF q
<1> QED
  BY <1>1, <1>2, <1>3, ReadKeeps

LEMMA ReadInvitationKeeps ==
    ASSUME RolesInv, NEW t \in Requests,
           NEW n \in Invitations, NEW to \in InvitationStatus, ReadInvitation(t, n, to)
    PROVE  RolesInv'
<1> DEFINE q == [Idle EXCEPT !.phase = "checked", !.op = "answer", !.row = n, !.value = to]
<1>1. /\ q.phase = "checked" /\ q.op = "answer" /\ q.row = n /\ q.value = to /\ q.subject = Nobody
      /\ q \in Request
  BY DEF Idle, Request, Ops
<1>2. req' = [req EXCEPT ![t] = q] /\ req[t].phase = "idle"
      /\ UNCHANGED <<Stored, roleHeld, invitationHeld>>
  BY DEF ReadInvitation
<1>3. WellFormed(q)
  BY <1>1 DEF WellFormed
<1> HIDE DEF q
<1> QED
  BY <1>1, <1>2, <1>3, ReadKeeps

(* A role is changed or taken away only where it was not the owner's.      *)
LEMMA CheckKeeps ==
    ASSUME RolesInv, NEW t \in Requests, Check(t)
    PROVE  RolesInv'
<1> DEFINE seen == role[req[t].subject]
           q == [req[t] EXCEPT !.phase = "checked", !.actor = Nobody, !.seen = seen]
<1>0. /\ req[t] \in Request /\ WellFormed(req[t]) /\ TypeOK
      /\ req[t].phase = "guarded" /\ req[t].op \in {"changeRole", "deleteMember"}
  BY DEF RolesInv, OwnershipInv, TypeOK, Sound, Check
<1>1. req[t].subject \in Users /\ seen \in OrganizationRole \union {"NONE"}
  BY <1>0 DEF WellFormed, TypeOK
<1>2. /\ q.phase = "checked" /\ q.op = req[t].op /\ q.actor = Nobody
      /\ q.subject = req[t].subject /\ q.value = req[t].value /\ q.seen = seen /\ q \in Request
  BY <1>0, <1>1 DEF Request
<1>3. req' = [req EXCEPT ![t] = q] /\ UNCHANGED <<Stored, roleHeld, invitationHeld>>
  BY <1>0 DEF Check, RolesInv, OwnershipInv, TypeOK
<1>4. WellFormed(q)
  BY <1>0, <1>1, <1>2 DEF Check, MayChangeRole, MayDelete, WellFormed
<1> HIDE DEF q
<1> QED
  BY <1>0, <1>2, <1>3, <1>4, ReadKeeps

LEMMA VerifyKeeps ==
    ASSUME RolesInv, NEW t \in Requests, Verify(t)
    PROVE  RolesInv'
<1> DEFINE q == [req[t] EXCEPT !.phase = "verified"]
<1>0. req[t] \in Request
  BY DEF RolesInv, OwnershipInv, TypeOK
<1>1. /\ q.phase = "verified" /\ q.op = req[t].op /\ q.row = req[t].row
      /\ q.value = req[t].value /\ q \in Request
  BY <1>0 DEF Request
<1>2. req' = [req EXCEPT ![t] = q] /\ req[t].phase = "checked"
      /\ UNCHANGED <<Stored, roleHeld, invitationHeld>>
  BY <1>0 DEF Verify, RolesInv, OwnershipInv, TypeOK
<1>3. WellFormed(q)
  BY <1>1 DEF RolesInv, Verify, Sound, WellFormed
<1> HIDE DEF q
<1> QED
  BY <1>1, <1>2, <1>3, ReadKeeps

(* Only an owner's account goes with a successor in its place.             *)
LEMMA PlanKeeps ==
    ASSUME RolesInv, NEW t \in Requests, Plan(t)
    PROVE  RolesInv'
<1> DEFINE u == req[t].actor
<1>0. /\ req[t] \in Request /\ req \in [Requests -> Request]
      /\ req[t].phase = "guarded" /\ req[t].op = "deleteAccount"
      /\ u \in Users /\ req[t].subject = Nobody /\ role[u] \in OrganizationRole \union {"NONE"}
      /\ UNCHANGED <<Stored, roleHeld, invitationHeld>>
  BY DEF RolesInv, OwnershipInv, TypeOK, Plan, Sound, WellFormed
<1> DEFINE Planned(p, v) ==
         /\ req' = [req EXCEPT ![t] = [req[t] EXCEPT !.phase = p, !.subject = v, !.seen = role[u]]]
         /\ p = "written" => v = Nobody /\ role[u] # "OWNER"
         /\ p = "alone" => v = Nobody
         /\ p = "planned" => role[u] = "OWNER" /\ v \in Candidates(u)
<1>1. PICK p \in {"written", "alone", "planned"}, v \in Users \union {Nobody} : Planned(p, v)
  <2>1. ASSUME NEW p \in {"written", "alone"}, req' = [req EXCEPT ![t].phase = p, ![t].seen = role[u]],
               p = "written" => role[u] # "OWNER"
        PROVE  Planned(p, Nobody)
    <3>1. [req[t] EXCEPT !.phase = p, !.seen = role[u]]
            = [req[t] EXCEPT !.phase = p, !.subject = Nobody, !.seen = role[u]]
      BY <1>0 DEF Request
    <3>2. req' = [req EXCEPT ![t] = [req[t] EXCEPT !.phase = p, !.seen = role[u]]]
      BY <2>1, <1>0
    <3> QED BY <3>1, <3>2, <2>1
  <2>2. ASSUME role[u] = "OWNER", NEW v \in Candidates(u),
               req' = [req EXCEPT ![t].phase = "planned", ![t].subject = v, ![t].seen = role[u]]
        PROVE  v \in Users \union {Nobody} /\ Planned("planned", v)
    <3>1. req' = [req EXCEPT ![t] = [req[t] EXCEPT !.phase = "planned", !.subject = v, !.seen = role[u]]]
      BY <2>2, <1>0 DEF Request
    <3> QED BY <3>1, <2>2 DEF Candidates
  <2>3. CASE role[u] # "OWNER" /\ req' = [req EXCEPT ![t].phase = "written", ![t].seen = role[u]]
    BY <2>1, <2>3
  <2>4. CASE req' = [req EXCEPT ![t].phase = "alone", ![t].seen = role[u]]
    BY <2>1, <2>4
  <2> QED BY <2>2, <2>3, <2>4 DEF Plan
<1> DEFINE q == [req[t] EXCEPT !.phase = p, !.subject = v, !.seen = role[u]]
<1>2. /\ q.phase = p /\ q.subject = v /\ q.op = "deleteAccount" /\ q.actor = u /\ q.seen = role[u]
      /\ q \in Request
  BY <1>0 DEF Request
<1>3. p = "planned" => v \in Users /\ v # u /\ role[u] = "OWNER"
  BY <1>1 DEF Candidates
<1>4. WellFormed(q)
  BY <1>0, <1>1, <1>2, <1>3, RolesAssumption DEF WellFormed
<1>5. req' = [req EXCEPT ![t] = q]
  BY <1>1
<1> HIDE DEF q
<1> QED
  BY <1>0, <1>1, <1>2, <1>4, <1>5, ReadKeeps

(***************************************************************************)
(* Steps that write rows before they commit.                               *)
(***************************************************************************)
LEMMA DemoteKeeps ==
    ASSUME RolesInv, NEW t \in Requests, Demote(t)
    PROVE  RolesInv'
<1>0. /\ req[t] \in Request /\ req \in [Requests -> Request]
      /\ req[t].phase = "guarded" /\ req[t].op = "changeOwner"
      /\ roleHeld \in [Users -> Requests \union {Nobody}] /\ TypeOK
      /\ WellFormed(req[t])
  BY DEF RolesInv, OwnershipInv, TypeOK, Demote, Sound
<1> DEFINE q == [req[t] EXCEPT !.phase = "demoted"]
<1>1. /\ q.phase = "demoted" /\ q.op = req[t].op /\ q.actor = req[t].actor /\ q.subject = req[t].subject
      /\ q.row = req[t].row /\ q.value = req[t].value /\ q.seen = req[t].seen /\ q \in Request
      /\ req' = [req EXCEPT ![t] = q]
  BY <1>0 DEF Demote, Request
<1> HIDE DEF q
<1>2. /\ req' \in [Requests -> Request]
      /\ req'[t].phase = "demoted" /\ req'[t].op = req[t].op /\ req'[t].actor = req[t].actor
      /\ req'[t].subject = req[t].subject /\ req'[t].seen = req[t].seen
      /\ \A s \in Requests \ {t} : req'[s] = req[s]
  BY <1>0, <1>1, OneMoves
<1>3. /\ req[t].actor \in Users /\ req[t].subject \in Users
      /\ roleHeld[req[t].actor] = Nobody /\ roleHeld' = [roleHeld EXCEPT ![req[t].actor] = t]
      /\ role[req[t].actor] # "NONE"
      /\ UNCHANGED <<exists, accounts, role, invitation, invitationHeld, outdated>>
  BY <1>0 DEF Demote, WellFormed, Stored
<1>4. OwnershipInv'
  BY <1>0, <1>2, <1>3 DEF RolesInv, OwnershipInv, TypeOK, AlwaysAnOwner, OwnershipIsSingular,
     NothingOutlivesItsAccount
<1>5. LocksHeld'
  <2> SUFFICES ASSUME NEW s \in Requests PROVE LocksHeld!(s)'
    BY DEF LocksHeld
  <2>1. CASE s = t
    BY <2>1, <1>0, <1>2, <1>3, RolesAssumption DEF RolesInv, LocksHeld
  <2>2. CASE s # t
    BY <2>2, <1>0, <1>2, <1>3, RolesAssumption DEF RolesInv, LocksHeld
  <2> QED BY <2>1, <2>2
<1>6. ASSUME NEW s \in Requests PROVE Sound(req[s])'
  <2>1. CASE s = t
    BY <2>1, <1>0, <1>2, <1>3 DEF Sound, WellFormed, HeldThere
  <2>2. CASE s # t
    BY <2>2, <1>2, <1>3, OthersSound
  <2> QED BY <2>1, <2>2
<1> QED
  BY <1>4, <1>5, <1>6 DEF RolesInv

LEMMA PromoteSuccessorKeeps ==
    ASSUME RolesInv, NEW t \in Requests, PromoteSuccessor(t)
    PROVE  RolesInv'
<1>0. /\ req[t] \in Request /\ req \in [Requests -> Request] /\ req[t].phase = "planned"
      /\ roleHeld \in [Users -> Requests \union {Nobody}] /\ TypeOK
      /\ WellFormed(req[t])
  BY DEF RolesInv, OwnershipInv, TypeOK, PromoteSuccessor, Sound
<1> DEFINE q == [req[t] EXCEPT !.phase = "written"]
<1>1. /\ q.phase = "written" /\ q.op = req[t].op /\ q.actor = req[t].actor /\ q.subject = req[t].subject
      /\ q.row = req[t].row /\ q.value = req[t].value /\ q.seen = req[t].seen /\ q \in Request
      /\ req' = [req EXCEPT ![t] = q]
  BY <1>0 DEF PromoteSuccessor, Request
<1> HIDE DEF q
<1>2. /\ req' \in [Requests -> Request]
      /\ req'[t].phase = "written" /\ req'[t].op = req[t].op /\ req'[t].actor = req[t].actor
      /\ req'[t].subject = req[t].subject /\ req'[t].seen = req[t].seen
      /\ \A s \in Requests \ {t} : req'[s] = req[s]
  BY <1>0, <1>1, OneMoves
<1>3. /\ req[t].actor \in Users /\ req[t].subject \in Users /\ req[t].subject # req[t].actor
      /\ req[t].op = "deleteAccount" /\ role[req[t].subject] # "NONE"
      /\ req[t].seen = "OWNER" <=> req[t].subject # Nobody
      /\ roleHeld[req[t].subject] = Nobody /\ roleHeld' = [roleHeld EXCEPT ![req[t].subject] = t]
      /\ UNCHANGED <<exists, accounts, role, invitation, invitationHeld, outdated>>
  BY <1>0 DEF PromoteSuccessor, WellFormed, Stored
<1>4. OwnershipInv'
  BY <1>0, <1>2, <1>3 DEF RolesInv, OwnershipInv, TypeOK, AlwaysAnOwner, OwnershipIsSingular,
     NothingOutlivesItsAccount
<1>5. LocksHeld'
  <2> SUFFICES ASSUME NEW s \in Requests PROVE LocksHeld!(s)'
    BY DEF LocksHeld
  <2>1. CASE s = t
    BY <2>1, <1>0, <1>2, <1>3, RolesAssumption DEF RolesInv, LocksHeld
  <2>2. CASE s # t
    BY <2>2, <1>0, <1>2, <1>3, RolesAssumption DEF RolesInv, LocksHeld
  <2> QED BY <2>1, <2>2
<1>6. ASSUME NEW s \in Requests PROVE Sound(req[s])'
  <2>1. CASE s = t
    BY <2>1, <1>0, <1>2, <1>3 DEF Sound, WellFormed, HeldThere
  <2>2. CASE s # t
    BY <2>2, <1>2, <1>3, OthersSound
  <2> QED BY <2>1, <2>2
<1> QED
  BY <1>4, <1>5, <1>6 DEF RolesInv

LEMMA MarkAcceptedKeeps ==
    ASSUME RolesInv, NEW t \in Requests, MarkAccepted(t)
    PROVE  RolesInv'
<1> DEFINE n == req[t].row
           seen == role[invitation[n].to]
<1>0. /\ req[t] \in Request /\ req \in [Requests -> Request] /\ req[t].phase = "verified"
      /\ invitationHeld \in [Invitations -> Requests \union {Nobody}] /\ TypeOK
      /\ WellFormed(req[t])
  BY DEF RolesInv, OwnershipInv, TypeOK, MarkAccepted, Sound
<1>1. /\ n \in Invitations /\ req[t].op = "answer" /\ req[t].value \in InvitationStatus
      /\ invitation[n].status # "NONE" /\ ~Held(n)
      /\ invitationHeld' = [invitationHeld EXCEPT ![n] = t]
      /\ UNCHANGED <<exists, accounts, role, invitation, roleHeld, outdated>>
  BY <1>0 DEF MarkAccepted, WellFormed, Stored
<1>2. invitationHeld[n] = Nobody
  BY <1>0, <1>1 DEF Held, TypeOK, Invitation
<1>3. invitation[n].to \in accounts /\ invitation[n].to \in Users
      /\ seen \in OrganizationRole \union {"NONE"}
  BY <1>0, <1>1 DEF RolesInv, OwnershipInv, NothingOutlivesItsAccount, TypeOK
<1> DEFINE q == [req[t] EXCEPT !.phase = "accepted", !.seen = seen]
<1>4. /\ q.phase = "accepted" /\ q.op = req[t].op /\ q.actor = req[t].actor /\ q.subject = req[t].subject
      /\ q.row = req[t].row /\ q.value = req[t].value /\ q.seen = seen /\ q \in Request
      /\ req' = [req EXCEPT ![t] = q]
  BY <1>0, <1>3 DEF MarkAccepted, Request
<1> HIDE DEF q
<1>5. /\ req' \in [Requests -> Request]
      /\ req'[t].phase = "accepted" /\ req'[t].op = req[t].op /\ req'[t].row = n
      /\ req'[t].value = req[t].value
      /\ \A s \in Requests \ {t} : req'[s] = req[s]
  BY <1>0, <1>3, <1>4, OneMoves
<1>6. OwnershipInv'
  BY <1>0, <1>1, <1>5 DEF RolesInv, OwnershipInv, TypeOK, AlwaysAnOwner, OwnershipIsSingular,
     NothingOutlivesItsAccount
<1>7. LocksHeld'
  <2> SUFFICES ASSUME NEW s \in Requests PROVE LocksHeld!(s)'
    BY DEF LocksHeld
  <2>1. CASE s = t
    BY <2>1, <1>0, <1>1, <1>2, <1>5, RolesAssumption DEF RolesInv, LocksHeld
  <2>2. CASE s # t
    BY <2>2, <1>0, <1>1, <1>2, <1>5, RolesAssumption DEF RolesInv, LocksHeld
  <2> QED BY <2>1, <2>2
<1>8. ASSUME NEW s \in Requests PROVE Sound(req[s])'
  <2>1. CASE s = t
    BY <2>1, <1>0, <1>1, <1>5 DEF Sound, WellFormed, HeldThere
  <2>2. CASE s # t
    BY <2>2, <1>1, <1>5, OthersSound
  <2> QED BY <2>1, <2>2
<1> QED
  BY <1>6, <1>7, <1>8 DEF RolesInv

(***************************************************************************)
(* Steps that commit.                                                      *)
(***************************************************************************)
(* Whose role was not the owner's when it was read has not got it since,   *)
(* or the write is an outdated one.                                        *)
LEMMA OneRoleKeeps ==
    ASSUME RolesInv, NEW t \in Requests, ChangeUserRole(t) \/ DeleteMember(t)
    PROVE  RolesInv'
<1> DEFINE v == req[t].subject
<1>0. /\ TypeOK /\ WellFormed(req[t])
      /\ req[t].phase = "checked" /\ req[t].op \in {"changeRole", "deleteMember"}
      /\ req' = [req EXCEPT ![t] = Idle] /\ roleHeld[v] = Nobody /\ role[v] # "NONE"
      /\ WritesBy(t, v)
      /\ UNCHANGED <<exists, accounts, invitation, roleHeld, invitationHeld>>
  BY DEF RolesInv, OwnershipInv, ChangeUserRole, DeleteMember, Sound
<1>1. v \in Users /\ req[t].seen # "OWNER"
  BY <1>0 DEF WellFormed
<1>2. PICK r \in {"MEMBER", "ADMIN", "NONE"} : role' = [role EXCEPT ![v] = r]
  BY <1>0 DEF ChangeUserRole, DeleteMember, WellFormed
<1>3. role \in [Users -> OrganizationRole \union {"NONE"}]
      /\ role' \in [Users -> OrganizationRole \union {"NONE"}]
      /\ role'[v] # "OWNER" /\ \A u \in Users \ {v} : role'[u] = role[u]
  BY <1>0, <1>1, <1>2 DEF TypeOK, OrganizationRole
<1>4. /\ req' \in [Requests -> Request]
      /\ req'[t] = Idle /\ \A s \in Requests \ {t} : req'[s] = req[s]
  BY <1>0, IdleSound, OneMoves
<1>5. TypeOK'
  BY <1>0, <1>3, <1>4 DEF TypeOK, WritesBy
<1>6. NothingOutlivesItsAccount'
  BY <1>0, <1>1, <1>3 DEF RolesInv, OwnershipInv, NothingOutlivesItsAccount
<1>7. ~outdated' => AlwaysAnOwner' /\ OwnershipIsSingular'
  <2> SUFFICES ASSUME ~outdated' PROVE AlwaysAnOwner' /\ OwnershipIsSingular'
    OBVIOUS
  <2>1. AlwaysAnOwner /\ OwnershipIsSingular /\ role[v] # "OWNER"
    BY <1>0, <1>1, WritesWhatWasRead DEF RolesInv, OwnershipInv
  <2> HIDE DEF v
  <2> QED
    BY <2>1, <1>0, <1>3 DEF AlwaysAnOwner, OwnershipIsSingular, TypeOK
<1>8. LocksHeld'
  BY <1>0, <1>4, IdleSound DEF RolesInv, LocksHeld
<1>9. ASSUME NEW s \in Requests PROVE Sound(req[s])'
  BY <1>0, <1>1, <1>3, <1>4, IdleSound, OthersSound, RolesAssumption
<1> QED
  BY <1>5, <1>6, <1>7, <1>8, <1>9 DEF RolesInv, OwnershipInv

(* The ownership is transferred by who has it, or by an outdated write.    *)
LEMMA PromoteKeeps ==
    ASSUME RolesInv, NEW t \in Requests, Promote(t)
    PROVE  RolesInv'
<1> DEFINE u == req[t].actor
           v == req[t].subject
<1>0. /\ TypeOK /\ WellFormed(req[t]) /\ HeldThere(req[t]) /\ req[t].phase = "demoted"
      /\ req' = [req EXCEPT ![t] = Idle] /\ role[v] # "NONE" /\ roleHeld[v] \in {Nobody, t}
      /\ role' = [role EXCEPT ![u] = "ADMIN", ![v] = "OWNER"] /\ roleHeld' = Free(roleHeld, t)
      /\ WritesBy(t, u)
      /\ UNCHANGED <<exists, accounts, invitation, invitationHeld>>
  BY DEF RolesInv, OwnershipInv, Promote, Sound
<1>1. u \in Users /\ v \in Users /\ req[t].seen = "OWNER" /\ role[u] # "NONE"
  BY <1>0 DEF WellFormed, HeldThere
<1>2. /\ role \in [Users -> OrganizationRole \union {"NONE"}]
      /\ role' \in [Users -> OrganizationRole \union {"NONE"}]
      /\ role'[v] = "OWNER" /\ \A w \in Users \ {u, v} : role'[w] = role[w]
      /\ u # v => role'[u] = "ADMIN"
  BY <1>0, <1>1 DEF TypeOK, OrganizationRole
<1>3. /\ req' \in [Requests -> Request]
      /\ req'[t] = Idle /\ \A s \in Requests \ {t} : req'[s] = req[s]
  BY <1>0, IdleSound, OneMoves
<1>4. TypeOK'
  BY <1>0, <1>2, <1>3, FreeLocks DEF TypeOK, WritesBy
<1>5. NothingOutlivesItsAccount'
  BY <1>0, <1>1, <1>2 DEF RolesInv, OwnershipInv, NothingOutlivesItsAccount
<1>6. ~outdated' => AlwaysAnOwner' /\ OwnershipIsSingular'
  BY <1>0, <1>1, <1>2, WritesWhatWasRead DEF RolesInv, OwnershipInv, AlwaysAnOwner, OwnershipIsSingular,
     NothingOutlivesItsAccount
<1>7. LocksHeld'
  BY <1>0, <1>3, IdleSound, FreeLocks DEF RolesInv, LocksHeld
<1>8. ASSUME NEW s \in Requests PROVE Sound(req[s])'
  BY <1>0, <1>1, <1>2, <1>3, IdleSound, OthersSound
<1> QED
  BY <1>4, <1>5, <1>6, <1>7, <1>8 DEF RolesInv, OwnershipInv

LEMMA CreateInvitationKeeps ==
    ASSUME RolesInv, NEW t \in Requests, NEW n \in Invitations, CreateInvitation(t, n)
    PROVE  RolesInv'
<1> DEFINE r == RoleAsked(req[t].subject, req[t].value)
           row == [status |-> "PENDING", from |-> req[t].actor, to |-> req[t].subject, role |-> r]
<1>0. /\ TypeOK /\ WellFormed(req[t]) /\ req[t].phase = "guarded" /\ req[t].op = "invite"
      /\ req' = [req EXCEPT ![t] = Idle] /\ exists /\ {req[t].actor, req[t].subject} \subseteq accounts
      /\ invitation[n] = Unused
      /\ UNCHANGED <<exists, accounts, role, roleHeld, invitationHeld, outdated>>
  BY DEF RolesInv, OwnershipInv, CreateInvitation, Sound
<1>1. \/ invitation' = invitation
      \/ invitation' = [invitation EXCEPT ![n] = row] /\ r \in {"MEMBER", "ADMIN"}
  BY <1>0 DEF CreateInvitation, RoleAsked, WellFormed
<1>2. /\ req' \in [Requests -> Request]
      /\ req'[t] = Idle /\ \A s \in Requests \ {t} : req'[s] = req[s]
  BY <1>0, IdleSound, OneMoves
<1>3. /\ invitation' \in [Invitations -> Invitation]
      /\ \A m \in Invitations \ {n} : invitation'[m] = invitation[m]
      /\ invitation'[n] = invitation[n] \/
         (invitation'[n].from = req[t].actor /\ invitation'[n].to = req[t].subject)
  BY <1>0, <1>1 DEF TypeOK, WellFormed, Invitation, InvitationStatus
<1>4. TypeOK'
  BY <1>0, <1>2, <1>3 DEF TypeOK
<1>5. NothingOutlivesItsAccount' /\ (~outdated' => AlwaysAnOwner' /\ OwnershipIsSingular')
  BY <1>0, <1>3 DEF RolesInv, OwnershipInv, AlwaysAnOwner, OwnershipIsSingular,
     NothingOutlivesItsAccount
<1>6. LocksHeld'
  BY <1>0, <1>2, IdleSound DEF RolesInv, LocksHeld
<1>7. Unused.status = "NONE"
  BY DEF Unused
<1>8. ASSUME NEW s \in Requests PROVE Sound(req[s])'
  BY <1>0, <1>2, <1>3, <1>7, IdleSound, OthersSound
<1> QED
  BY <1>4, <1>5, <1>6, <1>8 DEF RolesInv, OwnershipInv

(* Whatever gives invitations that somebody has been sent another status.  *)
LEMMA StatusesType ==
    ASSUME TypeOK, NothingOutlivesItsAccount, NEW R \in SUBSET Invitations,
           NEW status \in InvitationStatus, \A n \in R : invitation[n].status # "NONE",
           invitation' = [n \in Invitations |-> IF n \in R THEN [invitation[n] EXCEPT !.status = status]
                                                           ELSE invitation[n]],
           UNCHANGED <<exists, accounts>>
    PROVE  /\ invitation' \in [Invitations -> Invitation]
           /\ \A n \in Invitations : /\ invitation'[n].to = invitation[n].to
                                      /\ invitation'[n].from = invitation[n].from
                                      /\ invitation'[n].status = "NONE" <=> invitation[n].status = "NONE"
<1>1. ASSUME NEW n \in Invitations
      PROVE  /\ invitation'[n] \in Invitation
             /\ invitation'[n].to = invitation[n].to /\ invitation'[n].from = invitation[n].from
             /\ invitation'[n].status = "NONE" <=> invitation[n].status = "NONE"
  BY DEF TypeOK, Invitation, InvitationStatus
<1> QED
  BY <1>1

(* One request ends, or none moves, and invitations change their status.   *)
LEMMA StatusesKeep ==
    ASSUME RolesInv, NEW R \in SUBSET Invitations, NEW status \in InvitationStatus,
           \A n \in R : invitation[n].status # "NONE",
           invitation' = [n \in Invitations |-> IF n \in R THEN [invitation[n] EXCEPT !.status = status]
                                                           ELSE invitation[n]],
           UNCHANGED <<exists, accounts, role, roleHeld, outdated>>,
           NEW t,
           \/ UNCHANGED <<req, invitationHeld>>
           \/ /\ t \in Requests /\ req' = [req EXCEPT ![t] = Idle]
              /\ invitationHeld' = Free(invitationHeld, t)
              /\ req[t].phase \notin {"demoted", "written"}
    PROVE  RolesInv'
<1>0. TypeOK /\ NothingOutlivesItsAccount /\ req \in [Requests -> Request]
  BY DEF RolesInv, OwnershipInv, TypeOK
<1>1. /\ invitation' \in [Invitations -> Invitation]
      /\ \A n \in Invitations : /\ invitation'[n].to = invitation[n].to
                                 /\ invitation'[n].from = invitation[n].from
                                 /\ invitation'[n].status = "NONE" <=> invitation[n].status = "NONE"
  BY <1>0, StatusesType
<1>2. /\ req' \in [Requests -> Request]
      /\ \A s \in Requests : req'[s] = req[s] \/ (s = t /\ req'[s] = Idle)
  <2>1. CASE UNCHANGED req
    BY <2>1, <1>0
  <2>2. CASE t \in Requests /\ req' = [req EXCEPT ![t] = Idle]
    BY <2>2, IdleSound, OneMoves
  <2> QED BY <2>1, <2>2
<1>3. TypeOK'
  BY <1>0, <1>1, <1>2, FreeLocks DEF TypeOK
<1>4. NothingOutlivesItsAccount' /\ (~outdated' => AlwaysAnOwner' /\ OwnershipIsSingular')
  BY <1>0, <1>1 DEF RolesInv, OwnershipInv, AlwaysAnOwner, OwnershipIsSingular,
     NothingOutlivesItsAccount
<1>5. LocksHeld'
  BY <1>0, IdleSound, FreeLocks DEF RolesInv, LocksHeld
<1>6. ASSUME NEW s \in Requests PROVE Sound(req[s])'
  BY <1>1, <1>2, IdleSound, OthersSound
<1> QED
  BY <1>3, <1>4, <1>5, <1>6 DEF RolesInv, OwnershipInv

LEMMA SetInvitationStatusKeeps ==
    ASSUME RolesInv, NEW t \in Requests, SetInvitationStatus(t)
    PROVE  RolesInv'
<1> DEFINE n == req[t].row
<1>0. /\ TypeOK /\ WellFormed(req[t]) /\ req[t].phase = "checked" /\ req[t].op = "answer"
      /\ invitation[n].status # "NONE" /\ req' = [req EXCEPT ![t] = Idle]
      /\ invitation' = [invitation EXCEPT ![n].status = req[t].value]
      /\ UNCHANGED <<exists, accounts, role, roleHeld, invitationHeld, outdated>>
  BY DEF RolesInv, OwnershipInv, SetInvitationStatus, Sound
<1>1. n \in Invitations /\ req[t].value \in InvitationStatus
  BY <1>0 DEF WellFormed
<1> DEFINE R == {n}
<1>2. /\ R \in SUBSET Invitations /\ \A m \in R : invitation[m].status # "NONE"
      /\ invitation' = [m \in Invitations |-> IF m \in R THEN [invitation[m] EXCEPT !.status = req[t].value]
                                                       ELSE invitation[m]]
  BY <1>0, <1>1 DEF TypeOK
<1> HIDE DEF R
<1>3. invitationHeld' = Free(invitationHeld, t)
  <2>1. \A m \in Invitations : invitationHeld[m] # t
    BY <1>0 DEF RolesInv, LocksHeld
  <2> QED BY <2>1, <1>0 DEF TypeOK, Free
<1> QED
  BY <1>0, <1>1, <1>2, <1>3, StatusesKeep

LEMMA IgnoreOldKeeps ==
    ASSUME RolesInv, NEW u \in Users, NEW swept \in SUBSET Invitations, IgnoreOld(u, swept)
    PROVE  RolesInv'
<1>1. \A n \in swept : invitation[n].status # "NONE"
  BY DEF IgnoreOld
<1>2. "IGNORED" \in InvitationStatus
  BY DEF InvitationStatus
<1> QED
  BY <1>1, <1>2, StatusesKeep DEF IgnoreOld

(* An acceptance that writes does so over less than it brings, as long as  *)
(* that is what it has read.                                               *)
LEMMA Raises ==
    ASSUME RolesInv, NEW t \in Requests, FinishAccept(t)
    PROVE  LET u == invitation[req[t].row].to
           IN /\ req[t].row \in Invitations /\ u \in accounts /\ u \in Users /\ exists
              /\ role' \in [Users -> OrganizationRole \union {"NONE"}]
              /\ role[u] # "NONE" => role'[u] # "NONE"
              /\ role[u] = req[t].seen => role'[u] \in AtLeast(role[u])
              /\ outdated' \in BOOLEAN /\ (~outdated' => ~outdated)
              /\ ~outdated' => (role[u] = "OWNER" <=> role'[u] = "OWNER")
              /\ \A w \in Users \ {u} : role'[w] = role[w]
<1> DEFINE n == req[t].row
           u == invitation[n].to
<1>0. /\ TypeOK /\ WellFormed(req[t]) /\ HeldThere(req[t]) /\ req[t].phase = "accepted"
  BY DEF RolesInv, OwnershipInv, FinishAccept, Sound
<1>1. n \in Invitations /\ invitation[n].status # "NONE"
  BY <1>0 DEF WellFormed, HeldThere
<1>2. u \in accounts /\ u \in Users /\ exists /\ invitation[n].role \in {"MEMBER", "ADMIN"}
      /\ req[t].seen \in OrganizationRole \union {"NONE"} /\ outdated \in BOOLEAN
      /\ role \in [Users -> OrganizationRole \union {"NONE"}]
  BY <1>0, <1>1 DEF RolesInv, OwnershipInv, NothingOutlivesItsAccount, TypeOK, Invitation, Request
<1>3. CASE req[t].seen \in AtLeast(invitation[n].role)
  <2>1. UNCHANGED <<role, outdated>>
    BY <1>3 DEF FinishAccept
  <2>2. role[u] \in AtLeast(role[u])
    BY <1>2 DEF AtLeast, OrganizationRole, Administrators
  <2> QED
    BY <2>1, <2>2, <1>1, <1>2
<1>4. CASE req[t].seen \notin AtLeast(invitation[n].role)
  <2>1. role' = [role EXCEPT ![u] = invitation[n].role] /\ WritesBy(t, u)
    BY <1>4 DEF FinishAccept
  <2>2. /\ req[t].seen \in {"NONE", "MEMBER"}
        /\ invitation[n].role = "MEMBER" => req[t].seen = "NONE"
    BY <1>2, <1>4 DEF AtLeast, OrganizationRole, Administrators
  <2>3. invitation[n].role \in AtLeast(req[t].seen)
    BY <2>2, <1>2 DEF AtLeast, OrganizationRole, Administrators
  <2> QED
    BY <2>1, <2>2, <2>3, <1>1, <1>2 DEF OrganizationRole, WritesBy
<1> QED BY <1>3, <1>4

LEMMA FinishAcceptKeeps ==
    ASSUME RolesInv, NEW t \in Requests, FinishAccept(t)
    PROVE  RolesInv'
<1> DEFINE n == req[t].row
           u == invitation[n].to
<1>0. /\ TypeOK /\ NothingOutlivesItsAccount /\ WellFormed(req[t]) /\ HeldThere(req[t])
      /\ req[t].phase = "accepted" /\ req' = [req EXCEPT ![t] = Idle]
      /\ invitation' = [invitation EXCEPT ![n].status = "ACCEPTED"]
      /\ invitationHeld' = Free(invitationHeld, t)
      /\ UNCHANGED <<exists, accounts, roleHeld>>
  BY DEF RolesInv, OwnershipInv, FinishAccept, Sound
<1>1. /\ n \in Invitations /\ u \in accounts /\ u \in Users /\ exists
      /\ role' \in [Users -> OrganizationRole \union {"NONE"}]
      /\ role[u] # "NONE" => role'[u] # "NONE"
      /\ outdated' \in BOOLEAN /\ (~outdated' => ~outdated)
      /\ ~outdated' => (role[u] = "OWNER" <=> role'[u] = "OWNER")
      /\ \A w \in Users \ {u} : role'[w] = role[w]
  BY Raises
<1> DEFINE R == {n}
<1>2. /\ R \in SUBSET Invitations /\ \A m \in R : invitation[m].status # "NONE"
      /\ invitation' = [m \in Invitations |-> IF m \in R THEN [invitation[m] EXCEPT !.status = "ACCEPTED"]
                                                       ELSE invitation[m]]
      /\ "ACCEPTED" \in InvitationStatus
  BY <1>0, <1>1 DEF TypeOK, HeldThere, InvitationStatus
<1> HIDE DEF R
<1>3. /\ invitation' \in [Invitations -> Invitation]
      /\ \A m \in Invitations : /\ invitation'[m].to = invitation[m].to
                                 /\ invitation'[m].from = invitation[m].from
                                 /\ invitation'[m].status = "NONE" <=> invitation[m].status = "NONE"
  BY <1>0, <1>1, <1>2, StatusesType
<1>4. /\ req' \in [Requests -> Request]
      /\ req'[t] = Idle /\ \A s \in Requests \ {t} : req'[s] = req[s]
  BY <1>0, IdleSound, OneMoves
<1>5. TypeOK'
  BY <1>0, <1>1, <1>3, <1>4, FreeLocks DEF TypeOK
<1>6. ~outdated' => AlwaysAnOwner' /\ OwnershipIsSingular'
  BY <1>0, <1>1 DEF RolesInv, OwnershipInv, AlwaysAnOwner, OwnershipIsSingular, TypeOK
<1>7. NothingOutlivesItsAccount'
  BY <1>0, <1>1, <1>3 DEF NothingOutlivesItsAccount
<1>8. LocksHeld'
  BY <1>0, <1>4, IdleSound, FreeLocks DEF RolesInv, LocksHeld
<1>9. \A w \in Users : role[w] # "NONE" => role'[w] # "NONE"
  BY <1>1
<1>10. ASSUME NEW m \in Invitations, invitation[m].status # "NONE"
       PROVE  invitation'[m].status # "NONE"
  BY <1>0, <1>1, <1>10 DEF TypeOK, Invitation
<1>11. ASSUME NEW s \in Requests PROVE Sound(req[s])'
  BY <1>4, <1>9, <1>10, IdleSound, OthersSound
<1> QED
  BY <1>5, <1>6, <1>7, <1>8, <1>11 DEF RolesInv, OwnershipInv

(* The account of an owner goes with a successor in place, or with the     *)
(* organization, unless the plan is outdated.                              *)
LEMMA DeleteAccountKeeps ==
    ASSUME RolesInv, NEW t \in Requests, DeleteAccount(t)
    PROVE  RolesInv'
<1> DEFINE u == req[t].actor
           v == req[t].subject
           theirs == {n \in Invitations : u \in {invitation[n].from, invitation[n].to}}
<1>0. /\ TypeOK /\ NothingOutlivesItsAccount /\ WellFormed(req[t]) /\ HeldThere(req[t])
      /\ req[t].phase = "written" /\ req' = [req EXCEPT ![t] = Idle]
      /\ roleHeld[u] = Nobody /\ \A n \in theirs : invitationHeld[n] = Nobody
      /\ accounts' = accounts \ {u} /\ WritesBy(t, u)
      /\ role' = [w \in Users |-> IF w = u THEN "NONE" ELSE IF w = v THEN "OWNER" ELSE role[w]]
      /\ invitation' = [n \in Invitations |-> IF n \in theirs THEN Unused ELSE invitation[n]]
      /\ roleHeld' = Free(roleHeld, t)
      /\ UNCHANGED <<exists, invitationHeld>>
  BY DEF RolesInv, OwnershipInv, DeleteAccount, Sound
<1>1. /\ u \in Users /\ u # v /\ v \in Users \union {Nobody}
      /\ v = Nobody => req[t].seen # "OWNER"
      /\ v # Nobody => v \in Users /\ req[t].seen = "OWNER" /\ role[v] # "NONE"
  BY <1>0 DEF WellFormed, HeldThere, TypeOK, Request
<1>2. Unused \in Invitation /\ Unused.status = "NONE"
  BY DEF Unused, Invitation
<1>3. /\ role' \in [Users -> OrganizationRole \union {"NONE"}]
      /\ invitation' \in [Invitations -> Invitation]
      /\ accounts' \subseteq Users
  BY <1>0, <1>2 DEF TypeOK, OrganizationRole
<1>4. /\ req' \in [Requests -> Request]
      /\ req'[t] = Idle /\ \A s \in Requests \ {t} : req'[s] = req[s]
  BY <1>0, IdleSound, OneMoves
<1>5. TypeOK'
  BY <1>0, <1>3, <1>4, FreeLocks DEF TypeOK, WritesBy
<1>6. ~outdated' => AlwaysAnOwner' /\ OwnershipIsSingular'
  <2> SUFFICES ASSUME ~outdated' PROVE AlwaysAnOwner' /\ OwnershipIsSingular'
    OBVIOUS
  <2>1. AlwaysAnOwner /\ OwnershipIsSingular /\ req[t].seen = role[u]
    BY <1>0, <1>1, WritesWhatWasRead DEF RolesInv, OwnershipInv
  <2>2. CASE v = Nobody
    BY <2>1, <2>2, <1>0, <1>1, RolesAssumption DEF AlwaysAnOwner, OwnershipIsSingular, TypeOK
  <2>3. CASE v # Nobody
    <3>1. v \in accounts'
      BY <2>3, <1>0, <1>1 DEF NothingOutlivesItsAccount
    <3>2. \A w \in Users : role'[w] = "OWNER" => w = v
      BY <2>1, <2>3, <1>0, <1>1 DEF OwnershipIsSingular
    <3>3. role'[v] = "OWNER"
      BY <2>3, <1>0, <1>1
    <3> HIDE DEF v
    <3> QED
      BY <3>1, <3>2, <3>3 DEF AlwaysAnOwner, OwnershipIsSingular
  <2> QED BY <2>2, <2>3
<1>7. NothingOutlivesItsAccount'
  <2>1. \A w \in Users : role'[w] # "NONE" => exists' /\ w \in accounts'
    BY <1>0, <1>1, RolesAssumption DEF NothingOutlivesItsAccount
  <2>2. ASSUME NEW n \in Invitations, invitation'[n].status # "NONE"
        PROVE  exists' /\ {invitation'[n].from, invitation'[n].to} \subseteq accounts'
    BY <2>2, <1>0, <1>2 DEF NothingOutlivesItsAccount
  <2> QED BY <2>1, <2>2 DEF NothingOutlivesItsAccount
<1>8. LocksHeld'
  BY <1>0, <1>4, IdleSound, FreeLocks DEF RolesInv, LocksHeld
<1>9. ASSUME NEW s \in Requests PROVE Sound(req[s])'
  <2>1. CASE s = t
    BY <2>1, <1>4, IdleSound
  <2>2. CASE s # t
    <3>1. \A w \in Users : roleHeld[w] = s /\ role[w] # "NONE" => role'[w] # "NONE"
      BY <1>0, <1>1, RolesAssumption
    <3>2. \A n \in Invitations : invitationHeld[n] = s /\ invitation[n].status # "NONE"
                                   => invitation'[n].status # "NONE"
      BY <1>0, RolesAssumption
    <3> QED
      BY <2>2, <3>1, <3>2, <1>4, OthersSound
  <2> QED BY <2>1, <2>2
<1> QED
  BY <1>5, <1>6, <1>7, <1>8, <1>9 DEF RolesInv, OwnershipInv

LEMMA RemoveOrganizationKeeps ==
    ASSUME RolesInv, NEW t \in Requests, RemoveOrganization(t)
    PROVE  RolesInv'
<1>0. /\ TypeOK /\ req' = [req EXCEPT ![t] = Idle]
      /\ req[t].phase = "alone" \/ (req[t].phase = "guarded" /\ req[t].op = "remove")
      /\ \A v \in Users : roleHeld[v] = Nobody
      /\ \A n \in Invitations : invitationHeld[n] = Nobody
      /\ exists' = FALSE /\ accounts' \subseteq accounts
      /\ role' = [v \in Users |-> "NONE"] /\ invitation' = [n \in Invitations |-> Unused]
      /\ UNCHANGED <<roleHeld, invitationHeld, outdated>>
  BY DEF RolesInv, OwnershipInv, RemoveOrganization
<1>1. Unused \in Invitation /\ Unused.status = "NONE"
  BY DEF Unused, Invitation
<1>2. /\ req' \in [Requests -> Request]
      /\ req'[t] = Idle /\ \A s \in Requests \ {t} : req'[s] = req[s]
  BY <1>0, IdleSound, OneMoves
<1>3. OwnershipInv'
  BY <1>0, <1>1, <1>2 DEF OwnershipInv, TypeOK, AlwaysAnOwner, OwnershipIsSingular, NothingOutlivesItsAccount
<1>4. LocksHeld'
  BY <1>0, <1>2, IdleSound DEF RolesInv, LocksHeld
<1>5. ASSUME NEW s \in Requests PROVE Sound(req[s])'
  BY <1>0, <1>2, IdleSound, OthersSound, RolesAssumption
<1> QED
  BY <1>3, <1>4, <1>5 DEF RolesInv

LEMMA NextKeepsRoles ==
    ASSUME RolesInv, [Next]_vars
    PROVE  RolesInv'
<1>1. ASSUME NEW t \in Requests,
             \E op \in Ops, u \in Users, v \in Users \union {Nobody},
                r \in {"MEMBER", "ADMIN", "NONE"} : Guard(t, op, u, v, r)
      PROVE  RolesInv'
  BY <1>1, GuardKeeps
<1>2. ASSUME NEW t \in Requests, Check(t) \/ Verify(t) \/ Plan(t) PROVE RolesInv'
  BY <1>2, CheckKeeps, VerifyKeeps, PlanKeeps
<1>3. ASSUME NEW t \in Requests, \/ Refuse(t) \/ NotFound(t) \/ CreateFails(t) \/ TooOldOrRevoked(t)
                                 \/ Duplicate(t) \/ Abort(t)
      PROVE  RolesInv'
  BY <1>3, FailKeeps DEF Refuse, NotFound, CreateFails, TooOldOrRevoked, Duplicate, Abort
<1>4. ASSUME NEW t \in Requests, ChangeUserRole(t) \/ DeleteMember(t) PROVE RolesInv'
  BY <1>4, OneRoleKeeps
<1>5. ASSUME NEW t \in Requests, Demote(t) \/ Promote(t) PROVE RolesInv'
  BY <1>5, DemoteKeeps, PromoteKeeps
<1>6. ASSUME NEW t \in Requests, \E n \in Invitations : CreateInvitation(t, n) PROVE RolesInv'
  BY <1>6, CreateInvitationKeeps
<1>7. ASSUME NEW t \in Requests,
             \E n \in Invitations, to \in InvitationStatus : ReadInvitation(t, n, to)
      PROVE  RolesInv'
  BY <1>7, ReadInvitationKeeps
<1>8. ASSUME NEW t \in Requests, SetInvitationStatus(t) \/ MarkAccepted(t) \/ FinishAccept(t)
      PROVE  RolesInv'
  BY <1>8, SetInvitationStatusKeeps, MarkAcceptedKeeps, FinishAcceptKeeps
<1>9. ASSUME NEW t \in Requests, PromoteSuccessor(t) \/ DeleteAccount(t) \/ RemoveOrganization(t)
      PROVE  RolesInv'
  BY <1>9, PromoteSuccessorKeeps, DeleteAccountKeeps, RemoveOrganizationKeeps
<1>10. ASSUME NEW u \in Users, NEW swept \in SUBSET Invitations, IgnoreOld(u, swept) PROVE RolesInv'
  BY <1>10, IgnoreOldKeeps
<1>11. CASE UNCHANGED vars
  BY <1>11 DEF vars, RolesInv, OwnershipInv, TypeOK, AlwaysAnOwner, OwnershipIsSingular,
     NothingOutlivesItsAccount, LocksHeld, Sound, WellFormed, HeldThere
<1> QED
  BY <1>1, <1>2, <1>3, <1>4, <1>5, <1>6, <1>7, <1>8, <1>9, <1>10, <1>11 DEF Next

(***************************************************************************)
(* "An organization always has an owner", and only one, of any number of   *)
(* role changes, transfers, removals, answers, invitations and deletions   *)
(* of accounts by any users, whatever their statements interleave, until a *)
(* role is written by a request that read another one there.  No role or   *)
(* invitation ever outlives its account or the organization.               *)
(***************************************************************************)
THEOREM OneOwnerAlways == Spec => []OwnershipInv
<1>1. RolesInv /\ [Next]_vars => RolesInv'
  BY NextKeepsRoles
<1>2. RolesInv => OwnershipInv
  BY DEF RolesInv
<1> QED
  BY InitRoles, <1>1, <1>2, PTL DEF Spec

(***************************************************************************)
(* acceptInvitation never demotes: the role of the invitee does not drop   *)
(* when the acceptance commits, if it is the one the acceptance has read,  *)
(* whatever has happened to the invitation since.                          *)
(***************************************************************************)
THEOREM AcceptingNeverDemotes == Spec => AcceptNeverDemotes
<1>1. RolesInv /\ [Next]_vars => RolesInv'
  BY NextKeepsRoles
<1>2. RolesInv => [\A t \in Requests :
                     FinishAccept(t) => LET u == invitation[req[t].row].to
                                        IN role[u] = req[t].seen => role'[u] \in AtLeast(role[u])]_vars
  BY Raises
<1> QED
  BY InitRoles, <1>1, <1>2, PTL DEF Spec, AcceptNeverDemotes
=============================================================================
