------------------------- MODULE SeatAndListProofs -------------------------
(***************************************************************************)
(* Theorems about what is served or shown in an order, and of what is      *)
(* added up: SeatRegistrations for any users, requests, editors,           *)
(* deletions, capacities and windows, Listings for any rows and pages,     *)
(* SessionStore for any limit, Audience for any followers and windows,     *)
(* Taste for any events and histories.                                     *)
(***************************************************************************)
EXTENDS SeatRefinement, Listings, SessionStore, Audience, Taste,
        SequenceTheorems, FiniteSetTheorems, WellFoundedInduction, TLAPS

Request == [phase : Phases, op : UserOps \union {"release", "none"},
            user : Users \union {Nobody}, own : RegStatus \union {"NONE"},
            head : Users \union {Nobody}]

LEMMA IdleType == Idle \in Request
BY DEF Idle, Request, Phases, UserOps, RegStatus

LEMMA TouchType ==
    ASSUME NEW order \in SUBSET (Users \X Users), NEW present \in SUBSET Users,
           NEW u \in Users
    PROVE  /\ Touch(order, present, u) \in SUBSET (Users \X Users)
           /\ Without(order, u) \in SUBSET (Users \X Users)
<1>1. Without(order, u) \in SUBSET (Users \X Users)
  BY DEF Without
<1>2. (present \ {u}) \X {u} \in SUBSET (Users \X Users)
  OBVIOUS
<1> QED BY <1>1, <1>2 DEF Touch

(* A request that runs is for a user; one past a promotion promotes one.   *)
ReqOK ==
    \A t \in Requests :
        /\ req[t].phase # "idle" => req[t].user \in Users
        /\ req[t].phase \in {"promoted", "notified", "late"} => req[t].head \in Users

(***************************************************************************)
(* Type correctness, with the one fact about requests it needs.            *)
(***************************************************************************)
LEMMA TypeInductive == TypeOK /\ ReqOK /\ [Next]_vars => TypeOK' /\ ReqOK'
<1> SUFFICES ASSUME TypeOK, ReqOK, [Next]_vars PROVE TypeOK' /\ ReqOK'
  OBVIOUS
<1> USE DEF TypeOK, ReqOK, rows, event
<1>0. req \in [Requests -> Request]
  BY DEF Request
<1>a. ASSUME NEW t \in Requests, Finish(t) PROVE
         /\ req' \in [Requests -> Request]
         /\ ReqOK'
         /\ account' \in [Users -> {"active", "releasing", "released", "deleted"}]
  BY <1>a, <1>0, IdleType DEF Finish, Idle
<1>b. ASSUME NEW t \in Requests, Unlock(t) PROVE lock' \in Requests \union {Nobody}
  BY <1>b DEF Unlock
<1>c. ASSUME NEW t \in Requests, NEW own \in RegStatus \union {"NONE"},
             NEW head \in Users \union {Nobody}, LoadAs(t, own, head),
             req[t].phase = "waiting"
      PROVE  TypeOK' /\ ReqOK'
  <2>1. [req[t] EXCEPT !.phase = "loaded", !.own = own, !.head = head] \in Request
    BY <1>c, <1>0 DEF Request, Phases
  <2>2. req' \in [Requests -> Request]
    BY <1>c, <1>0, <2>1 DEF LoadAs
  <2>3. ReqOK'
    BY <1>c, <1>0 DEF LoadAs, Request
  <2> QED BY <1>c, <2>2, <2>3 DEF LoadAs, Request
<1>1. ASSUME NEW t \in Requests, NEW op \in UserOps, NEW u \in Users, Begin(t, op, u)
      PROVE  TypeOK' /\ ReqOK'
  BY <1>1, <1>0 DEF Begin, Idle, Request, Phases, RegStatus
<1>2. ASSUME NEW t \in Requests, Decide(t) PROVE TypeOK' /\ ReqOK'
  <2>0. \A h \in NextInLine : h \in Users \union {Nobody}
    BY DEF NextInLine, Waiting
  <2>s. SeatOrWaitlist \in RegStatus \union {"NONE"}
    BY DEF SeatOrWaitlist, RegStatus
  <2>1. CASE Create(t)
    BY <2>1, <2>s, <1>c DEF Create, Granted
  <2>2. CASE TakeSeat(t)
    BY <2>2, <2>s, <1>c DEF TakeSeat, Granted
  <2>3. CASE ReleaseSeat(t)
    BY <2>3, <2>0, <1>c DEF ReleaseSeat, Granted, RegStatus
  <2>4. CASE LeaveWaitlist(t)
    BY <2>4, <1>c DEF LeaveWaitlist, Granted, RegStatus
  <2>5. CASE Remove(t)
    BY <2>5, <2>0, <1>c DEF Remove, Granted
  <2>6. CASE Refuse(t)
    BY <2>6, <1>a DEF Refuse, Granted, Request
  <2> QED BY <1>2, <2>1, <2>2, <2>3, <2>4, <2>5, <2>6 DEF Decide
<1>3. ASSUME NEW t \in Requests, Advance(t) PROVE TypeOK' /\ ReqOK'
  <2>1. CASE WriteOwnRow(t)
    BY <2>1, <1>0 DEF WriteOwnRow, Phases, Request
  <2>2. CASE PromoteFirstWaitlisted(t)
    BY <2>2, <1>0 DEF PromoteFirstWaitlisted, Phases, Request
  <2>3. CASE WriteFails(t)
    BY <2>3, <1>a, <1>b DEF WriteFails, Request
  <2>4. CASE NotifyPromotedUser(t)
    BY <2>4, <1>0 DEF NotifyPromotedUser, Phases, Request
  <2>5. CASE Commit(t)
    <3>1. status' \in [Users -> RegStatus \union {"NONE"}]
      BY <2>5, <1>0 DEF Commit, RegStatus, Request
    <3>2. older' \in SUBSET (Users \X Users)
      <4>1. Rows \in SUBSET Users /\ req[t].user \in Users
        BY <2>5 DEF Rows, Commit, AllWritten
      <4>2. req[t].head = Nobody \/ req[t].head \in Users
        BY <1>0 DEF Request
      <4> DEFINE u == req[t].user
                 first == IF req[t].own = "NONE" THEN Without(older, u)
                          ELSE Touch(older, Rows, u)
                 left == IF req[t].own = "NONE" THEN Rows \ {u} ELSE Rows \union {u}
      <4>3. first \in SUBSET (Users \X Users) /\ left \in SUBSET Users
        BY <4>1, TouchType
      <4>4. older' = IF req[t].head = Nobody THEN first
                     ELSE Touch(first, left, req[t].head)
        BY <2>5 DEF Commit
      <4> HIDE DEF first, left
      <4> QED BY <4>2, <4>3, <4>4, TouchType
    <3>3. told' \in SUBSET Users /\ misled' \in SUBSET Users
      BY <2>5 DEF Commit
    <3> QED BY <2>5, <3>1, <3>2, <3>3, <1>a, <1>b DEF Commit, Request
  <2>6. CASE LateMail(t)
    BY <2>6, <1>a DEF LateMail, Request
  <2> QED BY <1>3, <2>1, <2>2, <2>3, <2>4, <2>5, <2>6 DEF Advance
<1>4. ASSUME NEW t \in Requests, Expire(t) PROVE TypeOK' /\ ReqOK'
  BY <1>4, <1>0, <1>a, <1>b DEF Expire, Phases, Request
<1>5. ASSUME NEW t \in Requests, NEW u \in Users, StartDeletion(t, u)
      PROVE  TypeOK' /\ ReqOK'
  <2>1. [Idle EXCEPT !.phase = "waiting", !.op = "release", !.user = u] \in Request
    BY DEF Idle, Request, Phases, RegStatus
  <2>2. req' \in [Requests -> Request]
    BY <1>5, <1>0, <2>1 DEF StartDeletion
  <2>3. ReqOK'
    <3> DEFINE r == [Idle EXCEPT !.phase = "waiting", !.op = "release", !.user = u]
    <3>1. r.phase = "waiting" /\ r.user = u
      BY DEF Idle
    <3>2. req' = [req EXCEPT ![t] = r] \/ req' = req
      BY <1>5 DEF StartDeletion
    <3> HIDE DEF r
    <3> QED BY <3>1, <3>2, <1>0
  <2>4. account' \in [Users -> {"active", "releasing", "released", "deleted"}]
    BY <1>5 DEF StartDeletion
  <2> QED BY <1>5, <2>2, <2>3, <2>4 DEF StartDeletion, Request
<1>6. ASSUME NEW u \in Users, Invite(u) \/ Decline(u) \/ Cascade(u)
      PROVE  TypeOK' /\ ReqOK'
  BY <1>6 DEF Invite, Decline, Cascade, Touch, Without, Rows, RegStatus
<1>7. ASSUME NEW e \in Editors,
             \/ \E c \in Capacities : AssertCapacityNotBelowGoing(e, c)
             \/ SaveEvent(e)
      PROVE  TypeOK' /\ ReqOK'
  BY <1>7 DEF AssertCapacityNotBelowGoing, SaveEvent
<1>8. CASE TimePasses
  BY <1>8 DEF TimePasses
<1>9. CASE UNCHANGED vars
  BY <1>9 DEF vars
<1> QED BY <1>1, <1>2, <1>3, <1>4, <1>5, <1>6, <1>7, <1>8, <1>9 DEF Next

LEMMA TypeInitial == Init => TypeOK /\ ReqOK
BY IdleType DEF Init, TypeOK, ReqOK, Request, Idle

(* Every reachable state is well typed.                                    *)
THEOREM TypeCorrect == Spec => []TypeOK
<1>1. Spec => [](TypeOK /\ ReqOK)
  BY TypeInitial, TypeInductive, PTL DEF Spec
<1> QED BY <1>1, PTL

-----------------------------------------------------------------------------
(***************************************************************************)
(* The inductive invariant.  A request is past its load exactly while it   *)
(* holds the event row, and what it decided then is still right when it    *)
(* commits: nobody without the lock can take a seat or join the queue.     *)
(***************************************************************************)
InSection(t) == req[t].phase \in {"loaded", "written", "promoted", "notified"}

LockInv == \A t \in Requests : InSection(t) <=> lock = t

Joins(r) == r.op \in {"create", "going"}

(* The head of the waitlist is still its head, unless its account is gone. *)
HeadOK(r) ==
    /\ r.user # r.head
    /\ status[r.user] \in {"GOING", "NONE"}
    /\ r.phase # "loaded" => status[r.user] = "GOING"
    /\ status[r.head] \in {"WAITLISTED", "NONE"}
    /\ r.phase \in {"promoted", "notified"} => status[r.head] = "WAITLISTED"
    /\ \A v \in Waiting : <<v, r.head>> \notin older

PlanOK(r) ==
    /\ Joins(r) <=> r.own \in {"GOING", "WAITLISTED"}
    /\ r.own # "INVITED"
    /\ r.own = "GOING" => HasRoom
    /\ r.op = "create" /\ r.phase # "loaded" => status[r.user] = "NONE"
    /\ r.op = "going" => status[r.user] \in {"NONE", "NOT_GOING", "INVITED"}
    /\ r.own \in {"NOT_GOING", "BANNED"}
          => status[r.user] \in {"GOING", "WAITLISTED", "NONE"}
    /\ Joins(r) => r.head = Nobody
    /\ ~Joins(r) /\ r.head = Nobody /\ status[r.user] = "GOING" => Waiting = {}
    /\ r.head # Nobody => HeadOK(r)

PlanInv == \A t \in Requests : InSection(t) => PlanOK(req[t])

SeatInv == TypeOK /\ ReqOK /\ LockInv /\ PlanInv

LEMMA LockInductive == TypeOK /\ ReqOK /\ LockInv /\ [Next]_vars => LockInv'
<1> SUFFICES ASSUME TypeOK, ReqOK, LockInv, [Next]_vars PROVE LockInv'
  OBVIOUS
<1> USE RequestsAssumption DEF TypeOK, LockInv, InSection, Finish, Unlock, Granted, Idle
<1>1. ASSUME NEW t \in Requests, NEW op \in UserOps, NEW u \in Users, Begin(t, op, u)
      PROVE  LockInv'
  BY <1>1 DEF Begin
<1>2. ASSUME NEW t \in Requests, Decide(t) PROVE LockInv'
  <2>1. ASSUME NEW own, NEW head, LoadAs(t, own, head), lock = Nobody PROVE LockInv'
    BY <2>1 DEF LoadAs
  <2>2. CASE Refuse(t)
    BY <2>2 DEF Refuse
  <2> QED BY <1>2, <2>1, <2>2
          DEF Decide, Create, TakeSeat, ReleaseSeat, LeaveWaitlist, Remove
<1>3. ASSUME NEW t \in Requests, Advance(t) PROVE LockInv'
  <2>1. CASE WriteOwnRow(t)
    BY <2>1 DEF WriteOwnRow
  <2>2. CASE PromoteFirstWaitlisted(t)
    BY <2>2 DEF PromoteFirstWaitlisted
  <2>3. CASE WriteFails(t)
    BY <2>3 DEF WriteFails
  <2>4. CASE NotifyPromotedUser(t)
    BY <2>4 DEF NotifyPromotedUser
  <2>5. CASE Commit(t)
    BY <2>5 DEF Commit, AllWritten
  <2>6. CASE LateMail(t)
    BY <2>6 DEF LateMail
  <2> QED BY <1>3, <2>1, <2>2, <2>3, <2>4, <2>5, <2>6 DEF Advance
<1>4. ASSUME NEW t \in Requests, Expire(t) PROVE LockInv'
  BY <1>4 DEF Expire
<1>5. ASSUME NEW t \in Requests, NEW u \in Users, StartDeletion(t, u) PROVE LockInv'
  <2> DEFINE r == [Idle EXCEPT !.phase = "waiting", !.op = "release", !.user = u]
  <2>1. r.phase = "waiting"
    OBVIOUS
  <2>2. req' = [req EXCEPT ![t] = r] \/ req' = req
    BY <1>5 DEF StartDeletion
  <2>3. req[t].phase = "idle" /\ lock' = lock
    BY <1>5 DEF StartDeletion
  <2> HIDE DEF r
  <2> QED BY <2>1, <2>2, <2>3
<1>6. CASE UNCHANGED <<req, lock>>
  BY <1>6
<1> QED BY <1>1, <1>2, <1>3, <1>4, <1>5, <1>6 DEF Next, vars, Invite, Decline,
           Cascade, AssertCapacityNotBelowGoing, SaveEvent, TimePasses

(* Steps that change no registration and no capacity, and start no section *)
(* but that of one request, keep the decisions of the others right.        *)
LEMMA PlanFrame ==
    ASSUME PlanInv, UNCHANGED <<status, older, capacity>>,
           \A s \in Requests : InSection(s)' =>
               \/ InSection(s) /\ req'[s] = req[s]
               \/ PlanOK(req'[s])
    PROVE  PlanInv'
<1>1. \A s \in Requests : InSection(s)' => PlanOK(req'[s])
  BY DEF PlanInv
<1>2. Going' = Going /\ Waiting' = Waiting /\ HasRoom' = HasRoom
  BY DEF Going, Waiting, HasRoom
<1>3. \A r : HeadOK(r) => /\ r.user # r.head
                          /\ status'[r.user] \in {"GOING", "NONE"}
                          /\ r.phase # "loaded" => status'[r.user] = "GOING"
                          /\ status'[r.head] \in {"WAITLISTED", "NONE"}
                          /\ r.phase \in {"promoted", "notified"}
                                => status'[r.head] = "WAITLISTED"
                          /\ \A v \in Waiting' : <<v, r.head>> \notin older'
  BY <1>2 DEF HeadOK
<1> QED BY <1>1, <1>2, <1>3 DEF PlanInv, PlanOK, HeadOK, Joins

LEMMA GoingFinite == IsFiniteSet(Going) /\ Cardinality(Going) \in Nat
BY UsersAssumption, FS_Subset, FS_CardinalityType DEF Going

(* A decision made by a load is right at that moment.                      *)
LEMMA PlanDecided ==
    ASSUME TypeOK, ReqOK, NEW t \in Requests, Decide(t), InSection(t)'
    PROVE  PlanOK(req'[t])
<1> USE DEF TypeOK, Granted, PlanOK, Joins, LoadAs, Idle
<1>0. req[t].phase = "waiting" /\ req[t].user \in Users
  BY DEF Decide, Create, TakeSeat, ReleaseSeat, LeaveWaitlist, Remove, Refuse, ReqOK
<1>s. /\ SeatOrWaitlist \in {"GOING", "WAITLISTED"}
      /\ SeatOrWaitlist = "GOING" => HasRoom
  BY DEF SeatOrWaitlist
<1>h. ASSUME NEW h \in NextInLine, status[req[t].user] = "GOING"
      PROVE  \/ h = Nobody /\ Waiting = {}
             \/ /\ h \in Users /\ h # req[t].user /\ status[h] = "WAITLISTED"
                /\ \A v \in Waiting : <<v, h>> \notin older
  BY <1>h DEF NextInLine, Waiting
<1>1. CASE Create(t)
  BY <1>1, <1>0, <1>s DEF Create
<1>2. CASE TakeSeat(t)
  BY <1>2, <1>0, <1>s DEF TakeSeat
<1>3. CASE ReleaseSeat(t)
  <2>1. PICK h \in NextInLine :
           LoadAs(t, IF req[t].op = "ban" THEN "BANNED" ELSE "NOT_GOING", h)
    BY <1>3 DEF ReleaseSeat
  <2>2. /\ req'[t].own \in {"BANNED", "NOT_GOING"} /\ req'[t].head = h
        /\ req'[t].op = req[t].op /\ req'[t].user = req[t].user
        /\ req'[t].phase = "loaded"
    BY <2>1
  <2>3. status[req[t].user] = "GOING" /\ req[t].op \notin {"create", "going"}
    BY <1>3 DEF ReleaseSeat
  <2> QED BY <2>2, <2>3, <1>h, UsersAssumption DEF HeadOK
<1>4. CASE LeaveWaitlist(t)
  BY <1>4, <1>0 DEF LeaveWaitlist
<1>5. CASE Remove(t)
  <2>1. PICK h \in IF status[req[t].user] = "GOING" THEN NextInLine ELSE {Nobody} :
           LoadAs(t, "NONE", h)
    BY <1>5 DEF Remove
  <2>2. /\ req'[t].own = "NONE" /\ req'[t].head = h
        /\ req'[t].op = req[t].op /\ req'[t].user = req[t].user
        /\ req'[t].phase = "loaded"
    BY <2>1
  <2>3. req[t].op = "remove"
    BY <1>5 DEF Remove
  <2> QED BY <2>1, <2>2, <2>3, <1>h, UsersAssumption DEF HeadOK
<1>6. CASE Refuse(t)
  BY <1>6 DEF Refuse, Finish, InSection
<1> QED BY <1>1, <1>2, <1>3, <1>4, <1>5, <1>6 DEF Decide

LEMMA HasRoomAfterLeaving ==
    ASSUME HasRoom, Going' \subseteq Going, UNCHANGED capacity, capacity \in Capacities
    PROVE  HasRoom'
<1>1. /\ Cardinality(Going) \in Nat /\ Cardinality(Going') \in Nat
      /\ Cardinality(Going') <= Cardinality(Going)
  BY GoingFinite, FS_Subset, FS_CardinalityType
<1> QED BY <1>1, CapacityAssumption DEF HasRoom

LEMMA PlanInductive == SeatInv /\ [Next]_vars => PlanInv'
<1> SUFFICES ASSUME SeatInv, [Next]_vars PROVE PlanInv'
  OBVIOUS
<1>t. TypeOK /\ ReqOK /\ LockInv /\ PlanInv /\ req \in [Requests -> Request]
  BY DEF SeatInv, TypeOK, Request
<1> USE DEF rows, event
<1>e. ASSUME NEW t \in Requests, Finish(t), UNCHANGED <<status, older, capacity>>
      PROVE  PlanInv'
  BY <1>e, <1>t, PlanFrame DEF Finish, InSection, Idle
<1>1. ASSUME NEW t \in Requests, NEW op \in UserOps, NEW u \in Users, Begin(t, op, u)
      PROVE  PlanInv'
  BY <1>1, <1>t, PlanFrame DEF Begin, InSection, Idle
<1>2. ASSUME NEW t \in Requests, Decide(t) PROVE PlanInv'
  <2>1. UNCHANGED <<status, older, capacity>>
    BY <1>2 DEF Decide, Create, TakeSeat, ReleaseSeat, LeaveWaitlist, Remove, LoadAs,
                Refuse
  <2>2. \A s \in Requests : s # t => req'[s] = req[s]
    BY <1>2, <1>t DEF Decide, Create, TakeSeat, ReleaseSeat, LeaveWaitlist, Remove, LoadAs,
                Refuse, Finish
  <2>3. InSection(t)' => PlanOK(req'[t])
    BY <1>2, <1>t, PlanDecided
  <2> QED BY <2>1, <2>2, <2>3, <1>t, PlanFrame DEF InSection
<1>3. ASSUME NEW t \in Requests, Advance(t) PROVE PlanInv'
  <2>1. CASE WriteOwnRow(t)
    <3>1. PlanOK(req[t])
      BY <2>1, <1>t DEF WriteOwnRow, PlanInv, InSection
    <3>2. PlanOK(req'[t])
      BY <2>1, <1>t, <3>1 DEF WriteOwnRow, OwnRowWritable, PlanOK, HeadOK, Joins, Request
    <3> QED BY <2>1, <1>t, <3>2, PlanFrame DEF WriteOwnRow, InSection
  <2>2. CASE PromoteFirstWaitlisted(t)
    <3>1. PlanOK(req[t])
      BY <2>2, <1>t DEF PromoteFirstWaitlisted, PlanInv, InSection
    <3>2. PlanOK(req'[t])
      BY <2>2, <1>t, <3>1 DEF PromoteFirstWaitlisted, PlanOK, HeadOK, Joins, Request
    <3> QED BY <2>2, <1>t, <3>2, PlanFrame DEF PromoteFirstWaitlisted, InSection
  <2>3. CASE WriteFails(t)
    BY <2>3, <1>e DEF WriteFails
  <2>4. CASE NotifyPromotedUser(t)
    <3>1. PlanOK(req[t])
      BY <2>4, <1>t DEF NotifyPromotedUser, PlanInv, InSection
    <3>2. PlanOK(req'[t])
      BY <2>4, <1>t, <3>1 DEF NotifyPromotedUser, PlanOK, HeadOK, Joins, Request
    <3> QED BY <2>4, <1>t, <3>2, PlanFrame DEF NotifyPromotedUser, InSection
  <2>5. CASE Commit(t)
    <3>1. \A s \in Requests : ~InSection(s)'
      BY <2>5, <1>t DEF Commit, AllWritten, Finish, InSection, LockInv, Idle
    <3> QED BY <3>1 DEF PlanInv
  <2>6. CASE LateMail(t)
    BY <2>6, <1>e DEF LateMail
  <2> QED BY <1>3, <2>1, <2>2, <2>3, <2>4, <2>5, <2>6 DEF Advance
<1>4. ASSUME NEW t \in Requests, Expire(t) PROVE PlanInv'
  <2>1. UNCHANGED <<status, older, capacity>>
    BY <1>4 DEF Expire
  <2>2. \A s \in Requests : s # t => req'[s] = req[s]
    BY <1>4, <1>t DEF Expire, Finish
  <2>3. ~InSection(t)'
    <3>1. CASE req' = [req EXCEPT ![t].phase = "late"]
      BY <3>1, <1>t DEF InSection, Request
    <3>2. CASE Finish(t)
      BY <3>2, <1>t DEF Finish, InSection, Idle
    <3> QED BY <1>4, <3>1, <3>2 DEF Expire
  <2> QED BY <2>1, <2>2, <2>3, <1>t, PlanFrame DEF InSection
<1>5. ASSUME NEW t \in Requests, NEW u \in Users, StartDeletion(t, u) PROVE PlanInv'
  <2>1. \A s \in Requests : s # t => req'[s] = req[s]
    BY <1>5, <1>t DEF StartDeletion
  <2>2. ~InSection(t)'
    <3> DEFINE r == [Idle EXCEPT !.phase = "waiting", !.op = "release", !.user = u]
    <3>1. r.phase = "waiting"
      BY DEF Idle
    <3>2. req' = [req EXCEPT ![t] = r] \/ req' = req
      BY <1>5 DEF StartDeletion
    <3>3. req[t].phase = "idle"
      BY <1>5 DEF StartDeletion
    <3> HIDE DEF r
    <3> QED BY <3>1, <3>2, <3>3, <1>t DEF InSection
  <2>3. UNCHANGED <<status, older, capacity>>
    BY <1>5 DEF StartDeletion
  <2> QED BY <2>1, <2>2, <2>3, <1>t, PlanFrame DEF InSection
<1>6. ASSUME NEW u \in Users, Invite(u) PROVE PlanInv'
  BY <1>6, <1>t, RequestsAssumption DEF Invite, PlanInv, LockInv, InSection
<1>7. ASSUME NEW u \in Users, Decline(u) \/ Cascade(u) PROVE PlanInv'
  <2>1. /\ UNCHANGED <<capacity, req>>
        /\ \/ status[u] = "INVITED" /\ status' = [status EXCEPT ![u] = "NOT_GOING"]
           \/ status' = [status EXCEPT ![u] = "NONE"]
        /\ ~RowHeld(u)
    BY <1>7 DEF Decline, Cascade
  <2>2. Going' \subseteq Going /\ Waiting' \subseteq Waiting
    BY <2>1, <1>t DEF Going, Waiting, TypeOK
  <2>3. HasRoom => HasRoom'
    BY <2>1, <2>2, <1>t, HasRoomAfterLeaving DEF TypeOK
  <2>5. ASSUME NEW t \in Requests, InSection(t) PROVE PlanOK(req[t])'
    <3>1. PlanOK(req[t])
      BY <2>5, <1>t DEF PlanInv
    <3>2. req[t].user \in Users /\ req[t].head \in Users \union {Nobody}
      BY <2>5, <1>t DEF ReqOK, InSection, Request
    <3>3. req[t].phase # "loaded" => req[t].user # u
      BY <2>1, <2>5 DEF RowHeld, InSection
    <3>4. req[t].phase \in {"promoted", "notified"} => req[t].head # u
      BY <2>1 DEF RowHeld
    <3>5. req[t].head # Nobody => HeadOK(req[t])'
      <4> SUFFICES ASSUME req[t].head # Nobody PROVE HeadOK(req[t])'
        OBVIOUS
      <4>1. HeadOK(req[t])
        BY <3>1 DEF PlanOK
      <4>2. \A v \in Waiting' : <<v, req[t].head>> \notin older'
        <5>1. \A v \in Waiting' : <<v, req[t].head>> \notin older
          BY <4>1, <2>2 DEF HeadOK
        <5>2. \A v \in Users : v # u /\ req[t].head # u /\ <<v, req[t].head>> \in older'
                                  => <<v, req[t].head>> \in older
          BY <1>7 DEF Decline, Cascade, Touch, Without
        <5>3. u \notin Waiting' /\ (req[t].head = u => older' = Without(older, u))
          BY <1>7, <1>t, <4>1 DEF Decline, Cascade, Waiting, HeadOK, TypeOK
        <5> QED BY <5>1, <5>2, <5>3 DEF Waiting, Without
      <4> QED BY <4>1, <4>2, <3>2, <3>3, <3>4, <2>1, <1>t DEF HeadOK, TypeOK
    <3> QED BY <3>1, <3>2, <3>3, <3>5, <2>1, <2>2, <2>3, <1>t DEF PlanOK, Joins, TypeOK
  <2> QED BY <2>1, <2>5 DEF PlanInv, InSection
<1>8. ASSUME NEW e \in Editors, SaveEvent(e) PROVE PlanInv'
  BY <1>8, <1>t, RequestsAssumption DEF SaveEvent, PlanInv, LockInv, InSection
<1>9. CASE UNCHANGED <<status, older, capacity, req>>
  BY <1>9, <1>t, PlanFrame DEF InSection
<1> QED BY <1>1, <1>2, <1>3, <1>4, <1>5, <1>6, <1>7, <1>8, <1>9
        DEF Next, vars, AssertCapacityNotBelowGoing, TimePasses

LEMMA SeatInitial == Init => SeatInv
<1>1. Init => TypeOK /\ ReqOK
  BY TypeInitial
<1>2. Init => \A t \in Requests : ~InSection(t) /\ lock # t
  BY RequestsAssumption DEF Init, InSection, Idle
<1> QED BY <1>1, <1>2 DEF SeatInv, LockInv, PlanInv

LEMMA SeatInductive == SeatInv /\ [Next]_vars => SeatInv'
BY TypeInductive, LockInductive, PlanInductive DEF SeatInv

(* Whoever holds the event row is the only request past its load, and what *)
(* it decided from that load is still right whenever it commits.           *)
THEOREM DecisionsStayRight == Spec => []SeatInv
BY SeatInitial, SeatInductive, PTL DEF Spec

-----------------------------------------------------------------------------
(***************************************************************************)
(* What a step does to the seats and to the queue.                         *)
(***************************************************************************)
(* A commit joins with room, joins the queue, or gives up a seat that the  *)
(* head of the queue takes if there is one.                                *)
LEMMA CommitEffect ==
    ASSUME SeatInv, NEW t \in Requests, Commit(t)
    PROVE  LET u == req[t].user
               own == req[t].own
               head == req[t].head
           IN /\ u \in Users
              /\ PlanOK(req[t])
              /\ req[t].phase # "loaded"
              /\ \A v \in Users :
                    status'[v] = IF v = u THEN own
                                 ELSE IF v = head THEN "GOING" ELSE status[v]
              /\ head # Nobody =>
                    /\ head \in Users /\ head # u
                    /\ status[u] = "GOING" /\ status[head] = "WAITLISTED"
                    /\ own \notin {"GOING", "WAITLISTED"}
              /\ UNCHANGED capacity
<1>1. InSection(t) /\ req[t].phase # "loaded"
  BY DEF Commit, AllWritten, InSection
<1>2. PlanOK(req[t]) /\ req[t].user \in Users /\ req[t] \in Request
  BY <1>1 DEF SeatInv, PlanInv, ReqOK, TypeOK, InSection, Request
<1>3. req[t].head # Nobody => req[t].phase \in {"promoted", "notified"}
  BY DEF Commit, AllWritten
<1> QED BY <1>1, <1>2, <1>3 DEF Commit, PlanOK, HeadOK, Joins, event, Request

(* Only a commit lets anybody into a seat or into the queue.               *)
LEMMA OtherSteps ==
    ASSUME SeatInv, [Next]_vars, \A t \in Requests : ~Commit(t)
    PROVE  /\ Going' \subseteq Going
           /\ Waiting' \subseteq Waiting
           /\ \A u \in Users : status[u] = "GOING" /\ status'[u] # "GOING"
                                  => account'[u] = "deleted"
           /\ \A u \in Users : status[u] = "BANNED" => status'[u] \in {"BANNED", "NONE"}
<1> USE DEF Going, Waiting, rows, event, SeatInv, TypeOK
<1>1. CASE UNCHANGED status
  BY <1>1
<1>2. ASSUME NEW u \in Users, Invite(u) \/ Decline(u) PROVE
         \E s \in {"INVITED", "NOT_GOING"} :
            status[u] \in {"NONE", "INVITED"} /\ status' = [status EXCEPT ![u] = s]
  BY <1>2 DEF Invite, Decline
<1>3. ASSUME NEW u \in Users, Cascade(u) PROVE
         status' = [status EXCEPT ![u] = "NONE"] /\ account' = [account EXCEPT ![u] = "deleted"]
  BY <1>3 DEF Cascade
<1>4. \/ UNCHANGED status
      \/ \E u \in Users : Invite(u) \/ Decline(u) \/ Cascade(u)
  BY DEF Next, vars, Begin, Decide, Create, TakeSeat, ReleaseSeat, LeaveWaitlist, Remove,
         LoadAs, Refuse, Advance, WriteOwnRow, PromoteFirstWaitlisted, WriteFails,
         NotifyPromotedUser, LateMail, Expire, StartDeletion,
         AssertCapacityNotBelowGoing, SaveEvent, TimePasses
<1> QED BY <1>1, <1>2, <1>3, <1>4

LEMMA CardinalityAfter ==
    ASSUME NEW u \in Users
    PROVE  /\ Cardinality(Going \union {u}) <= Cardinality(Going) + 1
           /\ Cardinality(Going \ {u}) <= Cardinality(Going)
           /\ \A w \in Users : u \in Going /\ w \notin Going
                 => Cardinality((Going \ {u}) \union {w}) = Cardinality(Going)
<1>1. IsFiniteSet(Going) /\ Cardinality(Going) \in Nat
  BY GoingFinite
<1>2. /\ IsFiniteSet(Going \ {u})
      /\ Cardinality(Going \ {u})
            = IF u \in Going THEN Cardinality(Going) - 1 ELSE Cardinality(Going)
  BY <1>1, FS_RemoveElement
<1>3. Cardinality(Going \union {u})
         = IF u \in Going THEN Cardinality(Going) ELSE Cardinality(Going) + 1
  BY <1>1, FS_AddElement
<1>4. ASSUME NEW w \in Users, u \in Going, w \notin Going
      PROVE  Cardinality((Going \ {u}) \union {w}) = Cardinality(Going)
  <2>1. Cardinality((Going \ {u}) \union {w}) = Cardinality(Going \ {u}) + 1
    BY <1>2, <1>4, FS_AddElement
  <2> QED BY <2>1, <1>1, <1>2, <1>4
<1> QED BY <1>1, <1>2, <1>3, <1>4

(* The seats after a commit: swapped, one more where there was room, or    *)
(* one fewer with nobody waiting.                                          *)
LEMMA CommitSeats ==
    ASSUME SeatInv, NEW t \in Requests, Commit(t)
    PROVE  /\ Cardinality(Going') \in Nat
           /\ UNCHANGED capacity
           /\ \/ Cardinality(Going') = Cardinality(Going)
              \/ /\ HasRoom /\ Cardinality(Going') <= Cardinality(Going) + 1
                 /\ Waiting' \subseteq Waiting
              \/ Cardinality(Going') <= Cardinality(Going) /\ Waiting' = {}
<1> DEFINE u == req[t].user
           own == req[t].own
           head == req[t].head
<1>1. /\ u \in Users /\ PlanOK(req[t]) /\ UNCHANGED capacity /\ req[t].phase # "loaded"
      /\ \A v \in Users : status'[v] = IF v = u THEN own
                                       ELSE IF v = head THEN "GOING" ELSE status[v]
      /\ head # Nobody => /\ head \in Users /\ head # u
                          /\ status[u] = "GOING" /\ status[head] = "WAITLISTED"
                          /\ own \notin {"GOING", "WAITLISTED"}
  BY CommitEffect
<1>2. Cardinality(Going) \in Nat /\ Cardinality(Going') \in Nat
  <2>1. Going' \subseteq Users
    BY DEF Going
  <2> QED BY <2>1, GoingFinite, UsersAssumption, FS_Subset, FS_CardinalityType
<1> HIDE DEF u, own, head
<1>3. CASE head # Nobody
  <2>1. Going' = (Going \ {u}) \union {head} /\ u \in Going /\ head \notin Going
    BY <1>1, <1>3 DEF Going
  <2> QED BY <2>1, <1>1, <1>2, <1>3, CardinalityAfter
<1>4. CASE head = Nobody /\ own = "GOING"
  <2>1. Going' = Going \union {u} /\ Waiting' \subseteq Waiting
    BY <1>1, <1>4, UsersAssumption DEF Going, Waiting
  <2>2. HasRoom
    BY <1>1, <1>4 DEF PlanOK, own
  <2> QED BY <2>1, <2>2, <1>1, <1>2, CardinalityAfter
<1>5. CASE head = Nobody /\ own # "GOING"
  <2>1. Going' = Going \ {u}
    BY <1>1, <1>5, UsersAssumption DEF Going
  <2>2. CASE u \notin Going
    BY <2>1, <2>2, <1>1, <1>2
  <2>3. CASE u \in Going
    <3>1. ~Joins(req[t])
      BY <1>1, <2>3 DEF PlanOK, Joins, Going, u
    <3>2. Waiting = {} /\ own # "WAITLISTED"
      BY <3>1, <1>1, <1>5, <2>3 DEF PlanOK, Going, u, own, head
    <3>3. Waiting' = {}
      BY <3>2, <1>1, <1>5, UsersAssumption DEF Waiting
    <3> QED BY <3>3, <2>1, <1>1, <1>2, CardinalityAfter
  <2> QED BY <2>2, <2>3
<1> QED BY <1>3, <1>4, <1>5

LEMMA SeatCount ==
    ASSUME SeatInv, [Next]_vars
    PROVE  /\ Cardinality(Going) \in Nat /\ Cardinality(Going') \in Nat
           /\ \/ Cardinality(Going') <= Cardinality(Going)
              \/ /\ UNCHANGED capacity /\ HasRoom
                 /\ Cardinality(Going') <= Cardinality(Going) + 1
<1>1. CASE \E t \in Requests : Commit(t)
  BY <1>1, CommitSeats, GoingFinite
<1>2. CASE \A t \in Requests : ~Commit(t)
  <2>1. Going' \subseteq Going
    BY <1>2, OtherSteps
  <2> QED BY <2>1, GoingFinite, FS_Subset, FS_CardinalityType
<1> QED BY <1>1, <1>2

(* Attendance only grows into seats that the capacity of the moment has,   *)
(* with any number of edits, deletions and expired transactions around.    *)
THEOREM AttendanceFits == Spec => GrowthWithinCapacity
<1>1. SeatInv /\ [Next]_vars =>
         (Cardinality(Going') > Cardinality(Going)
             => capacity' = Unlimited \/ Cardinality(Going') <= capacity')
  <2> SUFFICES ASSUME SeatInv, [Next]_vars, Cardinality(Going') > Cardinality(Going),
                      capacity' # Unlimited
               PROVE  Cardinality(Going') <= capacity'
    OBVIOUS
  <2>1. capacity' = capacity /\ capacity \in Nat
    BY SeatCount, CapacityAssumption DEF SeatInv, TypeOK
  <2> QED BY <2>1, SeatCount DEF HasRoom
<1> QED BY <1>1, DecisionsStayRight, PTL DEF Spec, GrowthWithinCapacity

(* Nobody edits the event: its capacity is never exceeded.                 *)
THEOREM NeverOverbooked == Editors = {} => (Spec => []CapacityRespected)
<1> SUFFICES ASSUME Editors = {} PROVE Spec => []CapacityRespected
  OBVIOUS
<1>1. Init => CapacityRespected
  <2> SUFFICES ASSUME Init, capacity # Unlimited PROVE Cardinality(Going) <= capacity
    BY DEF CapacityRespected
  <2>1. Going = {} /\ capacity \in Nat
    BY CapacityAssumption DEF Init, Going
  <2> QED BY <2>1, FS_EmptySet
<1>2. SeatInv /\ CapacityRespected /\ [Next]_vars => CapacityRespected'
  <2> SUFFICES ASSUME SeatInv, CapacityRespected, [Next]_vars, capacity' # Unlimited
               PROVE  Cardinality(Going') <= capacity'
    BY DEF CapacityRespected
  <2>1. capacity' = capacity
    BY DEF Next, vars, event, Begin, Decide, Create, TakeSeat, ReleaseSeat, LeaveWaitlist,
           Remove, LoadAs, Refuse, Advance, WriteOwnRow, PromoteFirstWaitlisted,
           WriteFails, NotifyPromotedUser, Commit, LateMail, Expire, StartDeletion,
           Invite, Decline, Cascade, TimePasses
  <2>2. capacity \in Nat
    BY <2>1, CapacityAssumption DEF SeatInv, TypeOK
  <2> QED BY <2>1, <2>2, SeatCount DEF HasRoom, CapacityRespected
<1> QED BY <1>1, <1>2, DecisionsStayRight, PTL DEF Spec

(* A seat that a leaver, a ban or a removal frees goes to the waitlist in  *)
(* the same commit; only the deletion of an account can lose one.          *)
THEOREM FreedSeatsAreRefilled == Spec => FreedSeatRefilled
<1>1. ASSUME SeatInv, [Next]_vars, NEW u \in Users,
             status[u] = "GOING", status'[u] # "GOING", account'[u] # "deleted"
      PROVE  Waiting' = {} \/ Cardinality(Going') = Cardinality(Going)
  <2>1. PICK t \in Requests : Commit(t)
    BY <1>1, OtherSteps
  <2> DEFINE head == req[t].head
  <2>2. /\ PlanOK(req[t]) /\ req[t].phase # "loaded" /\ req[t].user \in Users
        /\ \A v \in Users : status'[v] = IF v = req[t].user THEN req[t].own
                                         ELSE IF v = head THEN "GOING" ELSE status[v]
        /\ head # Nobody => head \in Users /\ status[head] = "WAITLISTED"
    BY <2>1, <1>1, CommitEffect
  <2>3. u = req[t].user
    BY <2>2, <1>1
  <2>4. ~Joins(req[t])
    BY <2>2, <2>3, <1>1 DEF PlanOK, Joins
  <2>5. CASE head = Nobody
    <3>1. Waiting = {} /\ req[t].own # "WAITLISTED"
      BY <2>2, <2>3, <2>4, <2>5, <1>1 DEF PlanOK
    <3> QED BY <3>1, <2>2, <2>5, UsersAssumption DEF Waiting
  <2>6. CASE head # Nobody
    <3>1. Going' = (Going \ {u}) \union {head} /\ u \in Going /\ head \notin Going
      BY <2>2, <2>3, <2>6, <1>1 DEF Going
    <3> QED BY <3>1, <2>2, <2>6, CardinalityAfter
  <2> QED BY <2>5, <2>6
<1>2. SeatInv /\ [Next]_vars =>
         \A u \in Users :
            status[u] = "GOING" /\ status'[u] # "GOING" /\ account'[u] # "deleted"
               => Waiting' = {} \/ Cardinality(Going') = Cardinality(Going)
  BY <1>1
<1> QED BY <1>2, DecisionsStayRight, PTL DEF Spec, FreedSeatRefilled

(* A ban outlives every request that was under way when it was pronounced. *)
THEOREM BansStay == Spec => BannedStays
<1>1. ASSUME SeatInv, [Next]_vars, NEW u \in Users, status[u] = "BANNED"
      PROVE  status'[u] \in {"BANNED", "NONE"}
  <2>1. ASSUME NEW t \in Requests, Commit(t), status'[u] \notin {"BANNED", "NONE"}
        PROVE  FALSE
    <3>1. /\ PlanOK(req[t]) /\ req[t].phase # "loaded"
          /\ status'[u] = IF u = req[t].user THEN req[t].own
                          ELSE IF u = req[t].head THEN "GOING" ELSE status[u]
          /\ req[t].head # Nobody => status[req[t].head] = "WAITLISTED"
      BY <2>1, <1>1, CommitEffect
    <3>2. u # req[t].head
      BY <3>1, <1>1, UsersAssumption
    <3>3. u = req[t].user /\ req[t].own \notin {"BANNED", "NONE"}
      BY <3>1, <3>2, <2>1, <1>1
    <3>4. req[t].own \in RegStatus
      BY <3>3, <1>1 DEF SeatInv, TypeOK
    <3> QED BY <3>1, <3>3, <3>4, <1>1 DEF PlanOK, Joins, RegStatus
  <2> QED BY <1>1, <2>1, OtherSteps
<1>2. SeatInv /\ [Next]_vars =>
         \A u \in Users : status[u] = "BANNED" => status'[u] \in {"BANNED", "NONE"}
  BY <1>1
<1> QED BY <1>2, DecisionsStayRight, PTL DEF Spec, BannedStays

(* The waitlist is served in order of updatedAt.                           *)
THEOREM ServedInOrder == Spec => NoOvertaking
<1>1. ASSUME SeatInv, [Next]_vars, NEW v \in Waiting, NEW w \in Waiting,
             status'[w] = "GOING", <<v, w>> \in older
      PROVE  status'[v] # "WAITLISTED"
  <2>0. v \in Users /\ w \in Users /\ status[v] = "WAITLISTED" /\ status[w] = "WAITLISTED"
    BY DEF Waiting
  <2>1. PICK t \in Requests : Commit(t)
    BY <1>1, <2>0, OtherSteps DEF Going
  <2>2. /\ PlanOK(req[t]) /\ req[t].phase # "loaded"
        /\ status'[w] = IF w = req[t].user THEN req[t].own
                        ELSE IF w = req[t].head THEN "GOING" ELSE status[w]
        /\ req[t].head # Nobody => req[t].head \in Users
    BY <2>0, <2>1, <1>1, CommitEffect
  <2>3. w = req[t].head
    BY <2>0, <2>2, <1>1 DEF PlanOK, Joins
  <2> QED BY <2>0, <2>2, <2>3, <1>1, UsersAssumption DEF PlanOK, HeadOK
<1>2. SeatInv /\ [Next]_vars =>
         \A v, w \in Waiting :
            status'[w] = "GOING" /\ <<v, w>> \in older => status'[v] # "WAITLISTED"
  BY <1>1
<1> QED BY <1>2, DecisionsStayRight, PTL DEF Spec, NoOvertaking

(* Nobody gets in ahead of a user who waits.                               *)
THEOREM PlacesOnlyImprove == Spec => PlaceNeverWorsens
<1>1. ASSUME SeatInv, [Next]_vars, NEW u \in Waiting, u \in Waiting'
      PROVE  AheadOf(u)' \subseteq AheadOf(u)
  <2>0. u \in Users /\ status[u] = "WAITLISTED" /\ status'[u] = "WAITLISTED"
    BY <1>1 DEF Waiting
  <2>1. CASE UNCHANGED <<status, older>>
    BY <2>1 DEF AheadOf, Waiting
  <2>2. ASSUME NEW p \in Users, Invite(p) \/ Decline(p) \/ Cascade(p)
        PROVE  AheadOf(u)' \subseteq AheadOf(u)
    <3>1. Waiting' \subseteq Waiting /\ p # u
      BY <2>0, <2>2, <1>1 DEF Invite, Decline, Cascade, Waiting, SeatInv, TypeOK
    <3>2. \A v : <<v, u>> \in older' => <<v, u>> \in older
      BY <2>2, <3>1 DEF Invite, Decline, Cascade, Touch, Without
    <3> QED BY <3>1, <3>2 DEF AheadOf
  <2>3. ASSUME NEW t \in Requests, Commit(t)
        PROVE  AheadOf(u)' \subseteq AheadOf(u)
    <3> DEFINE p == req[t].user
               head == req[t].head
               first == IF req[t].own = "NONE" THEN Without(older, p)
                        ELSE Touch(older, Rows, p)
               left == IF req[t].own = "NONE" THEN Rows \ {p} ELSE Rows \union {p}
    <3>1. /\ PlanOK(req[t]) /\ req[t].phase # "loaded" /\ p \in Users
          /\ \A v \in Users : status'[v] = IF v = p THEN req[t].own
                                           ELSE IF v = head THEN "GOING" ELSE status[v]
      BY <2>3, <1>1, CommitEffect
    <3>2. older' = IF head = Nobody THEN first ELSE Touch(first, left, head)
      BY <2>3 DEF Commit
    <3>3. p # u /\ head # u
      BY <3>1, <2>0 DEF PlanOK, Joins
    <3>4. \A v : <<v, u>> \in first => <<v, u>> \in older /\ v # p
      BY <3>3 DEF Touch, Without
    <3> HIDE DEF p, head, first, left
    <3>5. \A v : <<v, u>> \in older' => <<v, u>> \in older /\ v # p
      BY <3>2, <3>3, <3>4 DEF Touch, Without
    <3>6. \A v \in Waiting' : v # p => v \in Waiting
      BY <3>1 DEF Waiting
    <3> QED BY <3>5, <3>6 DEF AheadOf
  <2> QED BY <1>1, <2>1, <2>2, <2>3
          DEF Next, vars, rows, Begin, Decide, Create, TakeSeat, ReleaseSeat,
              LeaveWaitlist, Remove, LoadAs, Refuse, Advance, WriteOwnRow,
              PromoteFirstWaitlisted, WriteFails, NotifyPromotedUser, LateMail, Expire,
              StartDeletion, AssertCapacityNotBelowGoing, SaveEvent, TimePasses
<1>2. SeatInv /\ [Next]_vars =>
         \A u \in Waiting : u \in Waiting' => AheadOf(u)' \subseteq AheadOf(u)
  BY <1>1
<1> QED BY <1>2, DecisionsStayRight, PTL DEF Spec, PlaceNeverWorsens

-----------------------------------------------------------------------------
(***************************************************************************)
(* Without edits and deletions the seats are also used: whoever waits,     *)
(* waits because the event is full.                                        *)
(***************************************************************************)
(* No account is on its way out.                                           *)
Settled ==
    /\ \A t \in Requests : req[t].op # "release"
    /\ \A u \in Users : account[u] = "active"

WaitlistsWhenFull ==
    \A t \in Requests : InSection(t) /\ req[t].own = "WAITLISTED" => ~HasRoom

FullInv == SeatInv /\ Settled /\ WaitlistsWhenFull /\ NoIdleSeat

LEMMA SettledInductive ==
    ASSUME Deleters = {}, SeatInv, Settled, [Next]_vars
    PROVE  Settled'
<1> USE DEF Settled, rows, event
<1>t. req \in [Requests -> Request]
  BY DEF SeatInv, TypeOK, Request
<1>1. ASSUME NEW t \in Requests, NEW op \in UserOps, NEW u \in Users, Begin(t, op, u)
      PROVE  Settled'
  BY <1>1, <1>t DEF Begin, Idle, UserOps
<1>2. ASSUME NEW t \in Requests, Finish(t) PROVE Settled'
  BY <1>2, <1>t DEF Finish, Idle
<1>3. ASSUME NEW t \in Requests, Decide(t) PROVE Settled'
  <2>1. CASE Refuse(t)
    BY <2>1, <1>2 DEF Refuse
  <2>2. ASSUME NEW own, NEW head, LoadAs(t, own, head) PROVE Settled'
    BY <2>2, <1>t DEF LoadAs, Request
  <2> QED BY <1>3, <2>1, <2>2
          DEF Decide, Create, TakeSeat, ReleaseSeat, LeaveWaitlist, Remove
<1>4. ASSUME NEW t \in Requests, Advance(t) PROVE Settled'
  BY <1>4, <1>2, <1>t DEF Advance, WriteOwnRow, PromoteFirstWaitlisted, WriteFails,
                         NotifyPromotedUser, Commit, LateMail, Request
<1>5. ASSUME NEW t \in Requests, Expire(t) PROVE Settled'
  BY <1>5, <1>2, <1>t DEF Expire, Request
<1>6. ASSUME NEW t \in Requests, NEW u \in Users, StartDeletion(t, u) \/ Cascade(u)
      PROVE  FALSE
  BY <1>6 DEF StartDeletion, Cascade
<1>7. CASE UNCHANGED <<req, account>>
  BY <1>7
<1> QED BY <1>1, <1>3, <1>4, <1>5, <1>6, <1>7
        DEF Next, vars, Invite, Decline, Cascade, AssertCapacityNotBelowGoing, SaveEvent,
            TimePasses

LEMMA GoingStays ==
    ASSUME Deleters = {}, Editors = {}, SeatInv, Settled, [Next]_vars,
           \A t \in Requests : ~Commit(t)
    PROVE  Going' = Going /\ UNCHANGED capacity /\ HasRoom' = HasRoom
<1>1. \A u \in Users : ~Cascade(u)
  BY DEF Settled, Cascade
<1>2. ASSUME NEW u \in Users, Invite(u) \/ Decline(u) PROVE Going' = Going
  BY <1>2 DEF Invite, Decline, Going, SeatInv, TypeOK
<1>3. UNCHANGED capacity
  BY DEF Next, vars, event, Begin, Decide, Create, TakeSeat, ReleaseSeat, LeaveWaitlist,
         Remove, LoadAs, Refuse, Advance, WriteOwnRow, PromoteFirstWaitlisted,
         WriteFails, NotifyPromotedUser, Commit, LateMail, Expire, StartDeletion,
         Invite, Decline, Cascade, TimePasses
<1>4. UNCHANGED status \/ \E u \in Users : Invite(u) \/ Decline(u)
  BY <1>1 DEF Next, vars, rows, Begin, Decide, Create, TakeSeat, ReleaseSeat,
         LeaveWaitlist, Remove, LoadAs, Refuse, Advance, WriteOwnRow,
         PromoteFirstWaitlisted, WriteFails, NotifyPromotedUser, LateMail, Expire,
         StartDeletion, TimePasses
<1>5. Going' = Going
  BY <1>2, <1>4 DEF Going
<1> QED BY <1>3, <1>5 DEF HasRoom

LEMMA WaitlistsWhenFullInductive ==
    ASSUME Deleters = {}, Editors = {}, FullInv, [Next]_vars
    PROVE  WaitlistsWhenFull'
<1>t. req \in [Requests -> Request] /\ SeatInv /\ Settled /\ WaitlistsWhenFull
  BY DEF FullInv, SeatInv, TypeOK, Request
<1>1. ASSUME NEW t \in Requests, Commit(t) PROVE WaitlistsWhenFull'
  BY <1>1, <1>t DEF Commit, AllWritten, Finish, InSection, SeatInv, LockInv, Idle,
                    WaitlistsWhenFull
<1>2. CASE \A t \in Requests : ~Commit(t)
  <2>1. HasRoom' = HasRoom
    BY <1>2, <1>t, GoingStays
  <2>2. ASSUME NEW s \in Requests, InSection(s)', req'[s].own = "WAITLISTED"
        PROVE  (InSection(s) /\ req[s].own = "WAITLISTED") \/ ~HasRoom
    <3>1. CASE Decide(s)
      <4>1. ASSUME NEW own, NEW head, LoadAs(s, own, head) PROVE req'[s].own = own
        BY <4>1, <1>t DEF LoadAs, Request
      <4>2. ~Refuse(s)
        BY <2>2, <1>t DEF Refuse, Finish, Idle, InSection
      <4>3. Create(s) \/ TakeSeat(s)
        BY <2>2, <3>1, <4>1, <4>2
           DEF Decide, ReleaseSeat, LeaveWaitlist, Remove
      <4> QED BY <2>2, <4>1, <4>3 DEF Create, TakeSeat, SeatOrWaitlist
    <3>2. CASE Advance(s)
      <4>1. ~Finish(s)
        BY <2>2, <1>t DEF Finish, Idle, InSection
      <4> QED BY <2>2, <3>2, <4>1, <1>2, <1>t
              DEF Advance, WriteOwnRow, PromoteFirstWaitlisted, WriteFails,
                  NotifyPromotedUser, LateMail, InSection, Request
    <3>3. CASE Expire(s)
      <4>1. CASE Finish(s)
        BY <2>2, <4>1, <1>t DEF Finish, Idle, InSection
      <4>2. CASE req' = [req EXCEPT ![s].phase = "late"]
        BY <2>2, <4>2, <1>t DEF InSection, Request
      <4> QED BY <3>3, <4>1, <4>2 DEF Expire
    <3>4. ASSUME NEW u \in Users, NEW op \in UserOps, Begin(s, op, u) PROVE FALSE
      BY <2>2, <3>4, <1>t DEF Begin, Idle, InSection
    <3>5. ASSUME NEW t \in Requests, t # s,
                 \/ Decide(t) \/ Advance(t) \/ Expire(t)
                 \/ \E u \in Users, op \in UserOps : Begin(t, op, u)
          PROVE  req'[s] = req[s]
      BY <3>5, <1>t DEF Decide, Create, TakeSeat, ReleaseSeat, LeaveWaitlist, Remove,
            LoadAs, Refuse, Finish, Advance, WriteOwnRow, PromoteFirstWaitlisted,
            WriteFails, NotifyPromotedUser, Commit, LateMail, Expire, Begin
    <3>6. \A t \in Requests, u \in Users : ~StartDeletion(t, u)
      BY DEF StartDeletion
    <3>7. CASE req' = req
      BY <2>2, <3>7 DEF InSection
    <3> QED BY <2>2, <3>1, <3>2, <3>3, <3>4, <3>5, <3>6, <3>7
            DEF Next, vars, Invite, Decline, Cascade, TimePasses, InSection
  <2> QED BY <2>1, <2>2, <1>t DEF WaitlistsWhenFull, InSection
<1> QED BY <1>1, <1>2

LEMMA NoIdleSeatInductive ==
    ASSUME Deleters = {}, Editors = {}, FullInv, [Next]_vars
    PROVE  NoIdleSeat'
<1>t. SeatInv /\ Settled /\ WaitlistsWhenFull /\ NoIdleSeat
  BY DEF FullInv
<1>c. Cardinality(Going) \in Nat /\ (capacity = Unlimited \/ capacity \in Nat)
  BY <1>t, GoingFinite, CapacityAssumption DEF SeatInv, TypeOK
<1>1. ASSUME NEW t \in Requests, Commit(t) PROVE NoIdleSeat'
  <2>1. Waiting' = {} \/ ~HasRoom
    <3> SUFFICES ASSUME HasRoom PROVE Waiting' = {}
      OBVIOUS
    <3>1. Waiting = {}
      BY <1>t, <1>c DEF NoIdleSeat, HasRoom
    <3>2. InSection(t)
      BY <1>1 DEF Commit, AllWritten, InSection
    <3>3. req[t].own # "WAITLISTED"
      BY <3>2, <1>t DEF WaitlistsWhenFull
    <3>4. \A v \in Users : status'[v] = IF v = req[t].user THEN req[t].own
                               ELSE IF v = req[t].head THEN "GOING" ELSE status[v]
      BY <1>1, <1>t, CommitEffect
    <3> QED BY <3>1, <3>3, <3>4 DEF Waiting
  <2>2. CASE ~HasRoom
    BY <2>2, <1>1, <1>t, <1>c, CommitSeats DEF NoIdleSeat, HasRoom
  <2> QED BY <2>1, <2>2 DEF NoIdleSeat
<1>2. CASE \A t \in Requests : ~Commit(t)
  <2>1. Going' = Going /\ UNCHANGED capacity
    BY <1>2, <1>t, GoingStays
  <2>2. Waiting' \subseteq Waiting
    BY <1>2, <1>t, OtherSteps
  <2> QED BY <2>1, <2>2, <1>t DEF NoIdleSeat
<1> QED BY <1>1, <1>2

(* While nobody edits the event or deletes an account, nobody waits for a  *)
(* seat that is free.                                                      *)
THEOREM SeatsAreUsed == Editors = {} /\ Deleters = {} => (Spec => []NoIdleSeat)
<1> SUFFICES ASSUME Editors = {}, Deleters = {} PROVE Spec => []NoIdleSeat
  OBVIOUS
<1>1. Init => FullInv
  BY SeatInitial DEF Init, FullInv, Settled, WaitlistsWhenFull, NoIdleSeat, Waiting,
                     InSection, Idle
<1>2. FullInv /\ [Next]_vars => FullInv'
  BY SeatInductive, SettledInductive, WaitlistsWhenFullInductive, NoIdleSeatInductive
     DEF FullInv
<1>3. FullInv => NoIdleSeat
  BY DEF FullInv
<1> QED BY <1>1, <1>2, <1>3, PTL DEF Spec

-----------------------------------------------------------------------------
MailInv == SeatInv /\ PromotionMailTrue

LEMMA MailInductive ==
    ASSUME MailInv, [Next]_vars
    PROVE  PromotionMailTrue'
<1> USE DEF rows, event
<1>t. /\ req \in [Requests -> Request] /\ SeatInv /\ PromotionMailTrue
      /\ told \subseteq Users
  BY DEF MailInv, SeatInv, TypeOK, Request
<1>f. ASSUME NEW t \in Requests, Finish(t)
      PROVE  \A s \in Requests : s # t => req'[s] = req[s]
  BY <1>f, <1>t DEF Finish
<1>1. ASSUME NEW t \in Requests, Commit(t) PROVE PromotionMailTrue'
  <2>1. \A s \in Requests : req[s].phase = "notified" => s = t
    BY <1>1, <1>t DEF Commit, AllWritten, SeatInv, LockInv, InSection
  <2>2. /\ req[t].user \in Users
        /\ \A v \in Users : status'[v] = IF v = req[t].user THEN req[t].own
                             ELSE IF v = req[t].head THEN "GOING" ELSE status[v]
        /\ req[t].head # Nobody => req[t].head # req[t].user
    BY <1>1, <1>t, CommitEffect
  <2>3. ASSUME NEW v \in told' \ misled' PROVE status'[v] = "GOING"
    <3>1. /\ v \in told /\ v \in Users /\ (v = req[t].user => req[t].own = "GOING")
          /\ v # req[t].user /\ v # req[t].head => v \notin misled
      BY <1>1, <1>t, <2>3 DEF Commit
    <3>2. v = req[t].user \/ v = req[t].head \/ status[v] = "GOING"
      BY <3>1, <2>1, <1>t DEF PromotionMailTrue
    <3> QED BY <3>1, <3>2, <2>2
  <2> QED BY <2>3 DEF PromotionMailTrue
<1>2. ASSUME NEW t \in Requests, NotifyPromotedUser(t) PROVE PromotionMailTrue'
  <2>1. /\ req' = [req EXCEPT ![t].phase = "notified"] /\ UNCHANGED <<status, misled>>
        /\ told' \subseteq told \union {req[t].head}
        /\ req[t].phase = "promoted"
    BY <1>2 DEF NotifyPromotedUser
  <2>2. /\ req'[t].phase = "notified" /\ req'[t].head = req[t].head
        /\ \A s \in Requests : s # t => req'[s] = req[s]
    BY <2>1, <1>t DEF Request
  <2> QED BY <2>1, <2>2, <1>t DEF PromotionMailTrue
(* Whom a transaction that is given up has told, is misled.                *)
<1>3. ASSUME NEW t \in Requests, LateMail(t) PROVE PromotionMailTrue'
  <2>1. /\ status' = status /\ req[t].phase = "late" /\ told' \ misled' \subseteq told \ misled
        /\ \A s \in Requests : s # t => req'[s] = req[s]
    BY <1>3, <1>f DEF LateMail
  <2> QED BY <2>1, <1>t DEF PromotionMailTrue
<1>4. ASSUME NEW t \in Requests, Expire(t) PROVE PromotionMailTrue'
  <2>1. /\ UNCHANGED <<status, told>> /\ \A s \in Requests : s # t => req'[s] = req[s]
        /\ told' \ misled' \subseteq told \ misled
        /\ req[t].phase = "notified" => req[t].head \notin told' \ misled'
    BY <1>4, <1>f, <1>t DEF Expire
  <2> QED BY <2>1, <1>t DEF PromotionMailTrue
<1>5. ASSUME NEW u \in Users, Invite(u) \/ Decline(u) \/ Cascade(u) PROVE PromotionMailTrue'
  <2>1. /\ req' = req
        /\ \A v \in told' \ misled' : v \in told \ misled /\ (status[v] = "GOING" => status'[v] = "GOING")
    BY <1>5, <1>t DEF Invite, Decline, Cascade, SeatInv, TypeOK
  <2> QED BY <2>1, <1>t DEF PromotionMailTrue
<1>6. ASSUME UNCHANGED <<status, told, misled>>,
             \A s \in Requests : req[s].phase = "notified" => req'[s] = req[s]
      PROVE  PromotionMailTrue'
  BY <1>6, <1>t DEF PromotionMailTrue
<1>7. ASSUME NEW t \in Requests, NEW op \in UserOps, NEW u \in Users, Begin(t, op, u)
      PROVE  PromotionMailTrue'
  BY <1>7, <1>6, <1>t DEF Begin
<1>8. ASSUME NEW t \in Requests, Decide(t) PROVE PromotionMailTrue'
  <2>1. CASE Refuse(t)
    BY <2>1, <1>6, <1>f, <1>t DEF Refuse, Granted
  <2>2. ASSUME NEW own, NEW head, LoadAs(t, own, head), req[t].phase = "waiting"
        PROVE  PromotionMailTrue'
    BY <2>2, <1>6, <1>t DEF LoadAs, Request
  <2> QED BY <1>8, <2>1, <2>2
          DEF Decide, Create, TakeSeat, ReleaseSeat, LeaveWaitlist, Remove, Granted
<1>9. ASSUME NEW t \in Requests, WriteOwnRow(t) \/ PromoteFirstWaitlisted(t)
      PROVE  PromotionMailTrue'
  BY <1>9, <1>6, <1>t DEF WriteOwnRow, PromoteFirstWaitlisted, Request
<1>10. ASSUME NEW t \in Requests, WriteFails(t) PROVE PromotionMailTrue'
  BY <1>10, <1>6, <1>f, <1>t DEF WriteFails
<1>11. ASSUME NEW t \in Requests, NEW u \in Users, StartDeletion(t, u) PROVE PromotionMailTrue'
  <2>1. /\ req[t].phase = "idle" /\ UNCHANGED <<status, told, misled>>
        /\ \A s \in Requests : s # t => req'[s] = req[s]
    BY <1>11, <1>t DEF StartDeletion
  <2> QED BY <2>1, <1>6
<1>12. CASE UNCHANGED <<status, told, misled, req>>
  BY <1>12, <1>6
<1> QED BY <1>1, <1>2, <1>3, <1>4, <1>5, <1>7, <1>8, <1>9, <1>10, <1>11, <1>12
        DEF Next, vars, Advance, AssertCapacityNotBelowGoing, SaveEvent, TimePasses

(* A promotion that was mailed is a promotion that happens, unless the     *)
(* transaction that mailed it was given up before it committed.            *)
THEOREM MailedPromotionsHappen == Spec => []PromotionMailTrue
<1>1. Init => MailInv
  BY SeatInitial DEF Init, MailInv, PromotionMailTrue
<1>2. MailInv /\ [Next]_vars => MailInv'
  BY SeatInductive, MailInductive DEF MailInv
<1>3. MailInv => PromotionMailTrue
  BY DEF MailInv
<1> QED BY <1>1, <1>2, <1>3, PTL DEF Spec

-----------------------------------------------------------------------------
(***************************************************************************)
(* What a list in an order is (Places): who has so many before them, place *)
(* after place.                                                            *)
(***************************************************************************)
Ordered(people, order) ==
    /\ \A u, v \in people : u # v => (<<u, v>> \in order <=> <<v, u>> \notin order)
    /\ \A u \in people : <<u, u>> \notin order
    /\ \A u, v, w \in people : <<u, v>> \in order /\ <<v, w>> \in order => <<u, w>> \in order

(* A sequence of all of them, in order.                                    *)
Lists(q, people, order) ==
    /\ q \in Seq(people)
    /\ \A u \in people : \E i \in 1..Len(q) : q[i] = u
    /\ \A i, j \in 1..Len(q) : i < j => <<q[i], q[j]>> \in order

(* Who comes later has more before.                                        *)
LEMMA PlacesGrow ==
    ASSUME NEW people, IsFiniteSet(people), NEW order, Ordered(people, order),
           NEW u \in people, NEW v \in people, <<u, v>> \in order
    PROVE  /\ Cardinality(Before(people, order, u)) \in Nat
           /\ Cardinality(Before(people, order, v)) \in Nat
           /\ Cardinality(Before(people, order, u)) < Cardinality(Before(people, order, v))
<1> DEFINE A == Before(people, order, u)
           B == Before(people, order, v)
<1>1. A \in SUBSET B /\ B \in SUBSET people /\ A # B
  BY DEF Before, Ordered
<1> HIDE DEF A, B
<1>2. IsFiniteSet(B)
  BY <1>1, FS_Subset
<1>3. IsFiniteSet(A) /\ Cardinality(A) <= Cardinality(B) /\ Cardinality(A) # Cardinality(B)
  BY <1>1, <1>2, FS_Subset
<1>4. Cardinality(A) \in Nat /\ Cardinality(B) \in Nat
  BY <1>2, <1>3, FS_CardinalityType
<1> QED BY <1>3, <1>4 DEF A, B

LEMMA PlacesDiffer ==
    ASSUME NEW people, IsFiniteSet(people), NEW order, Ordered(people, order),
           NEW u \in people, NEW v \in people,
           Cardinality(Before(people, order, u)) = Cardinality(Before(people, order, v))
    PROVE  u = v
<1>1. CASE <<u, v>> \in order
  BY <1>1, PlacesGrow
<1>2. CASE <<v, u>> \in order
  BY <1>2, PlacesGrow
<1> QED BY <1>1, <1>2 DEF Ordered

LEMMA PlacesInRange ==
    ASSUME NEW people, IsFiniteSet(people), NEW order, Ordered(people, order),
           NEW u \in people
    PROVE  Cardinality(Before(people, order, u)) + 1 \in 1..Cardinality(people)
<1> DEFINE A == Before(people, order, u)
<1>1. A \in SUBSET people /\ A # people
  BY DEF Before, Ordered
<1> HIDE DEF A
<1>2. IsFiniteSet(A) /\ Cardinality(A) <= Cardinality(people) /\ Cardinality(A) # Cardinality(people)
  BY <1>1, FS_Subset
<1>3. Cardinality(A) \in Nat /\ Cardinality(people) \in Nat
  BY <1>2, FS_CardinalityType
<1> QED BY <1>2, <1>3 DEF A

(* Every place is taken, by one.                                           *)
LEMMA PlacesTaken ==
    ASSUME NEW people, IsFiniteSet(people), NEW order, Ordered(people, order),
           NEW i \in 1..Cardinality(people)
    PROVE  \E u \in people : Cardinality(Before(people, order, u)) = i - 1
<1> DEFINE n == Cardinality(people)
           place == [u \in people |-> Cardinality(Before(people, order, u)) + 1]
<1>n. n \in Nat
  BY FS_CardinalityType
<1>1. place \in [people -> 1..n]
  BY PlacesInRange
<1>2. \A u, v \in people : place[u] = place[v] => u = v
  <2>1. \A u \in people : Cardinality(Before(people, order, u)) + 1 \in 1..n
    BY PlacesInRange
  <2>2. \A u, v \in people :
           Cardinality(Before(people, order, u)) = Cardinality(Before(people, order, v)) => u = v
    BY PlacesDiffer
  <2>3. \A u \in people : Cardinality(Before(people, order, u)) \in Nat
    <3> TAKE u \in people
    <3>1. Before(people, order, u) \in SUBSET people
      BY DEF Before
    <3> QED BY <3>1, FS_Subset, FS_CardinalityType
  <2> QED BY <2>2, <2>3
<1>3. place \in Injection(people, 1..n)
  BY <1>1, <1>2 DEF Injection, IsInjective
<1>4. IsFiniteSet(1..n) /\ Cardinality(1..n) = n
  BY <1>n, FS_Interval
<1>5. place \in Surjection(people, 1..n)
  BY <1>3, <1>4, FS_Injection
<1>6. PICK u \in people : place[u] = i
  BY <1>5 DEF Surjection
<1>7. Cardinality(Before(people, order, u)) + 1 \in 1..n
  BY PlacesInRange
<1>8. Cardinality(Before(people, order, u)) \in Nat
  <2>1. Before(people, order, u) \in SUBSET people
    BY DEF Before
  <2> QED BY <2>1, FS_Subset, FS_CardinalityType
<1> QED BY <1>6, <1>8

LEMMA InOrderLists ==
    ASSUME NEW people, IsFiniteSet(people), NEW order, Ordered(people, order)
    PROVE  /\ Lists(InOrder(people, order), people, order)
           /\ Len(InOrder(people, order)) = Cardinality(people)
<1> DEFINE n == Cardinality(people)
           q == InOrder(people, order)
           place(u) == Cardinality(Before(people, order, u))
<1>n. n \in Nat
  BY FS_CardinalityType
<1>1. \A i \in 1..n : q[i] \in people /\ place(q[i]) = i - 1
  BY PlacesTaken DEF InOrder
<1>2. q \in Seq(people) /\ Len(q) = n
  <2>1. q \in [1..n -> people]
    BY <1>1 DEF InOrder
  <2> HIDE DEF q, n
  <2> QED BY <2>1, <1>n
<1>3. \A u \in people : place(u) \in Nat /\ place(u) + 1 \in 1..n
  <2> TAKE u \in people
  <2>1. Before(people, order, u) \in SUBSET people
    BY DEF Before
  <2> QED BY <2>1, FS_Subset, FS_CardinalityType, PlacesInRange
<1>4. ASSUME NEW u \in people PROVE \E i \in 1..n : q[i] = u
  <2>1. place(q[place(u) + 1]) = place(u) /\ q[place(u) + 1] \in people
    BY <1>1, <1>3
  <2> QED BY <2>1, <1>3, PlacesDiffer
<1>5. ASSUME NEW i \in 1..n, NEW j \in 1..n, i < j PROVE <<q[i], q[j]>> \in order
  <2>1. q[i] \in people /\ q[j] \in people /\ place(q[i]) < place(q[j])
    BY <1>1, <1>5
  <2>2. <<q[j], q[i]>> \notin order
    BY <2>1, PlacesGrow
  <2>3. q[i] # q[j]
    <3>1. place(q[i]) = i - 1 /\ place(q[j]) = j - 1 /\ i - 1 # j - 1
      BY <1>1, <1>5
    <3> QED BY <3>1
  <2> QED BY <2>1, <2>2, <2>3 DEF Ordered
<1> HIDE DEF q, n
<1> QED BY <1>2, <1>4, <1>5 DEF Lists, q, n

(* There is one such sequence.                                             *)
LEMMA OneList ==
    ASSUME NEW people, IsFiniteSet(people), NEW order, Ordered(people, order),
           NEW q, Lists(q, people, order)
    PROVE  q = InOrder(people, order)
<1> DEFINE l == InOrder(people, order)
           n == Len(q)
<1>1. q \in Seq(people) /\ n \in Nat /\ q \in [1..n -> people]
  BY DEF Lists
<1>2. \A i, j \in 1..n : q[i] = q[j] => i = j
  <2>1. \A i, j \in 1..n : i < j => <<q[i], q[j]>> \in order
    BY DEF Lists
  <2>2. \A i \in 1..n : q[i] \in people /\ <<q[i], q[i]>> \notin order
    BY <1>1 DEF Ordered
  <2>3. \A i, j \in 1..n : i < j => q[i] # q[j]
    BY <2>1, <2>2
  <2> QED BY <2>3, <1>1
<1>3. q \in Bijection(1..n, people)
  BY <1>1, <1>2 DEF Lists, Bijection, Injection, IsInjective, Surjection
<1>4. n = Cardinality(people)
  <2>1. IsFiniteSet(1..n) /\ Cardinality(1..n) = n
    BY <1>1, FS_Interval
  <2> QED BY <1>3, <2>1, FS_Bijection DEF ExistsBijection
<1>5. ASSUME NEW i \in 1..n
      PROVE  Cardinality(Before(people, order, q[i])) = i - 1
  <2> DEFINE B == Before(people, order, q[i])
             f == [j \in 1..(i - 1) |-> q[j]]
  <2>1. i - 1 \in Nat /\ \A j \in 1..(i - 1) : j \in 1..n /\ j < i
    BY <1>1
  <2>2. \A j \in 1..(i - 1) : q[j] \in B
    BY <2>1, <1>1 DEF Before, Lists
  <2>3. f \in [1..(i - 1) -> B]
    BY <2>2
  <2>4. ASSUME NEW v \in B PROVE \E j \in 1..(i - 1) : f[j] = v
    <3>1. PICK j \in 1..n : q[j] = v
      BY DEF Before, Lists
    <3>2. v \in people /\ <<q[j], q[i]>> \in order /\ q[i] \in people
      BY <3>1, <1>1 DEF Before
    <3>3. j # i
      BY <3>1, <3>2 DEF Ordered
    <3>4. ~(i < j)
      BY <3>1, <3>2, <1>1 DEF Lists, Ordered
    <3>5. j \in 1..(i - 1)
      BY <3>3, <3>4, <1>1
    <3> QED BY <3>1, <3>5
  <2>5. \A j, k \in 1..(i - 1) : f[j] = f[k] => j = k
    BY <1>2, <2>1
  <2> HIDE DEF B, f
  <2>6. f \in Bijection(1..(i - 1), B)
    BY <2>3, <2>4, <2>5 DEF Bijection, Injection, IsInjective, Surjection
  <2>7. IsFiniteSet(1..(i - 1)) /\ Cardinality(1..(i - 1)) = i - 1
    BY <2>1, FS_Interval
  <2> QED BY <2>6, <2>7, FS_Bijection DEF ExistsBijection, B
<1>6. \A i \in 1..n : l[i] \in people /\ Cardinality(Before(people, order, l[i])) = i - 1
  BY <1>4, PlacesTaken DEF InOrder
<1>7. \A i \in 1..n : q[i] = l[i]
  BY <1>1, <1>5, <1>6, PlacesDiffer
<1>8. l \in Seq(people) /\ Len(l) = n
  BY <1>4, InOrderLists DEF Lists
<1> HIDE DEF l, n
<1> QED BY <1>1, <1>7, <1>8, SeqEqual DEF l, n

(* The order among some people does not change.                            *)
Agree(people, order, later) ==
    \A u, v \in people : <<u, v>> \in order <=> <<u, v>> \in later

LEMMA ListStays ==
    ASSUME NEW people, IsFiniteSet(people), NEW order, NEW later,
           Ordered(people, order), Agree(people, order, later)
    PROVE  InOrder(people, later) = InOrder(people, order)
<1> DEFINE l == InOrder(people, order)
<1>1. Lists(l, people, order)
  BY InOrderLists
<1> HIDE DEF l
<1>2. \A i \in 1..Len(l) : l[i] \in people
  BY <1>1, ElementOfSeq DEF Lists
<1>3. Lists(l, people, later)
  BY <1>1, <1>2 DEF Lists, Agree
<1>4. Ordered(people, later)
  BY DEF Ordered, Agree
<1> QED BY <1>3, <1>4, OneList DEF l

(* Who comes after all the others is appended.                             *)
LEMMA ListGrows ==
    ASSUME NEW people, IsFiniteSet(people), NEW order, NEW later, NEW u,
           Ordered(people, order), Agree(people, order, later), u \notin people,
           Ordered(people \union {u}, later), \A v \in people : <<v, u>> \in later
    PROVE  InOrder(people \union {u}, later) = Append(InOrder(people, order), u)
<1> DEFINE l == InOrder(people, order)
           all == people \union {u}
           m == Append(l, u)
           n == Len(l)
<1>1. Lists(l, people, order)
  BY InOrderLists
<1>2. IsFiniteSet(all)
  BY FS_AddElement
<1> HIDE DEF l, all
<1>3. l \in Seq(all) /\ u \in all /\ n \in Nat /\ \A i \in 1..n : l[i] \in people
  BY <1>1, ElementOfSeq, SeqMonotonic, LenProperties DEF Lists, all
<1>4. /\ m \in Seq(all) /\ Len(m) = n + 1
      /\ \A i \in 1..n : m[i] = l[i]
      /\ m[n + 1] = u
  BY <1>3, AppendProperties
<1> HIDE DEF m
<1>5. ASSUME NEW v \in all PROVE \E i \in 1..Len(m) : m[i] = v
  <2>1. CASE v = u
    BY <2>1, <1>3, <1>4
  <2>2. CASE v \in people
    <3>1. PICK i \in 1..n : l[i] = v
      BY <2>2, <1>1 DEF Lists
    <3> QED BY <3>1, <1>3, <1>4
  <2> QED BY <2>1, <2>2 DEF all
<1>6. ASSUME NEW i \in 1..Len(m), NEW j \in 1..Len(m), i < j PROVE <<m[i], m[j]>> \in later
  <2>1. i \in 1..n /\ m[i] = l[i] /\ l[i] \in people
    BY <1>3, <1>4, <1>6
  <2>2. CASE j = n + 1
    BY <2>1, <2>2, <1>4
  <2>3. CASE j \in 1..n
    BY <2>1, <2>3, <1>1, <1>3, <1>4, <1>6 DEF Lists, Agree
  <2> QED BY <2>2, <2>3, <1>3, <1>4
<1>7. Lists(m, all, later)
  BY <1>4, <1>5, <1>6 DEF Lists
<1> QED BY <1>2, <1>7, OneList DEF m, l, all

(* Who leaves is taken out, the others move up.                            *)
LEMMA ListShrinks ==
    ASSUME NEW people, IsFiniteSet(people), NEW order, NEW later,
           Ordered(people, order), NEW k \in 1..Cardinality(people),
           Agree(people \ {InOrder(people, order)[k]}, order, later)
    PROVE  LET l == InOrder(people, order)
           IN  InOrder(people \ {l[k]}, later)
                  = SubSeq(l, 1, k - 1) \o SubSeq(l, k + 1, Len(l))
<1> DEFINE l == InOrder(people, order)
           rest == people \ {l[k]}
           n == Len(l)
           a == SubSeq(l, 1, k - 1)
           b == SubSeq(l, k + 1, n)
           m == a \o b
<1>1. Lists(l, people, order) /\ n = Cardinality(people)
  BY InOrderLists
<1>2. IsFiniteSet(rest)
  BY FS_RemoveElement
<1>o. Agree(rest, order, later) /\ k \in 1..n
  BY <1>1
<1> HIDE DEF l
<1>3. l \in Seq(people) /\ n \in Nat /\ \A i \in 1..n : l[i] \in people
  BY <1>1, ElementOfSeq, LenProperties DEF Lists
<1>4. \A i, j \in 1..n : i < j => <<l[i], l[j]>> \in order /\ l[i] # l[j]
  <2>1. \A i, j \in 1..n : i < j => <<l[i], l[j]>> \in order
    BY <1>1 DEF Lists
  <2>2. \A i \in 1..n : <<l[i], l[i]>> \notin order
    BY <1>3 DEF Ordered
  <2> QED BY <2>1, <2>2
<1>5. \A i \in 1..n : i # k => l[i] \in rest
  <2> TAKE i \in 1..n
  <2>1. CASE i < k
    BY <2>1, <1>3, <1>4, <1>o
  <2>2. CASE k < i
    BY <2>2, <1>3, <1>4, <1>o
  <2> QED BY <2>1, <2>2, <1>3, <1>o
<1> HIDE DEF rest, n
<1>6. a \in Seq(rest) /\ Len(a) = k - 1 /\ \A i \in 1..(k - 1) : a[i] = l[i]
  <2>1. \A i \in 1..(k - 1) : l[i] \in rest
    BY <1>3, <1>5, <1>o
  <2>2. 1 \in Int /\ k - 1 \in Int /\ k - 1 - 1 + 1 = k - 1 /\ k >= 1
    BY <1>o
  <2>3. /\ a \in Seq(rest) /\ Len(a) = IF 1 <= k - 1 THEN k - 1 - 1 + 1 ELSE 0
        /\ \A i \in 1..(k - 1 - 1 + 1) : a[i] = l[1 + i - 1]
    BY <2>1, <2>2, SubSeqProperties
  <2> HIDE DEF a
  <2> QED BY <2>2, <2>3, <1>o
<1>7. b \in Seq(rest) /\ Len(b) = n - k /\ \A i \in 1..(n - k) : b[i] = l[k + i]
  <2>1. \A i \in (k + 1)..n : l[i] \in rest
    BY <1>3, <1>5, <1>o
  <2>2. k + 1 \in Int /\ n \in Int /\ k <= n /\ k \in Int
    BY <1>o, <1>3
  <2>3. /\ b \in Seq(rest) /\ Len(b) = IF k + 1 <= n THEN n - (k + 1) + 1 ELSE 0
        /\ \A i \in 1..(n - (k + 1) + 1) : b[i] = l[k + 1 + i - 1]
    BY <2>1, <2>2, SubSeqProperties
  <2> HIDE DEF b
  <2>4. Len(b) = n - k
    BY <2>2, <2>3
  <2>5. n - (k + 1) + 1 = n - k /\ \A i \in 1..(n - k) : k + 1 + i - 1 = k + i
    BY <2>2
  <2> QED BY <2>3, <2>4, <2>5
<1> HIDE DEF a, b
<1>8. /\ m \in Seq(rest) /\ Len(m) = n - 1
      /\ \A i \in 1..(n - 1) : m[i] = IF i < k THEN l[i] ELSE l[i + 1]
  <2>1. /\ m \in Seq(rest) /\ Len(m) = Len(a) + Len(b)
        /\ \A i \in 1..(Len(a) + Len(b)) : m[i] = IF i <= Len(a) THEN a[i] ELSE b[i - Len(a)]
    BY <1>6, <1>7, ConcatProperties
  <2> HIDE DEF m
  <2>2. Len(a) + Len(b) = n - 1
    BY <1>6, <1>7, <1>3, <1>o
  <2>3. ASSUME NEW i \in 1..(n - 1) PROVE m[i] = IF i < k THEN l[i] ELSE l[i + 1]
    <3>1. CASE i < k
      BY <3>1, <2>1, <2>2, <1>6, <1>o
    <3>2. CASE ~(i < k)
      <4>1. i - (k - 1) \in 1..(n - k) /\ k + (i - (k - 1)) = i + 1 /\ ~(i <= k - 1)
        BY <3>2, <1>3, <1>o
      <4>2. m[i] = b[i - (k - 1)]
        BY <4>1, <2>1, <2>2, <1>6
      <4> QED BY <4>1, <4>2, <1>7, <3>2
    <3> QED BY <3>1, <3>2
  <2> QED BY <2>1, <2>2, <2>3
<1> HIDE DEF m
<1>9. ASSUME NEW v \in rest PROVE \E i \in 1..Len(m) : m[i] = v
  <2>1. PICK i \in 1..n : l[i] = v
    BY <1>1 DEF Lists, rest, n
  <2>2. i # k
    BY <2>1 DEF rest
  <2>3. CASE i < k
    BY <2>1, <2>3, <1>8, <1>3, <1>o
  <2>4. CASE i > k
    <3>1. i - 1 \in 1..(n - 1) /\ ~(i - 1 < k) /\ (i - 1) + 1 = i
      BY <2>4, <1>3, <1>o
    <3> QED BY <2>1, <3>1, <1>8
  <2> QED BY <2>2, <2>3, <2>4, <1>o, <1>3
<1>10. ASSUME NEW i \in 1..Len(m), NEW j \in 1..Len(m), i < j PROVE <<m[i], m[j]>> \in later
  <2> DEFINE up(x) == IF x < k THEN x ELSE x + 1
  <2>1. /\ up(i) \in 1..n /\ up(j) \in 1..n /\ up(i) < up(j) /\ up(i) # k /\ up(j) # k
        /\ m[i] = l[up(i)] /\ m[j] = l[up(j)]
    BY <1>3, <1>8, <1>10, <1>o
  <2> HIDE DEF up
  <2>2. <<l[up(i)], l[up(j)]>> \in order
    BY <2>1, <1>4
  <2>3. l[up(i)] \in rest /\ l[up(j)] \in rest
    BY <2>1, <1>5
  <2> QED BY <2>1, <2>2, <2>3, <1>o DEF Agree
<1>11. Lists(m, rest, later)
  BY <1>8, <1>9, <1>10 DEF Lists
<1>12. Ordered(rest, later)
  BY <1>o DEF Ordered, Agree, rest
<1> QED BY <1>2, <1>11, <1>12, OneList DEF m, l, rest, a, b, n

-----------------------------------------------------------------------------
(***************************************************************************)
(* Registration implements SeatService: updatedAt orders the               *)
(* registrations, and a write keeps it an order.                           *)
(***************************************************************************)
OrderInv == Ordered(Rows, older)

LEMMA TouchOrders ==
    ASSUME NEW people, NEW order, Ordered(people, order), NEW u
    PROVE  /\ Ordered(people \union {u}, Touch(order, people, u))
           /\ Agree(people \ {u}, order, Touch(order, people, u))
           /\ \A v \in people \ {u} : <<v, u>> \in Touch(order, people, u)
<1>1. \A v, w : <<v, w>> \in Touch(order, people, u) <=>
                   \/ <<v, w>> \in order /\ v # u /\ w # u
                   \/ v \in people /\ v # u /\ w = u
  BY DEF Touch, Without
<1> QED BY <1>1 DEF Ordered, Agree

LEMMA WithoutOrders ==
    ASSUME NEW people, NEW order, Ordered(people, order), NEW u
    PROVE  /\ Ordered(people \ {u}, Without(order, u))
           /\ Agree(people \ {u}, order, Without(order, u))
<1>1. \A v, w : <<v, w>> \in Without(order, u) <=> <<v, w>> \in order /\ v # u /\ w # u
  BY DEF Without
<1> QED BY <1>1 DEF Ordered, Agree

(* A commit moves its own row to the end or takes it out, and then moves   *)
(* the row of whom it promotes.                                            *)
LEMMA CommitOrders ==
    ASSUME SeatInv, OrderInv, NEW t \in Requests, Commit(t)
    PROVE  LET u == req[t].user
               head == req[t].head
           IN /\ OrderInv'
              /\ Agree(Rows \ {u, head}, older, older')
              /\ req[t].own = "WAITLISTED" => \A v \in Rows \ {u} : <<v, u>> \in older'
<1> DEFINE u == req[t].user
           own == req[t].own
           head == req[t].head
           first == IF own = "NONE" THEN Without(older, u) ELSE Touch(older, Rows, u)
           left == IF own = "NONE" THEN Rows \ {u} ELSE Rows \union {u}
<1>1. /\ u \in Users /\ PlanOK(req[t]) /\ req[t].phase # "loaded"
      /\ \A v \in Users : status'[v] = IF v = u THEN own
                                       ELSE IF v = head THEN "GOING" ELSE status[v]
      /\ head # Nobody => /\ head \in Users /\ head # u
                          /\ status[u] = "GOING" /\ status[head] = "WAITLISTED"
                          /\ own \notin {"GOING", "WAITLISTED"}
  BY CommitEffect
<1>2. older' = IF head = Nobody THEN first ELSE Touch(first, left, head)
  BY DEF Commit
<1>3. /\ Ordered(left, first) /\ Agree(Rows \ {u}, older, first)
      /\ own # "NONE" => \A v \in Rows \ {u} : <<v, u>> \in first
  BY TouchOrders, WithoutOrders DEF OrderInv
<1>4. Rows' = left
  <2>1. head # Nobody => head \in Rows
    BY <1>1 DEF Rows
  <2>2. Rows' = {v \in Users : status'[v] # "NONE"} /\ Rows = {v \in Users : status[v] # "NONE"}
    BY DEF Rows
  <2> HIDE DEF u, own, head
  <2> QED BY <1>1, <2>1, <2>2, UsersAssumption
<1> HIDE DEF u, own, head, first
<1>5. CASE head = Nobody
  <2>1. older' = first
    BY <1>2, <1>5
  <2> QED BY <2>1, <1>3, <1>4 DEF OrderInv, Agree, u, own, head
<1>6. CASE head # Nobody
  <2>1. older' = Touch(first, left, head)
    BY <1>2, <1>6
  <2>2. head \in left
    BY <1>1, <1>6 DEF Rows
  <2>3. left \union {head} = left
    BY <2>2
  <2> HIDE DEF left
  <2>4. /\ Ordered(left, older')
        /\ Agree(left \ {head}, first, older')
    BY <2>1, <2>3, <1>3, TouchOrders
  <2>5. Agree(Rows \ {u, head}, older, older')
    BY <2>4, <1>3 DEF Agree, left
  <2>6. own # "WAITLISTED"
    BY <1>1, <1>6
  <2> QED BY <2>4, <2>5, <2>6, <1>4 DEF OrderInv, u, own, head
<1> QED BY <1>5, <1>6

(* Other steps write rows that do not wait.                                *)
LEMMA OthersOrder ==
    ASSUME Deleters = {}, SeatInv, Settled, OrderInv, [Next]_vars,
           \A t \in Requests : ~Commit(t)
    PROVE  OrderInv' /\ Waiting' = Waiting /\ Agree(Waiting, older, older')
<1>1. \A u \in Users : ~Cascade(u)
  BY DEF Settled, Cascade
<1>2. UNCHANGED <<status, older>> \/ \E u \in Users : Invite(u) \/ Decline(u)
  BY <1>1 DEF Next, vars, rows, Begin, Decide, Create, TakeSeat, ReleaseSeat,
         LeaveWaitlist, Remove, LoadAs, Refuse, Advance, WriteOwnRow,
         PromoteFirstWaitlisted, WriteFails, NotifyPromotedUser, LateMail, Expire,
         StartDeletion, AssertCapacityNotBelowGoing, SaveEvent, TimePasses
<1>3. CASE UNCHANGED <<status, older>>
  <2>1. Rows' = Rows /\ Waiting' = Waiting
    BY <1>3 DEF Rows, Waiting
  <2> QED BY <2>1, <1>3 DEF OrderInv, Agree
<1>4. ASSUME NEW u \in Users, Invite(u) \/ Decline(u)
      PROVE  OrderInv' /\ Waiting' = Waiting /\ Agree(Waiting, older, older')
  <2>1. PICK s \in {"INVITED", "NOT_GOING"} : status' = [status EXCEPT ![u] = s]
    BY <1>4 DEF Invite, Decline
  <2>2. status \in [Users -> RegStatus \union {"NONE"}] /\ status[u] # "WAITLISTED"
    BY <1>4 DEF Invite, Decline, SeatInv, TypeOK
  <2>3. \A v \in Users : status'[v] = IF v = u THEN s ELSE status[v]
    BY <2>1, <2>2
  <2>4. Rows' = Rows \union {u} /\ Waiting' = Waiting /\ Waiting \subseteq Rows \ {u}
    BY <2>2, <2>3 DEF Rows, Waiting
  <2>5. older' = Touch(older, Rows, u)
    BY <1>4 DEF Invite, Decline
  <2>6. Ordered(Rows', older') /\ Agree(Rows \ {u}, older, older')
    BY <2>4, <2>5, TouchOrders DEF OrderInv
  <2> QED BY <2>4, <2>6 DEF OrderInv, Agree
<1> QED BY <1>2, <1>3, <1>4

LEMMA WaitlistLists ==
    ASSUME OrderInv
    PROVE  /\ IsFiniteSet(Waiting) /\ Ordered(Waiting, older)
           /\ Lists(Waitlist, Waiting, older)
           /\ Len(Waitlist) = Cardinality(Waiting)
           /\ DOMAIN Waitlist = 1..Cardinality(Waiting)
           /\ Service!Queued = Waiting
<1>1. IsFiniteSet(Waiting)
  BY UsersAssumption, FS_Subset DEF Waiting
<1>2. Ordered(Waiting, older)
  BY DEF OrderInv, Ordered, Waiting, Rows
<1>3. Lists(Waitlist, Waiting, older) /\ Len(Waitlist) = Cardinality(Waiting)
  BY <1>1, <1>2, InOrderLists DEF Waitlist
<1>4. DOMAIN Waitlist = 1..Cardinality(Waiting)
  BY DEF Waitlist, InOrder
<1>5. Service!Queued = Waiting
  <2>1. \A i \in 1..Len(Waitlist) : Waitlist[i] \in Waiting
    BY <1>3, ElementOfSeq DEF Lists
  <2> QED BY <2>1, <1>3, <1>4 DEF Lists, Service!Queued
<1> QED BY <1>1, <1>2, <1>3, <1>4, <1>5

(* A commit that joins takes a seat when there is room, and is queued last *)
(* when there is none.                                                     *)
LEMMA JoiningTakes ==
    ASSUME FullInv, OrderInv, NEW t \in Requests, Commit(t),
           req[t].own \in {"GOING", "WAITLISTED"}
    PROVE  Service!Take(req[t].user)
<1> DEFINE u == req[t].user
           own == req[t].own
<1>1. SeatInv /\ WaitlistsWhenFull
  BY DEF FullInv
<1>2. /\ u \in Users /\ PlanOK(req[t]) /\ req[t].phase # "loaded"
      /\ \A v \in Users : status'[v] = IF v = u THEN own
                                       ELSE IF v = req[t].head THEN "GOING" ELSE status[v]
      /\ UNCHANGED capacity
  BY <1>1, CommitEffect
<1>3. req[t].head = Nobody /\ status[u] \in {"NONE", "NOT_GOING", "INVITED"}
  BY <1>2 DEF PlanOK, Joins
<1>4. \A v \in Users : status'[v] = IF v = u THEN own ELSE status[v]
  BY <1>2, <1>3, UsersAssumption
<1>5. u \notin Going /\ u \notin Waiting
  BY <1>3 DEF Going, Waiting
<1>6. OrderInv' /\ Agree(Rows \ {u, Nobody}, older, older')
      /\ (own = "WAITLISTED" => \A v \in Rows \ {u} : <<v, u>> \in older')
  BY <1>1, <1>3, CommitOrders
<1>7. Waiting \subseteq Rows \ {u, Nobody}
  BY <1>5, UsersAssumption DEF Waiting, Rows
<1>8. Agree(Waiting, older, older')
  BY <1>6, <1>7 DEF Agree
<1>9. IsFiniteSet(Waiting) /\ Ordered(Waiting, older) /\ Service!Queued = Waiting
  BY WaitlistLists
<1>c. Service!Cardinality(Going) = Cardinality(Going)
  BY Zenon DEF Service!Cardinality, Cardinality
<1>10. HasRoom <=> capacity = Unlimited \/ Service!Cardinality(Going) < capacity
  BY <1>c DEF HasRoom
<1> HIDE DEF u, own
<1>11. CASE own = "GOING"
  <2>1. HasRoom
    BY <1>2, <1>11 DEF PlanOK, own
  <2>2. Going' = Going \union {u} /\ Waiting' = Waiting
    BY <1>2, <1>4, <1>5, <1>11 DEF Going, Waiting
  <2>3. Waitlist' = Waitlist
    BY <2>2, <1>8, <1>9, ListStays DEF Waitlist
  <2>4. Service!Take(u)
    BY <2>1, <2>2, <2>3, <1>2, <1>5, <1>9, <1>10 DEF Service!Take
  <2> QED BY <2>4 DEF u
<1>12. CASE own = "WAITLISTED"
  <2>1. InSection(t)
    BY DEF Commit, AllWritten, InSection
  <2>2. ~HasRoom
    BY <2>1, <1>1, <1>12 DEF WaitlistsWhenFull, own
  <2>3. Going' = Going /\ Waiting' = Waiting \union {u}
    BY <1>2, <1>4, <1>5, <1>12 DEF Going, Waiting
  <2>4. Ordered(Waiting \union {u}, older')
    BY <2>3, <1>6 DEF OrderInv, Ordered, Waiting, Rows
  <2>5. \A v \in Waiting : <<v, u>> \in older'
    BY <1>6, <1>7, <1>12
  <2>6. Waitlist' = Append(Waitlist, u)
    BY <2>3, <2>4, <2>5, <1>5, <1>8, <1>9, ListGrows DEF Waitlist
  <2>7. Service!Take(u)
    BY <2>2, <2>3, <2>6, <1>2, <1>5, <1>9, <1>10 DEF Service!Take
  <2> QED BY <2>7 DEF u
<1> QED BY <1>11, <1>12 DEF own

(* A commit that promotes gives a seat to the first of the queue.          *)
LEMMA PromotingGivesUp ==
    ASSUME FullInv, OrderInv, NEW t \in Requests, Commit(t), req[t].head # Nobody
    PROVE  Service!GiveUp(req[t].user)
<1> DEFINE u == req[t].user
           head == req[t].head
           own == req[t].own
<1>1. SeatInv
  BY DEF FullInv
<1>2. /\ u \in Users /\ PlanOK(req[t])
      /\ \A v \in Users : status'[v] = IF v = u THEN own
                                       ELSE IF v = head THEN "GOING" ELSE status[v]
      /\ head \in Users /\ head # u /\ status[u] = "GOING" /\ status[head] = "WAITLISTED"
      /\ own \notin {"GOING", "WAITLISTED"}
      /\ UNCHANGED capacity
  BY <1>1, CommitEffect
<1>3. \A v \in Waiting : <<v, head>> \notin older
  BY <1>2 DEF PlanOK, HeadOK
<1>4. Agree(Rows \ {u, head}, older, older')
  BY <1>1, CommitOrders
<1> HIDE DEF u, head, own
<1>5. /\ Going' = (Going \ {u}) \union {head} /\ u \in Going
      /\ Waiting' = Waiting \ {head} /\ head \in Waiting
  BY <1>2 DEF Going, Waiting
<1>6. Agree(Waiting \ {head}, older, older')
  BY <1>2, <1>4 DEF Agree, Waiting, Rows
<1>7. /\ IsFiniteSet(Waiting) /\ Ordered(Waiting, older) /\ Lists(Waitlist, Waiting, older)
      /\ Len(Waitlist) = Cardinality(Waiting)
  BY WaitlistLists
<1>8. Waitlist \in Seq(Waiting) /\ Len(Waitlist) \in Nat
  BY <1>7, LenProperties DEF Lists
<1>9. Len(Waitlist) >= 1 /\ Waitlist[1] = head
  <2>1. PICK i \in 1..Len(Waitlist) : Waitlist[i] = head
    BY <1>5, <1>7 DEF Lists
  <2>2. Waitlist[1] \in Waiting
    BY <2>1, <1>8, ElementOfSeq
  <2>3. 1 < i => <<Waitlist[1], Waitlist[i]>> \in older
    BY <2>1, <1>7, <1>8 DEF Lists
  <2> QED BY <2>1, <2>2, <2>3, <1>3, <1>8
<1>10. Waitlist # <<>> /\ Head(Waitlist) = head
  BY <1>8, <1>9
<1>11. Waitlist' = Tail(Waitlist)
  <2>1. Waitlist' = SubSeq(Waitlist, 1, 1 - 1) \o SubSeq(Waitlist, 1 + 1, Len(Waitlist))
    <3>1. InOrder(Waiting, older)[1] = head /\ 1 \in 1..Cardinality(Waiting)
      BY <1>7, <1>8, <1>9 DEF Waitlist
    <3> QED BY <3>1, <1>5, <1>6, <1>7, ListShrinks DEF Waitlist
  <2>2. SubSeq(Waitlist, 1, 1 - 1) = <<>>
    BY SubSeqEmpty
  <2>3. Tail(Waitlist) = SubSeq(Waitlist, 2, Len(Waitlist)) /\ Tail(Waitlist) \in Seq(Waiting)
    BY <1>8, <1>10, TailIsSubSeq, HeadTailProperties
  <2>4. <<>> \o Tail(Waitlist) = Tail(Waitlist)
    BY <2>3, ConcatEmptySeq
  <2> QED BY <2>1, <2>2, <2>3, <2>4
<1> QED BY <1>2, <1>5, <1>10, <1>11 DEF Service!GiveUp, u

(* Another commit gives up a seat for which nobody waits, stops waiting,   *)
(* or changes neither.                                                     *)
LEMMA LeavingGivesUp ==
    ASSUME FullInv, OrderInv, NEW t \in Requests, Commit(t),
           req[t].own \notin {"GOING", "WAITLISTED"}, req[t].head = Nobody
    PROVE  \/ Service!GiveUp(req[t].user)
           \/ Service!StopWaiting(req[t].user)
           \/ UNCHANGED <<Going, Waitlist, capacity>>
<1> DEFINE u == req[t].user
           own == req[t].own
<1>1. SeatInv
  BY DEF FullInv
<1>2. /\ u \in Users /\ PlanOK(req[t])
      /\ \A v \in Users : status'[v] = IF v = u THEN own
                                       ELSE IF v = req[t].head THEN "GOING" ELSE status[v]
      /\ UNCHANGED capacity
  BY <1>1, CommitEffect
<1>3. \A v \in Users : status'[v] = IF v = u THEN own ELSE status[v]
  BY <1>2, UsersAssumption
<1>4. Agree(Rows \ {u, Nobody}, older, older')
  BY <1>1, CommitOrders
<1>5. status[u] = "GOING" => Waiting = {}
  BY <1>2 DEF PlanOK, Joins
<1>6. Agree(Waiting \ {u}, older, older')
  BY <1>4, UsersAssumption DEF Agree, Waiting, Rows
<1>7. /\ IsFiniteSet(Waiting) /\ Ordered(Waiting, older) /\ Lists(Waitlist, Waiting, older)
      /\ Len(Waitlist) = Cardinality(Waiting) /\ DOMAIN Waitlist = 1..Cardinality(Waiting)
      /\ Service!Queued = Waiting
  BY WaitlistLists
<1>o. own \notin {"GOING", "WAITLISTED"}
  OBVIOUS
<1> HIDE DEF u, own
<1>8. Going' = Going \ {u} /\ Waiting' = Waiting \ {u}
  BY <1>2, <1>3, <1>o DEF Going, Waiting
<1>9. CASE u \in Waiting
  <2>1. PICK i \in 1..Cardinality(Waiting) : Waitlist[i] = u
    BY <1>7, <1>9 DEF Lists
  <2>2. Waitlist' = SubSeq(Waitlist, 1, i - 1) \o SubSeq(Waitlist, i + 1, Len(Waitlist))
    BY <2>1, <1>6, <1>7, <1>8, ListShrinks DEF Waitlist
  <2>3. u \notin Going
    BY <1>9 DEF Going, Waiting
  <2> QED BY <2>1, <2>2, <2>3, <1>2, <1>7, <1>8, <1>9 DEF Service!StopWaiting, u
<1>10. CASE u \notin Waiting
  <2>1. Waiting' = Waiting /\ Waiting \ {u} = Waiting
    BY <1>8, <1>10
  <2>2. Waitlist' = Waitlist
    BY <2>1, <1>6, <1>7, ListStays DEF Waitlist
  <2>3. CASE u \in Going
    <3>1. Waiting = {}
      BY <2>3, <1>5 DEF Going, u
    <3>2. Waitlist = <<>>
      BY <3>1, <1>7, FS_EmptySet, EmptySeq DEF Lists
    <3> QED BY <2>2, <2>3, <3>2, <1>2, <1>8 DEF Service!GiveUp, u
  <2>4. CASE u \notin Going
    BY <2>2, <2>4, <1>2, <1>8
  <2> QED BY <2>3, <2>4
<1> QED BY <1>9, <1>10

LEMMA StepsServe ==
    ASSUME Deleters = {}, Editors = {}, FullInv, OrderInv, [Next]_vars
    PROVE  OrderInv' /\ [Service!Next]_(Service!vars)
<1>1. SeatInv /\ Settled
  BY DEF FullInv
<1>2. ASSUME NEW t \in Requests, Commit(t)
      PROVE  OrderInv' /\ [Service!Next]_(Service!vars)
  <2>1. OrderInv'
    BY <1>1, <1>2, CommitOrders
  <2>2. req[t].user \in Users /\ (req[t].head # Nobody => req[t].own \notin {"GOING", "WAITLISTED"})
    BY <1>1, <1>2, CommitEffect
  <2>3. \/ Service!Take(req[t].user) \/ Service!GiveUp(req[t].user)
        \/ Service!StopWaiting(req[t].user) \/ UNCHANGED <<Going, Waitlist, capacity>>
    BY <1>2, JoiningTakes, PromotingGivesUp, LeavingGivesUp
  <2> QED BY <2>1, <2>2, <2>3 DEF Service!Next, Service!vars
<1>3. CASE \A t \in Requests : ~Commit(t)
  <2>1. Going' = Going /\ UNCHANGED capacity
    BY <1>1, <1>3, GoingStays
  <2>2. OrderInv' /\ Waiting' = Waiting /\ Agree(Waiting, older, older')
    BY <1>1, <1>3, OthersOrder
  <2>3. Waitlist' = Waitlist
    BY <2>2, WaitlistLists, ListStays DEF Waitlist
  <2> QED BY <2>1, <2>2, <2>3 DEF Service!vars
<1> QED BY <1>2, <1>3

(* With any users and requests, time-outs included, the transactions of an *)
(* event that nobody edits, and whose users keep their accounts, implement *)
(* a first-come-first-served service of its seats: every commit is one of  *)
(* its steps, and nothing else is seen (common.registrations.service.ts).   *)
THEOREM SeatsAreServedInTurn ==
    Editors = {} /\ Deleters = {} => (Spec => ImplementsSeatService)
<1> SUFFICES ASSUME Editors = {}, Deleters = {} PROVE Spec => ImplementsSeatService
  OBVIOUS
<1>1. Init => FullInv /\ OrderInv
  BY SeatInitial DEF Init, FullInv, Settled, WaitlistsWhenFull, NoIdleSeat, Waiting,
                     InSection, Idle, OrderInv, Ordered, Rows
<1>2. FullInv /\ [Next]_vars => FullInv'
  BY SeatInductive, SettledInductive, WaitlistsWhenFullInductive, NoIdleSeatInductive
     DEF FullInv
<1>3. FullInv /\ OrderInv /\ [Next]_vars => OrderInv' /\ [Service!Next]_(Service!vars)
  BY StepsServe
<1>4. Init => Service!Init
  <2> SUFFICES ASSUME Init PROVE Service!Init
    OBVIOUS
  <2>1. Going = {} /\ Waiting = {} /\ capacity \in Capacities
    BY DEF Init, Going, Waiting
  <2>2. Cardinality(Waiting) = 0
    BY <2>1, FS_EmptySet
  <2>3. OrderInv
    BY <1>1
  <2>4. Waitlist = <<>>
    BY <2>2, <2>3, WaitlistLists, EmptySeq DEF Lists
  <2> QED BY <2>1, <2>4 DEF Service!Init
<1> QED BY <1>1, <1>2, <1>3, <1>4, PTL DEF Spec, ImplementsSeatService, Service!Spec

-----------------------------------------------------------------------------
(***************************************************************************)
(* Pages.  The first n of a list, and a page of it.                        *)
(***************************************************************************)
(* The first of a list are those with few before them.                     *)
LEMMA FirstAreFirst ==
    ASSUME NEW people, IsFiniteSet(people), NEW order, Ordered(people, order), NEW n \in Nat
    PROVE  Range(First(InOrder(people, order), n))
              = {u \in people : Cardinality(Before(people, order, u)) < n}
<1> DEFINE l == InOrder(people, order)
           f == First(l, n)
           place(u) == Cardinality(Before(people, order, u))
           m == IF n < Len(l) THEN n ELSE Len(l)
<1>1. Lists(l, people, order) /\ Len(l) = Cardinality(people) /\ Len(l) \in Nat
  BY InOrderLists, FS_CardinalityType
<1>2. \A i \in 1..Len(l) : l[i] \in people /\ place(l[i]) = i - 1
  BY <1>1, PlacesTaken DEF InOrder
<1>3. \A u \in people : \E i \in 1..Len(l) : l[i] = u
  BY <1>1 DEF Lists
<1> HIDE DEF l, place
<1>4. m \in Nat /\ m <= Len(l) /\ \A i \in 1..m : l[i] \in people
  BY <1>1, <1>2
<1>5. f \in Seq(people) /\ Len(f) = m /\ \A i \in 1..m : f[i] = l[i]
  <2>1. f = SubSeq(l, 1, m)
    BY DEF First
  <2> HIDE DEF m, f
  <2>2. 1 \in Int /\ m \in Int /\ m - 1 + 1 = m
    BY <1>4
  <2>3. /\ f \in Seq(people) /\ Len(f) = IF 1 <= m THEN m - 1 + 1 ELSE 0
        /\ \A i \in 1..(m - 1 + 1) : f[i] = l[1 + i - 1]
    BY <2>1, <2>2, <1>4, SubSeqProperties
  <2> QED BY <2>2, <2>3, <1>4
<1> HIDE DEF f
<1>6. Range(f) = {f[i] : i \in 1..m}
  BY <1>5, RangeEquality
<1>7. ASSUME NEW u \in people, place(u) < n PROVE u \in Range(f)
  <2>1. PICK i \in 1..Len(l) : l[i] = u
    BY <1>3
  <2>2. i \in 1..m
    BY <2>1, <1>1, <1>2, <1>7
  <2> QED BY <2>1, <2>2, <1>5, <1>6
<1>8. ASSUME NEW u \in Range(f) PROVE u \in people /\ place(u) < n
  <2>1. PICK i \in 1..m : u = f[i]
    BY <1>6
  <2>2. u = l[i] /\ i \in 1..Len(l) /\ i - 1 < n
    BY <2>1, <1>1, <1>4, <1>5
  <2> QED BY <2>2, <1>2
<1> QED BY <1>7, <1>8 DEF f, l, place

(* A page of a sequence.                                                   *)
LEMMA SliceIsPage ==
    ASSUME NEW S, NEW l \in Seq(S), NEW skip \in Nat, NEW take \in Nat, NEW page,
           page.skip = skip, page.take = take
    PROVE  /\ Slice(l, page) \in Seq(S)
           /\ Len(Slice(l, page)) = IF skip + take <= Len(l) THEN take
                                    ELSE IF skip <= Len(l) THEN Len(l) - skip ELSE 0
           /\ \A k \in 1..Len(Slice(l, page)) :
                 skip + k \in 1..Len(l) /\ Slice(l, page)[k] = l[skip + k]
<1> DEFINE n == Len(l)
           rest == SubSeq(l, skip + 1, n)
           m == IF take < Len(rest) THEN take ELSE Len(rest)
<1>1. n \in Nat /\ \A i \in 1..n : l[i] \in S
  BY LenProperties, ElementOfSeq
<1> HIDE DEF n
<1>2. /\ rest \in Seq(S)
      /\ Len(rest) = IF skip + 1 <= n THEN n - (skip + 1) + 1 ELSE 0
      /\ \A i \in 1..(n - (skip + 1) + 1) : rest[i] = l[skip + 1 + i - 1]
  BY <1>1, SubSeqProperties
<1> HIDE DEF rest
<1>3. /\ m \in Nat /\ m <= Len(rest)
      /\ m = IF skip + take <= n THEN take ELSE IF skip <= n THEN n - skip ELSE 0
      /\ \A i \in 1..m : rest[i] \in S /\ skip + i \in 1..n /\ rest[i] = l[skip + i]
  <2>1. Len(rest) \in Nat /\ Len(rest) = IF skip <= n THEN n - skip ELSE 0
    BY <1>1, <1>2
  <2>2. /\ m \in Nat /\ m <= Len(rest)
        /\ m = IF skip + take <= n THEN take ELSE IF skip <= n THEN n - skip ELSE 0
    BY <1>1, <2>1
  <2> HIDE DEF m
  <2>3. ASSUME NEW i \in 1..m
        PROVE  rest[i] \in S /\ skip + i \in 1..n /\ rest[i] = l[skip + i]
    <3>1. skip + i \in 1..n /\ i \in 1..(n - (skip + 1) + 1) /\ skip + 1 + i - 1 = skip + i
      BY <1>1, <2>1, <2>2
    <3> QED BY <1>1, <1>2, <3>1
  <2> QED BY <2>2, <2>3
<1>4. Slice(l, page) = SubSeq(rest, 1, m)
  BY DEF Slice, First, rest, n
<1> HIDE DEF m
<1>5. /\ SubSeq(rest, 1, m) \in Seq(S)
      /\ Len(SubSeq(rest, 1, m)) = IF 1 <= m THEN m - 1 + 1 ELSE 0
      /\ \A i \in 1..(m - 1 + 1) : SubSeq(rest, 1, m)[i] = rest[1 + i - 1]
  BY <1>3, SubSeqProperties
<1> QED BY <1>3, <1>4, <1>5 DEF n

-----------------------------------------------------------------------------
(***************************************************************************)
(* Listings.  The invariant says where the invitations of the inbox come   *)
(* from; the pages follow from it.                                         *)
(***************************************************************************)
InboxTyped ==
    /\ DOMAIN inbox \subseteq Invitations
    /\ \A i \in DOMAIN inbox : inbox[i].source \in Sources /\ inbox[i].at \in Times

LEMMA InboxStaysTyped ==
    /\ ListsInit => InboxTyped
    /\ InboxTyped /\ [InboxNext \/ ArrangedNext]_listVars => InboxTyped'
<1>1. ListsInit => InboxTyped
  BY DEF ListsInit, InboxTyped
<1>2. ASSUME InboxTyped, InboxNext PROVE InboxTyped'
  <2>1. ASSUME NEW i \in Invitations, Arrives(i) PROVE InboxTyped'
    BY <1>2, <2>1 DEF Arrives, InboxTyped
  <2>2. ASSUME NEW i \in Invitations, Answered(i) PROVE InboxTyped'
    BY <1>2, <2>2 DEF Answered, InboxTyped
  <2> QED BY <1>2, <2>1, <2>2 DEF InboxNext
<1>3. ASSUME InboxTyped, ArrangedNext \/ UNCHANGED listVars PROVE InboxTyped'
  BY <1>3 DEF ArrangedNext, ArrangerChanges, InboxTyped, listVars
<1> QED BY <1>1, <1>2, <1>3

(* The newer of some invitations.                                          *)
Newer(ids, i) == {j \in ids : newestFirst(j, i)}
NewestOf(ids) == {p \in ids \X ids : newestFirst(p[1], p[2])}

LEMMA NewestOrders ==
    ASSUME InboxTyped, NEW ids \in SUBSET DOMAIN inbox
    PROVE  /\ IsFiniteSet(ids) /\ Ordered(ids, NewestOf(ids))
           /\ \A i \in ids : Before(ids, NewestOf(ids), i) = Newer(ids, i)
           /\ Sorted(ids) = InOrder(ids, NewestOf(ids))
<1>1. IsFiniteSet(ids)
  BY ListsAssumption, FS_Subset DEF InboxTyped
<1>2. \A i \in ids : i \in Nat /\ inbox[i].at \in Nat
  BY ListsAssumption DEF InboxTyped
<1>3. \A i, j \in ids : <<i, j>> \in NewestOf(ids) <=> newestFirst(i, j)
  BY DEF NewestOf
<1>4. /\ \A i, j \in ids : i # j => (newestFirst(i, j) <=> ~newestFirst(j, i))
      /\ \A i \in ids : ~newestFirst(i, i)
      /\ \A i, j, k \in ids : newestFirst(i, j) /\ newestFirst(j, k) => newestFirst(i, k)
  BY <1>2 DEF newestFirst
<1>5. Ordered(ids, NewestOf(ids))
  BY <1>3, <1>4 DEF Ordered
<1>6. \A i \in ids : Before(ids, NewestOf(ids), i) = Newer(ids, i)
  BY <1>3 DEF Before, Newer
<1> QED BY <1>1, <1>5, <1>6 DEF Sorted, NewestOf

(* What the sources offer: of each its n newest.                           *)
Offered(n) == {i \in DOMAIN inbox :
    Cardinality(Newer({j \in DOMAIN inbox : inbox[j].source = inbox[i].source}, i)) < n}

LEMMA SourcesOffer ==
    ASSUME InboxTyped, NEW n \in Nat
    PROVE  UNION {Range(findAllPending(s, n)) : s \in Sources} = Offered(n)
<1> DEFINE of(s) == {j \in DOMAIN inbox : inbox[j].source = s}
<1>1. ASSUME NEW s \in Sources
      PROVE  Range(findAllPending(s, n)) = {i \in of(s) : Cardinality(Newer(of(s), i)) < n}
  <2>1. /\ IsFiniteSet(of(s)) /\ Ordered(of(s), NewestOf(of(s)))
        /\ \A i \in of(s) : Before(of(s), NewestOf(of(s)), i) = Newer(of(s), i)
        /\ Sorted(of(s)) = InOrder(of(s), NewestOf(of(s)))
    BY NewestOrders
  <2>2. findAllPending(s, n) = First(InOrder(of(s), NewestOf(of(s))), n)
    BY <2>1 DEF findAllPending
  <2> HIDE DEF of
  <2>3. Range(findAllPending(s, n))
           = {i \in of(s) : Cardinality(Before(of(s), NewestOf(of(s)), i)) < n}
    BY <2>1, <2>2, FirstAreFirst
  <2> QED BY <2>1, <2>3
<1>2. \A s : \A i \in of(s) : i \in DOMAIN inbox /\ inbox[i].source = s
  OBVIOUS
<1>3. \A i \in DOMAIN inbox : inbox[i].source \in Sources /\ i \in of(inbox[i].source)
  BY DEF InboxTyped
<1>4. \A i : i \in Offered(n) <=>
                i \in DOMAIN inbox /\ Cardinality(Newer(of(inbox[i].source), i)) < n
  BY DEF Offered
<1> HIDE DEF of
<1> QED BY <1>1, <1>2, <1>3, <1>4

(* What is not offered has at least as many newer that are.                *)
LEMMA OfferedAreNewer ==
    ASSUME InboxTyped, NEW n \in Nat, NEW i \in DOMAIN inbox, i \notin Offered(n)
    PROVE  Cardinality(Newer(Offered(n), i)) >= n
<1> DEFINE s == inbox[i].source
           same == {j \in DOMAIN inbox : inbox[j].source = s}
           o == NewestOf(same)
           l == InOrder(same, o)
           newer == Newer(Offered(n), i)
<1>1. /\ IsFiniteSet(same) /\ Ordered(same, o)
      /\ \A j \in same : Before(same, o, j) = Newer(same, j)
  BY NewestOrders
<1>2. i \in same /\ Cardinality(Newer(same, i)) \in Nat /\ Cardinality(Newer(same, i)) >= n
  <2>1. i \in same
    OBVIOUS
  <2>2. ~(Cardinality(Newer(same, i)) < n)
    BY DEF Offered
  <2>3. IsFiniteSet(Newer(same, i))
    BY <1>1, FS_Subset DEF Newer
  <2>4. Cardinality(Newer(same, i)) \in Nat
    BY <2>3, FS_CardinalityType
  <2> HIDE DEF same
  <2> QED BY <2>1, <2>2, <2>4
<1>3. \A j \in same : j \in DOMAIN inbox /\ inbox[j].source = s
  OBVIOUS
<1>4. \A j \in same : Cardinality(Newer(same, j)) < n => j \in Offered(n)
  BY DEF Offered
<1>5. \A j \in same : <<j, i>> \in o => newestFirst(j, i)
  BY DEF NewestOf
<1> HIDE DEF same, o
<1>6. Lists(l, same, o) /\ Len(l) = Cardinality(same)
  BY <1>1, InOrderLists
<1>7. Cardinality(same) \in Nat /\ n <= Cardinality(same)
  <2>1. Newer(same, i) \in SUBSET same
    BY DEF Newer
  <2> QED BY <2>1, <1>1, <1>2, FS_Subset, FS_CardinalityType
<1>8. ASSUME NEW k \in 1..n PROVE l[k] \in newer
  <2>1. l[k] \in same /\ Cardinality(Before(same, o, l[k])) = k - 1
    BY <1>1, <1>7, PlacesTaken DEF InOrder
  <2>2. Cardinality(Newer(same, l[k])) < n
    BY <2>1, <1>1
  <2>3. l[k] # i
    BY <2>2, <1>2
  <2>4. <<i, l[k]>> \notin o
    <3> SUFFICES ASSUME <<i, l[k]>> \in o PROVE FALSE
      OBVIOUS
    <3>1. Cardinality(Before(same, o, i)) < Cardinality(Before(same, o, l[k]))
      BY <2>1, <1>1, <1>2, PlacesGrow
    <3> QED BY <3>1, <2>1, <2>2, <1>1, <1>2
  <2>5. <<l[k], i>> \in o
    BY <2>1, <2>3, <2>4, <1>1, <1>2 DEF Ordered
  <2> QED BY <2>1, <2>2, <2>5, <1>4, <1>5 DEF Newer
<1>9. IsFiniteSet(newer)
  <2>1. newer \in SUBSET DOMAIN inbox
    BY DEF Newer, Offered
  <2>2. IsFiniteSet(DOMAIN inbox)
    BY ListsAssumption, FS_Subset DEF InboxTyped
  <2> QED BY <2>1, <2>2, FS_Subset
<1>10. \A j, k \in 1..n : l[j] = l[k] => j = k
  <2> SUFFICES ASSUME NEW j \in 1..n, NEW k \in 1..n, l[j] = l[k] PROVE j = k
    OBVIOUS
  <2>1. /\ j \in 1..Cardinality(same) /\ k \in 1..Cardinality(same)
    BY <1>7
  <2>2. /\ Cardinality(Before(same, o, l[j])) = j - 1
        /\ Cardinality(Before(same, o, l[k])) = k - 1
    BY <2>1, <1>1, PlacesTaken DEF InOrder
  <2> QED BY <2>2
<1> HIDE DEF newer, l
<1>11. [k \in 1..n |-> l[k]] \in Injection(1..n, newer)
  BY <1>8, <1>10 DEF Injection, IsInjective
<1>12. Cardinality(1..n) <= Cardinality(newer) /\ Cardinality(1..n) = n
  BY <1>9, <1>11, FS_Injection, FS_Interval
<1>13. Cardinality(newer) \in Nat
  BY <1>9, FS_CardinalityType
<1> QED BY <1>12, <1>13 DEF newer

(* Of the first n offered nothing newer is missing.                        *)
LEMMA NothingMissing ==
    ASSUME InboxTyped, NEW n \in Nat, NEW i \in Offered(n),
           Cardinality(Newer(Offered(n), i)) < n
    PROVE  Newer(DOMAIN inbox, i) = Newer(Offered(n), i)
<1>f. IsFiniteSet(DOMAIN inbox) /\ Offered(n) \subseteq DOMAIN inbox /\ IsFiniteSet(Offered(n))
  <2>1. IsFiniteSet(DOMAIN inbox) /\ Offered(n) \subseteq DOMAIN inbox
    BY ListsAssumption, FS_Subset DEF InboxTyped, Offered
  <2> QED BY <2>1, FS_Subset
<1>1. ASSUME NEW j \in DOMAIN inbox, newestFirst(j, i), j \notin Offered(n) PROVE FALSE
  <2>1. Cardinality(Newer(Offered(n), j)) >= n
    BY <1>1, OfferedAreNewer
  <2>2. \A k \in DOMAIN inbox : newestFirst(k, j) => newestFirst(k, i)
    <3>1. i \in DOMAIN inbox
      BY <1>f
    <3>2. \A k \in DOMAIN inbox : k \in Nat /\ inbox[k].at \in Nat
      BY ListsAssumption DEF InboxTyped
    <3> TAKE k \in DOMAIN inbox
    <3>3. /\ i \in Nat /\ j \in Nat /\ k \in Nat
          /\ inbox[i].at \in Nat /\ inbox[j].at \in Nat /\ inbox[k].at \in Nat
      BY <3>1, <3>2, <1>1
    <3> QED BY <3>3, <1>1 DEF newestFirst
  <2>3. Newer(Offered(n), j) \subseteq Newer(Offered(n), i)
    BY <2>2, <1>f DEF Newer
  <2>4. IsFiniteSet(Newer(Offered(n), i))
    BY <1>f, FS_Subset DEF Newer
  <2>5. /\ Cardinality(Newer(Offered(n), j)) <= Cardinality(Newer(Offered(n), i))
        /\ Cardinality(Newer(Offered(n), i)) \in Nat /\ Cardinality(Newer(Offered(n), j)) \in Nat
    BY <2>3, <2>4, FS_Subset, FS_CardinalityType
  <2> QED BY <2>1, <2>5
<1> QED BY <1>1, <1>f DEF Newer

LEMMA OnePage ==
    ASSUME InboxTyped, NEW skip \in Nat, NEW take \in Nat, NEW page,
           page.skip = skip, page.take = take
    PROVE  LET shown == findAllPendingByUserId(page)
           IN  /\ \A k \in DOMAIN shown :
                     Cardinality({i \in DOMAIN inbox : newestFirst(i, shown[k])}) = skip + k - 1
               /\ Len(shown) < take => Cardinality(DOMAIN inbox) <= skip + Len(shown)
<1> DEFINE n == skip + take
           all == Offered(n)
           l == InOrder(all, NewestOf(all))
           shown == Slice(l, page)
<1>1. n \in Nat
  OBVIOUS
<1>2. findAllPendingByUserId(page) = Slice(Sorted(all), page)
  BY <1>1, SourcesOffer DEF findAllPendingByUserId
<1>3. all \in SUBSET DOMAIN inbox
  BY DEF Offered
<1> HIDE DEF n, all
<1>4. /\ IsFiniteSet(all) /\ Ordered(all, NewestOf(all))
      /\ \A i \in all : Before(all, NewestOf(all), i) = Newer(all, i)
      /\ Sorted(all) = l
  BY <1>3, NewestOrders
<1>5. findAllPendingByUserId(page) = shown
  BY <1>2, <1>4
<1>6. Lists(l, all, NewestOf(all)) /\ Len(l) = Cardinality(all) /\ Cardinality(all) \in Nat
  BY <1>4, InOrderLists, FS_CardinalityType
<1>7. /\ Len(shown) = IF skip + take <= Len(l) THEN take
                      ELSE IF skip <= Len(l) THEN Len(l) - skip ELSE 0
      /\ \A k \in 1..Len(shown) : skip + k \in 1..Len(l) /\ shown[k] = l[skip + k]
      /\ DOMAIN shown = 1..Len(shown)
  <2>1. l \in Seq(all)
    BY <1>6 DEF Lists
  <2> HIDE DEF l
  <2>2. /\ Slice(l, page) \in Seq(all)
        /\ Len(Slice(l, page)) = IF skip + take <= Len(l) THEN take
                                 ELSE IF skip <= Len(l) THEN Len(l) - skip ELSE 0
        /\ \A k \in 1..Len(Slice(l, page)) :
              skip + k \in 1..Len(l) /\ Slice(l, page)[k] = l[skip + k]
    BY <2>1, SliceIsPage
  <2>3. DOMAIN Slice(l, page) = 1..Len(Slice(l, page))
    BY <2>2, LenProperties
  <2> QED BY <2>2, <2>3
<1>8. ASSUME NEW k \in 1..Len(shown)
      PROVE  Cardinality({i \in DOMAIN inbox : newestFirst(i, shown[k])}) = skip + k - 1
  <2>1. skip + k \in 1..Cardinality(all) /\ shown[k] = l[skip + k] /\ k <= take
    BY <1>6, <1>7
  <2>2. l[skip + k] \in all /\ Cardinality(Before(all, NewestOf(all), l[skip + k])) = (skip + k) - 1
    BY <2>1, <1>4, PlacesTaken DEF InOrder
  <2> HIDE DEF l, shown
  <2>3. shown[k] \in all /\ Cardinality(Newer(all, shown[k])) = (skip + k) - 1
    BY <2>1, <2>2, <1>4
  <2>4. (skip + k) - 1 < n
    BY <2>1 DEF n
  <2>5. Cardinality(Newer(all, shown[k])) < n
    BY <2>3, <2>4
  <2>6. Newer(DOMAIN inbox, shown[k]) = Newer(all, shown[k])
    BY <2>3, <2>5, <1>1, NothingMissing DEF all
  <2>7. Cardinality(Newer(DOMAIN inbox, shown[k])) = (skip + k) - 1
    BY <2>3, <2>6
  <2>8. Newer(DOMAIN inbox, shown[k]) = {i \in DOMAIN inbox : newestFirst(i, shown[k])}
    BY DEF Newer
  <2>9. (skip + k) - 1 = skip + k - 1
    OBVIOUS
  <2> QED BY <2>7, <2>8, <2>9
<1>9. ASSUME Len(shown) < take PROVE Cardinality(DOMAIN inbox) <= skip + Len(shown)
  <2>1. Cardinality(all) < n /\ Cardinality(all) <= skip + Len(shown)
    BY <1>6, <1>7, <1>9 DEF n
  <2>2. ASSUME NEW i \in DOMAIN inbox, i \notin all PROVE FALSE
    <3>1. Cardinality(Newer(all, i)) >= n
      BY <2>2, <1>1, OfferedAreNewer DEF all
    <3>2. Newer(all, i) \in SUBSET all
      BY DEF Newer
    <3>3. Cardinality(Newer(all, i)) <= Cardinality(all) /\ Cardinality(Newer(all, i)) \in Nat
      BY <3>2, <1>4, FS_Subset, FS_CardinalityType
    <3> QED BY <3>1, <3>3, <2>1, <1>1, <1>6
  <2>3. DOMAIN inbox = all
    BY <2>2, <1>3
  <2> QED BY <2>1, <2>3
<1> HIDE DEF shown
<1> QED BY <1>5, <1>7, <1>8, <1>9

LEMMA PagesOfOneList == InboxTyped => PageOfOneList
<1> SUFFICES ASSUME InboxTyped, NEW skip \in 0..LongestPage, NEW take \in 0..LongestPage
    PROVE  LET page == pageBoundsOf(skip, take)
               shown == findAllPendingByUserId(page)
           IN  /\ \A k \in DOMAIN shown :
                     Cardinality({i \in DOMAIN inbox : newestFirst(i, shown[k])}) = skip + k - 1
               /\ Len(shown) < page.take => Cardinality(DOMAIN inbox) <= skip + Len(shown)
  BY DEF PageOfOneList
<1> DEFINE page == pageBoundsOf(skip, take)
<1>1. page.skip = skip /\ page.take \in Nat /\ skip \in Nat
  BY ListsAssumption DEF pageBoundsOf
<1> HIDE DEF page
<1> QED BY <1>1, OnePage DEF page
-----------------------------------------------------------------------------
(* "My events": the start dates order them, ties by id.                    *)
LEMMA LatestOrders == IsFiniteSet(MyEvents) /\ Ordered(MyEvents, LatestFirst)
<1>1. IsFiniteSet(MyEvents) /\ MyEvents \subseteq Events
  BY ListsAssumption, FS_Subset DEF MyEvents
<1>2. \A e \in MyEvents : e \in Nat /\ StartOf[e] \in Nat
  BY <1>1, ListsAssumption
<1>3. \A d, e \in MyEvents : <<d, e>> \in LatestFirst <=> latestFirst(d, e)
  BY <1>1 DEF LatestFirst
<1>4. /\ \A d, e \in MyEvents : d # e => (latestFirst(d, e) <=> ~latestFirst(e, d))
      /\ \A d \in MyEvents : ~latestFirst(d, d)
      /\ \A d, e, f \in MyEvents : latestFirst(d, e) /\ latestFirst(e, f) => latestFirst(d, f)
  BY <1>2 DEF latestFirst
<1> QED BY <1>1, <1>3, <1>4 DEF Ordered

(* Every place is on one page, at one position.                            *)
LEMMA OnOnePage ==
    ASSUME NEW take \in Nat \ {0}, NEW p \in Nat \ {0}
    PROVE  /\ \E n \in Nat, k \in 1..take : n < p /\ n * take + k = p
           /\ \A m, n \in Nat : \A j, k \in 1..take :
                 m * take + j = p /\ n * take + k = p => m = n /\ j = k
<1>1. ASSUME NEW m \in Nat, NEW n \in Nat, NEW j \in 1..take, NEW k \in 1..take,
             m * take + j = n * take + k, m < n
      PROVE  FALSE
  <2>1. m + 1 <= n
    BY <1>1
  <2>2. (m + 1) * take <= n * take
    BY <2>1
  <2>3. (m + 1) * take = m * take + take
    OBVIOUS
  <2>4. m * take \in Nat /\ n * take \in Nat
    OBVIOUS
  <2> QED BY <1>1, <2>2, <2>3, <2>4
<1>2. ASSUME NEW m \in Nat, NEW n \in Nat, NEW j \in 1..take, NEW k \in 1..take,
             m * take + j = p, n * take + k = p
      PROVE  m = n /\ j = k
  <2>1. m = n
    BY <1>1, <1>2
  <2>2. m * take \in Nat
    OBVIOUS
  <2> QED BY <1>2, <2>1, <2>2
<1>3. \E n \in Nat, k \in 1..take : n < p /\ n * take + k = p
  <2> DEFINE q == p - 1
             n == q \div take
  <2>1. q \in Nat /\ q < p /\ q + 1 = p
    OBVIOUS
  <2> HIDE DEF q
  <2>2. n \in Nat /\ n <= q
    BY <2>1
  <2>3. take * n <= q /\ q < take * n + take
    BY <2>1
  <2> HIDE DEF n
  <2>4. take * n = n * take /\ n * take \in Nat
    BY <2>2
  <2>5. p - n * take \in 1..take /\ n * take + (p - n * take) = p /\ n < p
    BY <2>1, <2>2, <2>3, <2>4
  <2> QED BY <2>2, <2>5
<1> QED BY <1>2, <1>3

LEMMA EventsOnce == EachEventOnce
<1> SUFFICES ASSUME NEW take \in Takes, NEW e \in MyEvents
    PROVE  Cardinality({p \in Skips(take) \X (1..take) :
               LET page == arrangedByMe(pageBoundsOf(p[1], take))
               IN  p[2] \in DOMAIN page /\ page[p[2]].event = e}) = 1
  BY DEF EachEventOnce
<1> DEFINE l == InOrder(MyEvents, LatestFirst)
           shows(s, k) == LET page == arrangedByMe(pageBoundsOf(s, take))
                          IN  k \in DOMAIN page /\ page[k].event = e
           there == {p \in Skips(take) \X (1..take) : shows(p[1], p[2])}
<1>t. take \in Nat \ {0} /\ take <= LongestPage /\ LongestPage \in Nat
  BY ListsAssumption DEF Takes
<1>1. /\ Lists(l, MyEvents, LatestFirst) /\ Len(l) = Cardinality(MyEvents)
      /\ Len(l) \in Nat /\ Len(l) <= LongestPage
  <2>1. MyEvents \subseteq Events /\ IsFiniteSet(Events) /\ Cardinality(Events) <= LongestPage
    BY ListsAssumption DEF MyEvents
  <2>2. Cardinality(MyEvents) <= Cardinality(Events) /\ Cardinality(Events) \in Nat
        /\ Cardinality(MyEvents) \in Nat
    BY <2>1, LatestOrders, FS_Subset, FS_CardinalityType
  <2>3. Lists(l, MyEvents, LatestFirst) /\ Len(l) = Cardinality(MyEvents)
    BY LatestOrders, InOrderLists
  <2> HIDE DEF l
  <2> QED BY <2>1, <2>2, <2>3, <1>t
<1>2. PICK p \in 1..Len(l) : l[p] = e
  BY <1>1 DEF Lists
<1>3. \A i \in 1..Len(l) : l[i] = e => i = p
  <2>1. \A i \in 1..Len(l) : Cardinality(Before(MyEvents, LatestFirst, l[i])) = i - 1
    BY <1>1, LatestOrders, PlacesTaken DEF InOrder
  <2> HIDE DEF l
  <2> QED BY <2>1, <1>1, <1>2
<1>4. ASSUME NEW s \in Nat, NEW k \in 1..take
      PROVE  shows(s, k) <=> s + k = p
  <2> DEFINE page == pageBoundsOf(s, take)
             part == Slice(l, page)
  <2>1. page.skip = s /\ page.take = take
    BY <1>t DEF pageBoundsOf
  <2>2. l \in Seq(MyEvents)
    BY <1>1 DEF Lists
  <2> HIDE DEF page
  <2>3. arrangedByMe(page) = [i \in DOMAIN part |-> MyRow(part[i])]
    BY DEF arrangedByMe
  <2> HIDE DEF l
  <2>4. /\ part \in Seq(MyEvents)
        /\ Len(part) = IF s + take <= Len(l) THEN take
                       ELSE IF s <= Len(l) THEN Len(l) - s ELSE 0
        /\ \A i \in 1..Len(part) : s + i \in 1..Len(l) /\ part[i] = l[s + i]
    BY <2>1, <2>2, <1>t, SliceIsPage
  <2> HIDE DEF part
  <2>5. DOMAIN part = 1..Len(part)
    BY <2>4, LenProperties
  <2>6. shows(s, k) <=> k \in 1..Len(part) /\ part[k] = e
    BY <2>3, <2>5 DEF page, MyRow
  <2>7. s + k = p => k \in 1..Len(part)
    BY <2>4, <1>1, <1>t
  <2> HIDE DEF shows
  <2>8. shows(s, k) => s + k = p
    BY <2>6, <2>4, <1>3
  <2>9. s + k = p => shows(s, k)
    BY <2>6, <2>7, <2>4, <1>2
  <2> QED BY <2>8, <2>9
<1> HIDE DEF shows, l
<1>p. p \in Nat \ {0} /\ take \in Nat \ {0}
  BY <1>1, <1>2, <1>t
<1>5. PICK n \in Nat, k \in 1..take : n < p /\ n * take + k = p
  <2>1. \E n \in Nat, k \in 1..take : n < p /\ n * take + k = p
    BY <1>p, OnOnePage, Zenon
  <2> QED BY <2>1, Zenon
<1>6. \A m \in Nat, j \in 1..take : m * take + j = p => m = n /\ j = k
  BY <1>1, <1>2, <1>5, <1>t, OnOnePage
<1>7. \A s \in Skips(take) : \E m \in 0..LongestPage : s = m * take
  BY DEF Skips
<1>8. n \in 0..LongestPage /\ n * take \in Skips(take) /\ n * take \in Nat
  <2>1. n \in 0..LongestPage
    BY <1>1, <1>2, <1>5, <1>t
  <2> QED BY <2>1, <1>t DEF Skips
<1>9. there = {<<n * take, k>>}
  <2>1. shows(n * take, k)
    BY <1>4, <1>5, <1>8
  <2>2. <<n * take, k>> \in there
    BY <2>1, <1>8
  <2>3. ASSUME NEW x \in there PROVE x = <<n * take, k>>
    <3>1. /\ x \in Skips(take) \X (1..take) /\ shows(x[1], x[2])
      OBVIOUS
    <3>2. PICK s \in Skips(take), j \in 1..take : x = <<s, j>>
      BY <3>1
    <3>3. shows(s, j)
      BY <3>1, <3>2
    <3>4. PICK m \in 0..LongestPage : s = m * take
      BY <1>7
    <3>5. m \in Nat /\ m * take \in Nat
      BY <1>t
    <3>6. m * take + j = p
      BY <3>3, <3>4, <3>5, <1>4
    <3>7. m = n /\ j = k
      BY <3>5, <3>6, <1>6
    <3> QED BY <3>2, <3>4, <3>7
  <2> HIDE DEF there
  <2> QED BY <2>2, <2>3
<1>10. Cardinality(there) = 1
  <2> DEFINE x == <<n * take, k>>
  <2>1. there = {x}
    BY <1>9
  <2> HIDE DEF x, there
  <2>2. Cardinality({x}) = 1
    BY FS_Singleton
  <2> QED BY <2>1, <2>2
<1> QED BY <1>10 DEF there, shows

(***************************************************************************)
(* A page of the notifications is that page of the one list of them all,   *)
(* though each source is asked for its newest only, and the pages of "my   *)
(* events" show each event once: for any invitations, sources, times,      *)
(* events and arrangers, and pages of any size (findAllPendingByUserId,    *)
(* findAllWithEventsArrangedByUserAndOrganizationsOfUser).                 *)
(***************************************************************************)
THEOREM PagesAreOfOneList == ListsSpec => [](PageOfOneList /\ PagesInv)
<1>1. ListsInit => InboxTyped
  BY InboxStaysTyped
<1>2. InboxTyped /\ [InboxNext \/ ArrangedNext]_listVars => InboxTyped'
  BY InboxStaysTyped
<1>3. InboxTyped => PageOfOneList /\ PagesInv
  BY PagesOfOneList, EventsOnce DEF PagesInv
<1> QED BY <1>1, <1>2, <1>3, PTL DEF ListsSpec
-----------------------------------------------------------------------------
(***************************************************************************)
(* SessionStore.  What Pick and FirstOf do to a sequence.                  *)
(***************************************************************************)
LEMMA SmallerOrders ==
    ASSUME NEW at \in SUBSET Nat
    PROVE  /\ Ordered(at, Smaller(at))
           /\ \A i \in at : Before(at, Smaller(at), i) = {j \in at : j < i}
<1>1. \A i, j \in at : <<i, j>> \in Smaller(at) <=> i < j
  BY DEF Smaller
<1>2. \A i \in at : i \in Nat
  OBVIOUS
<1>3. /\ \A i, j \in at : i # j => (<<i, j>> \in Smaller(at) <=> <<j, i>> \notin Smaller(at))
      /\ \A i \in at : <<i, i>> \notin Smaller(at)
      /\ \A i, j, k \in at : <<i, j>> \in Smaller(at) /\ <<j, k>> \in Smaller(at)
                                => <<i, k>> \in Smaller(at)
  BY <1>1, <1>2
<1>4. \A i \in at : Before(at, Smaller(at), i) = {j \in at : j < i}
  BY <1>1 DEF Before
<1> QED BY <1>3, <1>4 DEF Ordered

(* What is picked of a sequence keeps its order.                           *)
LEMMA PickKeeps ==
    ASSUME NEW S, NEW seq \in Seq(S), NEW at \in SUBSET DOMAIN seq
    PROVE  /\ IsFiniteSet(at) /\ Cardinality(at) \in Nat /\ Cardinality(at) <= Len(seq)
           /\ Cardinality(at) = Len(seq) => at = DOMAIN seq
           /\ Pick(seq, at) \in Seq(S) /\ Len(Pick(seq, at)) = Cardinality(at)
           /\ \A i \in at : \E k \in 1..Cardinality(at) : Pick(seq, at)[k] = seq[i]
           /\ \A k \in 1..Cardinality(at) : \E i \in at : Pick(seq, at)[k] = seq[i]
           /\ \A j, k \in 1..Cardinality(at) : j # k =>
                 \E h, i \in at : h # i /\ Pick(seq, at)[j] = seq[h] /\ Pick(seq, at)[k] = seq[i]
<1> DEFINE l == InOrder(at, Smaller(at))
           n == Cardinality(at)
           p == [k \in DOMAIN l |-> seq[l[k]]]
<1>1. DOMAIN seq = 1..Len(seq) /\ Len(seq) \in Nat /\ at \in SUBSET Nat
  BY LenProperties
<1>2. /\ IsFiniteSet(at) /\ n \in Nat /\ n <= Len(seq)
      /\ n = Len(seq) => at = DOMAIN seq
  <2>1. IsFiniteSet(1..Len(seq)) /\ Cardinality(1..Len(seq)) = Len(seq)
    BY <1>1, FS_Interval
  <2> QED BY <2>1, <1>1, FS_Subset, FS_CardinalityType
<1>3. Ordered(at, Smaller(at))
  BY <1>1, SmallerOrders
<1>4. Lists(l, at, Smaller(at)) /\ Len(l) = n
  BY <1>2, <1>3, InOrderLists
<1>5. Pick(seq, at) = p
  BY DEF Pick
<1> HIDE DEF l, n
<1>6. l \in Seq(at) /\ DOMAIN l = 1..n /\ \A k \in 1..n : l[k] \in at
  BY <1>4, LenProperties, ElementOfSeq DEF Lists
<1>7. \A k \in 1..n : p[k] = seq[l[k]] /\ p[k] \in S
  BY <1>1, <1>6
<1>8. p \in Seq(S) /\ Len(p) = n
  <2>1. p \in [1..n -> S]
    BY <1>6, <1>7
  <2> HIDE DEF p
  <2> QED BY <2>1, <1>2
<1>9. \A i \in at : \E k \in 1..n : l[k] = i
  BY <1>4 DEF Lists
<1>10. \A j, k \in 1..n : j # k => l[j] # l[k]
  <2>1. \A j, k \in 1..n : j < k => <<l[j], l[k]>> \in Smaller(at)
    BY <1>4 DEF Lists
  <2>2. \A k \in 1..n : <<l[k], l[k]>> \notin Smaller(at)
    BY <1>3, <1>6 DEF Ordered
  <2>3. \A j, k \in 1..n : j < k => l[j] # l[k]
    BY <2>1, <2>2
  <2> QED BY <2>3, <1>2
<1> HIDE DEF p
<1>11. \A i \in at : \E k \in 1..n : p[k] = seq[i]
  BY <1>7, <1>9
<1>12. \A k \in 1..n : \E i \in at : p[k] = seq[i]
  BY <1>6, <1>7
<1>13. \A j, k \in 1..n : j # k => \E h, i \in at : h # i /\ p[j] = seq[h] /\ p[k] = seq[i]
  BY <1>6, <1>7, <1>10
<1> QED BY <1>2, <1>5, <1>8, <1>11, <1>12, <1>13 DEF n

LEMMA PickAll ==
    ASSUME NEW S, NEW seq \in Seq(S)
    PROVE  Pick(seq, DOMAIN seq) = seq
<1> DEFINE n == Len(seq)
           at == 1..n
           q == [k \in 1..n |-> k]
<1>1. n \in Nat /\ DOMAIN seq = at
  BY LenProperties
<1> HIDE DEF n
<1>2. at \in SUBSET Nat /\ IsFiniteSet(at)
  BY <1>1, FS_Interval
<1>3. Ordered(at, Smaller(at))
  BY <1>2, SmallerOrders
<1>4. q \in Seq(at) /\ Len(q) = n /\ \A k \in 1..n : q[k] = k
  BY <1>1
<1> HIDE DEF q
<1>5. Lists(q, at, Smaller(at))
  <2>1. \A k \in at : \E j \in 1..Len(q) : q[j] = k
    BY <1>4
  <2>2. \A j, k \in 1..Len(q) : j < k => <<q[j], q[k]>> \in Smaller(at)
    BY <1>4 DEF Smaller
  <2> QED BY <1>4, <2>1, <2>2 DEF Lists
<1>6. InOrder(at, Smaller(at)) = q
  BY <1>2, <1>3, <1>5, OneList
<1>7. Pick(seq, at) = [k \in DOMAIN q |-> seq[q[k]]]
  BY <1>6 DEF Pick
<1>8. DOMAIN q = 1..n
  BY <1>4, LenProperties
<1>9. Pick(seq, at) = [k \in 1..n |-> seq[k]]
  BY <1>4, <1>7, <1>8
<1>10. seq = [k \in 1..n |-> seq[k]]
  BY <1>1
<1> QED BY <1>1, <1>9, <1>10

LEMMA NoneOfThem ==
    ASSUME NEW at, IsFiniteSet(at)
    PROVE  FirstOf(at, 0) = {}
<1> SUFFICES ASSUME NEW i \in at, Cardinality({j \in at : j < i}) < 0 PROVE FALSE
  BY DEF FirstOf
<1> DEFINE b == {j \in at : j < i}
<1>1. b \in SUBSET at
  OBVIOUS
<1> HIDE DEF b
<1>2. Cardinality(b) \in Nat
  BY <1>1, FS_Subset, FS_CardinalityType
<1> QED BY <1>2 DEF b

LEMMA FirstOfThem ==
    ASSUME NEW at \in SUBSET Nat, IsFiniteSet(at), at # {}
    PROVE  \E i \in at : /\ FirstOf(at, 1) = {i}
                         /\ \A m \in at : Cardinality({j \in at : j < m}) = 0 => m = i
<1> DEFINE place(i) == Cardinality(Before(at, Smaller(at), i))
<1>1. Ordered(at, Smaller(at)) /\ \A i \in at : Before(at, Smaller(at), i) = {j \in at : j < i}
  BY SmallerOrders
<1>2. Cardinality(at) \in Nat /\ Cardinality(at) # 0
  BY FS_CardinalityType, FS_EmptySet
<1>3. PICK i \in at : place(i) = 0
  <2>1. 1 \in 1..Cardinality(at) /\ 1 - 1 = 0
    BY <1>2
  <2>2. \E i \in at : place(i) = 1 - 1
    BY <2>1, <1>1, PlacesTaken
  <2> HIDE DEF place
  <2> QED BY <2>1, <2>2
<1>4. \A m \in at : place(m) \in Nat
  <2> TAKE m \in at
  <2>1. Before(at, Smaller(at), m) \in SUBSET at
    BY DEF Before
  <2> QED BY <2>1, FS_Subset, FS_CardinalityType
<1>5. \A m \in at : place(m) = 0 => m = i
  BY <1>1, <1>3, PlacesDiffer
<1>6. \A m \in at : place(m) = Cardinality({j \in at : j < m})
  BY <1>1
<1> HIDE DEF place
<1>7. FirstOf(at, 1) = {m \in at : place(m) < 1}
  BY <1>6 DEF FirstOf
<1>8. FirstOf(at, 1) = {i}
  <2>1. i \in FirstOf(at, 1)
    BY <1>3, <1>7
  <2>2. ASSUME NEW m \in FirstOf(at, 1) PROVE m \in at /\ place(m) = 0
    <3>1. m \in at /\ place(m) < 1
      BY <1>7
    <3>2. place(m) \in Nat
      BY <3>1, <1>4
    <3> QED BY <3>1, <3>2
  <2> QED BY <2>1, <2>2, <1>5
<1> QED BY <1>5, <1>6, <1>8
-----------------------------------------------------------------------------
(* A store in order: entries, one of a session.                            *)
Entry == [sid : Sids, expiresAt : Nat]
Kept(es) ==
    /\ es \in Seq(Entry)
    /\ \A i, j \in DOMAIN es : es[i].sid = es[j].sid => i = j
StoreInv == Kept(entries) /\ Len(entries) <= MaxEntries /\ clock \in Nat

LEMMA SidsAreDistinct ==
    ASSUME NEW es, Kept(es)
    PROVE  /\ Cardinality(SidsOf(es)) = Len(es)
           /\ Range(es) = {es[i] : i \in DOMAIN es}
           /\ SidsOf(es) = {es[i].sid : i \in DOMAIN es}
<1> DEFINE n == Len(es)
           f == [i \in 1..n |-> es[i].sid]
<1>1. n \in Nat /\ DOMAIN es = 1..n
  BY LenProperties DEF Kept
<1>2. Range(es) = {es[i] : i \in DOMAIN es}
  BY <1>1, RangeEquality DEF Kept
<1>3. SidsOf(es) = {es[i].sid : i \in DOMAIN es}
  BY <1>2 DEF SidsOf
<1> HIDE DEF n
<1>4. f \in Bijection(1..n, SidsOf(es))
  <2>1. f \in [1..n -> SidsOf(es)]
    BY <1>1, <1>3
  <2>2. \A i, j \in 1..n : f[i] = f[j] => i = j
    BY <1>1 DEF Kept
  <2>3. \A x \in SidsOf(es) : \E i \in 1..n : f[i] = x
    BY <1>1, <1>3
  <2> HIDE DEF f
  <2> QED BY <2>1, <2>2, <2>3 DEF Bijection, Injection, IsInjective, Surjection
<1>5. IsFiniteSet(1..n) /\ Cardinality(1..n) = n
  BY <1>1, FS_Interval
<1>6. Cardinality(SidsOf(es)) = n
  BY <1>4, <1>5, FS_Bijection DEF ExistsBijection
<1> QED BY <1>2, <1>3, <1>6 DEF n

LEMMA PickIsKept ==
    ASSUME NEW es, Kept(es), NEW at \in SUBSET DOMAIN es
    PROVE  /\ Kept(Pick(es, at))
           /\ Len(Pick(es, at)) = Cardinality(at) /\ Cardinality(at) \in Nat
           /\ Cardinality(at) <= Len(es) /\ (Cardinality(at) = Len(es) => at = DOMAIN es)
           /\ Range(Pick(es, at)) = {es[i] : i \in at}
           /\ SidsOf(Pick(es, at)) = {es[i].sid : i \in at}
<1> DEFINE p == Pick(es, at)
           n == Cardinality(at)
<1>1. /\ IsFiniteSet(at) /\ n \in Nat /\ n <= Len(es)
      /\ n = Len(es) => at = DOMAIN es
      /\ p \in Seq(Entry) /\ Len(p) = n
      /\ \A i \in at : \E k \in 1..n : p[k] = es[i]
      /\ \A k \in 1..n : \E i \in at : p[k] = es[i]
      /\ \A j, k \in 1..n : j # k => \E h, i \in at : h # i /\ p[j] = es[h] /\ p[k] = es[i]
  BY PickKeeps DEF Kept
<1> HIDE DEF p, n
<1>2. DOMAIN p = 1..n
  BY <1>1, LenProperties
<1>3. \A h, i \in at : h # i => es[h].sid # es[i].sid
  BY DEF Kept
<1>4. \A j, k \in 1..n : p[j].sid = p[k].sid => j = k
  <2> SUFFICES ASSUME NEW j \in 1..n, NEW k \in 1..n, j # k PROVE p[j].sid # p[k].sid
    OBVIOUS
  <2>1. PICK h \in at, i \in at : h # i /\ p[j] = es[h] /\ p[k] = es[i]
    BY <1>1
  <2>2. es[h].sid # es[i].sid
    BY <2>1, <1>3
  <2> QED BY <2>1, <2>2
<1>5. Kept(p)
  BY <1>1, <1>2, <1>4 DEF Kept
<1>6. Range(p) = {p[k] : k \in 1..n} /\ SidsOf(p) = {p[k].sid : k \in 1..n}
  BY <1>2, <1>5, SidsAreDistinct
<1>7. Range(p) = {es[i] : i \in at}
  BY <1>1, <1>6
<1>8. SidsOf(p) = {es[i].sid : i \in at}
  <2>1. SidsOf(p) = {e.sid : e \in {es[i] : i \in at}}
    BY <1>7 DEF SidsOf
  <2> QED BY <2>1
<1> QED BY <1>1, <1>5, <1>7, <1>8 DEF p, n

LEMMA PutAtTheEnd ==
    ASSUME NEW es, Kept(es), NEW sid \in Sids, NEW until \in Nat,
           \A i \in DOMAIN es : es[i].sid # sid
    PROVE  LET longer == Append(es, [sid |-> sid, expiresAt |-> until])
           IN  /\ Kept(longer) /\ Len(longer) = Len(es) + 1 /\ Len(es) \in Nat
               /\ \A i \in DOMAIN es : i \in DOMAIN longer /\ longer[i] = es[i]
               /\ \A i \in DOMAIN longer : i \in DOMAIN es \/ i = Len(es) + 1
               /\ longer[Len(es) + 1] = [sid |-> sid, expiresAt |-> until]
<1> DEFINE new == [sid |-> sid, expiresAt |-> until]
           longer == Append(es, new)
           n == Len(es)
<1>1. es \in Seq(Entry) /\ new \in Entry /\ n \in Nat /\ DOMAIN es = 1..n
  BY LenProperties DEF Kept, Entry
<1>2. new.sid = sid
  OBVIOUS
<1> HIDE DEF new, n
<1>3. /\ longer \in Seq(Entry) /\ Len(longer) = n + 1
      /\ \A i \in 1..n : longer[i] = es[i]
      /\ longer[n + 1] = new
  BY <1>1, AppendProperties DEF n
<1> HIDE DEF longer
<1>4. DOMAIN longer = 1..(n + 1)
  BY <1>3, LenProperties
<1>5. \A i \in DOMAIN longer : i \in DOMAIN es \/ i = n + 1
  BY <1>1, <1>4
<1>6. \A i \in DOMAIN es : i \in DOMAIN longer /\ longer[i] = es[i] /\ longer[i].sid # sid
  BY <1>1, <1>3, <1>4
<1>7. \A i, j \in DOMAIN longer : longer[i].sid = longer[j].sid => i = j
  <2> SUFFICES ASSUME NEW i \in DOMAIN longer, NEW j \in DOMAIN longer,
                      longer[i].sid = longer[j].sid
      PROVE  i = j
    OBVIOUS
  <2>1. CASE i \in DOMAIN es /\ j \in DOMAIN es
    BY <2>1, <1>6 DEF Kept
  <2>2. CASE i = n + 1 /\ j = n + 1
    BY <2>2
  <2>3. CASE i \in DOMAIN es /\ j = n + 1
    BY <2>3, <1>2, <1>3, <1>6
  <2>4. CASE i = n + 1 /\ j \in DOMAIN es
    BY <2>4, <1>2, <1>3, <1>6
  <2> QED BY <2>1, <2>2, <2>3, <2>4, <1>5
<1>8. Kept(longer)
  BY <1>3, <1>7 DEF Kept
<1> QED BY <1>1, <1>3, <1>5, <1>6, <1>8 DEF longer, new, n

(* The limit costs one entry at most: one that expired, or the stalest.    *)
LEMMA LimitCostsOne ==
    ASSUME clock \in Nat, NEW es, Kept(es),
           Len(es) <= MaxEntries + 1, NEW kept, kept = enforceLimit(es)
    PROVE  /\ Kept(kept) /\ Len(kept) <= MaxEntries
           /\ Len(es) <= MaxEntries => SidsOf(kept) = {es[i].sid : i \in DOMAIN es}
           /\ Len(es) > MaxEntries =>
                 /\ Len(kept) = MaxEntries
                 /\ \E d \in DOMAIN es :
                       /\ Range(kept) = {es[i] : i \in DOMAIN es \ {d}}
                       /\ SidsOf(kept) = {es[i].sid : i \in DOMAIN es \ {d}}
                       /\ \/ ~Live(es[d])
                          \/ d = 1 /\ \A i \in DOMAIN es : Live(es[i])
<1> DEFINE n == Len(es)
           over == IF n <= MaxEntries THEN 0 ELSE n - MaxEntries
           dead == {i \in DOMAIN es : ~Live(es[i])}
           expired == FirstOf(dead, over)
           rest == FirstOf(DOMAIN es \ expired, over - Cardinality(expired))
           stays == DOMAIN es \ (expired \cup rest)
<1>1. kept = Pick(es, stays)
  BY DEF enforceLimit
<1>2. n \in Nat /\ DOMAIN es = 1..n /\ MaxEntries \in Nat \ {0}
  BY LenProperties, StoreAssumption DEF Kept
<1>l. n <= MaxEntries + 1
  OBVIOUS
<1> HIDE DEF n
<1>3. IsFiniteSet(DOMAIN es) /\ Cardinality(DOMAIN es) = n /\ dead \in SUBSET DOMAIN es
      /\ IsFiniteSet(dead)
  <2>1. IsFiniteSet(1..n) /\ Cardinality(1..n) = n
    BY <1>2, FS_Interval
  <2>2. dead \in SUBSET DOMAIN es
    OBVIOUS
  <2> QED BY <2>1, <2>2, <1>2, FS_Subset
<1>e. Cardinality({}) = 0
  BY FS_EmptySet
<1>4. CASE n <= MaxEntries
  <2>1. over = 0
    BY <1>4
  <2>2. expired = {}
    BY <2>1, <1>3, NoneOfThem
  <2> HIDE DEF over, dead, expired
  <2>3. over - Cardinality(expired) = 0 /\ DOMAIN es \ expired = DOMAIN es
    BY <2>1, <2>2, <1>e
  <2>4. rest = {}
    BY <2>3, <1>3, NoneOfThem
  <2> HIDE DEF rest
  <2>5. stays = DOMAIN es
    BY <2>2, <2>4
  <2> HIDE DEF stays
  <2>6. /\ Kept(kept) /\ Len(kept) = n
        /\ SidsOf(kept) = {es[i].sid : i \in DOMAIN es}
    BY <2>5, <1>1, <1>3, PickIsKept
  <2> QED BY <2>6, <1>4, <1>2
<1>5. CASE n > MaxEntries
  <2>1. over = 1 /\ n = MaxEntries + 1
    BY <1>5, <1>2, <1>l
  <2> HIDE DEF over
  <2>2. ASSUME NEW d \in DOMAIN es, expired \cup rest = {d}
        PROVE  /\ Kept(kept) /\ Len(kept) = MaxEntries
               /\ Range(kept) = {es[i] : i \in DOMAIN es \ {d}}
               /\ SidsOf(kept) = {es[i].sid : i \in DOMAIN es \ {d}}
    <3>1. stays = DOMAIN es \ {d} /\ stays \in SUBSET DOMAIN es
      BY <2>2
    <3> HIDE DEF stays, expired, rest, dead
    <3>2. /\ Kept(kept) /\ Len(kept) = Cardinality(stays)
          /\ Range(kept) = {es[i] : i \in stays}
          /\ SidsOf(kept) = {es[i].sid : i \in stays}
      BY <3>1, <1>1, PickIsKept
    <3>3. Cardinality(stays) = n - 1
      BY <3>1, <1>3, FS_RemoveElement
    <3>4. n - 1 = MaxEntries
      BY <2>1, <1>2
    <3> QED BY <3>1, <3>2, <3>3, <3>4
  <2>3. CASE dead # {}
    <3>1. dead \in SUBSET Nat
      BY <1>2, <1>3
    <3>2. PICK d \in dead : FirstOf(dead, 1) = {d}
      BY <3>1, <1>3, <2>3, FirstOfThem, Zenon
    <3>3. expired = {d}
      BY <2>1, <3>2
    <3>4. d \in DOMAIN es /\ ~Live(es[d])
      OBVIOUS
    <3> HIDE DEF dead, expired
    <3>5. Cardinality({d}) = 1
      BY FS_Singleton
    <3>6. over - Cardinality(expired) = 0
      BY <2>1, <3>3, <3>5
    <3>7. IsFiniteSet(DOMAIN es \ expired)
      BY <1>3, FS_Subset
    <3>8. rest = {}
      BY <3>6, <3>7, NoneOfThem
    <3> HIDE DEF rest
    <3>9. expired \cup rest = {d}
      BY <3>3, <3>8
    <3>10. /\ Kept(kept) /\ Len(kept) = MaxEntries
           /\ Range(kept) = {es[i] : i \in DOMAIN es \ {d}}
           /\ SidsOf(kept) = {es[i].sid : i \in DOMAIN es \ {d}}
      BY <2>2, <3>4, <3>9
    <3>11. ~(n <= MaxEntries) /\ MaxEntries <= MaxEntries
      BY <1>5, <1>2
    <3>12. \E c \in DOMAIN es :
              /\ Range(kept) = {es[i] : i \in DOMAIN es \ {c}}
              /\ SidsOf(kept) = {es[i].sid : i \in DOMAIN es \ {c}}
              /\ \/ ~Live(es[c])
                 \/ c = 1 /\ \A i \in DOMAIN es : Live(es[i])
      <4> d \in DOMAIN es
        BY <3>4
      <4> WITNESS d \in DOMAIN es
      <4> QED BY <3>4, <3>10
    <3>13. ~(Len(es) <= MaxEntries)
      BY <3>11 DEF n
    <3> QED BY <3>10, <3>11, <3>12, <3>13
  <2>4. CASE dead = {}
    <3>1. expired = {}
      BY <2>4 DEF FirstOf
    <3>2. \A i \in DOMAIN es : Live(es[i])
      BY <2>4
    <3> HIDE DEF dead, expired
    <3>3. over - Cardinality(expired) = 1 /\ DOMAIN es \ expired = DOMAIN es
      BY <2>1, <3>1, <1>e
    <3>4. rest = FirstOf(DOMAIN es, 1)
      BY <3>3
    <3> HIDE DEF rest
    <3>5. 1 \in DOMAIN es /\ DOMAIN es \in SUBSET Nat
      BY <1>2, <2>1
    <3>6. PICK d \in DOMAIN es :
             /\ FirstOf(DOMAIN es, 1) = {d}
             /\ \A m \in DOMAIN es : Cardinality({j \in DOMAIN es : j < m}) = 0 => m = d
      BY <3>5, <1>3, FirstOfThem, Zenon
    <3>7. {j \in DOMAIN es : j < 1} = {}
      BY <1>2
    <3>8. d = 1
      BY <3>5, <3>6, <3>7, <1>e
    <3>9. expired \cup rest = {d}
      BY <3>1, <3>4, <3>6
    <3>10. /\ Kept(kept) /\ Len(kept) = MaxEntries
           /\ Range(kept) = {es[i] : i \in DOMAIN es \ {d}}
           /\ SidsOf(kept) = {es[i].sid : i \in DOMAIN es \ {d}}
      BY <2>2, <3>9
    <3>11. ~(n <= MaxEntries) /\ MaxEntries <= MaxEntries
      BY <1>5, <1>2
    <3>12. \E c \in DOMAIN es :
              /\ Range(kept) = {es[i] : i \in DOMAIN es \ {c}}
              /\ SidsOf(kept) = {es[i].sid : i \in DOMAIN es \ {c}}
              /\ \/ ~Live(es[c])
                 \/ c = 1 /\ \A i \in DOMAIN es : Live(es[i])
      <4> WITNESS d \in DOMAIN es
      <4> QED BY <3>2, <3>8, <3>10
    <3>13. ~(Len(es) <= MaxEntries)
      BY <3>11 DEF n
    <3> QED BY <3>10, <3>11, <3>12, <3>13
  <2> QED BY <2>3, <2>4
<1> QED BY <1>2, <1>4, <1>5 DEF n

(* What a call promises of the store.                                      *)
OnlyToYounger ==
    /\ Len(entries') <= MaxEntries
    /\ Cardinality(SidsOf(entries')) = Len(entries')
    /\ \A i \in DOMAIN entries :
          entries[i].sid \notin SidsOf(entries') \cup destroyed' /\ Live(entries[i]) =>
             /\ Len(entries') = MaxEntries
             /\ \A e \in Range(entries') : e.expiresAt > clock
             /\ \A j \in 1..(i - 1) :
                   \/ entries[j].sid \notin SidsOf(entries')
                   \/ entries[j].sid = entries'[MaxEntries].sid

LEMMA SetStep ==
    ASSUME StoreInv, NEW sid \in Sids, set(sid)
    PROVE  StoreInv' /\ OnlyToYounger
<1> DEFINE others == {i \in DOMAIN entries : entries[i].sid # sid}
           base == Pick(entries, others)
           longer == Append(base, [sid |-> sid, expiresAt |-> clock + Ttl])
           n == Len(entries)
<1>1. entries' = enforceLimit(longer) /\ destroyed' = {} /\ clock' = clock
  <2>1. others = {i \in DOMAIN entries : entries[i].sid \notin {sid}}
    OBVIOUS
  <2> QED BY <2>1 DEF set, Dropping
<1>2. /\ Kept(entries) /\ n \in Nat /\ DOMAIN entries = 1..n /\ n <= MaxEntries
      /\ clock \in Nat /\ MaxEntries \in Nat \ {0} /\ Ttl \in Nat \ {0}
  BY StoreAssumption, LenProperties DEF StoreInv, Kept
<1>3. /\ others \in SUBSET DOMAIN entries
      /\ \A i \in DOMAIN entries : entries[i].sid # sid => i \in others
      /\ \A i \in others : entries[i].sid # sid
  OBVIOUS
<1> HIDE DEF others, n
<1>4. /\ Kept(base) /\ Len(base) = Cardinality(others) /\ Len(base) \in Nat /\ Len(base) <= n
      /\ Len(base) = n => others = DOMAIN entries
      /\ Range(base) = {entries[i] : i \in others}
      /\ SidsOf(base) = {entries[i].sid : i \in others}
  BY <1>2, <1>3, PickIsKept DEF n
<1> HIDE DEF base
<1>5. /\ DOMAIN base = 1..Len(base)
      /\ Range(base) = {base[i] : i \in DOMAIN base}
      /\ SidsOf(base) = {base[i].sid : i \in DOMAIN base}
  BY <1>4, SidsAreDistinct, LenProperties DEF Kept
<1>6. \A i \in DOMAIN base : base[i].sid # sid
  BY <1>3, <1>4, <1>5
<1>7. /\ Kept(longer) /\ Len(longer) = Len(base) + 1
      /\ \A i \in DOMAIN base : i \in DOMAIN longer /\ longer[i] = base[i]
      /\ \A i \in DOMAIN longer : i \in DOMAIN base \/ i = Len(base) + 1
      /\ longer[Len(base) + 1] = [sid |-> sid, expiresAt |-> clock + Ttl]
  <2>1. clock + Ttl \in Nat
    BY <1>2
  <2> QED BY <2>1, <1>4, <1>6, PutAtTheEnd
<1> HIDE DEF longer
<1>8. DOMAIN longer = 1..(Len(base) + 1)
  BY <1>7, LenProperties DEF Kept
<1>9. Len(longer) <= MaxEntries + 1
  BY <1>2, <1>4, <1>7
<1>10. /\ Kept(entries') /\ Len(entries') <= MaxEntries
       /\ Len(longer) <= MaxEntries => SidsOf(entries') = {longer[i].sid : i \in DOMAIN longer}
       /\ Len(longer) > MaxEntries =>
             /\ Len(entries') = MaxEntries
             /\ \E d \in DOMAIN longer :
                   /\ Range(entries') = {longer[i] : i \in DOMAIN longer \ {d}}
                   /\ SidsOf(entries') = {longer[i].sid : i \in DOMAIN longer \ {d}}
                   /\ \/ ~Live(longer[d])
                      \/ d = 1 /\ \A i \in DOMAIN longer : Live(longer[i])
  BY <1>1, <1>2, <1>7, <1>9, LimitCostsOne
<1>11. StoreInv'
  BY <1>1, <1>2, <1>10 DEF StoreInv, Kept
<1>12. Cardinality(SidsOf(entries')) = Len(entries')
  BY <1>10, SidsAreDistinct
<1>13. SUFFICES ASSUME NEW i \in DOMAIN entries,
                       entries[i].sid \notin SidsOf(entries'), Live(entries[i])
       PROVE  /\ Len(entries') = MaxEntries
              /\ \A e \in Range(entries') : e.expiresAt > clock
              /\ \A j \in 1..(i - 1) :
                    \/ entries[j].sid \notin SidsOf(entries')
                    \/ entries[j].sid = entries'[MaxEntries].sid
  BY <1>1, <1>10, <1>11, <1>12 DEF OnlyToYounger
(* A sid that is gone is of an entry that was there before.                *)
<1>14. ASSUME NEW at \in SUBSET DOMAIN longer,
              SidsOf(entries') = {longer[k].sid : k \in at},
              Len(base) + 1 \in at
       PROVE  \E k \in DOMAIN base : k \notin at /\ base[k] = entries[i]
  <2>1. longer[Len(base) + 1].sid = sid
    BY <1>7
  <2>2. entries[i].sid # sid
    BY <2>1, <1>13, <1>14
  <2>3. i \in others
    BY <2>2, <1>3
  <2>4. PICK k \in DOMAIN base : base[k] = entries[i]
    BY <2>3, <1>4, <1>5
  <2>5. k \notin at
    BY <2>4, <1>7, <1>13, <1>14
  <2> QED BY <2>4, <2>5
<1>15. Len(base) + 1 \in DOMAIN longer
  BY <1>4, <1>8
<1>16. CASE Len(longer) <= MaxEntries
  <2>1. SidsOf(entries') = {longer[k].sid : k \in DOMAIN longer}
    BY <1>10, <1>16
  <2>2. \E k \in DOMAIN base : k \notin DOMAIN longer
    BY <2>1, <1>14, <1>15
  <2> QED BY <2>2, <1>7
<1>17. CASE Len(longer) > MaxEntries
  <2>1. Len(entries') = MaxEntries
    BY <1>10, <1>17
  <2>2. PICK d \in DOMAIN longer :
           /\ Range(entries') = {longer[k] : k \in DOMAIN longer \ {d}}
           /\ SidsOf(entries') = {longer[k].sid : k \in DOMAIN longer \ {d}}
           /\ \/ ~Live(longer[d])
              \/ d = 1 /\ \A k \in DOMAIN longer : Live(longer[k])
    BY <1>10, <1>17
  (* The store was full of others; the entry written is not dropped.       *)
  <2>3. Len(base) = n /\ n = MaxEntries /\ others = DOMAIN entries
    BY <1>2, <1>4, <1>7, <1>17
  <2>4. Live(longer[Len(base) + 1])
    <3>1. longer[Len(base) + 1].expiresAt = clock + Ttl
      BY <1>7
    <3>2. clock + Ttl > clock
      BY <1>2
    <3> QED BY <3>1, <3>2 DEF Live
  <2>5. d # Len(base) + 1
    BY <2>2, <2>3, <2>4, <1>2
  <2>6. PICK k \in DOMAIN base : k \notin DOMAIN longer \ {d} /\ base[k] = entries[i]
    <3>1. Len(base) + 1 \in DOMAIN longer \ {d}
      BY <2>5, <1>15
    <3> QED BY <3>1, <2>2, <1>14
  <2>7. k = d /\ longer[d] = entries[i]
    BY <2>6, <1>7
  <2>8. d = 1 /\ \A m \in DOMAIN longer : Live(longer[m])
    BY <2>2, <2>7, <1>13
  <2>9. \A e \in Range(entries') : e.expiresAt > clock
    BY <2>2, <2>8 DEF Live
  <2>10. base = entries
    BY <2>3, <1>2, PickAll DEF base, Kept
  <2>11. entries[1] = entries[i] /\ 1 \in DOMAIN entries
    BY <2>6, <2>7, <2>8, <2>10
  <2>12. i = 1
    BY <2>11, <1>2 DEF Kept
  <2>13. 1..(i - 1) = {}
    BY <2>12
  <2> QED BY <2>1, <2>9, <2>13
<1> QED BY <1>16, <1>17, <1>4, <1>7, <1>2

LEMMA DropStep ==
    ASSUME StoreInv, NEW dropped \in SUBSET DOMAIN entries, NEW gone,
           entries' = Pick(entries, DOMAIN entries \ dropped), clock' = clock,
           \A i \in dropped : ~Live(entries[i]) \/ entries[i].sid \in gone, destroyed' = gone
    PROVE  StoreInv' /\ OnlyToYounger
<1> DEFINE at == DOMAIN entries \ dropped
           n == Len(entries)
<1>1. /\ Kept(entries) /\ n \in Nat /\ n <= MaxEntries
      /\ clock \in Nat /\ MaxEntries \in Nat \ {0}
  BY StoreAssumption, LenProperties DEF StoreInv, Kept
<1>2. at \in SUBSET DOMAIN entries /\ entries' = Pick(entries, at)
  OBVIOUS
<1>3. \A i \in DOMAIN entries : i \in at \/ ~Live(entries[i]) \/ entries[i].sid \in destroyed'
  OBVIOUS
<1> HIDE DEF at, n
<1>4. /\ Kept(entries') /\ Len(entries') = Cardinality(at) /\ Cardinality(at) \in Nat
      /\ Cardinality(at) <= n
      /\ SidsOf(entries') = {entries[i].sid : i \in at}
  <2> DEFINE p == Pick(entries, at)
  <2>1. /\ Kept(p) /\ Len(p) = Cardinality(at) /\ Cardinality(at) \in Nat
        /\ Cardinality(at) <= Len(entries)
        /\ SidsOf(p) = {entries[i].sid : i \in at}
    BY <1>1, <1>2, PickIsKept
  <2>2. entries' = p
    BY <1>2
  <2> HIDE DEF p
  <2> QED BY <2>1, <2>2 DEF n
<1>5. Len(entries') <= MaxEntries
  BY <1>1, <1>4
<1>6. StoreInv'
  BY <1>1, <1>4, <1>5 DEF StoreInv, Kept
<1>7. Cardinality(SidsOf(entries')) = Len(entries')
  BY <1>4, SidsAreDistinct
<1>8. \A i \in DOMAIN entries :
         entries[i].sid \in SidsOf(entries') \/ entries[i].sid \in destroyed' \/ ~Live(entries[i])
  BY <1>3, <1>4
<1> QED BY <1>5, <1>6, <1>7, <1>8 DEF OnlyToYounger

LEMMA TouchStep ==
    ASSUME StoreInv, NEW sid \in Sids, touch(sid)
    PROVE  StoreInv' /\ OnlyToYounger
<1> DEFINE n == Len(entries)
           e(i) == IF entries[i].sid = sid
                   THEN [sid |-> sid, expiresAt |-> clock + Ttl] ELSE entries[i]
<1>1. /\ Kept(entries) /\ n \in Nat /\ DOMAIN entries = 1..n /\ n <= MaxEntries
      /\ clock \in Nat /\ MaxEntries \in Nat \ {0} /\ clock + Ttl \in Nat
      /\ \A i \in 1..n : entries[i] \in Entry
  BY StoreAssumption, LenProperties, ElementOfSeq DEF StoreInv, Kept
<1> HIDE DEF n
<1>2. \A i \in 1..n : e(i) \in Entry /\ e(i).sid = entries[i].sid
  BY <1>1 DEF Entry
<1>3. entries' = [i \in 1..n |-> e(i)] /\ clock' = clock /\ destroyed' = {}
  BY <1>1 DEF touch
<1> HIDE DEF e
<1>4. entries' \in Seq(Entry) /\ Len(entries') = n
  BY <1>1, <1>2, <1>3
<1>5. DOMAIN entries' = 1..n /\ \A i \in 1..n : entries'[i].sid = entries[i].sid
  BY <1>2, <1>3
<1>6. Kept(entries')
  BY <1>1, <1>4, <1>5 DEF Kept
<1>7. StoreInv'
  BY <1>1, <1>3, <1>4, <1>6 DEF StoreInv, Kept
<1>8. /\ Cardinality(SidsOf(entries')) = Len(entries')
      /\ \A i \in 1..n : entries[i].sid \in SidsOf(entries')
  BY <1>5, <1>6, SidsAreDistinct
<1> QED BY <1>1, <1>4, <1>7, <1>8 DEF OnlyToYounger

LEMMA TickStep ==
    ASSUME StoreInv, StoreTick
    PROVE  StoreInv' /\ OnlyToYounger
<1>1. entries' = entries /\ clock' = clock + 1 /\ Kept(entries) /\ Len(entries) <= MaxEntries
      /\ clock' \in Nat
  BY DEF StoreTick, StoreInv
<1>2. /\ Cardinality(SidsOf(entries)) = Len(entries)
      /\ \A i \in DOMAIN entries : entries[i].sid \in SidsOf(entries)
  BY <1>1, SidsAreDistinct
<1>3. StoreInv'
  BY <1>1 DEF StoreInv, Kept
<1> QED BY <1>1, <1>2, <1>3 DEF OnlyToYounger

(***************************************************************************)
(* The store of logins under way never exceeds its limit, has one entry of *)
(* a session, and drops a live entry only when it is full of younger ones: *)
(* for any sessions, limit and time to live (BoundedTtlSessionStore).      *)
(***************************************************************************)
THEOREM LoginsAreLostOnlyToYounger == StoreSpec => LostOnlyToYounger
<1>1. StoreInit => StoreInv
  <2> SUFFICES ASSUME StoreInit PROVE StoreInv
    OBVIOUS
  <2>1. entries = <<>> /\ clock = 0
    BY DEF StoreInit
  <2>2. entries \in Seq(Entry) /\ Len(entries) = 0 /\ DOMAIN entries = {}
    BY <2>1, EmptySeq
  <2> QED BY <2>1, <2>2, StoreAssumption DEF StoreInv, Kept
<1>2. StoreInv /\ UNCHANGED storeVars => StoreInv'
  BY DEF StoreInv, Kept, storeVars
<1>3. ASSUME StoreInv, StoreNext PROVE StoreInv' /\ OnlyToYounger
  <2>1. ASSUME NEW sid \in Sids, set(sid) PROVE StoreInv' /\ OnlyToYounger
    BY <1>3, <2>1, SetStep
  <2>2. ASSUME NEW sid \in Sids, get(sid) PROVE StoreInv' /\ OnlyToYounger
    <3> DEFINE dropped == {i \in DOMAIN entries : entries[i].sid = sid /\ ~Live(entries[i])}
    <3>1. DOMAIN entries \ dropped
             = {i \in DOMAIN entries : entries[i].sid # sid \/ Live(entries[i])}
      OBVIOUS
    <3>2. entries' = Pick(entries, DOMAIN entries \ dropped) /\ clock' = clock /\ destroyed' = {}
      BY <2>2, <3>1 DEF get
    <3>3. dropped \in SUBSET DOMAIN entries /\ \A i \in dropped : ~Live(entries[i])
      OBVIOUS
    <3> HIDE DEF dropped
    <3> QED BY <1>3, <3>2, <3>3, DropStep
  <2>3. ASSUME NEW sid \in Sids, touch(sid) PROVE StoreInv' /\ OnlyToYounger
    BY <1>3, <2>3, TouchStep
  <2>4. ASSUME NEW sid \in Sids, destroy(sid) PROVE StoreInv' /\ OnlyToYounger
    <3> DEFINE dropped == {i \in DOMAIN entries : entries[i].sid = sid}
    <3>1. DOMAIN entries \ dropped = {i \in DOMAIN entries : entries[i].sid \notin {sid}}
      OBVIOUS
    <3>2. /\ entries' = Pick(entries, DOMAIN entries \ dropped) /\ clock' = clock
          /\ destroyed' = {sid}
      BY <2>4, <3>1 DEF destroy, Dropping
    <3>3. dropped \in SUBSET DOMAIN entries /\ \A i \in dropped : entries[i].sid \in {sid}
      OBVIOUS
    <3> HIDE DEF dropped
    <3> QED BY <1>3, <3>2, <3>3, DropStep
  <2>5. ASSUME StoreTick PROVE StoreInv' /\ OnlyToYounger
    BY <1>3, <2>5, TickStep
  <2> QED BY <1>3, <2>1, <2>2, <2>3, <2>4, <2>5 DEF StoreNext
<1>4. OnlyToYounger => [/\ Len(entries') <= MaxEntries
       /\ Cardinality(SidsOf(entries')) = Len(entries')
       /\ \A i \in DOMAIN entries :
             entries[i].sid \notin SidsOf(entries') \cup destroyed' /\ Live(entries[i]) =>
                /\ Len(entries') = MaxEntries
                /\ \A e \in Range(entries') : e.expiresAt > clock
                /\ \A j \in 1..(i - 1) :
                      \/ entries[j].sid \notin SidsOf(entries')
                      \/ entries[j].sid = entries'[MaxEntries].sid]_storeVars
  BY DEF OnlyToYounger
<1> QED BY <1>1, <1>2, <1>3, <1>4, PTL DEF StoreSpec, LostOnlyToYounger
-----------------------------------------------------------------------------
(***************************************************************************)
(* Sums and tallies, which the analytics and the recommendations are:      *)
(* induction over the subsets of a finite set, in terms of the set of the  *)
(* subsets a statement holds of; that a recursion that takes one element   *)
(* after the other out of a set is defined; and what sums are.             *)
(***************************************************************************)
LEMMA Least ==
    ASSUME NEW T \in SUBSET Nat, T # {}
    PROVE  \E x \in T : \A y \in T : x <= y
<1> DEFINE R == {ss \in Nat \X Nat : ss[1] < ss[2]}
<1>1. IsWellFoundedOn(R, Nat)
  BY NatLessThanWellFounded DEF OpToRel
<1>2. \A x, y \in Nat : <<x, y>> \in R <=> x < y
  OBVIOUS
<1> HIDE DEF R
<1>3. PICK x \in T : \A y \in T : ~(<<y, x>> \in R)
  BY <1>1, WFMin
<1>4. ASSUME NEW y \in T PROVE x <= y
  <2>1. x \in Nat /\ y \in Nat /\ ~(y < x)
    BY <1>2, <1>3
  <2> QED BY <2>1
<1> QED BY <1>4

(* Induction over the subsets of a finite set.                             *)
LEMMA BySize ==
    ASSUME NEW S, IsFiniteSet(S), NEW P, {} \in P,
           \A s \in SUBSET S : s # {} /\ (\A x \in s : s \ {x} \in P) => s \in P
    PROVE  SUBSET S \subseteq P
<1> DEFINE bad == {n \in Nat : \E s \in SUBSET S : Cardinality(s) = n /\ s \notin P}
<1>1. \A s \in SUBSET S : IsFiniteSet(s) /\ Cardinality(s) \in Nat
  BY FS_Subset, FS_CardinalityType
<1>2. SUFFICES ASSUME bad # {} PROVE FALSE
  BY <1>1
<1>3. bad \in SUBSET Nat
  OBVIOUS
<1>4. \A n \in bad : n \in Nat /\ \E s \in SUBSET S : Cardinality(s) = n /\ s \notin P
  OBVIOUS
<1>5. \A s \in SUBSET S : s \notin P => Cardinality(s) \in bad
  BY <1>1
<1> HIDE DEF bad
<1>6. PICK n \in bad : \A m \in bad : n <= m
  BY <1>2, <1>3, Least
<1>7. PICK s \in SUBSET S : Cardinality(s) = n /\ s \notin P
  BY <1>4
<1>8. ASSUME NEW x \in s PROVE s \ {x} \in P
  <2>1. Cardinality(s \ {x}) = n - 1 /\ s \ {x} \in SUBSET S
    BY <1>1, <1>7, FS_RemoveElement
  <2>2. n \in Nat /\ ~(n <= n - 1)
    BY <1>4
  <2> QED BY <2>1, <2>2, <1>5, <1>6
<1> QED BY <1>7, <1>8

Some(s) == CHOOSE x \in s : TRUE

Folds(g, S, V, base, step) ==
    /\ g \in [SUBSET S -> V]
    /\ \A s \in SUBSET S :
          g[s] = IF s = {} THEN base ELSE step[<<Some(s), g[s \ {Some(s)}]>>]

(* A recursion that takes one element after the other out of a set.        *)
LEMMA FoldDefined ==
    ASSUME NEW S, IsFiniteSet(S), NEW V, NEW base \in V, NEW step \in [S \X V -> V]
    PROVE  \E g : Folds(g, S, V, base, step)
<1> DEFINE body(g, s) == IF s = {} THEN base ELSE step[<<Some(s), g[s \ {Some(s)}]>>]
           small(n) == {s \in SUBSET S : Cardinality(s) <= n}
           solves(g, n) == g \in [small(n) -> V] /\ \A s \in small(n) : g[s] = body(g, s)
           bad == {n \in Nat : ~\E g : solves(g, n)}
<1>1. \A s \in SUBSET S : IsFiniteSet(s) /\ Cardinality(s) \in Nat
  BY FS_Subset, FS_CardinalityType
<1>s. \A s : s # {} => Some(s) \in s
  BY DEF Some
<1>2. bad = {}
  <2> SUFFICES ASSUME bad # {} PROVE FALSE
    OBVIOUS
  <2>1. bad \in SUBSET Nat
    OBVIOUS
  <2>2. \A n \in Nat : n \notin bad => \E g : solves(g, n)
    OBVIOUS
  <2>3. \A n \in bad : ~\E g : solves(g, n)
    OBVIOUS
  <2> HIDE DEF bad
  <2>4. PICK n \in bad : \A m \in bad : n <= m
    BY <2>1, Least
  <2>5. CASE n = 0
    <3> DEFINE h == [s \in small(n) |-> base]
    <3>1. \A s \in small(n) : s = {}
      <4> TAKE s \in small(n)
      <4>1. IsFiniteSet(s) /\ Cardinality(s) \in Nat /\ Cardinality(s) <= 0
        BY <2>5, <1>1
      <4> QED BY <4>1, FS_EmptySet
    <3>2. h \in [small(n) -> V] /\ \A s \in small(n) : h[s] = body(h, s)
      BY <3>1
    <3> QED BY <3>2, <2>3
  <2>6. CASE n # 0
    <3>1. n - 1 \in Nat /\ n \in Nat /\ n - 1 \notin bad
      BY <2>1, <2>4, <2>6
    <3>2. PICK g : solves(g, n - 1)
      BY <2>2, <3>1
    <3> DEFINE h == [s \in small(n) |-> body(g, s)]
    <3>3. ASSUME NEW s \in small(n), s # {}
          PROVE  s \ {Some(s)} \in small(n - 1) /\ Some(s) \in S
      <4>1. /\ IsFiniteSet(s) /\ Some(s) \in s /\ s \in SUBSET S
            /\ Cardinality(s) <= n /\ Cardinality(s) \in Nat
        BY <3>3, <1>1, <1>s
      <4>2. Cardinality(s \ {Some(s)}) = Cardinality(s) - 1
        BY <4>1, FS_RemoveElement
      <4> QED BY <3>1, <4>1, <4>2
    <3>4. \A s \in small(n - 1) : s \in small(n)
      BY <3>1, <1>1
    <3>5. g \in [small(n - 1) -> V] /\ \A s \in small(n - 1) : g[s] = body(g, s)
      BY <3>2
    <3>6. \A s \in small(n) : body(g, s) \in V
      <4> TAKE s \in small(n)
      <4>1. CASE s = {}
        BY <4>1
      <4>2. CASE s # {}
        <5>1. g[s \ {Some(s)}] \in V /\ Some(s) \in S
          BY <4>2, <3>3, <3>5
        <5>2. <<Some(s), g[s \ {Some(s)}]>> \in S \X V
          BY <5>1
        <5> QED BY <4>2, <5>2
      <4> QED BY <4>1, <4>2
    <3>7. \A s \in small(n - 1) : h[s] = g[s]
      BY <3>4, <3>5
    <3>8. \A s \in small(n) : h[s] = body(g, s)
      OBVIOUS
    <3>9. h \in [small(n) -> V]
      BY <3>6
    <3> HIDE DEF h, small
    <3>10. \A s \in small(n) : body(h, s) = body(g, s)
      <4> TAKE s \in small(n)
      <4>1. CASE s = {}
        BY <4>1
      <4>2. CASE s # {}
        <5>1. h[s \ {Some(s)}] = g[s \ {Some(s)}]
          BY <4>2, <3>3, <3>7
        <5> QED BY <4>2, <5>1
      <4> QED BY <4>1, <4>2
    <3>11. \A s \in small(n) : h[s] = body(h, s)
      BY <3>8, <3>10
    <3>12. solves(h, n)
      BY <3>9, <3>11
    <3> HIDE DEF solves
    <3> QED BY <3>12, <2>3
  <2> QED BY <2>5, <2>6
<1> DEFINE n == Cardinality(S)
<1>3. n \in Nat
  BY FS_CardinalityType
<1>4. small(n) = SUBSET S
  BY FS_Subset
<1>5. PICK g : solves(g, n)
  BY <1>2, <1>3
<1>6. Folds(g, S, V, base, step)
  BY <1>4, <1>5 DEF Folds
<1> QED BY <1>6

Adds(f, S, g) ==
    g = [s \in SUBSET S |-> IF s = {} THEN 0
                            ELSE LET x == CHOOSE x \in s : TRUE IN f[x] + g[s \ {x}]]
Adding(f, S) == CHOOSE g : Adds(f, S, g)

LEMMA AddingAdds ==
    ASSUME NEW f, NEW S, IsFiniteSet(S), \A x \in S : f[x] \in Int
    PROVE  Adds(f, S, Adding(f, S))
<1> DEFINE step == [p \in S \X Int |-> f[p[1]] + p[2]]
<1>1. step \in [S \X Int -> Int]
  OBVIOUS
<1>2. \A x \in S, v \in Int : step[<<x, v>>] = f[x] + v
  OBVIOUS
<1> HIDE DEF step
<1>3. PICK g \in [SUBSET S -> Int] : \A s \in SUBSET S :
         g[s] = IF s = {} THEN 0 ELSE step[<<Some(s), g[s \ {Some(s)}]>>]
  <2>1. 0 \in Int
    OBVIOUS
  <2>2. \E g : Folds(g, S, Int, 0, step)
    BY <1>1, <2>1, FoldDefined
  <2> QED BY <2>2 DEF Folds
<1>4. \A s \in SUBSET S : g[s] = IF s = {} THEN 0 ELSE f[Some(s)] + g[s \ {Some(s)}]
  <2> TAKE s \in SUBSET S
  <2>1. CASE s = {}
    BY <2>1, <1>3
  <2>2. CASE s # {}
    <3>1. Some(s) \in S /\ s \ {Some(s)} \in SUBSET S
      BY <2>2 DEF Some
    <3>2. g[s \ {Some(s)}] \in Int
      BY <3>1
    <3> QED BY <2>2, <3>1, <3>2, <1>2, <1>3
  <2> QED BY <2>1, <2>2
<1>5. Adds(f, S, g)
  BY <1>4 DEF Adds, Some
<1> QED BY <1>5 DEF Adding

LEMMA AddsTyped ==
    ASSUME NEW f, NEW S, IsFiniteSet(S), \A x \in S : f[x] \in Int, NEW g, Adds(f, S, g)
    PROVE  \A s \in SUBSET S : g[s] \in Int
<1> DEFINE P == {s \in SUBSET S : g[s] \in Int}
<1>1. \A s \in SUBSET S : g[s] = IF s = {} THEN 0 ELSE f[Some(s)] + g[s \ {Some(s)}]
  BY DEF Adds, Some
<1>2. {} \in P
  <2>1. g[{}] = 0
    BY <1>1
  <2> QED BY <2>1
<1>3. ASSUME NEW s \in SUBSET S, s # {}, \A x \in s : s \ {x} \in P
      PROVE  s \in P
  <2>1. Some(s) \in s /\ s \ {Some(s)} \in P
    BY <1>3 DEF Some
  <2>2. g[s] = f[Some(s)] + g[s \ {Some(s)}]
    BY <1>1, <1>3
  <2> QED BY <2>1, <2>2
<1> HIDE DEF P
<1>4. SUBSET S \subseteq P
  BY <1>2, <1>3, BySize
<1> QED BY <1>4 DEF P

LEMMA AddsTakes ==
    ASSUME NEW f, NEW S, IsFiniteSet(S), \A x \in S : f[x] \in Int, NEW g, Adds(f, S, g)
    PROVE  /\ g[{}] = 0
           /\ \A s \in SUBSET S : g[s] \in Int /\ \A x \in s : g[s] = f[x] + g[s \ {x}]
<1> DEFINE P == {s \in SUBSET S : g[s] \in Int /\ \A x \in s : g[s] = f[x] + g[s \ {x}]}
<1>1. \A s \in SUBSET S : g[s] = IF s = {} THEN 0 ELSE f[Some(s)] + g[s \ {Some(s)}]
  BY DEF Adds, Some
<1>2. g[{}] = 0 /\ {} \in P
  BY <1>1
<1>3. ASSUME NEW s \in SUBSET S, s # {}, \A x \in s : s \ {x} \in P
      PROVE  s \in P
  <2> DEFINE y == Some(s)
  <2>1. y \in s /\ s \ {y} \in P
    BY <1>3 DEF Some
  <2>2. g[s] = f[y] + g[s \ {y}]
    BY <1>1, <1>3
  <2> HIDE DEF y
  <2>3. g[s] \in Int /\ g[s \ {y}] \in Int /\ f[y] \in Int
    BY <2>1, AddsTyped
  <2>4. ASSUME NEW x \in s, x # y PROVE g[s] = f[x] + g[s \ {x}]
    <3>1. x \in s \ {y} /\ y \in s \ {x} /\ (s \ {y}) \ {x} = (s \ {x}) \ {y}
      BY <2>1, <2>4
    <3>2. g[s \ {y}] = f[x] + g[(s \ {y}) \ {x}]
      BY <2>1, <3>1
    <3>3. s \ {x} \in P
      BY <1>3
    <3>4. g[s \ {x}] = f[y] + g[(s \ {x}) \ {y}] /\ g[s \ {x}] \in Int
      BY <3>1, <3>3
    <3>5. g[(s \ {x}) \ {y}] \in Int /\ f[x] \in Int
      BY AddsTyped
    <3> DEFINE A == g[s \ {y}]
               B == g[s \ {x}]
               R == g[(s \ {x}) \ {y}]
    <3>6. g[s] = f[y] + A /\ A = f[x] + R /\ B = f[y] + R
      BY <2>2, <3>1, <3>2, <3>4
    <3>7. A \in Int /\ B \in Int /\ R \in Int /\ f[x] \in Int /\ f[y] \in Int
      BY <2>3, <3>4, <3>5
    <3> HIDE DEF A, B, R
    <3>8. g[s] = f[x] + B
      BY <3>6, <3>7
    <3> QED BY <3>8 DEF B
  <2> QED BY <2>2, <2>3, <2>4
<1> HIDE DEF P
<1>4. SUBSET S \subseteq P
  BY <1>2, <1>3, BySize
<1> QED BY <1>2, <1>4 DEF P

(* Sums over the same elements of the same numbers.                        *)
LEMMA AddsAgree ==
    ASSUME NEW f, NEW S, IsFiniteSet(S), NEW g, Adds(f, S, g),
           NEW e, NEW T \in SUBSET S, NEW h, Adds(e, T, h), \A x \in T : f[x] = e[x]
    PROVE  \A s \in SUBSET T : g[s] = h[s]
<1> DEFINE P == {s \in SUBSET T : g[s] = h[s]}
<1>1. \A s \in SUBSET T : g[s] = IF s = {} THEN 0 ELSE f[Some(s)] + g[s \ {Some(s)}]
  BY DEF Adds, Some
<1>2. \A s \in SUBSET T : h[s] = IF s = {} THEN 0 ELSE e[Some(s)] + h[s \ {Some(s)}]
  BY DEF Adds, Some
<1>3. {} \in P
  BY <1>1, <1>2
<1>4. ASSUME NEW s \in SUBSET T, s # {}, \A x \in s : s \ {x} \in P
      PROVE  s \in P
  <2>1. Some(s) \in s /\ s \ {Some(s)} \in P /\ Some(s) \in T
    BY <1>4 DEF Some
  <2>2. g[s] = f[Some(s)] + g[s \ {Some(s)}]
    BY <1>1, <1>4
  <2>3. h[s] = e[Some(s)] + h[s \ {Some(s)}]
    BY <1>2, <1>4
  <2> QED BY <2>1, <2>2, <2>3
<1>5. IsFiniteSet(T)
  BY FS_Subset
<1> HIDE DEF P
<1>6. SUBSET T \subseteq P
  BY <1>3, <1>4, <1>5, BySize
<1> QED BY <1>6 DEF P

LEMMA TotalIs ==
    ASSUME NEW f, NEW S
    PROVE  Total(f, S) = Adding(f, S)[S]
BY DEF Total, MapThenSumSet, MapThenFoldSet, Adding, Adds

LEMMA TotalOfNone == \A f : Total(f, {}) = 0
<1> TAKE f
<1>1. IsFiniteSet({}) /\ \A x \in {} : f[x] \in Int
  BY FS_EmptySet
<1>2. Adds(f, {}, Adding(f, {}))
  BY <1>1, AddingAdds, Zenon
<1>3. Adding(f, {})[{}] = 0
  BY <1>1, <1>2, AddsTakes, Zenon
<1> QED BY <1>3, TotalIs

LEMMA TotalTakes ==
    ASSUME NEW f, NEW S, IsFiniteSet(S), \A x \in S : f[x] \in Int
    PROVE  /\ Total(f, S) \in Int
           /\ \A x \in S : Total(f, S) = f[x] + Total(f, S \ {x})
<1>1. Adds(f, S, Adding(f, S))
  BY AddingAdds
<1>2. /\ Adding(f, S)[S] \in Int
      /\ \A x \in S : Adding(f, S)[S] = f[x] + Adding(f, S)[S \ {x}]
  <2> DEFINE g == Adding(f, S)
  <2>1. Adds(f, S, g)
    BY <1>1
  <2> HIDE DEF g
  <2>2. \A s \in SUBSET S : g[s] \in Int /\ \A x \in s : g[s] = f[x] + g[s \ {x}]
    BY <2>1, AddsTakes
  <2>3. S \in SUBSET S
    OBVIOUS
  <2>4. g[S] \in Int /\ \A x \in S : g[S] = f[x] + g[S \ {x}]
    BY <2>2, <2>3
  <2> QED BY <2>4 DEF g
<1>3. ASSUME NEW x \in S
      PROVE  Adding(f, S)[S \ {x}] = Adding(f, S \ {x})[S \ {x}]
  <2>1. IsFiniteSet(S \ {x}) /\ S \ {x} \in SUBSET S
    BY FS_Subset
  <2>2. Adds(f, S \ {x}, Adding(f, S \ {x}))
    BY <2>1, AddingAdds
  <2> QED BY <1>1, <2>1, <2>2, AddsAgree
<1> QED BY <1>2, <1>3, TotalIs

LEMMA TotalAgrees ==
    ASSUME NEW S, IsFiniteSet(S), NEW f, NEW e, \A x \in S : f[x] \in Int /\ f[x] = e[x]
    PROVE  Total(f, S) = Total(e, S)
<1>1. Adds(f, S, Adding(f, S))
  BY AddingAdds
<1>2. \A x \in S : e[x] \in Int
  OBVIOUS
<1>3. Adds(e, S, Adding(e, S))
  BY <1>2, AddingAdds
<1>4. S \in SUBSET S
  OBVIOUS
<1>5. Adding(f, S)[S] = Adding(e, S)[S]
  BY <1>1, <1>3, <1>4, AddsAgree
<1> QED BY <1>5, TotalIs

(* One number more or less.                                                *)
LEMMA TotalChanges ==
    ASSUME NEW S, IsFiniteSet(S), NEW f, NEW e, \A y \in S : f[y] \in Int,
           NEW x \in S, NEW d \in Int, e[x] = f[x] + d, \A y \in S \ {x} : e[y] = f[y]
    PROVE  Total(e, S) = Total(f, S) + d
<1>1. IsFiniteSet(S \ {x}) /\ \A y \in S : e[y] \in Int
  BY FS_Subset
<1>2. Total(f, S) = f[x] + Total(f, S \ {x})
  BY TotalTakes
<1>3. Total(e, S) = e[x] + Total(e, S \ {x})
  BY <1>1, TotalTakes
<1>4. Total(f, S \ {x}) = Total(e, S \ {x})
  BY <1>1, TotalAgrees
<1>5. Total(f, S \ {x}) \in Int
  BY <1>1, TotalTakes
<1> QED BY <1>2, <1>3, <1>4, <1>5

LEMMA TotalOfBoth ==
    ASSUME NEW A, NEW B, IsFiniteSet(A), IsFiniteSet(B), A \cap B = {},
           NEW f, \A x \in A \union B : f[x] \in Int
    PROVE  Total(f, A \union B) = Total(f, A) + Total(f, B)
<1> DEFINE P == {s \in SUBSET B : Total(f, A \union s) = Total(f, A) + Total(f, s)}
<1>1. Total(f, A) \in Int /\ Total(f, A \union {}) = Total(f, A) /\ Total(f, {}) = 0
  <2>1. A \union {} = A
    OBVIOUS
  <2> QED BY <2>1, TotalTakes, TotalOfNone
<1>2. {} \in P
  BY <1>1
<1>3. ASSUME NEW s \in SUBSET B, s # {}, \A x \in s : s \ {x} \in P
      PROVE  s \in P
  <2>1. PICK x \in s : TRUE
    BY <1>3
  <2>2. IsFiniteSet(s) /\ IsFiniteSet(A \union s)
    BY FS_Subset, FS_Union
  <2>3. x \in A \union s /\ x \notin A /\ (A \union s) \ {x} = A \union (s \ {x})
    BY <2>1
  <2>4. Total(f, A \union s) = f[x] + Total(f, A \union (s \ {x}))
    <3>1. Total(f, A \union s) = f[x] + Total(f, (A \union s) \ {x})
      BY <2>2, <2>3, TotalTakes
    <3> QED BY <3>1, <2>3
  <2>5. Total(f, s) = f[x] + Total(f, s \ {x})
    BY <2>1, <2>2, TotalTakes
  <2>6. Total(f, A \union (s \ {x})) = Total(f, A) + Total(f, s \ {x})
    BY <1>3, <2>1
  <2>7. IsFiniteSet(s \ {x}) /\ f[x] \in Int /\ \A y \in s \ {x} : f[y] \in Int
    BY <2>1, <2>2, FS_Subset
  <2>8. Total(f, s \ {x}) \in Int
    BY <2>7, TotalTakes
  <2>9. Total(f, A \union s) = Total(f, A) + Total(f, s)
    BY <1>1, <2>4, <2>5, <2>6, <2>7, <2>8
  <2> QED BY <2>9
<1> HIDE DEF P
<1>4. SUBSET B \subseteq P
  BY <1>2, <1>3, BySize
<1> QED BY <1>4 DEF P

(* A sum of sums of parts.                                                 *)
LEMMA TotalOfParts ==
    ASSUME NEW S, IsFiniteSet(S), NEW f, \A x \in S : f[x] \in Int, NEW k,
           NEW D, IsFiniteSet(D), NEW g,
           \A d \in D : g[d] = Total(f, {x \in S : k[x] = d})
    PROVE  Total(g, D) = Total(f, {x \in S : k[x] \in D})
<1> DEFINE part(d) == {x \in S : k[x] = d}
           whole(s) == {x \in S : k[x] \in s}
           P == {s \in SUBSET D : Total(g, s) = Total(f, whole(s))}
<1>1. {} \in P
  <2>1. whole({}) = {}
    OBVIOUS
  <2>2. Total(f, whole({})) = 0 /\ Total(g, {}) = 0
    BY <2>1, TotalOfNone
  <2> QED BY <2>2
<1>2. \A d \in D : g[d] \in Int
  <2> TAKE d \in D
  <2>1. IsFiniteSet(part(d)) /\ \A x \in part(d) : f[x] \in Int
    BY FS_Subset
  <2> HIDE DEF part
  <2>2. Total(f, part(d)) \in Int
    BY <2>1, TotalTakes
  <2> QED BY <2>2 DEF part
<1>3. ASSUME NEW s \in SUBSET D, s # {}, \A x \in s : s \ {x} \in P
      PROVE  s \in P
  <2>1. PICK d \in s : TRUE
    BY <1>3
  <2>2. IsFiniteSet(s) /\ \A x \in s : g[x] \in Int
    BY <1>2, FS_Subset
  <2>3. Total(g, s) = g[d] + Total(g, s \ {d})
    BY <2>1, <2>2, TotalTakes
  <2>4. /\ whole(s) = part(d) \union whole(s \ {d}) /\ part(d) \cap whole(s \ {d}) = {}
        /\ IsFiniteSet(part(d)) /\ IsFiniteSet(whole(s \ {d}))
        /\ \A x \in part(d) \union whole(s \ {d}) : f[x] \in Int
    BY <2>1, FS_Subset
  <2>5. Total(g, s \ {d}) = Total(f, whole(s \ {d})) /\ g[d] = Total(f, part(d))
    BY <1>3, <2>1
  <2>6. Total(f, whole(s)) = Total(f, part(d)) + Total(f, whole(s \ {d}))
    <3> DEFINE A == part(d)
               B == whole(s \ {d})
               W == whole(s)
    <3>1. /\ W = A \union B /\ A \cap B = {} /\ IsFiniteSet(A) /\ IsFiniteSet(B)
          /\ \A x \in A \union B : f[x] \in Int
      BY <2>4
    <3> HIDE DEF A, B, W
    <3>2. Total(f, W) = Total(f, A) + Total(f, B)
      BY <3>1, TotalOfBoth
    <3> QED BY <3>2 DEF A, B, W
  <2> HIDE DEF part, whole
  <2>7. Total(g, s) = Total(f, whole(s))
    BY <2>3, <2>5, <2>6
  <2> QED BY <2>7
<1> HIDE DEF P
<1>4. SUBSET D \subseteq P
  BY <1>1, <1>3, BySize
<1>5. Total(g, D) = Total(f, whole(D))
  BY <1>4 DEF P
<1> QED BY <1>5

(* A sum of numbers that are no less, or no more, than one.                *)
LEMMA TotalBounds ==
    ASSUME NEW S, IsFiniteSet(S), NEW f, NEW m \in Int, \A x \in S : f[x] \in Int
    PROVE  /\ (\A x \in S : f[x] >= m) => Total(f, S) >= m * Cardinality(S)
           /\ (\A x \in S : f[x] <= m) => Total(f, S) <= m * Cardinality(S)
<1> DEFINE P == {s \in SUBSET S :
                   /\ (\A x \in s : f[x] >= m) => Total(f, s) >= m * Cardinality(s)
                   /\ (\A x \in s : f[x] <= m) => Total(f, s) <= m * Cardinality(s)}
<1>1. {} \in P
  <2>1. Total(f, {}) = 0 /\ Cardinality({}) = 0 /\ m * 0 = 0
    BY TotalOfNone, FS_EmptySet
  <2> QED BY <2>1
<1>2. ASSUME NEW s \in SUBSET S, s # {}, \A x \in s : s \ {x} \in P
      PROVE  s \in P
  <2>1. PICK x \in s : TRUE
    BY <1>2
  <2>2. IsFiniteSet(s) /\ IsFiniteSet(s \ {x})
    BY FS_Subset
  <2> DEFINE c == Cardinality(s \ {x})
             t == Total(f, s \ {x})
  <2>3. Cardinality(s) = c + 1 /\ c \in Nat
    BY <2>1, <2>2, FS_RemoveElement, FS_CardinalityType
  <2>4. Total(f, s) = f[x] + t /\ t \in Int /\ f[x] \in Int
    BY <2>1, <2>2, TotalTakes
  <2>5. /\ (\A y \in s \ {x} : f[y] >= m) => t >= m * c
        /\ (\A y \in s \ {x} : f[y] <= m) => t <= m * c
    BY <1>2, <2>1
  <2> HIDE DEF c, t
  <2>6. m * (c + 1) = m * c + m /\ m * c \in Int
    BY <2>3
  <2>7. ASSUME \A y \in s : f[y] >= m PROVE Total(f, s) >= m * Cardinality(s)
    <3>1. t >= m * c /\ f[x] >= m
      BY <2>1, <2>5, <2>7
    <3> HIDE DEF P
    <3> QED BY <3>1, <2>3, <2>4, <2>6
  <2>8. ASSUME \A y \in s : f[y] <= m PROVE Total(f, s) <= m * Cardinality(s)
    <3>1. t <= m * c /\ f[x] <= m
      BY <2>1, <2>5, <2>8
    <3> HIDE DEF P
    <3> QED BY <3>1, <2>3, <2>4, <2>6
  <2> QED BY <2>7, <2>8
<1> HIDE DEF P
<1>3. SUBSET S \subseteq P
  BY <1>1, <1>2, BySize
<1> QED BY <1>3 DEF P

(* What divides, of numbers.                                               *)
LEMMA Mean ==
    ASSUME NEW t \in Int, NEW n \in Nat \ {0}, NEW m \in Int
    PROVE  /\ t >= m * n => t \div n >= m
           /\ t <= m * n => t \div n <= m
<1> DEFINE q == t \div n
           r == t % n
<1>1. q \in Int /\ r \in 0..(n - 1) /\ t = n * q + r
  OBVIOUS
<1> HIDE DEF q, r
<1>2. ASSUME t >= m * n, q <= m - 1 PROVE FALSE
  <2>1. n * q <= n * (m - 1)
    BY <1>2, <1>1
  <2>2. n * (m - 1) = m * n - n /\ m * n \in Int /\ n * q \in Int
    BY <1>1
  <2> QED BY <1>1, <1>2, <2>1, <2>2
<1>3. ASSUME t <= m * n, q >= m + 1 PROVE FALSE
  <2>1. n * q >= n * (m + 1)
    BY <1>3, <1>1
  <2>2. n * (m + 1) = m * n + n /\ m * n \in Int /\ n * q \in Int
    BY <1>1
  <2> QED BY <1>1, <1>3, <2>1, <2>2
<1> QED BY <1>1, <1>2, <1>3 DEF q

-----------------------------------------------------------------------------
(***************************************************************************)
(* The analytics of an organization.                                       *)
(***************************************************************************)
(* What the log has since a tick.                                          *)
SinceOf(t, n) == {s \in Ticks : t <= s /\ s <= n}

Balanced(lg, dep, old, n, followers) ==
    \A t \in 0..n : Total(lg, SinceOf(t, n)) + old[t]
                        = Cardinality(followers) + Total(dep, SinceOf(t, n))

EarlierFans(since, t) == {u \in Fans : since[u] # {} /\ \A s \in since[u] : s < t}

AudienceTypeOK ==
    /\ tick \in Ticks
    /\ accounts \in SUBSET Fans
    /\ follower \in [Fans -> SUBSET (0..tick)]
    /\ \A u \in Fans : follower[u] = {} \/ \E t \in 0..tick : follower[u] = {t}
    /\ log \in [Ticks -> Int] /\ departed \in [Ticks -> Int] /\ past \in [Ticks -> Int]
    /\ attendance \in [Happenings -> [Fans -> Attendances \union {"none"}]]

AudienceInv ==
    /\ AudienceTypeOK
    /\ past[0] = 0
    /\ \A t \in Ticks : t > tick => log[t] = 0 /\ departed[t] = 0
    /\ Balanced(log, departed, past, tick, Followers)
    /\ \A t \in 1..tick : Cardinality(EarlierFans(follower, t)) <= past[t]

LEMMA TicksAre ==
    /\ Ticks \in SUBSET Nat /\ 0 \in Ticks
    /\ \A t \in Int : \A n : IsFiniteSet(SinceOf(t, n)) /\ SinceOf(t, n) \subseteq Ticks
    /\ \A f \in [Ticks -> Int], t \in Int : \A n : Total(f, SinceOf(t, n)) \in Int
<1>1. Ticks \in SUBSET Nat /\ 0 \in Ticks /\ IsFiniteSet(Ticks)
  BY AudienceAssumption, FS_Interval DEF Ticks
<1>2. ASSUME NEW t \in Int, NEW n
      PROVE  IsFiniteSet(SinceOf(t, n)) /\ SinceOf(t, n) \subseteq Ticks
  BY <1>1, FS_Subset DEF SinceOf
<1>3. ASSUME NEW f \in [Ticks -> Int], NEW t \in Int, NEW n
      PROVE  Total(f, SinceOf(t, n)) \in Int
  <2> DEFINE S == SinceOf(t, n)
  <2>1. IsFiniteSet(S) /\ \A x \in S : f[x] \in Int
    BY <1>2
  <2> HIDE DEF S
  <2>2. Total(f, S) \in Int
    BY <2>1, TotalTakes
  <2> QED BY <2>2 DEF S
<1> QED BY <1>1, <1>2, <1>3

LEMMA FollowersFinite ==
    /\ \A S \in SUBSET Fans : IsFiniteSet(S) /\ Cardinality(S) \in Nat
    /\ Followers \in SUBSET Fans
BY AudienceAssumption, FS_Subset, FS_CardinalityType DEF Followers

Gain(f, n, d) == [f EXCEPT ![n] = @ + d]

(* What the log of this tick gains, the followers and the departed gain.   *)
LEMMA BalancedChange ==
    ASSUME NEW lg \in [Ticks -> Int], NEW dep \in [Ticks -> Int],
           NEW old \in [Ticks -> Int], NEW n \in Ticks,
           NEW A \in SUBSET Fans, NEW B \in SUBSET Fans,
           Balanced(lg, dep, old, n, A),
           NEW d \in Int, NEW e \in Int, Cardinality(B) = Cardinality(A) + d - e
    PROVE  Balanced(Gain(lg, n, d), Gain(dep, n, e), old, n, B)
<1> DEFINE lg2 == Gain(lg, n, d)
           dep2 == Gain(dep, n, e)
<1>1. ASSUME NEW t \in 0..n
      PROVE  Total(lg2, SinceOf(t, n)) + old[t] = Cardinality(B) + Total(dep2, SinceOf(t, n))
  <2> DEFINE S == SinceOf(t, n)
  <2>1. n \in Nat /\ t \in Int /\ t \in Ticks
    BY TicksAre, AudienceAssumption DEF Ticks
  <2>2. IsFiniteSet(S) /\ S \subseteq Ticks /\ n \in S
    BY <2>1, TicksAre DEF SinceOf
  <2>3. Total(lg, S) + old[t] = Cardinality(A) + Total(dep, S)
    BY DEF Balanced
  <2>4. Total(lg, S) \in Int /\ Total(dep, S) \in Int /\ old[t] \in Int
    BY <2>1, TicksAre
  <2>5. Cardinality(A) \in Nat /\ Cardinality(B) \in Nat
    BY FollowersFinite
  <2> HIDE DEF S
  <2>6. Total(lg2, S) = Total(lg, S) + d
    <3>1. lg2[n] = lg[n] + d /\ \A y \in S \ {n} : lg2[y] = lg[y]
      BY <2>2 DEF Gain
    <3> HIDE DEF lg2
    <3>2. \A y \in S : lg[y] \in Int
      BY <2>2
    <3> QED BY <2>2, <3>1, <3>2, TotalChanges
  <2>7. Total(dep2, S) = Total(dep, S) + e
    <3>1. dep2[n] = dep[n] + e /\ \A y \in S \ {n} : dep2[y] = dep[y]
      BY <2>2 DEF Gain
    <3> HIDE DEF dep2
    <3>2. \A y \in S : dep[y] \in Int
      BY <2>2
    <3> QED BY <2>2, <3>1, <3>2, TotalChanges
  <2> HIDE DEF lg2, dep2
  <2>8. Total(lg2, S) + old[t] = Cardinality(B) + Total(dep2, S)
    BY <2>3, <2>4, <2>5, <2>6, <2>7
  <2> QED BY <2>8 DEF S
<1> HIDE DEF lg2, dep2
<1>2. Balanced(lg2, dep2, old, n, B)
  BY <1>1 DEF Balanced
<1> QED BY <1>2 DEF lg2, dep2

(* A new tick starts with nothing logged.                                  *)
LEMMA BalancedLater ==
    ASSUME NEW lg \in [Ticks -> Int], NEW dep \in [Ticks -> Int],
           NEW old \in [Ticks -> Int], NEW n \in Ticks, n + 1 \in Ticks,
           NEW A \in SUBSET Fans, Balanced(lg, dep, old, n, A),
           lg[n + 1] = 0, dep[n + 1] = 0
    PROVE  Balanced(lg, dep, [old EXCEPT ![n + 1] = Cardinality(A)], n + 1, A)
<1> DEFINE new == [old EXCEPT ![n + 1] = Cardinality(A)]
<1>0. n \in Nat /\ Cardinality(A) \in Nat
  BY TicksAre, FollowersFinite
<1>1. ASSUME NEW t \in 0..(n + 1)
      PROVE  Total(lg, SinceOf(t, n + 1)) + new[t]
                = Cardinality(A) + Total(dep, SinceOf(t, n + 1))
  <2> DEFINE S == SinceOf(t, n)
             T == SinceOf(t, n + 1)
  <2>1. t \in Int /\ t \in Ticks /\ t \in Nat
    BY <1>0, TicksAre, AudienceAssumption DEF Ticks
  <2>2. n + 1 \in T /\ T \ {n + 1} = S
    <3>1. \A x : x \in S <=> x \in Ticks /\ x \in Nat /\ t <= x /\ x <= n
      BY TicksAre DEF SinceOf
    <3>2. \A x : x \in T <=> x \in Ticks /\ x \in Nat /\ t <= x /\ x <= n + 1
      BY TicksAre DEF SinceOf
    <3> HIDE DEF S, T
    <3>3. n + 1 \in T
      BY <1>0, <3>2
    <3>4. \A x : x \in S <=> x \in T /\ x # n + 1
      BY <1>0, <3>1, <3>2
    <3> QED BY <3>3, <3>4
  <2>3. IsFiniteSet(T) /\ \A x \in T : lg[x] \in Int /\ dep[x] \in Int
    BY <2>1, TicksAre
  <2>4. Total(lg, S) \in Int /\ Total(dep, S) \in Int
    BY <2>1, TicksAre
  <2>5. t = n + 1 => S = {}
    <3>1. \A x : x \in S => x \in Nat /\ t <= x /\ x <= n
      BY TicksAre DEF SinceOf
    <3> HIDE DEF S
    <3> QED BY <1>0, <3>1
  <2>6. t # n + 1 => Total(lg, S) + old[t] = Cardinality(A) + Total(dep, S)
    BY <1>0 DEF Balanced
  <2>7. new[t] = (IF t = n + 1 THEN Cardinality(A) ELSE old[t])
    BY <2>1
  <2>8. old[t] \in Int
    BY <2>1
  <2> HIDE DEF S, T, new
  <2>9. Total(lg, T) = lg[n + 1] + Total(lg, T \ {n + 1})
    BY <2>2, <2>3, TotalTakes
  <2>10. Total(dep, T) = dep[n + 1] + Total(dep, T \ {n + 1})
    BY <2>2, <2>3, TotalTakes
  <2>11. Total(lg, T) = Total(lg, S) /\ Total(dep, T) = Total(dep, S)
    <3>1. Total(lg, T \ {n + 1}) = Total(lg, S) /\ Total(dep, T \ {n + 1}) = Total(dep, S)
      BY <2>2
    <3> QED BY <2>4, <2>9, <2>10, <3>1
  <2>12. CASE t = n + 1
    <3>1. Total(lg, S) = 0 /\ Total(dep, S) = 0
      BY <2>5, <2>12, TotalOfNone
    <3>2. Total(lg, T) + new[t] = Cardinality(A) + Total(dep, T)
      BY <1>0, <2>7, <2>11, <2>12, <3>1
    <3> QED BY <3>2 DEF T
  <2>13. CASE t # n + 1
    <3>1. Total(lg, T) + new[t] = Cardinality(A) + Total(dep, T)
      BY <2>6, <2>7, <2>11, <2>13
    <3> QED BY <3>1 DEF T
  <2> QED BY <2>12, <2>13
<1> HIDE DEF new
<1>2. Balanced(lg, dep, new, n + 1, A)
  BY <1>1 DEF Balanced
<1> QED BY <1>2 DEF new

LEMMA AudienceStarts == AudienceInit => AudienceInv
<1> SUFFICES ASSUME AudienceInit PROVE AudienceInv
  OBVIOUS
<1>1. AudienceTypeOK
  BY TicksAre DEF AudienceInit, AudienceTypeOK
<1>2. tick = 0 /\ Followers = {} /\ past[0] = 0
  BY TicksAre DEF AudienceInit, Followers
<1>3. \A t \in Ticks : log[t] = 0 /\ departed[t] = 0
  BY DEF AudienceInit
<1>4. Balanced(log, departed, past, tick, Followers)
  <2>1. ASSUME NEW t \in 0..0
        PROVE  Total(log, SinceOf(t, 0)) + past[t]
                  = Cardinality({}) + Total(departed, SinceOf(t, 0))
    <3> DEFINE S == SinceOf(t, 0)
    <3>0. t = 0 /\ t \in Int
      OBVIOUS
    <3>1. S = {0} /\ IsFiniteSet(S) /\ S \ {0} = {} /\ 0 \in S
      <4>1. \A x : x \in S <=> x \in Ticks /\ x \in Nat /\ 0 <= x /\ x <= 0
        BY <3>0, TicksAre DEF SinceOf
      <4>2. IsFiniteSet(S)
        BY <3>0, TicksAre
      <4> HIDE DEF S
      <4>3. \A x : x \in S <=> x = 0
        BY <4>1, TicksAre
      <4> QED BY <4>2, <4>3
    <3>2. \A x \in S : log[x] \in Int /\ departed[x] \in Int
      BY <1>1, <3>1, TicksAre DEF AudienceTypeOK
    <3> HIDE DEF S
    <3>3. Total(log, S) = log[0] + Total(log, S \ {0})
      BY <3>1, <3>2, TotalTakes
    <3>4. Total(departed, S) = departed[0] + Total(departed, S \ {0})
      BY <3>1, <3>2, TotalTakes
    <3>5. Total(log, S \ {0}) = 0 /\ Total(departed, S \ {0}) = 0
      BY <3>1, TotalOfNone
    <3>6. Total(log, S) = 0 /\ Total(departed, S) = 0
      BY <1>3, <3>3, <3>4, <3>5, TicksAre
    <3>7. Cardinality({}) = 0 /\ t = 0
      BY FS_EmptySet
    <3>8. Total(log, S) + past[t] = Cardinality({}) + Total(departed, S)
      BY <1>2, <3>6, <3>7
    <3> QED BY <3>8 DEF S
  <2> QED BY <1>2, <2>1 DEF Balanced
<1>5. \A t \in 1..tick : FALSE
  BY <1>2
<1> QED BY <1>1, <1>2, <1>3, <1>4, <1>5 DEF AudienceInv

LEMMA BeforeFinite ==
    \A since, t : /\ EarlierFans(since, t) \in SUBSET Fans
                  /\ IsFiniteSet(EarlierFans(since, t)) /\ Cardinality(EarlierFans(since, t)) \in Nat
BY FollowersFinite DEF EarlierFans

LEMMA FollowKeeps ==
    ASSUME AudienceInv, NEW u \in Fans, follow(u), UNCHANGED attendance
    PROVE  AudienceInv'
<1>0. /\ AudienceTypeOK /\ tick \in Ticks /\ tick \in Nat
      /\ log \in [Ticks -> Int] /\ departed \in [Ticks -> Int] /\ past \in [Ticks -> Int]
  BY TicksAre DEF AudienceInv, AudienceTypeOK
<1>1. /\ follower[u] = {} /\ follower' = [follower EXCEPT ![u] = {tick}]
      /\ log' = [log EXCEPT ![tick] = @ + 1]
      /\ UNCHANGED <<accounts, tick, past, departed, attendance>>
  BY DEF follow, Logged
<1>2. AudienceTypeOK'
  <2>1. follower' \in [Fans -> SUBSET (0..tick)]
    BY <1>0, <1>1 DEF AudienceTypeOK
  <2>2. \A v \in Fans : follower'[v] = {} \/ \E t \in 0..tick : follower'[v] = {t}
    <3> TAKE v \in Fans
    <3>1. CASE v = u
      <4>1. follower'[v] = {tick} /\ tick \in 0..tick
        BY <1>0, <1>1, <3>1 DEF AudienceTypeOK
      <4> QED BY <4>1
    <3>2. CASE v # u
      <4>1. follower'[v] = follower[v]
        BY <1>0, <1>1, <3>2 DEF AudienceTypeOK
      <4> QED BY <1>0, <4>1 DEF AudienceTypeOK
    <3> QED BY <3>1, <3>2
  <2>3. log' \in [Ticks -> Int]
    BY <1>0, <1>1
  <2> QED BY <1>0, <1>1, <2>1, <2>2, <2>3 DEF AudienceTypeOK
<1>3. Followers' = Followers \union {u} /\ u \notin Followers
  BY <1>0, <1>1 DEF Followers, AudienceTypeOK
<1>4. Balanced(log, departed, past, tick, Followers)'
  <2>1. Cardinality(Followers') = Cardinality(Followers) + 1 - 0
    BY <1>3, FollowersFinite, FS_AddElement
  <2>2. Followers' \in SUBSET Fans /\ Followers \in SUBSET Fans
    BY <1>3, FollowersFinite
  <2>3. Gain(departed, tick, 0) = departed
    BY <1>0 DEF Gain
  <2>4. Balanced(log, departed, past, tick, Followers)
    BY DEF AudienceInv
  <2>5. Balanced(Gain(log, tick, 1), Gain(departed, tick, 0), past, tick, Followers')
    BY <1>0, <2>1, <2>2, <2>4, BalancedChange
  <2>6. log' = Gain(log, tick, 1)
    BY <1>1 DEF Gain
  <2> QED BY <1>1, <2>3, <2>5, <2>6
<1>5. \A t \in 1..tick : Cardinality(EarlierFans(follower', t)) <= past[t]
  <2> TAKE t \in 1..tick
  <2>1. EarlierFans(follower', t) = EarlierFans(follower, t)
    <3>1. \A v \in Fans : v # u => follower'[v] = follower[v]
      BY <1>0, <1>1 DEF AudienceTypeOK
    <3>2. follower'[u] = {tick} /\ ~(tick < t)
      BY <1>0, <1>1 DEF AudienceTypeOK
    <3> QED BY <1>1, <3>1, <3>2 DEF EarlierFans
  <2> QED BY <2>1 DEF AudienceInv
<1>6. \A t \in Ticks : t > tick => log'[t] = 0 /\ departed[t] = 0
  <2> TAKE t \in Ticks
  <2>1. t > tick => log'[t] = log[t]
    BY <1>0, <1>1
  <2> QED BY <2>1 DEF AudienceInv
<1> QED BY <1>1, <1>2, <1>4, <1>5, <1>6 DEF AudienceInv

(* A row goes: by hand, or with the accounts.                               *)
LEMMA LeavingKeeps ==
    ASSUME AudienceInv, NEW u \in Fans, UNCHANGED <<tick, past, attendance>>,
           accounts' \in SUBSET Fans, follower' = [follower EXCEPT ![u] = {}],
           NEW d \in Int, NEW e \in Int,
           log' = Gain(log, tick, d), departed' = Gain(departed, tick, e),
           e - d = Cardinality(follower[u])
    PROVE  AudienceInv'
<1>0. /\ AudienceTypeOK /\ tick \in Ticks /\ tick \in Nat
      /\ log \in [Ticks -> Int] /\ departed \in [Ticks -> Int] /\ past \in [Ticks -> Int]
  BY TicksAre DEF AudienceInv, AudienceTypeOK
<1>1. log' \in [Ticks -> Int] /\ departed' \in [Ticks -> Int]
  BY <1>0 DEF Gain
<1>2. /\ follower'[u] = {} /\ \A v \in Fans : v # u => follower'[v] = follower[v]
      /\ follower' \in [Fans -> SUBSET (0..tick)]
  BY <1>0 DEF AudienceTypeOK
<1>3. AudienceTypeOK'
  <2>1. \A v \in Fans : follower'[v] = {} \/ \E t \in 0..tick : follower'[v] = {t}
    BY <1>0, <1>2 DEF AudienceTypeOK
  <2> QED BY <1>0, <1>1, <1>2, <2>1 DEF AudienceTypeOK
<1>4. Followers' = Followers \ {u}
  BY <1>2 DEF Followers
<1>5. Cardinality(Followers') = Cardinality(Followers) + d - e
  <2>1. Cardinality(Followers) \in Nat /\ IsFiniteSet(Followers)
    BY FollowersFinite
  <2>2. CASE follower[u] = {}
    <3>1. Cardinality(follower[u]) = 0 /\ u \notin Followers
      BY <2>2, FS_EmptySet DEF Followers
    <3>2. Followers' = Followers
      BY <1>4, <3>1
    <3> QED BY <2>1, <3>1, <3>2
  <2>3. CASE follower[u] # {}
    <3>1. PICK t \in 0..tick : follower[u] = {t}
      BY <1>0, <2>3 DEF AudienceTypeOK
    <3>2. Cardinality(follower[u]) = 1 /\ u \in Followers
      BY <2>3, <3>1, FS_Singleton DEF Followers
    <3>3. Cardinality(Followers \ {u}) = Cardinality(Followers) - 1
      BY <2>1, <3>2, FS_RemoveElement
    <3> QED BY <1>4, <2>1, <3>2, <3>3
  <2> QED BY <2>2, <2>3
<1>6. Balanced(log, departed, past, tick, Followers)'
  <2>1. Followers' \in SUBSET Fans /\ Followers \in SUBSET Fans
    BY <1>4, FollowersFinite
  <2>2. Balanced(log, departed, past, tick, Followers)
    BY DEF AudienceInv
  <2>3. Balanced(Gain(log, tick, d), Gain(departed, tick, e), past, tick, Followers')
    BY <1>0, <1>5, <2>1, <2>2, BalancedChange
  <2> QED BY <2>3
<1>7. \A t \in 1..tick : Cardinality(EarlierFans(follower', t)) <= past[t]
  <2> TAKE t \in 1..tick
  <2>1. EarlierFans(follower', t) \subseteq EarlierFans(follower, t)
    BY <1>2 DEF EarlierFans
  <2>2. Cardinality(EarlierFans(follower', t)) <= Cardinality(EarlierFans(follower, t))
    BY <2>1, BeforeFinite, FS_Subset
  <2>3. Cardinality(EarlierFans(follower, t)) <= past[t] /\ past[t] \in Int
    <3>1. t \in Ticks
      BY <1>0, AudienceAssumption DEF Ticks
    <3> QED BY <1>0, <3>1 DEF AudienceInv
  <2> QED BY <2>2, <2>3, BeforeFinite
<1>8. \A t \in Ticks : t > tick => log'[t] = 0 /\ departed'[t] = 0
  <2> TAKE t \in Ticks
  <2>1. t > tick => log'[t] = log[t] /\ departed'[t] = departed[t]
    BY <1>0 DEF Gain
  <2> QED BY <2>1 DEF AudienceInv
<1> QED BY <1>3, <1>6, <1>7, <1>8 DEF AudienceInv

LEMMA UnfollowKeeps ==
    ASSUME AudienceInv, NEW u \in Fans, unFollow(u), UNCHANGED attendance
    PROVE  AudienceInv'
<1>0. AudienceTypeOK
  BY DEF AudienceInv
<1>1. PICK t \in 0..tick : follower[u] = {t}
  BY <1>0 DEF unFollow, AudienceTypeOK
<1>2. Cardinality(follower[u]) = 1
  BY <1>1, FS_Singleton
<1>3. log' = Gain(log, tick, -1) /\ departed' = Gain(departed, tick, 0)
  BY <1>0 DEF unFollow, Logged, Gain, AudienceTypeOK
<1>4. UNCHANGED <<tick, past, attendance>> /\ accounts' \in SUBSET Fans
  BY <1>0 DEF unFollow, AudienceTypeOK
<1>5. follower' = [follower EXCEPT ![u] = {}]
  BY DEF unFollow
<1>6. 0 - (-1) = Cardinality(follower[u]) /\ -1 \in Int /\ 0 \in Int
  BY <1>2
<1> QED BY <1>3, <1>4, <1>5, <1>6, LeavingKeeps

LEMMA RemovalKeeps ==
    ASSUME AudienceInv, NEW u \in Fans, AccountRemoved(u), UNCHANGED attendance
    PROVE  AudienceInv'
<1>0. AudienceTypeOK
  BY DEF AudienceInv
<1>2. Cardinality(follower[u]) \in Int
  <2>1. CASE follower[u] = {}
    BY <2>1, FS_EmptySet
  <2>2. CASE follower[u] # {}
    <3>1. PICK t \in 0..tick : follower[u] = {t}
      BY <1>0, <2>2 DEF AudienceTypeOK
    <3> QED BY <3>1, FS_Singleton
  <2> QED BY <2>1, <2>2
<1> DEFINE e == Cardinality(follower[u])
<1>3. log' = Gain(log, tick, 0) /\ departed' = Gain(departed, tick, e)
  BY <1>0 DEF AccountRemoved, Gain, AudienceTypeOK
<1>4. UNCHANGED <<tick, past, attendance>> /\ accounts' \in SUBSET Fans
  BY <1>0 DEF AccountRemoved, AudienceTypeOK
<1>5. follower' = [follower EXCEPT ![u] = {}]
  BY DEF AccountRemoved
<1>6. e - 0 = Cardinality(follower[u]) /\ e \in Int /\ 0 \in Int
  BY <1>2
<1> HIDE DEF e
<1> QED BY <1>3, <1>4, <1>5, <1>6, LeavingKeeps

LEMMA LaterKeeps ==
    ASSUME AudienceInv, Later, UNCHANGED attendance
    PROVE  AudienceInv'
<1>0. /\ AudienceTypeOK /\ tick \in Ticks /\ tick \in Nat
      /\ log \in [Ticks -> Int] /\ departed \in [Ticks -> Int] /\ past \in [Ticks -> Int]
  BY TicksAre DEF AudienceInv, AudienceTypeOK
<1>1. tick + 1 \in Ticks /\ tick' = tick + 1
  BY <1>0, AudienceAssumption DEF Later, Ticks
<1>2. /\ past' = [past EXCEPT ![tick + 1] = Cardinality(Followers)]
      /\ UNCHANGED <<follower, accounts, log, departed, attendance>> /\ Followers' = Followers
  BY DEF Later, Followers
<1>3. Cardinality(Followers) \in Nat /\ Followers \in SUBSET Fans
  BY FollowersFinite
<1>4. past' \in [Ticks -> Int] /\ past'[0] = 0
  BY <1>0, <1>1, <1>2, <1>3 DEF AudienceInv
<1>5. AudienceTypeOK'
  <2>1. \A t \in 0..tick : t \in 0..tick'
    BY <1>0, <1>1
  <2>2. follower' \in [Fans -> SUBSET (0..tick')]
    BY <1>0, <1>2, <2>1 DEF AudienceTypeOK
  <2>3. \A v \in Fans : follower'[v] = {} \/ \E t \in 0..tick' : follower'[v] = {t}
    <3> TAKE v \in Fans
    <3>1. follower[v] = {} \/ \E t \in 0..tick : follower[v] = {t}
      BY <1>0 DEF AudienceTypeOK
    <3> QED BY <1>2, <2>1, <3>1
  <2> QED BY <1>0, <1>1, <1>2, <1>4, <2>2, <2>3 DEF AudienceTypeOK
<1>6. \A t \in Ticks : t > tick' => log'[t] = 0 /\ departed'[t] = 0
  <2> TAKE t \in Ticks
  <2>1. t > tick' => t > tick
    BY <1>0, <1>1, TicksAre
  <2> QED BY <1>2, <2>1 DEF AudienceInv
<1>7. Balanced(log, departed, past, tick, Followers)'
  <2>1. log[tick + 1] = 0 /\ departed[tick + 1] = 0
    BY <1>0, <1>1 DEF AudienceInv
  <2>2. Balanced(log, departed, past, tick, Followers)
    BY DEF AudienceInv
  <2> DEFINE new == [past EXCEPT ![tick + 1] = Cardinality(Followers)]
  <2>3. Balanced(log, departed, new, tick + 1, Followers)
    BY <1>0, <1>1, <1>3, <2>1, <2>2, BalancedLater, Zenon
  <2> QED BY <1>1, <1>2, <2>3
<1>8. \A t \in 1..tick' : Cardinality(EarlierFans(follower', t)) <= past'[t]
  <2> TAKE t \in 1..tick'
  <2>1. CASE t = tick + 1
    <3>1. EarlierFans(follower, t) \subseteq Followers
      BY DEF EarlierFans, Followers
    <3>2. Cardinality(EarlierFans(follower, t)) <= Cardinality(Followers)
      BY <1>3, <3>1, FollowersFinite, FS_Subset
    <3> QED BY <1>0, <1>1, <1>2, <2>1, <3>2
  <2>2. CASE t # tick + 1
    <3>1. t \in 1..tick /\ t \in Ticks
      BY <1>0, <1>1, <2>2, AudienceAssumption DEF Ticks
    <3>2. past'[t] = past[t]
      BY <1>0, <1>2, <2>2, <3>1
    <3> QED BY <1>2, <3>1, <3>2 DEF AudienceInv
  <2> QED BY <2>1, <2>2
<1> QED BY <1>4, <1>5, <1>6, <1>7, <1>8 DEF AudienceInv

LEMMA AttendsKeeps ==
    ASSUME AudienceInv, NEW e \in Happenings, NEW u \in Fans, Attends(e, u)
    PROVE  AudienceInv'
<1>1. UNCHANGED <<follower, accounts, log, tick, past, departed>>
  BY DEF Attends, followVars
<1>2. attendance' \in [Happenings -> [Fans -> Attendances \union {"none"}]]
  BY DEF Attends, AudienceInv, AudienceTypeOK
<1>3. AudienceTypeOK'
  BY <1>1, <1>2 DEF AudienceInv, AudienceTypeOK
<1>4. Balanced(log, departed, past, tick, Followers)'
  <2>1. Followers' = Followers
    BY <1>1 DEF Followers
  <2> QED BY <1>1, <2>1 DEF AudienceInv
<1> QED BY <1>1, <1>3, <1>4 DEF AudienceInv

THEOREM AudienceInvAlways == AudienceSpec => []AudienceInv
<1>1. ASSUME AudienceInv, [FollowersNext \/ AttendanceNext]_audienceVars PROVE AudienceInv'
  <2>1. CASE FollowersNext
    <3>1. CASE \E u \in Fans : follow(u) \/ unFollow(u) \/ AccountRemoved(u)
      BY <1>1, <2>1, <3>1, FollowKeeps, UnfollowKeeps, RemovalKeeps DEF FollowersNext
    <3>2. CASE Later
      BY <1>1, <2>1, <3>2, LaterKeeps DEF FollowersNext
    <3> QED BY <2>1, <3>1, <3>2 DEF FollowersNext
  <2>2. CASE AttendanceNext
    BY <1>1, <2>2, AttendsKeeps, FollowKeeps DEF AttendanceNext
  <2>3. CASE UNCHANGED audienceVars
    <3>1. UNCHANGED <<follower, accounts, log, tick, past, departed, attendance>>
      BY <2>3 DEF audienceVars, followVars
    <3>2. AudienceTypeOK'
      BY <1>1, <3>1 DEF AudienceInv, AudienceTypeOK
    <3>3. Followers' = Followers
      BY <3>1 DEF Followers
    <3> QED BY <1>1, <3>1, <3>2, <3>3 DEF AudienceInv
  <2> QED BY <1>1, <2>1, <2>2, <2>3
<1> QED BY <1>1, AudienceStarts, PTL DEF AudienceSpec

LEMMA SinceIs ==
    ASSUME AudienceTypeOK, NEW t \in Int
    PROVE  /\ Since(t) = SinceOf(t, tick)
           /\ t <= 0 => Since(t) = SinceOf(0, tick)
<1>1. Since(t) = SinceOf(t, tick)
  BY DEF Since, SinceOf
<1>2. ASSUME t <= 0 PROVE SinceOf(t, tick) = SinceOf(0, tick)
  <2>1. \A s \in Ticks : t <= s /\ 0 <= s
    BY <1>2, TicksAre
  <2> QED BY <2>1 DEF SinceOf
<1> QED BY <1>1, <1>2

(* The longest window is one of them.                                      *)
LEMMA LongestWindow ==
    /\ FixedNetWindow \in FixedWindows /\ FixedNetWindow \in Nat
    /\ \A d \in FixedWindows : d \in Nat /\ d <= FixedNetWindow
<1> DEFINE P == {s \in SUBSET FixedWindows : s = {} \/ \E m \in s : \A d \in s : d <= m}
<1>0. FixedWindows \subseteq Nat /\ IsFiniteSet(FixedWindows) /\ FixedWindows # {}
  BY AudienceAssumption
<1>1. {} \in P
  OBVIOUS
<1>2. ASSUME NEW s \in SUBSET FixedWindows, s # {}, \A x \in s : s \ {x} \in P
      PROVE  s \in P
  <2>1. PICK x \in s : TRUE
    BY <1>2
  <2>2. CASE s \ {x} = {}
    <3>1. \A d \in s : d = x /\ d \in Nat
      BY <1>0, <2>1, <2>2
    <3> QED BY <2>1, <3>1
  <2>3. CASE s \ {x} # {}
    <3>1. PICK m \in s \ {x} : \A d \in s \ {x} : d <= m
      BY <1>2, <2>1, <2>3
    <3>2. x \in Nat /\ m \in Nat /\ \A d \in s : d \in Nat
      BY <1>0, <2>1, <3>1
    <3>3. CASE x <= m
      BY <3>1, <3>2, <3>3
    <3>4. CASE ~(x <= m)
      <4>1. \A d \in s : d <= x
        BY <3>1, <3>2, <3>4
      <4> QED BY <2>1, <4>1
    <3> QED BY <3>3, <3>4
  <2> QED BY <2>2, <2>3
<1> HIDE DEF P
<1>3. SUBSET FixedWindows \subseteq P
  BY <1>0, <1>1, <1>2, BySize
<1>4. \E m \in FixedWindows : \A d \in FixedWindows : d <= m
  BY <1>0, <1>3 DEF P
<1>5. \E m \in FixedWindows : \A d \in FixedWindows : m >= d
  BY <1>0, <1>4
<1>6. /\ FixedNetWindow \in FixedWindows
      /\ \A d \in FixedWindows : FixedNetWindow >= d
  BY <1>5 DEF FixedNetWindow, Max
<1> QED BY <1>0, <1>6

(* More days reach further back.                                           *)
LEMMA CutoffsAre ==
    ASSUME AudienceTypeOK
    PROVE  /\ \A d \in Nat : cutoff(d) \in Int /\ cutoff(d) <= tick
           /\ \A d \in Nat, m \in Nat : d <= m => cutoff(m) <= cutoff(d)
<1>1. TicksPerDay \in Nat /\ tick \in Nat
  BY AudienceAssumption, TicksAre DEF AudienceTypeOK
<1>2. \A d \in Nat : d * TicksPerDay \in Nat
  BY <1>1
<1>3. ASSUME NEW d \in Nat, NEW m \in Nat, d <= m
      PROVE  d * TicksPerDay <= m * TicksPerDay
  <2>1. m - d \in Nat
    BY <1>3
  <2>2. (m - d) * TicksPerDay \in Nat
    BY <1>2, <2>1
  <2>3. (m - d) * TicksPerDay = m * TicksPerDay - d * TicksPerDay
    BY <1>1
  <2> QED BY <1>2, <2>2, <2>3
<1> QED BY <1>1, <1>2, <1>3 DEF cutoff

(* The log is read from far enough back for every window.                  *)
LEMMA WindowsAre ==
    ASSUME AudienceTypeOK, NEW period \in Nat, NEW days \in FixedWindows \union {period}
    PROVE  /\ cutoff(days) \in Int /\ followerLogStart(period) \in Int
           /\ followerLogStart(period) <= cutoff(days)
           /\ WindowNet(period, days) = Total(log, SinceOf(cutoff(days), tick))
<1> DEFINE c == cutoff(days)
           start == followerLogStart(period)
<1>0. /\ cutoff(period) \in Int /\ cutoff(FixedNetWindow) \in Int /\ c \in Int
      /\ days \in FixedWindows => cutoff(FixedNetWindow) <= c
  BY LongestWindow, CutoffsAre
<1>1. start \in Int /\ start <= c
  <2>1. days \in FixedWindows \/ c = cutoff(period)
    OBVIOUS
  <2> HIDE DEF c
  <2> QED BY <1>0, <2>1 DEF followerLogStart
<1>2. Since(start) \cap Since(c) = SinceOf(c, tick)
  <2> HIDE DEF start, c
  <2>1. \A s \in Ticks : s \in Int
    BY TicksAre
  <2>2. \A s \in Ticks : c <= s => start <= s
    BY <1>0, <1>1, <2>1
  <2> QED BY <2>2 DEF Since, SinceOf
<1> QED BY <1>0, <1>1, <1>2 DEF WindowNet

LEMMA NetsLemma == AudienceInv => NetsAreChanges
<1> SUFFICES ASSUME AudienceInv,
                    NEW period \in Periods, NEW days \in FixedWindows \cup {period}
             PROVE  LET before == IF cutoff(days) <= 0 THEN 0 ELSE past[cutoff(days)]
                    IN  WindowNet(period, days) = Cardinality(Followers) - before
                            + Total(departed, Since(cutoff(days)))
  BY DEF NetsAreChanges
<1> DEFINE c == cutoff(days)
           from == IF c <= 0 THEN 0 ELSE c
<1>1. AudienceTypeOK /\ period \in Nat /\ days \in Nat
  BY AudienceAssumption DEF AudienceInv
<1>2. c \in Int /\ c <= tick /\ tick \in Nat
  BY <1>1, CutoffsAre, TicksAre DEF AudienceTypeOK
<1>3. WindowNet(period, days) = Total(log, SinceOf(c, tick))
  BY <1>1, WindowsAre
<1>4. /\ SinceOf(c, tick) = SinceOf(from, tick) /\ Since(c) = SinceOf(from, tick)
      /\ from \in 0..tick
  BY <1>1, <1>2, SinceIs
<1> DEFINE before == IF c <= 0 THEN 0 ELSE past[c]
<1>5. before = past[from] /\ past[from] \in Int
  <2>1. past[0] = 0 /\ past \in [Ticks -> Int] /\ tick \in Ticks
    BY DEF AudienceInv, AudienceTypeOK
  <2>2. from \in Ticks
    BY <1>2, <1>4, <2>1, AudienceAssumption DEF Ticks
  <2> HIDE DEF c
  <2> QED BY <2>1, <2>2
<1> HIDE DEF c, from, before
<1>6. Total(log, SinceOf(from, tick)) + past[from]
         = Cardinality(Followers) + Total(departed, SinceOf(from, tick))
  BY <1>4 DEF AudienceInv, Balanced
<1>7. /\ Total(log, SinceOf(from, tick)) \in Int
      /\ Total(departed, SinceOf(from, tick)) \in Int
  BY <1>1, <1>4, TicksAre DEF AudienceTypeOK
<1>8. Cardinality(Followers) \in Nat
  BY FollowersFinite
<1>9. WindowNet(period, days) = Cardinality(Followers) - before + Total(departed, Since(c))
  BY <1>3, <1>4, <1>5, <1>6, <1>7, <1>8
<1> QED BY <1>9 DEF c, before

LEMMA GrossLemma == AudienceInv => GrossCoversNet
<1> SUFFICES ASSUME AudienceInv, NEW period \in Periods
             PROVE  WindowNet(period, FixedNetWindow)
                      <= FollowerGross + Total(departed, Since(cutoff(FixedNetWindow)))
  BY DEF GrossCoversNet
<1> DEFINE c == cutoff(FixedNetWindow)
           new == {u \in Followers : \A t \in follower[u] : t >= c}
           old == Followers \ new
           before == IF c <= 0 THEN 0 ELSE past[c]
<1>1. AudienceTypeOK /\ FixedNetWindow \in FixedWindows /\ FixedNetWindow \in Nat
  BY LongestWindow DEF AudienceInv
<1>2. c \in Int /\ c <= tick /\ tick \in Nat /\ tick \in Ticks
  BY <1>1, CutoffsAre, TicksAre DEF AudienceTypeOK
<1>3. WindowNet(period, FixedNetWindow)
         = Cardinality(Followers) - before + Total(departed, Since(c))
  BY <1>1, NetsLemma DEF NetsAreChanges
<1>4. FollowerGross = Cardinality(new)
  BY DEF FollowerGross
<1>5. Cardinality(Followers) = Cardinality(new) + Cardinality(old)
  <2>1. new \in SUBSET Fans /\ old \in SUBSET Fans /\ new \cap old = {}
        /\ Followers = new \union old
    BY FollowersFinite
  <2> HIDE DEF new, old
  <2>2. /\ IsFiniteSet(new) /\ IsFiniteSet(old)
        /\ Cardinality(new) \in Nat /\ Cardinality(old) \in Nat
    BY <2>1, FollowersFinite
  <2>3. Cardinality(new \union old)
           = Cardinality(new) + Cardinality(old) - Cardinality(new \cap old)
    BY <2>2, FS_Union
  <2>4. Cardinality(new \cap old) = 0
    BY <2>1, FS_EmptySet
  <2> QED BY <2>1, <2>2, <2>3, <2>4
<1>6. Cardinality(old) <= before /\ before \in Int
  <2>0. \A u \in Fans : follower[u] = {} \/ \E t \in 0..tick : follower[u] = {t}
    BY <1>1 DEF AudienceTypeOK
  <2>1. CASE c <= 0
    <3>1. old = {}
      <4>1. ASSUME NEW u \in Followers PROVE u \in new
        <5>1. PICK t \in 0..tick : follower[u] = {t}
          BY <2>0 DEF Followers
        <5>2. t >= c
          BY <1>2, <2>1
        <5> QED BY <5>1, <5>2
      <4> QED BY <4>1
    <3> HIDE DEF old
    <3> QED BY <2>1, <3>1, FS_EmptySet
  <2>2. CASE ~(c <= 0)
    <3>1. c \in 1..tick /\ c \in Ticks
      BY <1>2, <2>2, AudienceAssumption DEF Ticks
    <3>2. old \subseteq EarlierFans(follower, c)
      <4>1. ASSUME NEW u \in old PROVE u \in EarlierFans(follower, c)
        <5>1. PICK t \in 0..tick : follower[u] = {t}
          BY <2>0 DEF Followers
        <5>2. t < c
          BY <1>2, <5>1
        <5>3. u \in Fans /\ follower[u] # {} /\ \A s \in follower[u] : s < c
          BY <5>1, <5>2 DEF Followers
        <5> HIDE DEF c
        <5> QED BY <5>3 DEF EarlierFans
      <4> QED BY <4>1
    <3>3. Cardinality(EarlierFans(follower, c)) <= past[c] /\ past[c] \in Int
      BY <1>1, <3>1 DEF AudienceInv, AudienceTypeOK
    <3>4. before = past[c]
      BY <2>2
    <3> HIDE DEF old, c, before
    <3>5. Cardinality(old) <= Cardinality(EarlierFans(follower, c)) /\ Cardinality(old) \in Nat
      BY <3>2, BeforeFinite, FS_Subset, FS_CardinalityType
    <3> QED BY <3>3, <3>4, <3>5, BeforeFinite
  <2> QED BY <2>1, <2>2
<1>7. /\ Cardinality(Followers) \in Nat /\ Cardinality(new) \in Nat
      /\ Cardinality(old) \in Nat
  BY FollowersFinite
<1>8. Total(departed, Since(c)) \in Int
  BY <1>1, <1>2, SinceIs, TicksAre DEF AudienceTypeOK
<1> HIDE DEF new, old, before
<1>9. WindowNet(period, FixedNetWindow) <= FollowerGross + Total(departed, Since(c))
  <2> HIDE DEF c
  <2> QED BY <1>3, <1>4, <1>5, <1>6, <1>7, <1>8
<1> QED BY <1>9

(* A day is the ticks from its first to the last before the next day's.    *)
LEMMA DaysAre ==
    \A t \in Nat : /\ DayOf(t) \in Nat /\ DayOf(t) * TicksPerDay <= t
                   /\ t < (DayOf(t) + 1) * TicksPerDay
<1> TAKE t \in Nat
<1>1. TicksPerDay \in Nat /\ TicksPerDay > 0
  BY AudienceAssumption
<1> DEFINE q == t \div TicksPerDay
<1>2. q \in Nat /\ t = TicksPerDay * q + (t % TicksPerDay)
      /\ t % TicksPerDay \in 0..(TicksPerDay - 1)
  BY <1>1
<1> HIDE DEF q
<1>3. q * TicksPerDay = TicksPerDay * q /\ (q + 1) * TicksPerDay = TicksPerDay * q + TicksPerDay
  BY <1>1, <1>2
<1>4. q * TicksPerDay \in Nat
  BY <1>1, <1>2
<1>5. q * TicksPerDay <= t /\ t < (q + 1) * TicksPerDay
  BY <1>1, <1>2, <1>3, <1>4
<1> QED BY <1>2, <1>5 DEF DayOf, q

(* The days of the series lie within the period.                           *)
LEMMA SeriesIsRecent ==
    ASSUME AudienceTypeOK, NEW period \in Nat, NEW t \in Ticks,
           DayOf(t) >= DayOf(tick) - period + 1
    PROVE  t >= cutoff(period)
<1> DEFINE d == DayOf(t)
           n == DayOf(tick)
           T == TicksPerDay
<1>1. t \in Nat /\ tick \in Nat /\ T \in Nat
  BY TicksAre, AudienceAssumption DEF AudienceTypeOK
<1>2. d \in Nat /\ d * T <= t /\ n \in Nat /\ tick < (n + 1) * T /\ d >= n - period + 1
  BY <1>1, DaysAre
<1> HIDE DEF d, n, T
<1>3. d + period - (n + 1) \in Nat
  BY <1>2
<1>4. (d + period - (n + 1)) * T \in Nat
  BY <1>1, <1>3
<1>5. (d + period - (n + 1)) * T = d * T + period * T - (n + 1) * T
  BY <1>1, <1>2
<1>6. d * T \in Nat /\ period * T \in Nat /\ (n + 1) * T \in Nat
  BY <1>1, <1>2
<1>7. t >= tick - period * T
  BY <1>1, <1>2, <1>4, <1>5, <1>6
<1> QED BY <1>7 DEF cutoff, T

LEMMA SeriesLemma == AudienceInv => SeriesAddsUp
<1> SUFFICES ASSUME AudienceInv, NEW period \in Periods
             PROVE  LET series == fillDailyNetSeries(dailyNets(period), period)
                        cut == {t \in Since(cutoff(period)) : DayOf(t) \notin DOMAIN series}
                    IN  /\ \A d \in DOMAIN series :
                              series[d] = Total(log, {t \in Since(0) : DayOf(t) = d})
                        /\ Total(series, DOMAIN series) + Total(log, cut)
                              = WindowNet(period, period)
  BY DEF SeriesAddsUp
<1> DEFINE nets == dailyNets(period)
           series == fillDailyNetSeries(nets, period)
           days == (DayOf(tick) - period + 1)..DayOf(tick)
           start == followerLogStart(period)
           c == cutoff(period)
           recent == Since(c)
           cut == {t \in recent : DayOf(t) \notin days}
           shown == {t \in recent : DayOf(t) \in days}
<1>1. /\ AudienceTypeOK /\ period \in Nat /\ tick \in Nat /\ log \in [Ticks -> Int]
      /\ DayOf(tick) \in Nat
  BY AudienceAssumption, TicksAre, DaysAre DEF AudienceInv, AudienceTypeOK
<1>2. /\ start \in Int /\ c \in Int /\ start <= c
      /\ WindowNet(period, period) = Total(log, recent)
  BY <1>1, WindowsAre, SinceIs
<1>3. DOMAIN series = days
  BY DEF fillDailyNetSeries
<1>4. DOMAIN nets = {DayOf(t) : t \in Since(start)}
      /\ \A d \in DOMAIN nets : nets[d] = Total(log, {t \in Since(start) : DayOf(t) = d})
  BY DEF dailyNets
<1>5. \A d \in days : series[d] = IF d \in DOMAIN nets THEN nets[d] ELSE 0
  BY DEF fillDailyNetSeries
<1> DEFINE of(S, d) == {t \in S : DayOf(t) = d}
<1>6. ASSUME NEW d \in days
      PROVE  of(Since(0), d) = of(recent, d) /\ of(Since(start), d) = of(recent, d)
  <2>1. \A t \in Ticks : t \in Nat
    BY TicksAre
  <2>2. \A t \in Ticks : DayOf(t) = d => t >= c
    <3> TAKE t \in Ticks
    <3>1. DayOf(t) = d => DayOf(t) >= DayOf(tick) - period + 1
      BY <1>1
    <3> QED BY <1>1, <3>1, SeriesIsRecent
  <2>3. \A t \in Ticks : DayOf(t) = d => t >= 0 /\ t >= start
    <3> HIDE DEF start, c
    <3> QED BY <1>2, <2>1, <2>2
  <2> HIDE DEF start, c
  <2>4. \A t \in Ticks : DayOf(t) = d => 0 <= t /\ c <= t /\ start <= t
    BY <1>2, <2>1, <2>2, <2>3
  <2> QED BY <2>4 DEF Since
<1>7. ASSUME NEW d \in days
      PROVE  series[d] = Total(log, of(recent, d))
  <2>1. CASE d \in DOMAIN nets
    <3>1. series[d] = Total(log, of(Since(start), d))
      BY <1>4, <1>5, <2>1
    <3> HIDE DEF recent, start
    <3> QED BY <1>6, <3>1
  <2>2. CASE d \notin DOMAIN nets
    <3>1. of(Since(start), d) = {}
      BY <1>4, <2>2
    <3>2. of(recent, d) = {}
      BY <1>6, <3>1
    <3>3. series[d] = 0
      BY <1>5, <2>2
    <3> HIDE DEF of, series
    <3> QED BY <3>2, <3>3, TotalOfNone
  <2> QED BY <2>1, <2>2
<1>8. \A d \in days : series[d] = Total(log, of(Since(0), d))
  <2> HIDE DEF series, recent
  <2> QED BY <1>6, <1>7
<1>9. IsFiniteSet(recent) /\ recent \subseteq Ticks
  BY <1>1, <1>2, SinceIs, TicksAre
<1>10. Total(series, days) = Total(log, shown)
  <2> DEFINE k == [t \in Ticks |-> DayOf(t)]
  <2>1. \A t \in recent : k[t] = DayOf(t) /\ log[t] \in Int
    BY <1>1, <1>9
  <2>2. IsFiniteSet(days)
    BY <1>1, FS_Interval
  <2> HIDE DEF k, recent, series, days
  <2>3. \A d : of(recent, d) = {t \in recent : k[t] = d}
    BY <2>1
  <2>4. \A d \in days : series[d] = Total(log, {t \in recent : k[t] = d})
    BY <1>7, <2>3
  <2>5. Total(series, days) = Total(log, {t \in recent : k[t] \in days})
    BY <1>9, <2>1, <2>2, <2>4, TotalOfParts
  <2>6. {t \in recent : k[t] \in days} = shown
    BY <2>1
  <2> QED BY <2>5, <2>6
<1>11. Total(log, recent) = Total(log, shown) + Total(log, cut)
  <2>1. recent = shown \union cut /\ shown \cap cut = {}
    OBVIOUS
  <2>2. IsFiniteSet(shown) /\ IsFiniteSet(cut)
    BY <1>9, FS_Subset
  <2>3. \A x \in shown \union cut : log[x] \in Int
    BY <1>1, <1>9, <2>1
  <2> HIDE DEF shown, cut, recent
  <2> QED BY <2>1, <2>2, <2>3, TotalOfBoth
<1>12. Total(series, days) + Total(log, cut) = WindowNet(period, period)
  <2> HIDE DEF series, days, cut, shown, recent
  <2> QED BY <1>2, <1>10, <1>11
<1>13. Total(series, DOMAIN series) + Total(log, {t \in Since(cutoff(period)) : DayOf(t) \notin DOMAIN series})
         = WindowNet(period, period)
  <2> HIDE DEF series
  <2> QED BY <1>3, <1>12
<1>14. \A d \in DOMAIN series : series[d] = Total(log, {t \in Since(0) : DayOf(t) = d})
  <2> HIDE DEF series, days
  <2> QED BY <1>3, <1>8
<1> HIDE DEF series
<1> QED BY <1>13, <1>14 DEF series

TallyType == [goingByEvent : [Happenings -> Int], waitlistedByEvent : [Happenings -> Int],
              goingCountByUser : [Fans -> Nat],
              signups : Int, lastMinuteCount : Int, notGoingCount : Int]

GoingRows(s) == {r \in s : GoingRow(r)}

(* What one pass over the rows s has counted.                              *)
CountedIn(tally, s) ==
    /\ tally \in TallyType
    /\ tally.signups = Cardinality(GoingRows(s))
    /\ Total(tally.goingByEvent, Happenings) = tally.signups
    /\ Total(tally.goingCountByUser, Fans) = tally.signups
    /\ tally.signups + Total(tally.waitlistedByEvent, Happenings) + tally.notGoingCount
          = Cardinality(s)
    /\ tally.lastMinuteCount <= tally.signups
    /\ \A u \in Fans : tally.goingCountByUser[u] > 0 <=> \E r \in GoingRows(s) : r[2] = u

LEMMA IncrementAdds ==
    ASSUME NEW S, IsFiniteSet(S), NEW f \in [S -> Int], NEW x \in S
    PROVE  /\ Increment(f, x) \in [S -> Int]
           /\ Total(Increment(f, x), S) = Total(f, S) + 1
           /\ Total(f, S) \in Int
<1> DEFINE g == Increment(f, x)
<1>1. g \in [S -> Int] /\ g[x] = f[x] + 1 /\ \A y \in S \ {x} : g[y] = f[y]
  BY DEF Increment
<1>2. \A y \in S : f[y] \in Int
  OBVIOUS
<1> HIDE DEF g
<1>3. Total(g, S) = Total(f, S) + 1
  BY <1>1, <1>2, TotalChanges
<1>4. Total(f, S) \in Int
  BY <1>2, TotalTakes
<1> QED BY <1>1, <1>3, <1>4 DEF g

LEMMA EnrolledFinite ==
    \A s \in SUBSET Enrolled : IsFiniteSet(s) /\ Cardinality(s) \in Nat
<1>1. IsFiniteSet(Happenings \X Fans)
  BY AudienceAssumption, FS_Product
<1>2. Enrolled \subseteq Happenings \X Fans
  BY DEF Enrolled
<1> QED BY <1>1, <1>2, FS_Subset, FS_CardinalityType

LEMMA EmptyTallyCounted ==
    CountedIn(EmptyTally, {})
<1>1. /\ EmptyTally \in TallyType /\ EmptyTally.signups = 0
      /\ EmptyTally.lastMinuteCount = 0 /\ EmptyTally.notGoingCount = 0
      /\ EmptyTally.goingByEvent \in [Happenings -> {0}]
      /\ EmptyTally.waitlistedByEvent \in [Happenings -> {0}]
      /\ EmptyTally.goingCountByUser \in [Fans -> {0}]
  BY DEF EmptyTally, TallyType
<1>2. GoingRows({}) = {} /\ Cardinality({}) = 0
  BY FS_EmptySet DEF GoingRows
<1>3. ASSUME NEW S, IsFiniteSet(S), NEW f \in [S -> {0}] PROVE Total(f, S) = 0
  <2> DEFINE P == {s \in SUBSET S : Total(f, s) = 0}
  <2>1. {} \in P
    BY TotalOfNone
  <2>2. ASSUME NEW s \in SUBSET S, s # {}, \A x \in s : s \ {x} \in P PROVE s \in P
    <3>1. PICK x \in s : TRUE
      BY <2>2
    <3>2. IsFiniteSet(s) /\ (\A y \in s : f[y] \in Int) /\ f[x] = 0
      BY <1>3, <3>1, FS_Subset
    <3>3. Total(f, s) = f[x] + Total(f, s \ {x})
      BY <3>1, <3>2, TotalTakes
    <3>4. Total(f, s \ {x}) = 0
      BY <2>2, <3>1
    <3>5. Total(f, s) = 0
      BY <3>2, <3>3, <3>4
    <3> QED BY <3>5
  <2> HIDE DEF P
  <2>3. SUBSET S \subseteq P
    BY <1>3, <2>1, <2>2, BySize
  <2> QED BY <2>3 DEF P
<1>4. /\ Total(EmptyTally.goingByEvent, Happenings) = 0
      /\ Total(EmptyTally.waitlistedByEvent, Happenings) = 0
      /\ Total(EmptyTally.goingCountByUser, Fans) = 0
  BY <1>1, <1>3, AudienceAssumption
<1>5. \A u \in Fans : ~(EmptyTally.goingCountByUser[u] > 0)
  BY <1>1
<1> QED BY <1>1, <1>2, <1>4, <1>5 DEF CountedIn

StatusOf(r) == attendance[r[1]][r[2]]

LEMMA TallyOfDropout ==
    ASSUME NEW r \in Happenings \X Fans, NEW tally \in TallyType, StatusOf(r) = "NOT_GOING"
    PROVE  /\ tallyOne(r, tally) \in TallyType
           /\ tallyOne(r, tally).goingByEvent = tally.goingByEvent
           /\ tallyOne(r, tally).waitlistedByEvent = tally.waitlistedByEvent
           /\ tallyOne(r, tally).goingCountByUser = tally.goingCountByUser
           /\ tallyOne(r, tally).signups = tally.signups
           /\ tallyOne(r, tally).lastMinuteCount = tally.lastMinuteCount
           /\ tallyOne(r, tally).notGoingCount = tally.notGoingCount + 1
<1>1. tallyOne(r, tally) = [tally EXCEPT !.notGoingCount = @ + 1]
  BY DEF tallyOne, StatusOf
<1> QED BY <1>1 DEF TallyType

LEMMA TallyOfWaiting ==
    ASSUME NEW r \in Happenings \X Fans, NEW tally \in TallyType, StatusOf(r) = "WAITLISTED"
    PROVE  /\ tallyOne(r, tally) \in TallyType
           /\ tallyOne(r, tally).goingByEvent = tally.goingByEvent
           /\ tallyOne(r, tally).waitlistedByEvent
                 = Increment(tally.waitlistedByEvent, r[1])
           /\ tallyOne(r, tally).goingCountByUser = tally.goingCountByUser
           /\ tallyOne(r, tally).signups = tally.signups
           /\ tallyOne(r, tally).lastMinuteCount = tally.lastMinuteCount
           /\ tallyOne(r, tally).notGoingCount = tally.notGoingCount
<1> DEFINE w == Increment(tally.waitlistedByEvent, r[1])
<1>1. tallyOne(r, tally) = [tally EXCEPT !.waitlistedByEvent = w]
  BY DEF tallyOne, StatusOf
<1>2. w \in [Happenings -> Int]
  BY DEF Increment, TallyType
<1> HIDE DEF w
<1>3. /\ [tally EXCEPT !.waitlistedByEvent = w] \in TallyType
      /\ [tally EXCEPT !.waitlistedByEvent = w].waitlistedByEvent = w
      /\ [tally EXCEPT !.waitlistedByEvent = w].goingByEvent = tally.goingByEvent
      /\ [tally EXCEPT !.waitlistedByEvent = w].goingCountByUser = tally.goingCountByUser
      /\ [tally EXCEPT !.waitlistedByEvent = w].signups = tally.signups
      /\ [tally EXCEPT !.waitlistedByEvent = w].lastMinuteCount = tally.lastMinuteCount
      /\ [tally EXCEPT !.waitlistedByEvent = w].notGoingCount = tally.notGoingCount
  BY <1>2 DEF TallyType
<1> QED BY <1>1, <1>3 DEF w

LEMMA TallyOfGoing ==
    ASSUME NEW r \in Happenings \X Fans, NEW tally \in TallyType,
           StatusOf(r) # "NOT_GOING", StatusOf(r) # "WAITLISTED"
    PROVE  /\ tallyOne(r, tally) \in TallyType
           /\ tallyOne(r, tally).goingByEvent = Increment(tally.goingByEvent, r[1])
           /\ tallyOne(r, tally).waitlistedByEvent = tally.waitlistedByEvent
           /\ tallyOne(r, tally).goingCountByUser = Increment(tally.goingCountByUser, r[2])
           /\ tallyOne(r, tally).signups = tally.signups + 1
           /\ tallyOne(r, tally).lastMinuteCount
                 \in {tally.lastMinuteCount, tally.lastMinuteCount + 1}
           /\ tallyOne(r, tally).notGoingCount = tally.notGoingCount
<1> DEFINE g == Increment(tally.goingByEvent, r[1])
           c == Increment(tally.goingCountByUser, r[2])
           m == tally.lastMinuteCount + (IF StatusOf(r) = "LAST_MINUTE" THEN 1 ELSE 0)
           n == tally.signups + 1
           new == [tally EXCEPT !.goingByEvent = g, !.goingCountByUser = c,
                                !.signups = n, !.lastMinuteCount = m]
<1>1. tallyOne(r, tally) = new
  BY DEF tallyOne, tallyGoing, StatusOf
<1>2. /\ g \in [Happenings -> Int] /\ c \in [Fans -> Nat]
      /\ m \in {tally.lastMinuteCount, tally.lastMinuteCount + 1} /\ m \in Int /\ n \in Int
  BY DEF Increment, TallyType
<1> HIDE DEF g, c, m
<1>3. /\ new \in TallyType /\ new.goingByEvent = g /\ new.goingCountByUser = c
      /\ new.waitlistedByEvent = tally.waitlistedByEvent
      /\ new.signups = n /\ new.lastMinuteCount = m
      /\ new.notGoingCount = tally.notGoingCount
  BY <1>2 DEF TallyType
<1> HIDE DEF new
<1> QED BY <1>1, <1>2, <1>3 DEF g, c

LEMMA TallyOneTyped ==
    \A r \in Happenings \X Fans, tally \in TallyType : tallyOne(r, tally) \in TallyType
BY TallyOfDropout, TallyOfWaiting, TallyOfGoing

(* One row more.                                                           *)
LEMMA TallyOneCounts ==
    ASSUME AudienceTypeOK, NEW s \in SUBSET Enrolled, NEW r \in s, NEW tally,
           CountedIn(tally, s \ {r})
    PROVE  CountedIn(tallyOne(r, tally), s)
<1> DEFINE new == tallyOne(r, tally)
           rest == s \ {r}
<1>0. /\ r \in Happenings \X Fans /\ r[1] \in Happenings /\ r[2] \in Fans
      /\ StatusOf(r) \in {"GOING", "LAST_MINUTE", "NOT_GOING", "WAITLISTED"}
  <2>1. r \in Happenings \X Fans /\ StatusOf(r) # "none"
    BY DEF Enrolled, StatusOf
  <2>2. StatusOf(r) \in Attendances \union {"none"}
    BY <2>1 DEF AudienceTypeOK, StatusOf
  <2> QED BY <2>1, <2>2, AudienceAssumption
<1>1. IsFiniteSet(s) /\ IsFiniteSet(rest) /\ Cardinality(s) = Cardinality(rest) + 1
      /\ Cardinality(rest) \in Nat
  <2>1. IsFiniteSet(s) /\ Cardinality(s) \in Nat /\ Cardinality(rest) \in Nat
        /\ IsFiniteSet(rest)
    BY EnrolledFinite
  <2>2. Cardinality(rest) = Cardinality(s) - 1
    BY <2>1, FS_RemoveElement
  <2> QED BY <2>1, <2>2
<1>2. CountedIn(tally, rest)
  OBVIOUS
<1>3. /\ tally \in TallyType
      /\ tally.signups = Cardinality(GoingRows(rest))
      /\ Total(tally.goingByEvent, Happenings) = tally.signups
      /\ Total(tally.goingCountByUser, Fans) = tally.signups
      /\ tally.signups + Total(tally.waitlistedByEvent, Happenings) + tally.notGoingCount
            = Cardinality(rest)
      /\ tally.lastMinuteCount <= tally.signups
      /\ \A u \in Fans : tally.goingCountByUser[u] > 0 <=> \E x \in GoingRows(rest) : x[2] = u
  BY <1>2 DEF CountedIn
<1>4. /\ tally.goingByEvent \in [Happenings -> Int]
      /\ tally.waitlistedByEvent \in [Happenings -> Int]
      /\ tally.goingCountByUser \in [Fans -> Nat]
      /\ tally.goingCountByUser \in [Fans -> Int]
      /\ tally.signups \in Int /\ tally.lastMinuteCount \in Int
      /\ tally.notGoingCount \in Int
  BY <1>3 DEF TallyType
<1>5. /\ Total(tally.waitlistedByEvent, Happenings) \in Int
      /\ Total(Increment(tally.goingByEvent, r[1]), Happenings) = tally.signups + 1
      /\ Total(Increment(tally.goingCountByUser, r[2]), Fans) = tally.signups + 1
      /\ Total(Increment(tally.waitlistedByEvent, r[1]), Happenings)
            = Total(tally.waitlistedByEvent, Happenings) + 1
  BY <1>0, <1>3, <1>4, IncrementAdds, AudienceAssumption
<1> DEFINE W == Total(tally.waitlistedByEvent, Happenings)
<1>6. CASE StatusOf(r) \in {"NOT_GOING", "WAITLISTED"}
  <2>1. GoingRows(s) = GoingRows(rest)
    BY <1>6 DEF GoingRows, GoingRow, StatusOf
  <2>2. CASE StatusOf(r) = "NOT_GOING"
    <3>1. /\ new \in TallyType /\ new.goingByEvent = tally.goingByEvent
          /\ new.waitlistedByEvent = tally.waitlistedByEvent
          /\ new.goingCountByUser = tally.goingCountByUser /\ new.signups = tally.signups
          /\ new.lastMinuteCount = tally.lastMinuteCount
          /\ new.notGoingCount = tally.notGoingCount + 1
      BY <1>0, <1>3, <2>2, TallyOfDropout
    <3> HIDE DEF new, rest
    <3>2. new.signups + Total(new.waitlistedByEvent, Happenings) + new.notGoingCount
             = Cardinality(s)
      <4> HIDE DEF W
      <4>1. new.signups + W + new.notGoingCount = Cardinality(s)
        <5>1. tally.signups + W + tally.notGoingCount = Cardinality(rest) /\ W \in Int
          BY <1>3, <1>5 DEF W
        <5> QED BY <1>1, <1>4, <3>1, <5>1
      <4> QED BY <3>1, <4>1 DEF W
    <3>3. CountedIn(new, s)
      <4>1. \A u \in Fans : new.goingCountByUser[u] > 0 <=> \E x \in GoingRows(s) : x[2] = u
        BY <1>3, <2>1, <3>1
      <4>2. /\ new.signups = Cardinality(GoingRows(s))
            /\ Total(new.goingByEvent, Happenings) = new.signups
            /\ Total(new.goingCountByUser, Fans) = new.signups
            /\ new.lastMinuteCount <= new.signups
        BY <1>3, <2>1, <3>1
      <4>3. new \in TallyType
        BY <3>1
      <4> QED BY <3>2, <4>1, <4>2, <4>3 DEF CountedIn
    <3> QED BY <3>3 DEF new
  <2>3. CASE StatusOf(r) = "WAITLISTED"
    <3>1. /\ new \in TallyType /\ new.goingByEvent = tally.goingByEvent
          /\ new.waitlistedByEvent = Increment(tally.waitlistedByEvent, r[1])
          /\ new.goingCountByUser = tally.goingCountByUser /\ new.signups = tally.signups
          /\ new.lastMinuteCount = tally.lastMinuteCount
          /\ new.notGoingCount = tally.notGoingCount
      BY <1>0, <1>3, <2>3, TallyOfWaiting
    <3> HIDE DEF new, rest
    <3>2. new.signups + Total(new.waitlistedByEvent, Happenings) + new.notGoingCount
             = Cardinality(s)
      <4>1. Total(new.waitlistedByEvent, Happenings) = W + 1 /\ W \in Int
        BY <1>5, <3>1
      <4>2. tally.signups + W + tally.notGoingCount = Cardinality(rest)
        BY <1>3
      <4> HIDE DEF W
      <4> QED BY <1>1, <1>4, <3>1, <4>1, <4>2
    <3>3. CountedIn(new, s)
      <4>1. \A u \in Fans : new.goingCountByUser[u] > 0 <=> \E x \in GoingRows(s) : x[2] = u
        BY <1>3, <2>1, <3>1
      <4>2. /\ new.signups = Cardinality(GoingRows(s))
            /\ Total(new.goingByEvent, Happenings) = new.signups
            /\ Total(new.goingCountByUser, Fans) = new.signups
            /\ new.lastMinuteCount <= new.signups
        BY <1>3, <2>1, <3>1
      <4>3. new \in TallyType
        BY <3>1
      <4> QED BY <3>2, <4>1, <4>2, <4>3 DEF CountedIn
    <3> QED BY <3>3 DEF new
  <2> QED BY <1>6, <2>2, <2>3
<1>7. CASE StatusOf(r) \in {"GOING", "LAST_MINUTE"}
  <2>1. GoingRows(s) = GoingRows(rest) \union {r} /\ r \notin GoingRows(rest)
    BY <1>7 DEF GoingRows, GoingRow, StatusOf
  <2>2. Cardinality(GoingRows(s)) = Cardinality(GoingRows(rest)) + 1
        /\ Cardinality(GoingRows(rest)) \in Nat
    <3>1. GoingRows(rest) \in SUBSET Enrolled
      BY DEF GoingRows
    <3>2. IsFiniteSet(GoingRows(rest)) /\ Cardinality(GoingRows(rest)) \in Nat
      BY <3>1, EnrolledFinite
    <3> QED BY <2>1, <3>2, FS_AddElement
  <2>3. /\ new \in TallyType
        /\ new.goingByEvent = Increment(tally.goingByEvent, r[1])
        /\ new.waitlistedByEvent = tally.waitlistedByEvent
        /\ new.goingCountByUser = Increment(tally.goingCountByUser, r[2])
        /\ new.signups = tally.signups + 1
        /\ new.lastMinuteCount \in {tally.lastMinuteCount, tally.lastMinuteCount + 1}
        /\ new.notGoingCount = tally.notGoingCount
    BY <1>0, <1>3, <1>7, TallyOfGoing
  <2> HIDE DEF new, rest
  <2>4. new.signups = Cardinality(GoingRows(s)) /\ new.lastMinuteCount <= new.signups
    BY <1>3, <1>4, <2>2, <2>3
  <2>5. /\ Total(new.goingByEvent, Happenings) = new.signups
        /\ Total(new.goingCountByUser, Fans) = new.signups
    BY <1>5, <2>3
  <2>6. new.signups + Total(new.waitlistedByEvent, Happenings) + new.notGoingCount
           = Cardinality(s)
    <3>1. Total(new.waitlistedByEvent, Happenings) = W /\ W \in Int
      BY <1>5, <2>3
    <3>2. tally.signups + W + tally.notGoingCount = Cardinality(rest)
      BY <1>3
    <3> HIDE DEF W
    <3> QED BY <1>1, <1>4, <2>3, <3>1, <3>2
  <2>7. ASSUME NEW u \in Fans
        PROVE  new.goingCountByUser[u] > 0 <=> \E x \in GoingRows(s) : x[2] = u
    <3>1. CASE u = r[2]
      <4>1. new.goingCountByUser[u] = tally.goingCountByUser[u] + 1
        BY <1>4, <2>3, <3>1 DEF Increment
      <4>2. tally.goingCountByUser[u] \in Nat
        BY <1>4
      <4>3. new.goingCountByUser[u] > 0
        BY <4>1, <4>2
      <4> QED BY <2>1, <3>1, <4>3
    <3>2. CASE u # r[2]
      <4>1. new.goingCountByUser[u] = tally.goingCountByUser[u]
        BY <1>4, <2>3, <3>2 DEF Increment
      <4>2. (\E x \in GoingRows(s) : x[2] = u) <=> (\E x \in GoingRows(rest) : x[2] = u)
        BY <2>1, <3>2
      <4> QED BY <1>3, <4>1, <4>2
    <3> QED BY <3>1, <3>2
  <2>8. new \in TallyType
    BY <2>3
  <2>9. CountedIn(new, s)
    BY <2>4, <2>5, <2>6, <2>7, <2>8 DEF CountedIn
  <2> QED BY <2>9 DEF new
<1> QED BY <1>0, <1>6, <1>7

Tallies(g) ==
    g = [s \in SUBSET Enrolled |->
            IF s = {} THEN EmptyTally
            ELSE LET x == CHOOSE x \in s : TRUE IN tallyOne(x, g[s \ {x}])]
Tallying == CHOOSE g : Tallies(g)

LEMMA TallyingTallies == Tallies(Tallying)
<1> DEFINE step == [p \in Enrolled \X TallyType |-> tallyOne(p[1], p[2])]
<1>0. Enrolled \subseteq Happenings \X Fans /\ IsFiniteSet(Enrolled)
  BY EnrolledFinite DEF Enrolled
<1>1. step \in [Enrolled \X TallyType -> TallyType]
  BY <1>0, TallyOneTyped
<1>2. \A x \in Enrolled, v \in TallyType : step[<<x, v>>] = tallyOne(x, v)
  OBVIOUS
<1> HIDE DEF step
<1>3. EmptyTally \in TallyType
  BY EmptyTallyCounted DEF CountedIn
<1>4. PICK g \in [SUBSET Enrolled -> TallyType] : \A s \in SUBSET Enrolled :
         g[s] = IF s = {} THEN EmptyTally ELSE step[<<Some(s), g[s \ {Some(s)}]>>]
  <2>1. \E g : Folds(g, Enrolled, TallyType, EmptyTally, step)
    BY <1>0, <1>1, <1>3, FoldDefined
  <2> QED BY <2>1 DEF Folds
<1>5. \A s \in SUBSET Enrolled :
         g[s] = IF s = {} THEN EmptyTally ELSE tallyOne(Some(s), g[s \ {Some(s)}])
  <2> TAKE s \in SUBSET Enrolled
  <2>1. CASE s = {}
    BY <2>1, <1>4
  <2>2. CASE s # {}
    <3>1. Some(s) \in Enrolled /\ s \ {Some(s)} \in SUBSET Enrolled
      BY <2>2 DEF Some
    <3>2. g[s \ {Some(s)}] \in TallyType
      BY <3>1
    <3> QED BY <2>2, <3>1, <3>2, <1>2, <1>4
  <2> QED BY <2>1, <2>2
<1>6. Tallies(g)
  BY <1>5 DEF Tallies, Some
<1> QED BY <1>6 DEF Tallying

LEMMA TallyIsCounted == AudienceTypeOK => CountedIn(tallyRegistrations, Enrolled)
<1> SUFFICES ASSUME AudienceTypeOK PROVE CountedIn(tallyRegistrations, Enrolled)
  OBVIOUS
<1> DEFINE g == Tallying
           P == {s \in SUBSET Enrolled : CountedIn(g[s], s)}
<1>1. \A s \in SUBSET Enrolled :
         g[s] = IF s = {} THEN EmptyTally ELSE tallyOne(Some(s), g[s \ {Some(s)}])
  BY TallyingTallies DEF Tallies, Some
<1>2. {} \in P
  <2>1. g[{}] = EmptyTally
    BY <1>1
  <2> QED BY <2>1, EmptyTallyCounted
<1>3. ASSUME NEW s \in SUBSET Enrolled, s # {}, \A x \in s : s \ {x} \in P
      PROVE  s \in P
  <2>1. Some(s) \in s /\ s \ {Some(s)} \in P
    BY <1>3 DEF Some
  <2>2. g[s] = tallyOne(Some(s), g[s \ {Some(s)}])
    BY <1>1, <1>3
  <2>3. CountedIn(g[s \ {Some(s)}], s \ {Some(s)})
    BY <2>1
  <2> HIDE DEF g
  <2>4. CountedIn(tallyOne(Some(s), g[s \ {Some(s)}]), s)
    BY <2>1, <2>3, TallyOneCounts
  <2> QED BY <2>2, <2>4
<1> HIDE DEF P
<1>4. SUBSET Enrolled \subseteq P
  BY <1>2, <1>3, EnrolledFinite, BySize
<1>5. CountedIn(g[Enrolled], Enrolled)
  BY <1>4 DEF P
<1>6. tallyRegistrations = g[Enrolled]
  BY DEF tallyRegistrations, FoldSet, MapThenFoldSet, Tallying, Tallies
<1> QED BY <1>5, <1>6

LEMMA StatisticsLemma == AudienceTypeOK => StatisticsAgree
<1> SUFFICES ASSUME AudienceTypeOK PROVE StatisticsAgree
  OBVIOUS
<1> DEFINE tally == tallyRegistrations
           stats == eventAggregates(tally)
           people == audienceAggregates(tally.goingCountByUser)
           going == GoingRows(Enrolled)
           came == {u \in Fans : tally.goingCountByUser[u] > 0}
           full == {e \in Happenings : CapacityOf[e] # 0}
           sold == {e \in full : tally.goingByEvent[e] >= CapacityOf[e]}
<1>1. CountedIn(tally, Enrolled)
  BY TallyIsCounted
<1>2. /\ stats.totalGoing = Total(tally.goingByEvent, Happenings)
      /\ stats.totalWaitlisted = Total(tally.waitlistedByEvent, Happenings)
      /\ stats.soldOut = <<Cardinality(sold), Cardinality(full)>>
      /\ stats.lastMinute = <<tally.lastMinuteCount, tally.signups>>
      /\ stats.dropout = <<tally.notGoingCount, stats.totalGoing + tally.notGoingCount>>
  BY DEF eventAggregates
<1>3. /\ people.unique = Cardinality(came)
      /\ people.returning = Cardinality({u \in came : tally.goingCountByUser[u] >= 2})
      /\ people.core = Cardinality({u \in came : tally.goingCountByUser[u] >= 3})
      /\ people.following = Cardinality(came \cap Followers)
  BY DEF audienceAggregates
<1> HIDE DEF tally, stats, people
<1>4. /\ tally \in TallyType /\ tally.signups = Cardinality(going)
      /\ Total(tally.goingByEvent, Happenings) = tally.signups
      /\ Total(tally.goingCountByUser, Fans) = tally.signups
      /\ tally.signups + Total(tally.waitlistedByEvent, Happenings) + tally.notGoingCount
            = Cardinality(Enrolled)
      /\ tally.lastMinuteCount <= tally.signups
      /\ \A u \in Fans : tally.goingCountByUser[u] > 0 <=> \E r \in going : r[2] = u
  BY <1>1 DEF CountedIn
<1>5. going = {r \in Enrolled : GoingRow(r)} /\ Cardinality(going) \in Nat
  BY EnrolledFinite DEF GoingRows
<1>6. came = {r[2] : r \in {s \in Enrolled : GoingRow(s)}}
  <2>1. \A r \in going : r[2] \in Fans
    BY <1>5 DEF Enrolled
  <2> HIDE DEF going
  <2>2. came = {r[2] : r \in going}
    BY <1>4, <2>1
  <2> QED BY <1>5, <2>2
<1>7. /\ people.core <= people.returning /\ people.returning <= people.unique
      /\ people.following <= people.unique
  <2> DEFINE twice == {u \in came : tally.goingCountByUser[u] >= 2}
             thrice == {u \in came : tally.goingCountByUser[u] >= 3}
  <2>1. \A u \in Fans : tally.goingCountByUser[u] \in Nat
    BY <1>4 DEF TallyType
  <2>2. /\ came \in SUBSET Fans /\ twice \subseteq came /\ thrice \subseteq twice
        /\ came \cap Followers \subseteq came
    BY <2>1
  <2>3. people.returning = Cardinality(twice) /\ people.core = Cardinality(thrice)
    BY <1>3
  <2> HIDE DEF twice, thrice, came
  <2>4. IsFiniteSet(came) /\ IsFiniteSet(twice)
    BY <2>2, FollowersFinite
  <2> QED BY <1>3, <2>2, <2>3, <2>4, FS_Subset
<1>8. ASSUME NEW share \in {stats.soldOut, stats.lastMinute, stats.dropout}
      PROVE  share[1] <= share[2]
  <2>1. stats.soldOut[1] <= stats.soldOut[2]
    <3>1. IsFiniteSet(full) /\ sold \subseteq full
      BY AudienceAssumption, FS_Subset
    <3> HIDE DEF sold, full
    <3>2. Cardinality(sold) <= Cardinality(full)
      BY <3>1, FS_Subset
    <3> QED BY <1>2, <3>2
  <2>2. stats.lastMinute[1] <= stats.lastMinute[2]
    BY <1>2, <1>4
  <2>3. stats.dropout[1] <= stats.dropout[2]
    <3>1. tally.notGoingCount \in Int /\ stats.totalGoing \in Nat
      BY <1>2, <1>4, <1>5 DEF TallyType
    <3> QED BY <1>2, <3>1
  <2> QED BY <2>1, <2>2, <2>3
<1>9. stats.totalGoing = Cardinality({r \in Enrolled : GoingRow(r)})
      /\ stats.totalGoing = Total(tally.goingCountByUser, Fans)
  BY <1>2, <1>4, <1>5
<1>10. stats.totalGoing + stats.totalWaitlisted + tally.notGoingCount = Cardinality(Enrolled)
  BY <1>2, <1>4
<1>11. people.unique = Cardinality({r[2] : r \in {s \in Enrolled : GoingRow(s)}})
  BY <1>3, <1>6
<1> HIDE DEF going, came, full, sold
<1> QED BY <1>7, <1>8, <1>9, <1>10, <1>11 DEF StatisticsAgree, stats, people, tally

(***************************************************************************)
(* What an organization is told of its followers and of who comes is true, *)
(* at every moment.                                                        *)
(***************************************************************************)
THEOREM FiguresAgree ==
    AudienceSpec =>
        [](NetsAreChanges /\ SeriesAddsUp /\ GrossCoversNet /\ StatisticsAgree /\ AnalyticsInv)
<1>1. AudienceInv => NetsAreChanges /\ SeriesAddsUp /\ GrossCoversNet /\ StatisticsAgree
  BY NetsLemma, SeriesLemma, GrossLemma, StatisticsLemma DEF AudienceInv
<1>2. AudienceInv => NetsAreChanges /\ SeriesAddsUp /\ GrossCoversNet /\ StatisticsAgree
                       /\ AnalyticsInv
  BY <1>1 DEF AnalyticsInv
<1> QED BY <1>2, AudienceInvAlways, PTL
-----------------------------------------------------------------------------
(***************************************************************************)
(* Recommendations.                                                        *)
(***************************************************************************)
(* What is picked of a list in an order is the list of the picked.         *)
LEMMA PickedInOrder ==
    ASSUME NEW people, IsFiniteSet(people), NEW order, Ordered(people, order), NEW S
    PROVE  LET l == InOrder(people, order)
           IN  Pick(l, {i \in DOMAIN l : l[i] \notin S}) = InOrder(people \ S, order)
<1> DEFINE l == InOrder(people, order)
           at == {i \in DOMAIN l : l[i] \notin S}
           a == InOrder(at, Smaller(at))
           p == Pick(l, at)
           n == Cardinality(at)
<1>1. Lists(l, people, order)
  BY InOrderLists
<1> HIDE DEF l
<1>2. l \in Seq(people) /\ DOMAIN l = 1..Len(l) /\ Len(l) \in Nat
  BY <1>1, LenProperties DEF Lists
<1>3. at \in SUBSET DOMAIN l /\ at \in SUBSET Nat
  BY <1>2
<1>4. \A i \in at : i \in DOMAIN l /\ l[i] \in people \ S
  BY <1>2, ElementOfSeq
<1>5. \A u \in people \ S : \E i \in at : l[i] = u
  BY <1>1, <1>2 DEF Lists
<1>6. p = [k \in DOMAIN a |-> l[a[k]]]
  BY DEF Pick
<1> HIDE DEF at
<1>7. /\ IsFiniteSet(at) /\ n \in Nat /\ p \in Seq(people) /\ Len(p) = n
      /\ \A i \in at : \E k \in 1..n : p[k] = l[i]
  <2>1. l \in Seq(people) /\ at \in SUBSET DOMAIN l
    BY <1>2, <1>3
  <2>2. IsFiniteSet(at) /\ n \in Nat
    BY <2>1, PickKeeps
  <2>3. p \in Seq(people) /\ Len(p) = n
    BY <2>1, PickKeeps
  <2>4. \A i \in at : \E k \in 1..n : p[k] = l[i]
    BY <2>1, PickKeeps
  <2> QED BY <2>2, <2>3, <2>4
<1>8. Lists(a, at, Smaller(at)) /\ Len(a) = n
  BY <1>3, <1>7, SmallerOrders, InOrderLists
<1> HIDE DEF a, p, n
<1>9. a \in Seq(at) /\ DOMAIN a = 1..n /\ \A k \in 1..n : a[k] \in at
  BY <1>8, LenProperties, ElementOfSeq DEF Lists
<1>10. \A j, k \in 1..n : j < k => a[j] < a[k]
  BY <1>8, <1>9 DEF Lists, Smaller
<1>11. \A k \in 1..n : p[k] = l[a[k]] /\ p[k] \in people \ S
  BY <1>4, <1>6, <1>9
<1>12. p \in Seq(people \ S)
  <2>1. p \in [1..n -> people \ S]
    BY <1>6, <1>9, <1>11
  <2> QED BY <2>1, <1>7
<1>13. \A u \in people \ S : \E k \in 1..n : p[k] = u
  BY <1>5, <1>7
<1>14. \A j, k \in 1..n : j < k => <<p[j], p[k]>> \in order
  <2> SUFFICES ASSUME NEW j \in 1..n, NEW k \in 1..n, j < k PROVE <<p[j], p[k]>> \in order
    OBVIOUS
  <2>1. a[j] \in 1..Len(l) /\ a[k] \in 1..Len(l) /\ a[j] < a[k]
    BY <1>2, <1>3, <1>9, <1>10
  <2>2. <<l[a[j]], l[a[k]]>> \in order
    BY <2>1, <1>1 DEF Lists
  <2> QED BY <2>2, <1>11
<1>15. Lists(p, people \ S, order)
  BY <1>7, <1>12, <1>13, <1>14 DEF Lists
<1>16. IsFiniteSet(people \ S) /\ Ordered(people \ S, order)
  BY FS_Subset DEF Ordered
<1>17. p = InOrder(people \ S, order)
  BY <1>15, <1>16, OneList
<1> QED BY <1>17 DEF p, at, l

TasteTyped ==
    /\ history \in Seq([event : Coming, going : BOOLEAN])
    /\ favorites \in Seq([event : Coming])
    /\ follows \in SUBSET Hosts /\ listed \in SUBSET Coming

(* A row is deleted.                                                       *)
LEMMA WithoutKeeps ==
    ASSUME NEW S, NEW list \in Seq(S), NEW e
    PROVE  WithoutEvent(list, e) \in Seq(S)
<1> DEFINE at == {i \in DOMAIN list : list[i].event # e}
<1>1. at \in SUBSET DOMAIN list
  OBVIOUS
<1> HIDE DEF at
<1>2. Pick(list, at) \in Seq(S)
  BY <1>1, PickKeeps
<1> QED BY <1>2 DEF WithoutEvent, at

LEMMA TasteStaysTyped == TasteTyped /\ [TasteNext]_tasteVars => TasteTyped'
<1> SUFFICES ASSUME TasteTyped, [TasteNext]_tasteVars PROVE TasteTyped'
  OBVIOUS
<1> DEFINE Reg == [event : Coming, going : BOOLEAN]
           Fav == [event : Coming]
<1>1. ASSUME NEW e \in Coming, Registers(e) PROVE TasteTyped'
  <2>1. PICK going \in BOOLEAN :
           history' = <<[event |-> e, going |-> going]>> \o WithoutEvent(history, e)
    BY <1>1 DEF Registers
  <2>2. <<[event |-> e, going |-> going]>> \in Seq(Reg)
    OBVIOUS
  <2> HIDE DEF Reg
  <2>3. WithoutEvent(history, e) \in Seq(Reg)
    BY WithoutKeeps DEF TasteTyped, Reg
  <2>4. history' \in Seq(Reg)
    BY <2>1, <2>2, <2>3, ConcatProperties
  <2> QED BY <1>1, <2>4 DEF Registers, TasteTyped, Reg
<1>2. ASSUME NEW e \in Coming, Favors(e) PROVE TasteTyped'
  <2>1. <<[event |-> e]>> \in Seq(Fav) /\ favorites \in Seq(Fav)
    BY DEF TasteTyped
  <2> HIDE DEF Fav
  <2>2. favorites' \in Seq(Fav)
    BY <1>2, <2>1, ConcatProperties DEF Favors
  <2> QED BY <1>2, <2>2 DEF Favors, TasteTyped, Fav
<1>3. ASSUME NEW e \in Coming, Unfavors(e) PROVE TasteTyped'
  <2> HIDE DEF Fav
  <2>1. favorites' \in Seq(Fav)
    BY <1>3, WithoutKeeps DEF TasteTyped, Unfavors, Fav
  <2> QED BY <1>3, <2>1 DEF Unfavors, TasteTyped, Fav
<1>4. ASSUME NEW e \in Coming, HidesOrShows(e) PROVE TasteTyped'
  BY <1>4 DEF HidesOrShows, TasteTyped
<1>5. ASSUME NEW h \in Hosts, FollowsOrNot(h) PROVE TasteTyped'
  BY <1>5 DEF FollowsOrNot, TasteTyped
<1>6. CASE UNCHANGED tasteVars
  BY <1>6 DEF tasteVars, TasteTyped
<1> QED BY <1>1, <1>2, <1>3, <1>4, <1>5, <1>6 DEF TasteNext

(* Scores give an order.                                                   *)
LEMMA ScoresOrder ==
    ASSUME NEW D \in SUBSET Nat, NEW score \in [D -> Int]
    PROVE  /\ Ordered(D, HigherFirst(score))
           /\ Ranked(score) = InOrder(D, HigherFirst(score))
           /\ \A d, e \in D : <<d, e>> \in HigherFirst(score) <=>
                 score[d] > score[e] \/ (score[d] = score[e] /\ d < e)
<1>1. DOMAIN score = D /\ \A d \in D : score[d] \in Int /\ d \in Nat
  OBVIOUS
<1>2. \A d, e \in D : <<d, e>> \in HigherFirst(score) <=>
         score[d] > score[e] \/ (score[d] = score[e] /\ d < e)
  BY <1>1 DEF HigherFirst
<1>3. Ordered(D, HigherFirst(score))
  <2>1. \A d, e \in D : d # e =>
           (<<d, e>> \in HigherFirst(score) <=> <<e, d>> \notin HigherFirst(score))
    BY <1>1, <1>2
  <2>2. \A d \in D : <<d, d>> \notin HigherFirst(score)
    BY <1>1, <1>2
  <2>3. \A d, e, f \in D : <<d, e>> \in HigherFirst(score) /\ <<e, f>> \in HigherFirst(score)
                              => <<d, f>> \in HigherFirst(score)
    BY <1>1, <1>2
  <2> QED BY <2>1, <2>2, <2>3 DEF Ordered
<1> QED BY <1>1, <1>2, <1>3 DEF Ranked

(* What is ranked, and no more, and all of it when all is asked for.       *)
LEMMA RankedAre ==
    ASSUME NEW D \in SUBSET Nat, IsFiniteSet(D), NEW score \in [D -> Int], NEW n \in Nat
    PROVE  /\ Range(First(Ranked(score), n)) \subseteq D
           /\ Cardinality(D) <= n => First(Ranked(score), n) = Ranked(score)
<1>1. Ordered(D, HigherFirst(score)) /\ Ranked(score) = InOrder(D, HigherFirst(score))
  BY ScoresOrder
<1> DEFINE l == Ranked(score)
<1>2. Range(First(l, n)) \subseteq D
  BY <1>1, FirstAreFirst
<1>3. Lists(l, D, HigherFirst(score)) /\ Len(l) = Cardinality(D)
  BY <1>1, InOrderLists
<1>4. l \in Seq(D)
  BY <1>3 DEF Lists
<1> HIDE DEF l
<1>5. ASSUME Cardinality(D) <= n PROVE First(l, n) = l
  <2>1. Len(l) \in Nat
    BY <1>4, LenProperties
  <2>2. First(l, n) = SubSeq(l, 1, Len(l))
    BY <1>3, <1>5, <2>1 DEF First
  <2>3. SubSeq(l, 1, Len(l)) = l
    BY <1>4, <2>1
  <2> QED BY <2>2, <2>3
<1> QED BY <1>2, <1>5 DEF l

(* What is read of a history.                                              *)
LEMMA NewestAre ==
    ASSUME NEW S, NEW list \in Seq(S), NEW n \in Nat
    PROVE  /\ First(list, n) \in Seq(S) /\ IsFiniteSet(DOMAIN First(list, n))
           /\ DOMAIN First(list, n) \subseteq DOMAIN list
           /\ Len(list) <= n => First(list, n) = list
<1> DEFINE k == Len(list)
           m == IF n < k THEN n ELSE k
           f == First(list, n)
<1>1. k \in Nat /\ DOMAIN list = 1..k
  BY LenProperties
<1>2. f = SubSeq(list, 1, m) /\ (k <= n => SubSeq(list, 1, k) = list)
  BY DEF First
<1> HIDE DEF k, f
<1>3. m \in Nat /\ m <= k /\ (k <= n => m = k)
  BY <1>1
<1> HIDE DEF m
<1>4. f \in Seq(S) /\ DOMAIN f = 1..m
  <2>1. 1 \in Int /\ m \in Int /\ m - 1 + 1 = m
    BY <1>3
  <2>2. \A i \in 1..m : list[i] \in S
    <3>1. \A i \in 1..k : list[i] \in S
      BY ElementOfSeq DEF k
    <3>2. 1..m \subseteq 1..k
      BY <1>1, <1>3
    <3> QED BY <3>1, <3>2
  <2>3. f \in Seq(S) /\ Len(f) = IF 1 <= m THEN m - 1 + 1 ELSE 0
    BY <1>2, <2>1, <2>2, SubSeqProperties
  <2>4. Len(f) = m
    BY <1>3, <2>1, <2>3
  <2> QED BY <2>3, <2>4, LenProperties
<1>5. IsFiniteSet(1..m) /\ 1..m \subseteq 1..k
  BY <1>1, <1>3, FS_Interval
<1>6. k <= n => f = list
  BY <1>2, <1>3
<1> QED BY <1>1, <1>4, <1>5, <1>6 DEF f, k

LEMMA SignalsFinite ==
    ASSUME NEW S, NEW list \in Seq(S), NEW events
    PROVE  IsFiniteSet(Signals(list, events)) /\ Cardinality(Signals(list, events)) \in Nat
<1>1. IsFiniteSet(DOMAIN First(list, Pool))
  BY NewestAre, TasteAssumption
<1>2. Signals(list, events) \subseteq DOMAIN First(list, Pool)
  BY DEF Signals
<1> QED BY <1>1, <1>2, FS_Subset, FS_CardinalityType

Quiet == favorites = <<>> /\ follows = {} /\ \A r \in Range(history) : ~r.going

LEMMA AffinityIs ==
    ASSUME TasteTyped, NEW events
    PROVE  affinity(events) \in Nat /\ (Quiet => affinity(events) = 0)
<1> DEFINE regs == {i \in Signals(history, events) : history[i].going}
           favs == Signals(favorites, events)
<1>1. /\ IsFiniteSet(Signals(history, events))
      /\ Cardinality(favs) \in Nat /\ IsFiniteSet(favs)
  BY SignalsFinite DEF TasteTyped
<1>2. Cardinality(regs) \in Nat /\ IsFiniteSet(regs)
  BY <1>1, FS_Subset, FS_CardinalityType
<1>3. ASSUME Quiet PROVE regs = {} /\ favs = {}
  <2>1. \A i \in DOMAIN history : ~history[i].going
    BY <1>3 DEF Quiet, Range
  <2>2. \A i \in Signals(history, events) : i \in DOMAIN history
    BY NewestAre, TasteAssumption DEF Signals, TasteTyped
  <2>3. DOMAIN First(favorites, Pool) \subseteq DOMAIN favorites
    BY NewestAre, TasteAssumption DEF TasteTyped
  <2>4. DOMAIN favorites = {}
    BY <1>3 DEF Quiet
  <2>5. favs = {}
    BY <2>3, <2>4 DEF Signals
  <2> QED BY <2>1, <2>2, <2>5
<1>4. affinity(events) = 180 * Cardinality(regs) + 120 * Cardinality(favs)
  BY DEF affinity, WEIGHT_GOING, WEIGHT_FAVORITE, Scale
<1> HIDE DEF regs, favs
<1>5. affinity(events) \in Nat
  BY <1>1, <1>2, <1>4
<1>6. Quiet => affinity(events) = 0
  BY <1>3, <1>4, FS_EmptySet
<1> QED BY <1>5, <1>6

LEMMA SumAffinityIs ==
    ASSUME TasteTyped, NEW categories, IsFiniteSet(categories)
    PROVE  sumAffinity(categories) \in Nat /\ (Quiet => sumAffinity(categories) = 0)
<1> DEFINE f == [c \in categories |-> categoryAffinity(c)]
<1>1. \A c \in categories : f[c] \in Nat /\ (Quiet => f[c] = 0)
  <2>1. \A c : categoryAffinity(c) \in Nat /\ (Quiet => categoryAffinity(c) = 0)
    BY AffinityIs DEF categoryAffinity
  <2> QED BY <2>1
<1>2. sumAffinity(categories) = Total(f, categories)
  BY DEF sumAffinity
<1> HIDE DEF f
<1>3. \A c \in categories : f[c] \in Int /\ f[c] >= 0
  BY <1>1
<1>4. Total(f, categories) \in Int
  BY <1>3, TotalTakes
<1>5. Total(f, categories) >= 0 * Cardinality(categories)
  BY <1>3, TotalBounds
<1>6. (\A c \in categories : f[c] <= 0) => Total(f, categories) <= 0 * Cardinality(categories)
  BY <1>3, TotalBounds
<1>7. Cardinality(categories) \in Nat
  BY FS_CardinalityType
<1>8. Total(f, categories) >= 0 /\ (Quiet => Total(f, categories) <= 0)
  BY <1>1, <1>5, <1>6, <1>7
<1> QED BY <1>2, <1>4, <1>8

LEMMA ArrangerAffinityIs ==
    ASSUME TasteTyped, NEW h
    PROVE  arrangerAffinity(h) \in Nat /\ (Quiet => arrangerAffinity(h) = 0)
<1> DEFINE a == affinity({e \in Coming : HostOf[e] = h})
<1>1. a \in Nat /\ (Quiet => a = 0)
  BY AffinityIs
<1>2. arrangerAffinity(h) = a + (IF h \in follows THEN 300 ELSE 0)
  BY DEF arrangerAffinity, WEIGHT_FOLLOW, Scale
<1> HIDE DEF a
<1> QED BY <1>1, <1>2 DEF Quiet

LEMMA ScoreIs ==
    ASSUME TasteTyped, NEW e \in Coming
    PROVE  /\ scoreOf(e) \in Int /\ priorOf(e) \in Int
           /\ sumAffinity(CategoriesOf[e]) \in Nat
           /\ Quiet => scoreOf(e) = priorOf(e)
<1>1. priorOf(e) \in Int
  BY DEF priorOf, Popularity, WEIGHT_FEATURED, Scale
<1>2. sumAffinity(CategoriesOf[e]) \in Nat /\ (Quiet => sumAffinity(CategoriesOf[e]) = 0)
  BY SumAffinityIs, TasteAssumption
<1>3. arrangerAffinity(HostOf[e]) \in Nat /\ (Quiet => arrangerAffinity(HostOf[e]) = 0)
  BY ArrangerAffinityIs
<1> QED BY <1>1, <1>2, <1>3 DEF scoreOf

LEMMA OverlapsAre ==
    ASSUME TasteTyped, NEW h
    PROVE  /\ SampledEvents(h) \subseteq Coming /\ IsFiniteSet(SampledEvents(h))
           /\ SumOfOverlaps(h) \in Int
           /\ \A m \in Int :
                 /\ (\A e \in SampledEvents(h) : sumAffinity(CategoriesOf[e]) >= m)
                       => SumOfOverlaps(h) >= m * Cardinality(SampledEvents(h))
                 /\ (\A e \in SampledEvents(h) : sumAffinity(CategoriesOf[e]) <= m)
                       => SumOfOverlaps(h) <= m * Cardinality(SampledEvents(h))
<1> DEFINE S == SampledEvents(h)
           f == [e \in S |-> sumAffinity(CategoriesOf[e])]
<1>1. S \subseteq Coming /\ IsFiniteSet(S)
  BY TasteAssumption, FS_Subset DEF SampledEvents, TasteTyped
<1>2. SumOfOverlaps(h) = Total(f, S)
  BY DEF SumOfOverlaps
<1> HIDE DEF S
<1>3. \A e \in S : f[e] = sumAffinity(CategoriesOf[e]) /\ f[e] \in Int
  BY <1>1, ScoreIs
<1> HIDE DEF f
<1>4. Total(f, S) \in Int
  BY <1>1, <1>3, TotalTakes
<1>5. ASSUME NEW m \in Int
      PROVE  /\ (\A e \in S : f[e] >= m) => Total(f, S) >= m * Cardinality(S)
             /\ (\A e \in S : f[e] <= m) => Total(f, S) <= m * Cardinality(S)
  BY <1>1, <1>3, TotalBounds
<1> QED BY <1>1, <1>2, <1>3, <1>4, <1>5 DEF S

LEMMA HostScoreIs ==
    ASSUME TasteTyped, NEW h \in Hosts
    PROVE  scoreOfHost(h) \in Int
<1>1. SumOfOverlaps(h) \in Int /\ IsFiniteSet(SampledEvents(h))
  BY OverlapsAre
<1>2. SampledEvents(h) # {} => Cardinality(SampledEvents(h)) \in Nat \ {0}
  BY <1>1, FS_EmptySet, FS_CardinalityType
<1>3. categoryScore(h) \in Int
  BY <1>1, <1>2 DEF categoryScore
<1>4. arrangerAffinity(h) \in Nat
  BY ArrangerAffinityIs
<1> QED BY <1>3, <1>4 DEF scoreOfHost, Popularity, Scale

LEMMA OnlyNew == TasteTyped => OnlyNewRecommended
<1> SUFFICES ASSUME TasteTyped PROVE OnlyNewRecommended
  OBVIOUS
<1> DEFINE D == candidateEvents \ knownEventIds
           f == [e \in D |-> scoreOf(e)]
           O == Hosts \ follows
           g == [h \in O |-> scoreOfHost(h)]
<1>1. /\ D \subseteq listed /\ D \in SUBSET Coming /\ D \in SUBSET Nat /\ IsFiniteSet(D)
      /\ O \in SUBSET Nat /\ IsFiniteSet(O)
  BY TasteAssumption, FS_Subset DEF candidateEvents, TasteTyped
<1>2. D \cap knownEventIds = {}
  OBVIOUS
<1>3. /\ recommendEvents(Cardinality(Coming)) = First(Ranked(f), Cardinality(Coming))
      /\ recommendOrganizations(Cardinality(Hosts)) = First(Ranked(g), Cardinality(Hosts))
  BY DEF recommendEvents, recommendOrganizations
<1> HIDE DEF D
<1>4. f \in [D -> Int] /\ g \in [O -> Int]
  BY <1>1, ScoreIs, HostScoreIs
<1>5. Cardinality(Coming) \in Nat /\ Cardinality(Hosts) \in Nat
  BY TasteAssumption, FS_CardinalityType
<1> HIDE DEF f, g
<1>6. /\ Range(recommendEvents(Cardinality(Coming))) \subseteq D
      /\ Range(recommendOrganizations(Cardinality(Hosts))) \subseteq O
  BY <1>1, <1>3, <1>4, <1>5, RankedAre
<1>7. ASSUME Len(history) <= Pool, Len(favorites) <= Pool
      PROVE  knownEventIds = EventsIn(history) \cup EventsIn(favorites)
  <2>1. First(history, Pool) = history /\ First(favorites, Pool) = favorites
    BY <1>7, NewestAre, TasteAssumption DEF TasteTyped
  <2> QED BY <2>1 DEF knownEventIds, Known
<1> QED BY <1>1, <1>2, <1>6, <1>7 DEF OnlyNewRecommended

LEMMA Declining == TasteTyped => DecliningTeachesNothing
<1> SUFFICES ASSUME TasteTyped, Quiet
             PROVE  recommendEvents(Cardinality(Coming))
                      = Pick(anonymousEvents,
                             {i \in DOMAIN anonymousEvents :
                                 anonymousEvents[i] \notin knownEventIds})
  BY DEF DecliningTeachesNothing, Quiet
<1> DEFINE C == candidateEvents
           D == C \ knownEventIds
           all == [e \in C |-> priorOf(e)]
           f == [e \in D |-> scoreOf(e)]
<1>1. /\ C \in SUBSET Coming /\ C \in SUBSET Nat /\ IsFiniteSet(C)
      /\ Cardinality(Coming) \in Nat
  BY TasteAssumption, FS_Subset, FS_CardinalityType DEF candidateEvents, TasteTyped
<1>2. /\ recommendEvents(Cardinality(Coming)) = First(Ranked(f), Cardinality(Coming))
      /\ anonymousEvents = Ranked(all)
  BY DEF recommendEvents, anonymousEvents
<1> HIDE DEF C
<1>3. /\ D \in SUBSET C /\ D \in SUBSET Coming /\ D \in SUBSET Nat /\ IsFiniteSet(D)
      /\ Cardinality(D) <= Cardinality(Coming)
  BY <1>1, TasteAssumption, FS_Subset
<1> HIDE DEF D
<1>4. all \in [C -> Int] /\ f \in [D -> Int] /\ \A e \in D : f[e] = all[e]
  BY <1>1, <1>3, ScoreIs
<1> HIDE DEF all, f
<1>5. First(Ranked(f), Cardinality(Coming)) = Ranked(f)
  BY <1>1, <1>3, <1>4, RankedAre
<1>6. Ordered(C, HigherFirst(all)) /\ Ranked(all) = InOrder(C, HigherFirst(all))
      /\ \A d, e \in C : <<d, e>> \in HigherFirst(all) <=>
            all[d] > all[e] \/ (all[d] = all[e] /\ d < e)
  BY <1>1, <1>4, ScoresOrder
<1>7. Ordered(D, HigherFirst(f)) /\ Ranked(f) = InOrder(D, HigherFirst(f))
      /\ \A d, e \in D : <<d, e>> \in HigherFirst(f) <=>
            f[d] > f[e] \/ (f[d] = f[e] /\ d < e)
  BY <1>3, <1>4, ScoresOrder
<1>8. Agree(D, HigherFirst(f), HigherFirst(all))
  <2>1. \A d, e \in D : d \in C /\ e \in C /\ f[d] = all[d] /\ f[e] = all[e]
    BY <1>3, <1>4
  <2>2. \A d, e \in D : <<d, e>> \in HigherFirst(f) <=>
           all[d] > all[e] \/ (all[d] = all[e] /\ d < e)
    BY <2>1, <1>7
  <2>3. \A d, e \in D : <<d, e>> \in HigherFirst(all) <=>
           all[d] > all[e] \/ (all[d] = all[e] /\ d < e)
    BY <2>1, <1>6
  <2> QED BY <2>2, <2>3 DEF Agree
<1>9. InOrder(D, HigherFirst(all)) = Ranked(f)
  BY <1>3, <1>7, <1>8, ListStays
<1>10. LET l == InOrder(C, HigherFirst(all))
       IN  Pick(l, {i \in DOMAIN l : l[i] \notin knownEventIds})
             = InOrder(C \ knownEventIds, HigherFirst(all))
  BY <1>1, <1>6, PickedInOrder
<1> QED BY <1>2, <1>5, <1>6, <1>9, <1>10 DEF D

LEMMA ManyEvents == TasteTyped => ManyEventsNoAdvantage
<1> SUFFICES ASSUME TasteTyped, NEW g \in Hosts, NEW h \in Hosts,
                    SampledEvents(g) # {}, SampledEvents(h) # {},
                    \A d \in SampledEvents(g), e \in SampledEvents(h) :
                        sumAffinity(CategoriesOf[d]) >= sumAffinity(CategoriesOf[e])
             PROVE  categoryScore(g) >= categoryScore(h)
  BY DEF ManyEventsNoAdvantage
<1> DEFINE A == SampledEvents(g)
           B == SampledEvents(h)
           match(e) == sumAffinity(CategoriesOf[e])
<1>1. \A e \in A \cup B : match(e) \in Nat
  BY OverlapsAre, ScoreIs
<1>2. PICK d \in A : \A e \in A : match(d) <= match(e)
  <2> DEFINE T == {match(e) : e \in A}
  <2>1. T \in SUBSET Nat /\ T # {}
    BY <1>1
  <2>2. PICK x \in T : \A y \in T : x <= y
    BY <2>1, Least
  <2> QED BY <2>2
<1>3. match(d) \in Int /\ (\A e \in A : match(e) >= match(d)) /\ \A e \in B : match(e) <= match(d)
  BY <1>1, <1>2
<1>4. /\ SumOfOverlaps(g) \in Int /\ SumOfOverlaps(g) >= match(d) * Cardinality(A)
      /\ SumOfOverlaps(h) \in Int /\ SumOfOverlaps(h) <= match(d) * Cardinality(B)
  BY <1>3, OverlapsAre
<1>5. Cardinality(A) \in Nat \ {0} /\ Cardinality(B) \in Nat \ {0}
  BY OverlapsAre, FS_EmptySet, FS_CardinalityType
<1>6. SumOfOverlaps(g) \div Cardinality(A) >= match(d)
  BY <1>3, <1>4, <1>5, Mean
<1>7. SumOfOverlaps(h) \div Cardinality(B) <= match(d)
  BY <1>3, <1>4, <1>5, Mean
<1>8. /\ categoryScore(g) = SumOfOverlaps(g) \div Cardinality(A)
      /\ categoryScore(h) = SumOfOverlaps(h) \div Cardinality(B)
  BY DEF categoryScore
<1> DEFINE m == match(d)
           a == SumOfOverlaps(g) \div Cardinality(A)
           b == SumOfOverlaps(h) \div Cardinality(B)
<1>9. a \in Int /\ b \in Int /\ m \in Int
  BY <1>3, <1>4, <1>5
<1>10. a >= m /\ b <= m /\ categoryScore(g) = a /\ categoryScore(h) = b
  BY <1>6, <1>7, <1>8
<1> HIDE DEF m, a, b
<1> QED BY <1>9, <1>10

(***************************************************************************)
(* Nothing known or hidden is recommended, who only declined gets what a   *)
(* visitor gets, and many events win nothing: for any events, categories,  *)
(* organizations, pools and histories.                                     *)
(***************************************************************************)
THEOREM TasteIsTrue ==
    TasteSpec =>
        [](OnlyNewRecommended /\ DecliningTeachesNothing /\ ManyEventsNoAdvantage /\ TasteInv)
<1>1. TasteInit => TasteTyped
  BY EmptySeq DEF TasteInit, TasteTyped
<1>2. TasteTyped => OnlyNewRecommended /\ DecliningTeachesNothing /\ ManyEventsNoAdvantage
                      /\ TasteInv
  BY OnlyNew, Declining, ManyEvents DEF TasteInv
<1> QED BY <1>1, <1>2, TasteStaysTyped, PTL DEF TasteSpec
=============================================================================
