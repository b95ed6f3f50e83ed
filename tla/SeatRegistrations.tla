------------------------- MODULE SeatRegistrations -------------------------
(***************************************************************************)
(* The registrations of one event: who has a seat, who waits for one, and  *)
(* the transactions that change it.  A request runs in one interactive     *)
(* transaction at READ COMMITTED: it waits for the row lock of the event,  *)
(* loads the registrations, writes rows that nobody else sees before the   *)
(* commit, mails the user it promoted and commits.  Declined invitations,  *)
(* account deletions and the capacity check of an event edit do not take   *)
(* that lock, and run between any two of those steps.                      *)
(***************************************************************************)
EXTENDS Naturals, FiniteSets

CONSTANTS Users,      \* the people who can hold a registration
          Requests,   \* slots for requests that run at the same time
          Editors,    \* slots for edits of the event that run at the same time
          Deleters,   \* the users who may delete their account
          MayExpire,  \* requests that can outlive Prisma's transaction timeout
          Capacities, \* values of Event.capacity, Unlimited (null) included
          Unlimited,
          Windows,    \* registration windows the event can be in: "open",
                      \* "closed" (before regStart or after regEnd), "ended",
                      \* "external" (registration is not in Peoply)
          Nobody      \* no user, and no holder of the lock

ASSUME UsersAssumption == IsFiniteSet(Users) /\ Nobody \notin Users
ASSUME RequestsAssumption == Nobody \notin Requests /\ MayExpire \subseteq Requests
ASSUME CapacityAssumption ==
    /\ Capacities \subseteq Nat \union {Unlimited}
    /\ Unlimited \notin Nat
    /\ Nobody \notin Capacities
ASSUME DeletersAssumption == Deleters \subseteq Users

VARIABLES status,    \* RegStatus of each user, "NONE" without a row
          older,     \* <<u, v>>: u's row has the smaller updatedAt
          capacity,  \* Event.capacity
          window,    \* what assertRegistrationWindowOpen says now
          lock,      \* the request that holds the event row, or Nobody
          req,       \* the requests
          edit,      \* per editor: the capacity it checked and has to save
          account,   \* how far the deletion of each account is
          told,      \* users a mail told that they moved from the waitlist
          misled     \* history: those that a transaction which is rolled back
                     \* has told

vars == <<status, older, capacity, window, lock, req, edit, account, told, misled>>
rows == <<status, older, told, misled>>
event == <<capacity, window, edit>>

RegStatus == {"INVITED", "GOING", "NOT_GOING", "WAITLISTED", "BANNED"}
UserOps == {"create", "going", "leave", "ban", "remove"}
Phases == {"idle", "waiting", "loaded", "written", "promoted", "notified", "late"}

Idle == [phase |-> "idle", op |-> "none", user |-> Nobody,
         own |-> "NONE", head |-> Nobody]

Going == {u \in Users : status[u] = "GOING"}
Waiting == {u \in Users : status[u] = "WAITLISTED"}
Rows == {u \in Users : status[u] # "NONE"}

TypeOK ==
    /\ status \in [Users -> RegStatus \union {"NONE"}]
    /\ older \in SUBSET (Users \X Users)
    /\ capacity \in Capacities
    /\ window \in Windows
    /\ lock \in Requests \union {Nobody}
    /\ req \in [Requests -> [phase : Phases,
                             op : UserOps \union {"release", "none"},
                             user : Users \union {Nobody},
                             own : RegStatus \union {"NONE"},
                             head : Users \union {Nobody}]]
    /\ edit \in [Editors -> Capacities \union {Nobody}]
    /\ account \in [Users -> {"active", "releasing", "released", "deleted"}]
    /\ told \in SUBSET Users /\ misled \in SUBSET Users

Init ==
    /\ status = [u \in Users |-> "NONE"]
    /\ older = {}
    /\ capacity \in Capacities
    /\ window \in Windows
    /\ lock = Nobody
    /\ req = [t \in Requests |-> Idle]
    /\ edit = [e \in Editors |-> Nobody]
    /\ account = [u \in Users |-> "active"]
    /\ told = {} /\ misled = {}

-----------------------------------------------------------------------------
(* The order of updatedAt: a write moves its row to the end.               *)

Without(order, u) == {p \in order : p[1] # u /\ p[2] # u}
(* Mutant: the waitlist sorted the other way round.                        *)
TouchToFront(order, present, u) ==
    Without(order, u) \union ({u} \X (present \ {u}))

Touch(order, present, u) == Without(order, u) \union ((present \ {u}) \X {u})

(* Mutants: the last seat is given twice, or never.                        *)
HasRoomForOneMore == capacity = Unlimited \/ Cardinality(Going) <= capacity
HasRoomForTwo == capacity = Unlimited \/ Cardinality(Going) + 1 < capacity

HasRoom == capacity = Unlimited \/ Cardinality(Going) < capacity
SeatOrWaitlist == IF HasRoom THEN "GOING" ELSE "WAITLISTED"

(* The registration that has waited longest, Nobody if none waits.         *)
NextInLine ==
    IF Waiting = {} THEN {Nobody}
    ELSE {w \in Waiting : \A v \in Waiting : <<v, w>> \notin older}

-----------------------------------------------------------------------------
(* A request waits for the event row, decides from what it loads under the *)
(* lock, and ends.                                                         *)

Begin(t, op, u) ==
    /\ req[t].phase = "idle"
    /\ account[u] # "deleted"
    /\ req' = [req EXCEPT ![t] = [Idle EXCEPT !.phase = "waiting", !.op = op,
                                              !.user = u]]
    /\ UNCHANGED <<rows, event, lock, account>>

(* Mutant: the transaction does not wait for the event row.                *)
GrantedUnlocked(t, ops) ==
    /\ req[t].phase = "waiting"
    /\ req[t].op \in ops

Granted(t, ops) ==
    /\ req[t].phase = "waiting"
    /\ req[t].op \in ops
    /\ lock = Nobody

LoadAs(t, own, head) ==
    /\ lock' = t
    /\ req' = [req EXCEPT ![t] = [@ EXCEPT !.phase = "loaded", !.own = own,
                                           !.head = head]]
    /\ UNCHANGED <<rows, event, account>>

Create(t) ==
    /\ Granted(t, {"create"})
    /\ window = "open"
    /\ LoadAs(t, SeatOrWaitlist, Nobody)

(* Mutant: any registration without a seat may take one.                   *)
TakeSeatOnceBanned(t) ==
    /\ Granted(t, {"going"})
    /\ window = "open"
    /\ status[req[t].user] \in {"NOT_GOING", "INVITED", "BANNED"}
    /\ LoadAs(t, SeatOrWaitlist, Nobody)

TakeSeat(t) ==
    /\ Granted(t, {"going"})
    /\ window = "open"
    /\ status[req[t].user] \in {"NOT_GOING", "INVITED"}
    /\ LoadAs(t, SeatOrWaitlist, Nobody)

ReleaseSeat(t) ==
    /\ Granted(t, {"leave", "ban", "release"})
    /\ window = "open" \/ req[t].op = "release"
    /\ status[req[t].user] = "GOING"
    /\ \E head \in NextInLine :
          LoadAs(t, IF req[t].op = "ban" THEN "BANNED" ELSE "NOT_GOING", head)

(* Mutant: leaving the waitlist lets the next one in.                      *)
LeaveWaitlistPromoting(t) ==
    /\ Granted(t, {"leave", "release"})
    /\ window = "open" \/ req[t].op = "release"
    /\ status[req[t].user] = "WAITLISTED"
    /\ \E head \in NextInLine \ {req[t].user} : LoadAs(t, "NOT_GOING", head)

LeaveWaitlist(t) ==
    /\ Granted(t, {"leave", "release"})
    /\ window = "open" \/ req[t].op = "release"
    /\ status[req[t].user] = "WAITLISTED"
    /\ LoadAs(t, "NOT_GOING", Nobody)

(* remove looks at regStart and regEnd only.                               *)
Remove(t) ==
    /\ Granted(t, {"remove"})
    /\ window # "closed"
    /\ status[req[t].user] # "NONE"
    /\ \E head \in IF status[req[t].user] = "GOING" THEN NextInLine ELSE {Nobody} :
          LoadAs(t, "NONE", head)

(* The request ends; the deletion of an account goes on after its release  *)
(* whether or not that succeeded.                                          *)
Finish(t) ==
    /\ req' = [req EXCEPT ![t] = Idle]
    /\ account' = IF req[t].op = "release"
                  THEN [account EXCEPT ![req[t].user] = "released"]
                  ELSE account

Unlock(t) == lock' = IF lock = t THEN Nobody ELSE lock

(* A guard throws (the window, a missing form answer or food preference, a *)
(* private event, no such row) or no branch of applyTransition matches.    *)
Refuse(t) ==
    /\ Granted(t, UserOps \union {"release"})
    /\ LET op == req[t].op
           now == status[req[t].user]
       IN \/ op \in {"create", "going", "remove"}
          \/ window # "open" /\ op # "release"
          \/ op = "ban" /\ now # "GOING"
          \/ now \notin {"GOING", "WAITLISTED"}
    /\ Finish(t)
    /\ UNCHANGED <<rows, event, lock>>

-----------------------------------------------------------------------------
(* The writes of the transaction that holds the lock.  Every write finds   *)
(* its row by (eventId, userId) whatever its status is by then.            *)

OwnRowWritable(t) ==
    LET u == req[t].user
    IN IF req[t].op = "create" THEN status[u] = "NONE" /\ account[u] # "deleted"
                               ELSE status[u] # "NONE"

WriteOwnRow(t) ==
    /\ req[t].phase = "loaded"
    /\ OwnRowWritable(t)
    /\ req' = [req EXCEPT ![t].phase = "written"]
    /\ UNCHANGED <<rows, event, lock, account>>

PromoteFirstWaitlisted(t) ==
    /\ req[t].phase = "written"
    /\ req[t].head # Nobody
    /\ status[req[t].head] # "NONE"
    /\ req' = [req EXCEPT ![t].phase = "promoted"]
    /\ UNCHANGED <<rows, event, lock, account>>

(* Mutant: a promotion that finds no row is not an error.                  *)
OwnWriteFails(t) ==
    /\ req[t].phase = "loaded" /\ ~OwnRowWritable(t)
    /\ Finish(t)
    /\ Unlock(t)
    /\ UNCHANGED <<rows, event>>

(* P2002, P2003 or P2025: the whole transaction is rolled back.            *)
WriteFails(t) ==
    /\ \/ req[t].phase = "loaded" /\ ~OwnRowWritable(t)
       \/ /\ req[t].phase = "written"
          /\ req[t].head # Nobody
          /\ status[req[t].head] = "NONE"
    /\ Finish(t)
    /\ Unlock(t)
    /\ UNCHANGED <<rows, event>>

(* The mail goes out before the commit; it is not sent when the user does  *)
(* not want mail, and a failure is caught.                                 *)
NotifyPromotedUser(t) ==
    /\ req[t].phase = "promoted"
    /\ req[t].op # "remove"
    /\ told' \in {told, told \union {req[t].head}}
    /\ req' = [req EXCEPT ![t].phase = "notified"]
    /\ UNCHANGED <<status, older, misled, event, lock, account>>

AllWritten(t) ==
    \/ req[t].phase = "written" /\ req[t].head = Nobody
    \/ req[t].phase = "promoted" /\ req[t].op = "remove"
    \/ req[t].phase = "notified"

(* Mutant: the promotion is written outside the transaction, and lost.     *)
CommitOwnRow(t) ==
    /\ AllWritten(t)
    /\ LET u == req[t].user
           own == req[t].own
       IN /\ status' = [status EXCEPT ![u] = own]
          /\ older' = IF own = "NONE" THEN Without(older, u) ELSE Touch(older, Rows, u)
          /\ told' = IF own = "GOING" THEN told ELSE told \ {u}
          /\ misled' = IF own = "GOING" THEN misled ELSE misled \ {u}
    /\ Finish(t)
    /\ Unlock(t)
    /\ UNCHANGED event

Commit(t) ==
    /\ AllWritten(t)
    /\ LET u == req[t].user
           own == req[t].own
           head == req[t].head
           first == IF own = "NONE" THEN Without(older, u) ELSE Touch(older, Rows, u)
           left == IF own = "NONE" THEN Rows \ {u} ELSE Rows \union {u}
       IN /\ status' = [v \in Users |-> IF v = u THEN own
                                        ELSE IF v = head THEN "GOING"
                                        ELSE status[v]]
          /\ older' = IF head = Nobody THEN first ELSE Touch(first, left, head)
          /\ told' = IF own = "GOING" THEN told ELSE told \ {u}
          /\ misled' = IF own = "GOING" THEN misled \ {head} ELSE misled \ {u, head}
    /\ Finish(t)
    /\ Unlock(t)
    /\ UNCHANGED event

(* Prisma gives up on a transaction after its timeout and rolls it back,   *)
(* the mails it has sent excepted.  The callback goes on: a mail on its way*)
(* is still sent.                                                          *)
Expire(t) ==
    /\ t \in MayExpire
    /\ req[t].phase \notin {"idle", "late"}
    /\ IF req[t].phase = "promoted" /\ req[t].op # "remove"
       THEN req' = [req EXCEPT ![t].phase = "late"] /\ UNCHANGED account
       ELSE Finish(t)
    /\ misled' = IF req[t].phase = "notified" THEN misled \union (told \intersect {req[t].head})
                                              ELSE misled
    /\ Unlock(t)
    /\ UNCHANGED <<status, older, told, event>>

LateMail(t) ==
    /\ req[t].phase = "late"
    /\ told' \in {told, told \union {req[t].head}}
    /\ misled' = misled \union (told' \ told)
    /\ Finish(t)
    /\ UNCHANGED <<status, older, event, lock>>

-----------------------------------------------------------------------------
(* Writers that do not take the lock.                                      *)

(* Rows a transaction has written and not committed: other writers wait.   *)
RowHeld(u) ==
    \E t \in Requests :
        \/ req[t].phase \in {"written", "promoted", "notified"} /\ req[t].user = u
        \/ req[t].phase \in {"promoted", "notified"} /\ req[t].head = u

(* createInvitations: the insert of a child row needs a share of the event *)
(* row, which a seat transaction refuses until it commits.                 *)
Invite(u) ==
    /\ window = "open"
    /\ lock = Nobody
    /\ status[u] = "NONE"
    /\ account[u] # "deleted"
    /\ status' = [status EXCEPT ![u] = "INVITED"]
    /\ older' = Touch(older, Rows, u)
    /\ UNCHANGED <<event, lock, req, account, told, misled>>

Decline(u) ==
    /\ window \in {"open", "external"}
    /\ status[u] = "INVITED"
    /\ ~RowHeld(u)
    /\ status' = [status EXCEPT ![u] = "NOT_GOING"]
    /\ older' = Touch(older, Rows, u)
    /\ UNCHANGED <<event, lock, req, account, told, misled>>

(* UsersService.remove: release the seat in a request of its own, then     *)
(* delete the account and everything that hangs off it.                    *)
StartDeletion(t, u) ==
    /\ req[t].phase = "idle"
    /\ u \in Deleters
    /\ account[u] = "active"
    /\ IF status[u] \in {"GOING", "WAITLISTED"} /\ window # "ended"
       THEN /\ account' = [account EXCEPT ![u] = "releasing"]
            /\ req' = [req EXCEPT ![t] = [Idle EXCEPT !.phase = "waiting",
                                                      !.op = "release",
                                                      !.user = u]]
       ELSE /\ account' = [account EXCEPT ![u] = "released"]
            /\ UNCHANGED req
    /\ UNCHANGED <<rows, event, lock>>

Cascade(u) ==
    /\ account[u] = "released"
    /\ ~RowHeld(u)
    /\ account' = [account EXCEPT ![u] = "deleted"]
    /\ status' = [status EXCEPT ![u] = "NONE"]
    /\ older' = Without(older, u)
    /\ told' = told \ {u} /\ misled' = misled \ {u}
    /\ UNCHANGED <<event, lock, req>>

(* EventsService.update: the count is compared before the transaction that *)
(* saves the event, whose row it needs.                                    *)
AssertCapacityNotBelowGoing(e, c) ==
    /\ edit[e] = Nobody
    /\ c # Unlimited => Cardinality(Going) <= c
    /\ edit' = [edit EXCEPT ![e] = c]
    /\ UNCHANGED <<rows, capacity, window, lock, req, account>>

SaveEvent(e) ==
    /\ edit[e] # Nobody
    /\ lock = Nobody
    /\ capacity' = edit[e]
    /\ window' \in Windows
    /\ edit' = [edit EXCEPT ![e] = Nobody]
    /\ UNCHANGED <<rows, lock, req, account>>

TimePasses ==
    /\ \/ window = "closed" /\ window' \in Windows \intersect {"open", "ended"}
       \/ window = "open" /\ window' \in Windows \intersect {"closed", "ended"}
    /\ UNCHANGED <<rows, capacity, edit, lock, req, account>>

-----------------------------------------------------------------------------
Decide(t) ==
    Create(t) \/ TakeSeat(t) \/ ReleaseSeat(t) \/ LeaveWaitlist(t) \/ Remove(t) \/ Refuse(t)

Advance(t) ==
    \/ WriteOwnRow(t) \/ PromoteFirstWaitlisted(t) \/ WriteFails(t)
    \/ NotifyPromotedUser(t) \/ Commit(t) \/ LateMail(t)

Next ==
    \/ \E t \in Requests :
          \/ \E op \in UserOps, u \in Users : Begin(t, op, u)
          \/ Decide(t)
          \/ Advance(t)
          \/ Expire(t)
          \/ \E u \in Users : StartDeletion(t, u)
    \/ \E u \in Users : Invite(u) \/ Decline(u) \/ Cascade(u)
    \/ \E e \in Editors : \/ \E c \in Capacities : AssertCapacityNotBelowGoing(e, c)
                          \/ SaveEvent(e)
    \/ TimePasses

Spec == Init /\ [][Next]_vars

(* A transaction that has the lock runs on, and Postgres hands a row lock  *)
(* to the transactions queued for it in turn.                              *)
Fairness ==
    \A t \in Requests : WF_vars(Advance(t)) /\ SF_vars(Decide(t))

FairSpec == Spec /\ Fairness
-----------------------------------------------------------------------------
(* getPositionInWaitlist: those a waiting user has to let go first.        *)
AheadOf(u) == {v \in Waiting : <<v, u>> \in older}

(* No capacity is exceeded while nobody edits it: two requests never both  *)
(* take the last seat.                                                     *)
CapacityRespected == capacity # Unlimited => Cardinality(Going) <= capacity

(* Nobody waits for a seat that is free: every seat that a leaver, a ban   *)
(* or a removal frees is filled in the same transaction.                   *)
NoIdleSeat ==
    Waiting # {} => capacity # Unlimited /\ Cardinality(Going) >= capacity

(* Whatever else happens to the event, attendance only grows into seats    *)
(* that the capacity of that moment has.                                   *)
GrowthWithinCapacity ==
    [][Cardinality(Going') > Cardinality(Going)
          => capacity' = Unlimited \/ Cardinality(Going') <= capacity']_vars

(* A seat given up by a transaction is filled while anybody waits: two     *)
(* leavers never promote the same head of the waitlist.                    *)
FreedSeatRefilled ==
    [][\A u \in Users :
          status[u] = "GOING" /\ status'[u] # "GOING" /\ account'[u] # "deleted"
             => Waiting' = {} \/ Cardinality(Going') = Cardinality(Going)]_vars

(* The waitlist is served in order: nobody moves from it to a seat past    *)
(* somebody who waits longer and goes on waiting.                          *)
NoOvertaking ==
    [][\A v, w \in Waiting :
          status'[w] = "GOING" /\ <<v, w>> \in older
             => status'[v] # "WAITLISTED"]_vars

(* Who waits never falls back: no write to a registration (updatedAt is    *)
(* the order of the queue) lets anybody in ahead.                          *)
PlaceNeverWorsens ==
    [][\A u \in Waiting : u \in Waiting' => AheadOf(u)' \subseteq AheadOf(u)]_vars

(* A ban lasts until the arranger removes the registration or the account  *)
(* goes: no request that started earlier undoes it.                        *)
BannedStays ==
    [][\A u \in Users :
          status[u] = "BANNED" => status'[u] \in {"BANNED", "NONE"}]_vars

(* Who was told of a seat has it, or gets it in the transaction that told, *)
(* unless one that had told of it was given up by Prisma (the mail is sent *)
(* inside the transaction): only then does a mail speak of a seat that its *)
(* reader has not got.                                                     *)
PromotionMailTrue ==
    \A u \in told \ misled :
        \/ status[u] = "GOING"
        \/ \E t \in Requests : req[t].phase = "notified" /\ req[t].head = u

(* False, as the transaction may be given up once the mail is out: whoever *)
(* has been told of a seat has it or gets it.                              *)
ToldHaveSeats ==
    \A u \in told :
        \/ status[u] = "GOING"
        \/ \E t \in Requests : req[t].phase = "notified" /\ req[t].head = u

(* The deletion of an account leaves no seat empty with people waiting.    *)
DeletionGivesSeatBack ==
    [][\A u \in Users :
          account'[u] = "deleted" /\ status[u] = "GOING"
             => Waiting' = {}]_vars

(* Every request is answered.                                              *)
EveryRequestEnds ==
    \A t \in Requests : req[t].phase = "waiting" ~> req[t].phase = "idle"
=============================================================================
