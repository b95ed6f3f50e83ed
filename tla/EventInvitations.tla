-------------------------- MODULE EventInvitations --------------------------
(***************************************************************************)
(* The invitations to one event and the registrations they lead to.        *)
(* Accepting takes a seat in a transaction of its own, on a connection of  *)
(* its own, from inside the transaction that answers the invitation.       *)
(***************************************************************************)
EXTENDS Integers, FiniteSets

CONSTANTS Inviters, Invitees,
          Requests,   \* slots for requests that run at the same time
          MayExpire,  \* requests whose transaction may time out
          Pool,       \* connections to the database
          Ops,        \* what requests do
          Leavers,    \* whose accounts are deleted
          Nobody

People == Inviters \union Invitees

ASSUME PoolAssumption ==
    /\ Pool \in Nat /\ MayExpire \subseteq Requests /\ Leavers \subseteq People
    /\ Nobody \notin Requests \union People
    /\ IsFiniteSet(Requests) /\ Ops \subseteq {"accept", "decline", "create"}

VARIABLES invitation,    \* what each invitee was sent by each inviter
          registration,  \* the invitee's; HELD is GOING or WAITLISTED
          window,
          deletion,      \* of the event: holding its row, or done
          account,       \* here, its deletion holding rows, or gone
          bereft,        \* history, see InvitedCanAnswer
          held,          \* the request that wrote an invitee's invitations
          req

vars == <<invitation, registration, window, deletion, account, bereft, held, req>>

InvitationStatus == {"PENDING", "ACCEPTED", "DECLINED", "IGNORED"}
RegStatus == {"INVITED", "HELD", "NOT_GOING", "BANNED"}
Phases == {"idle", "opened", "gated", "nested", "seated", "orphaned"}

Idle == [phase |-> "idle", op |-> "accept", user |-> Nobody, from |-> Nobody,
         matched |-> {}, seen |-> "NONE"]
Request == [phase : Phases, op : {"accept", "decline", "create"}, user : Invitees \union {Nobody},
            from : Inviters \union {Nobody}, matched : SUBSET Inviters,
            seen : {"NONE", "HELD", "OTHER"}]

TypeOK ==
    /\ invitation \in [Invitees -> [Inviters -> InvitationStatus \union {"NONE"}]]
    /\ registration \in [Invitees -> RegStatus \union {"NONE"}]
    /\ window \in {"open", "closed"}
    /\ deletion \in {"no", "holds", "done"}
    /\ account \in [People -> {"here", "leaving", "gone"}]
    /\ bereft \subseteq Invitees
    /\ held \in [Invitees -> Requests \union {Nobody}]
    /\ req \in [Requests -> Request]

Init ==
    /\ registration \in [Invitees -> {"NONE", "NOT_GOING", "INVITED", "BANNED"}]
    /\ \E from \in [Invitees -> Inviters] :
          invitation = [u \in Invitees |-> [i \in Inviters |->
                           IF registration[u] = "INVITED" /\ i = from[u] THEN "PENDING" ELSE "NONE"]]
    /\ window = "open"
    /\ deletion = "no"
    /\ account = [p \in People |-> "here"] /\ bereft = {}
    /\ held = [u \in Invitees |-> Nobody]
    /\ req = [t \in Requests |-> Idle]

(* An accept has two connections while its inner transaction runs.         *)
InUse == Cardinality({t \in Requests : req[t].phase # "idle"})
       + Cardinality({t \in Requests : req[t].phase = "nested"})

Pending(u) == {i \in Inviters : invitation[u][i] = "PENDING"}
Unanswered(u) == {i \in Inviters : invitation[u][i] \in {"PENDING", "IGNORED"}}
Answered(u, from, to) ==
    [invitation EXCEPT ![u] = [i \in Inviters |-> IF i \in from THEN to ELSE @[i]]]
Unhold(t) == [u \in Invitees |-> IF held[u] = t THEN Nobody ELSE held[u]]

(* The transaction of t ends and leaves nothing behind.                    *)
RollBack(t) ==
    /\ held' = Unhold(t)
    /\ req' = [req EXCEPT ![t] = Idle]
    /\ UNCHANGED <<invitation, registration, window, deletion, account, bereft>>

-----------------------------------------------------------------------------
(* What matters of a registration to who sends an invitation.              *)
Seen(status) == IF status \in {"NONE", "HELD"} THEN status ELSE "OTHER"

(* Every request is somebody's; it reads the event and checks its window.  *)
Open(t, op, u, i) ==
    /\ req[t].phase = "idle"
    /\ InUse < Pool
    /\ window = "open"
    /\ op = "create" => deletion # "done"
    /\ (i = Nobody) <=> (op # "create")
    /\ account[IF op = "create" THEN i ELSE u] # "gone"
    /\ req' = [req EXCEPT ![t] =
                  [phase |-> "opened", op |-> op, user |-> u, from |-> i, matched |-> {},
                   seen |-> IF op # "create" THEN "NONE" ELSE Seen(registration[u])]]
    /\ UNCHANGED <<invitation, registration, window, deletion, account, bereft, held>>

(* Mutant: any invitation can be accepted, answered or not.                *)
GateAnything(t) ==
    LET u == req[t].user
        sent == {i \in Inviters : invitation[u][i] # "NONE"}
    IN /\ req[t].phase = "opened" /\ req[t].op = "accept"
       /\ held[u] = Nobody
       /\ sent # {}
       /\ held' = [held EXCEPT ![u] = t]
       /\ req' = [req EXCEPT ![t].phase = "gated", ![t].matched = sent]
       /\ UNCHANGED <<invitation, registration, window, deletion, account, bereft>>

(* Mutant: the count of the update is not looked at.                       *)
GateUnchecked(t) ==
    LET u == req[t].user
    IN /\ req[t].phase = "opened" /\ req[t].op = "accept"
       /\ held[u] = Nobody
       /\ held' = [held EXCEPT ![u] = t]
       /\ req' = [req EXCEPT ![t].phase = "gated", ![t].matched = Pending(u)]
       /\ UNCHANGED <<invitation, registration, window, deletion, account, bereft>>

(* "The update's own count is the gate": updateMany waits for whoever has  *)
(* these rows and then only finds the ones that are still PENDING.         *)
Gate(t) ==
    LET u == req[t].user
    IN /\ req[t].phase = "opened" /\ req[t].op = "accept"
       /\ held[u] = Nobody
       /\ Pending(u) # {}
       /\ held' = [held EXCEPT ![u] = t]
       /\ req' = [req EXCEPT ![t].phase = "gated", ![t].matched = Pending(u)]
       /\ UNCHANGED <<invitation, registration, window, deletion, account, bereft>>

NothingPending(t) ==
    /\ req[t].phase = "opened" /\ req[t].op = "accept"
    /\ held[req[t].user] = Nobody
    /\ Pending(req[t].user) = {}
    /\ RollBack(t)

(* userRegistrationsService.update begins its own transaction.             *)
Nest(t) ==
    /\ req[t].phase = "gated" /\ req[t].op = "accept"
    /\ InUse < Pool
    /\ req' = [req EXCEPT ![t].phase = "nested"]
    /\ UNCHANGED <<invitation, registration, window, deletion, account, bereft, held>>

(* It holds the event, so it waits for a deletion; it commits by itself.   *)
(* Only NOT_GOING and INVITED lead to a seat: the rest is left as it was.  *)
Seat(t) ==
    LET u == req[t].user
    IN /\ req[t].phase \in {"nested", "orphaned"}
       /\ deletion = "no" /\ window = "open"
       /\ registration[u] # "NONE"
       /\ registration[u] \in {"NOT_GOING", "INVITED"} => account[u] # "leaving"
       /\ registration' = [registration EXCEPT ![u] =
                              IF @ \in {"NOT_GOING", "INVITED"} THEN "HELD" ELSE @]
       /\ req' = [req EXCEPT ![t] = IF @.phase = "nested" THEN [@ EXCEPT !.phase = "seated"]
                                                          ELSE Idle]
       /\ UNCHANGED <<invitation, window, deletion, account, bereft, held>>

(* The window closed meanwhile, or there is no registration or event.      *)
SeatRefused(t) ==
    /\ req[t].phase \in {"nested", "orphaned"}
    /\ deletion # "holds"
    /\ deletion = "done" \/ window # "open" \/ registration[req[t].user] = "NONE"
    /\ RollBack(t)

CommitAccept(t) ==
    /\ req[t].phase = "seated"
    /\ invitation' = Answered(req[t].user, req[t].matched, "ACCEPTED")
    /\ held' = Unhold(t)
    /\ req' = [req EXCEPT ![t] = Idle]
    /\ UNCHANGED <<registration, window, deletion, account, bereft>>

-----------------------------------------------------------------------------
(* Declining writes the invitations, then the registration.                *)
DeclineInvitations(t) ==
    LET u == req[t].user
    IN /\ req[t].phase = "opened" /\ req[t].op = "decline"
       /\ held[u] = Nobody
       /\ held' = [held EXCEPT ![u] = IF Pending(u) = {} THEN Nobody ELSE t]
       /\ req' = [req EXCEPT ![t].phase = "gated", ![t].matched = Pending(u)]
       /\ UNCHANGED <<invitation, registration, window, deletion, account, bereft>>

(* Mutant: declining leaves the registration as it is.                     *)
CommitDeclineOnly(t) ==
    /\ req[t].phase = "gated" /\ req[t].op = "decline"
    /\ invitation' = Answered(req[t].user, req[t].matched, "DECLINED")
    /\ held' = Unhold(t)
    /\ req' = [req EXCEPT ![t] = Idle]
    /\ UNCHANGED <<registration, window, deletion, account, bereft>>

CommitDecline(t) ==
    /\ req[t].phase = "gated" /\ req[t].op = "decline"
    /\ registration[req[t].user] = "INVITED" => account[req[t].user] # "leaving"
    /\ invitation' = Answered(req[t].user, req[t].matched, "DECLINED")
    /\ registration' = [registration EXCEPT ![req[t].user] =
                            IF @ = "INVITED" THEN "NOT_GOING" ELSE @]
    /\ held' = Unhold(t)
    /\ req' = [req EXCEPT ![t] = Idle]
    /\ UNCHANGED <<window, deletion, account, bereft>>

(* One statement, outside a transaction: by the invitee, or by a reader of *)
(* the list once the event has ended.                                      *)
Ignore(u) ==
    /\ held[u] = Nobody
    /\ Pending(u) # {}
    /\ invitation' = Answered(u, Pending(u), "IGNORED")
    /\ UNCHANGED <<registration, window, deletion, account, bereft, held, req>>

(* createInvitations writes from the registration it read before; a pair   *)
(* that already has an invitation is skipped.                              *)
WriteInvitation(t) ==
    LET u == req[t].user
        i == req[t].from
        seen == req[t].seen
    IN /\ req[t].phase = "opened" /\ req[t].op = "create"
       /\ deletion = "no" /\ account[u] = "here" /\ account[i] = "here"
       /\ seen = "NONE" => registration[u] = "NONE"
       /\ invitation' = [invitation EXCEPT ![u][i] =
                            IF @ # "NONE" THEN @
                            ELSE IF seen = "HELD" THEN "ACCEPTED" ELSE "PENDING"]
       /\ registration' = [registration EXCEPT ![u] = IF seen = "NONE" THEN "INVITED" ELSE @]
       /\ req' = [req EXCEPT ![t] = Idle]
       /\ UNCHANGED <<window, deletion, account, bereft, held>>

(* Somebody else registered the invitee meanwhile, or the event or one of  *)
(* the two accounts is gone.                                               *)
WriteFails(t) ==
    /\ req[t].phase = "opened" /\ req[t].op = "create"
    /\ \/ deletion = "no" /\ req[t].seen = "NONE" /\ registration[req[t].user] # "NONE"
       \/ deletion = "done"
       \/ "gone" \in {account[req[t].user], account[req[t].from]}
    /\ RollBack(t)

-----------------------------------------------------------------------------
(* The registration service, for requests that are not answers: joining,   *)
(* leaving, and what arrangers do, all under the lock of the event.        *)
SeatChange(u) ==
    /\ deletion = "no" /\ account[u] = "here"
    /\ \/ /\ window = "open" /\ registration[u] \in {"NONE", "NOT_GOING", "INVITED"}
          /\ registration' = [registration EXCEPT ![u] = "HELD"]
          /\ UNCHANGED bereft
       \/ /\ registration[u] = "HELD"
          /\ registration' \in {[registration EXCEPT ![u] = s] : s \in {"NOT_GOING", "BANNED"}}
          /\ UNCHANGED bereft
       \/ /\ registration[u] # "NONE"
          /\ registration' = [registration EXCEPT ![u] = "NONE"]
          /\ bereft' = bereft \union {u}
    /\ UNCHANGED <<invitation, window, deletion, account, held, req>>

TimePasses ==
    /\ window = "open" /\ window' = "closed"
    /\ UNCHANGED <<invitation, registration, deletion, account, bereft, held, req>>

(* Deleting the event holds its row while the cascade waits for the rows   *)
(* of the invitations.                                                     *)
StartDeletion ==
    /\ deletion = "no"
    /\ deletion' = "holds"
    /\ UNCHANGED <<invitation, registration, window, account, bereft, held, req>>

FinishDeletion ==
    /\ deletion = "holds"
    /\ \A u \in Invitees : held[u] = Nobody
    /\ deletion' = "done"
    /\ invitation' = [u \in Invitees |-> [i \in Inviters |-> "NONE"]]
    /\ registration' = [u \in Invitees |-> "NONE"]
    /\ bereft' = {}
    /\ UNCHANGED <<window, account, held, req>>

(* Deleting an account deletes the user.  The cascade takes registrations  *)
(* first and then waits for the rows of answers in progress.  (When that   *)
(* times out it was a wait and no more, which is left out.)                *)
StartLeaving(p) ==
    /\ p \in Invitees /\ account[p] = "here"
    /\ account' = [account EXCEPT ![p] = "leaving"]
    /\ UNCHANGED <<invitation, registration, window, deletion, bereft, held, req>>

(* Invitations go with their sender and with who was sent them.            *)
FinishLeaving(p) ==
    LET lost == {u \in Invitees : Unanswered(u) = {p}}
    IN /\ account[p] = IF p \in Invitees THEN "leaving" ELSE "here"
       /\ \A u \in Invitees : held[u] # Nobody => p # u /\ p \notin req[held[u]].matched
       /\ account' = [account EXCEPT ![p] = "gone"]
       /\ invitation' = [u \in Invitees |-> [i \in Inviters |->
                            IF p \in {u, i} THEN "NONE" ELSE invitation[u][i]]]
       /\ registration' = [u \in Invitees |-> IF u = p THEN "NONE" ELSE registration[u]]
       /\ bereft' = (bereft \union lost) \ {p}
       /\ UNCHANGED <<window, deletion, held, req>>

(* Mutant: a transaction may take as long as it likes.                     *)
NeverExpire(t) == FALSE

(* The outer transaction times out.  An inner one that runs is not part of *)
(* it and goes on.                                                         *)
Expire(t) ==
    /\ t \in MayExpire
    /\ \/ req[t].phase \in {"opened", "gated", "seated"} /\ RollBack(t)
       \/ /\ req[t].phase = "nested"
          /\ held' = Unhold(t)
          /\ req' = [req EXCEPT ![t].phase = "orphaned"]
          /\ UNCHANGED <<invitation, registration, window, deletion, account, bereft>>

-----------------------------------------------------------------------------
Advance(t) ==
    \/ Gate(t) \/ NothingPending(t) \/ Nest(t) \/ Seat(t) \/ SeatRefused(t)
    \/ CommitAccept(t) \/ DeclineInvitations(t) \/ CommitDecline(t)
    \/ WriteInvitation(t) \/ WriteFails(t)

Next ==
    \/ \E t \in Requests :
          \/ \E op \in Ops, u \in Invitees, i \in Inviters \union {Nobody} : Open(t, op, u, i)
          \/ Advance(t)
          \/ Expire(t)
    \/ \E u \in Invitees : Ignore(u) \/ SeatChange(u)
    \/ \E p \in Leavers : StartLeaving(p) \/ FinishLeaving(p)
    \/ TimePasses \/ StartDeletion \/ FinishDeletion

Spec == Init /\ [][Next]_vars

(* Code that can run runs, timers fire, who waits for rows gets its turn.  *)
Fairness ==
    /\ \A t \in Requests : WF_vars(Advance(t)) /\ WF_vars(Expire(t))
    /\ SF_vars(FinishDeletion)
    /\ \A p \in Leavers \intersect Invitees : SF_vars(FinishLeaving(p))

FairSpec == Spec /\ Fairness
-----------------------------------------------------------------------------
(* The invitation went with the event or with an account.                  *)
Cascaded(u, i) == deletion = "done" \/ "gone" \in {account[u], account[i]}

(* Declined, ignored and accepted are final: no replay, no second request  *)
(* and no sweep changes an answer, until a cascade takes the row.          *)
AnswersStand ==
    [][\A u \in Invitees, i \in Inviters :
          invitation[u][i] \notin {"NONE", "PENDING"} /\ ~Cascaded(u, i)'
             => invitation'[u][i] = invitation[u][i]]_vars

(* The seat is taken in a transaction of its own, with an invitation that  *)
(* is still PENDING and that the request will accept: answers, the sweep   *)
(* and other requests keep off it meanwhile.  Only a request whose answer  *)
(* timed out seats somebody who was invited and may have declined since.   *)
SeatHasInvitation ==
    \A t \in Requests :
        LET u == req[t].user
        IN req[t].op = "accept" /\ req[t].phase \in {"nested", "seated", "orphaned"}
           => \E i \in req[t].matched :
                 \/ invitation[u][i] = "PENDING"
                 \/ req[t].phase = "orphaned" /\ (invitation[u][i] # "NONE" \/ Cascaded(u, i))

(* Accepting is never half done: a request that has seated the invitee     *)
(* ends with every invitation it matched ACCEPTED, or, when it timed out,  *)
(* with every one still PENDING, to be accepted again.                     *)
AcceptIsWhole ==
    [][\A t \in Requests :
          req[t].phase = "seated" /\ req'[t].phase = "idle"
          => \E to \in {"ACCEPTED"} \union (IF t \in MayExpire THEN {"PENDING"} ELSE {}) :
                \A i \in req[t].matched : invitation'[req[t].user][i] = to]_vars

(* INVITED lets somebody see a private event: whoever is still INVITED has *)
(* an invitation that was not turned down or used, except who was taken    *)
(* off the event by an arranger or lost the last such invitation with the  *)
(* account of whoever sent it.                                             *)
InvitedCanAnswer ==
    \A u \in Invitees \ bereft :
        registration[u] = "INVITED" =>
           \E i \in Inviters : invitation[u][i] \in {"PENDING", "IGNORED"}

(* Nobody waits forever, even when every connection belongs to an accept   *)
(* that needs a second one, or the deletion of the event and an accept     *)
(* wait for each other, which the database cannot see.                     *)
RequestsEnd ==
    \A t \in Requests : req[t].phase # "idle" ~> req[t].phase = "idle"
=============================================================================
