----------------------- MODULE EventInvitationProofs -----------------------
(***************************************************************************)
(* Theorems about EventInvitations for any inviters, invitees, requests    *)
(* and pool of connections.                                                *)
(***************************************************************************)
EXTENDS EventInvitations, TLAPS

(* A request is about somebody, and one that has written holds every row   *)
(* that it is about to answer.                                             *)
Known(u, i) == invitation[u][i] # "NONE" \/ Cascaded(u, i)
RowsHeld ==
    \A t \in Requests :
        LET r == req[t]
        IN /\ r.phase # "idle" => r.user \in Invitees
           /\ r.phase = "opened" /\ r.op = "create" => r.from \in Inviters
           /\ r.phase \in {"nested", "seated", "orphaned"} => r.op = "accept"
           /\ r.phase \in {"gated", "nested", "seated"} =>
                 /\ r.op = "accept" => r.matched # {}
                 /\ r.matched # {} => held[r.user] = t
                 /\ \A i \in r.matched : invitation[r.user][i] = "PENDING"
           /\ r.phase = "orphaned" => r.matched # {} /\ \A i \in r.matched : Known(r.user, i)

AnswerInv == TypeOK /\ RowsHeld

LEMMA IdleRequest == Idle \in Request /\ Idle.phase = "idle"
BY DEF Idle, Request, Phases

LEMMA InitAnswers == Init => AnswerInv
<1> SUFFICES ASSUME Init PROVE AnswerInv
  OBVIOUS
<1>1. \A t \in Requests : req[t].phase = "idle"
  BY IdleRequest DEF Init
<1>2. TypeOK
  <2>1. invitation \in [Invitees -> [Inviters -> InvitationStatus \union {"NONE"}]]
    BY DEF Init, InvitationStatus
  <2> QED
    BY <2>1, IdleRequest DEF Init, TypeOK, RegStatus
<1> QED
  BY <1>1, <1>2 DEF AnswerInv, RowsHeld

LEMMA UnholdRows ==
    ASSUME TypeOK, NEW t \in Requests
    PROVE  /\ Unhold(t) \in [Invitees -> Requests \union {Nobody}]
           /\ \A u \in Invitees : held[u] # t => Unhold(t)[u] = held[u]
BY DEF Unhold, TypeOK

LEMMA AnsweredRows ==
    ASSUME TypeOK, NEW u \in Invitees, NEW from, NEW to \in InvitationStatus
    PROVE  /\ Answered(u, from, to) \in [Invitees -> [Inviters -> InvitationStatus \union {"NONE"}]]
           /\ \A v \in Invitees, i \in Inviters :
                 Answered(u, from, to)[v][i] =
                    IF v = u /\ i \in from THEN to ELSE invitation[v][i]
BY DEF Answered, TypeOK

(* Invitations are not taken back, but by a cascade.                       *)
LEMMA KnownStays ==
    ASSUME UNCHANGED <<deletion, account>>,
           \A u \in Invitees, i \in Inviters : invitation[u][i] # "NONE" => invitation'[u][i] # "NONE"
    PROVE  \A u \in Invitees, i \in Inviters : Known(u, i) => Known(u, i)'
BY DEF Known, Cascaded

(* A step of t that keeps or gives up its own locks, and writes no row     *)
(* that another request holds, leaves what the others hold.                *)
LEMMA OthersHold ==
    ASSUME AnswerInv, NEW t \in Requests,
           \A s \in Requests \ {t} : req'[s] = req[s],
           \A u \in Invitees : held[u] \notin {t, Nobody} => held'[u] = held[u],
           \A u \in Invitees, i \in Inviters :
              held[u] \notin {t, Nobody} /\ invitation[u][i] = "PENDING"
                 => invitation'[u][i] = "PENDING",
           \A u \in Invitees, i \in Inviters : invitation[u][i] # "NONE" => invitation'[u][i] # "NONE",
           UNCHANGED <<deletion, account>>
    PROVE  \A s \in Requests \ {t} : RowsHeld!(s)'
<1> SUFFICES ASSUME NEW s \in Requests \ {t} PROVE RowsHeld!(s)'
  OBVIOUS
<1>1. req'[s] = req[s] /\ req[s] \in Request
  BY DEF AnswerInv, TypeOK
<1>2. RowsHeld!(s)
  BY DEF AnswerInv, RowsHeld
<1>3. req[s].matched \subseteq Inviters /\ s # Nobody
  BY <1>1, PoolAssumption DEF Request
<1>4. req[s].phase = "orphaned" => \A i \in req[s].matched : Known(req[s].user, i)'
  BY <1>2, <1>3, KnownStays
<1> QED
  BY <1>1, <1>2, <1>3, <1>4

LEMMA RollBackKeeps == ASSUME AnswerInv, NEW t \in Requests, RollBack(t) PROVE AnswerInv'
<1>1. /\ held' = Unhold(t) /\ req' = [req EXCEPT ![t] = Idle]
      /\ UNCHANGED <<invitation, registration, window, deletion, account, bereft>>
  BY DEF RollBack
<1>2. TypeOK'
  BY <1>1, UnholdRows, IdleRequest DEF AnswerInv, TypeOK
<1>3. \A s \in Requests \ {t} : RowsHeld!(s)'
  <2>1. \A s \in Requests \ {t} : req'[s] = req[s]
    BY <1>1 DEF AnswerInv, TypeOK
  <2>2. \A u \in Invitees : held[u] \notin {t, Nobody} => held'[u] = held[u]
    BY <1>1, UnholdRows DEF AnswerInv
  <2> QED
    BY <1>1, <2>1, <2>2, OthersHold
<1>4. req'[t] = Idle
  BY <1>1 DEF AnswerInv, TypeOK
<1> QED
  BY <1>2, <1>3, <1>4, IdleRequest DEF AnswerInv, RowsHeld

LEMMA RequestSteps ==
    ASSUME AnswerInv, NEW t \in Requests,
           \/ \E op \in Ops, u \in Invitees, i \in Inviters \union {Nobody} : Open(t, op, u, i)
           \/ Advance(t)
           \/ Expire(t)
    PROVE  AnswerInv'
<1>0. /\ TypeOK /\ RowsHeld /\ req[t] \in Request /\ RowsHeld!(t)
      /\ t # Nobody
  BY PoolAssumption DEF AnswerInv, RowsHeld, TypeOK
<1>1. ASSUME NEW op \in Ops, NEW u \in Invitees, NEW i \in Inviters \union {Nobody},
             Open(t, op, u, i)
      PROVE  AnswerInv'
  <2> DEFINE r == [phase |-> "opened", op |-> op, user |-> u, from |-> i, matched |-> {},
                   seen |-> IF op # "create" THEN "NONE" ELSE Seen(registration[u])]
  <2>1. r \in Request
    BY <1>0, PoolAssumption DEF Request, TypeOK, Phases, Seen
  <2>2. /\ r.phase = "opened" /\ r.user \in Invitees
        /\ r.op = "create" => r.from \in Inviters
    BY <1>1, PoolAssumption DEF Open
  <2>3. /\ req' = [req EXCEPT ![t] = r]
        /\ UNCHANGED <<invitation, registration, window, deletion, account, bereft, held>>
    BY <1>1 DEF Open
  <2> HIDE DEF r
  <2>4. req'[t] = r /\ TypeOK'
    BY <1>0, <2>1, <2>3 DEF TypeOK
  <2>5. \A s \in Requests \ {t} : RowsHeld!(s)'
    BY <2>3, <1>0, OthersHold DEF TypeOK
  <2> QED
    BY <2>2, <2>4, <2>5 DEF AnswerInv, RowsHeld
<1>2. ASSUME Gate(t) \/ DeclineInvitations(t) PROVE AnswerInv'
  <2> DEFINE u == req[t].user
             r == [req[t] EXCEPT !.phase = "gated", !.matched = Pending(u)]
  <2>1. /\ u \in Invitees /\ held[u] = Nobody /\ req[t].phase = "opened"
        /\ req[t].op \in {"accept", "decline"}
        /\ req[t].op = "accept" => Pending(u) # {}
        /\ held' \in {[held EXCEPT ![u] = t], held}
        /\ Pending(u) # {} => held'[u] = t
        /\ req' = [req EXCEPT ![t] = r]
        /\ UNCHANGED <<invitation, registration, window, deletion, account, bereft>>
    <3>1. CASE Gate(t)
      BY <1>0, <3>1 DEF Gate, TypeOK
    <3>2. CASE DeclineInvitations(t) /\ Pending(u) # {}
      BY <1>0, <3>2 DEF DeclineInvitations, TypeOK
    <3>3. CASE DeclineInvitations(t) /\ Pending(u) = {}
      <4>1. u \in Invitees /\ held[u] = Nobody /\ held' = [held EXCEPT ![u] = Nobody]
        BY <1>0, <3>3 DEF DeclineInvitations
      <4>2. held' = held
        BY <1>0, <4>1 DEF TypeOK
      <4> QED
        BY <3>3, <4>1, <4>2 DEF DeclineInvitations
    <3> QED
      BY <1>2, <3>1, <3>2, <3>3
  <2>2. /\ r \in Request /\ r.phase = "gated" /\ r.op = req[t].op /\ r.user = u
        /\ r.matched = Pending(u)
    BY <1>0 DEF Request, Pending, Phases
  <2> HIDE DEF r, u
  <2>3. req'[t] = r /\ TypeOK'
    BY <1>0, <2>1, <2>2 DEF TypeOK
  <2>4. \A s \in Requests \ {t} : RowsHeld!(s)'
    BY <2>1, <1>0, OthersHold DEF TypeOK
  <2>5. RowsHeld!(t)'
    BY <2>1, <2>2, <2>3 DEF Pending
  <2> QED
    BY <2>3, <2>4, <2>5 DEF AnswerInv, RowsHeld
<1>3. ASSUME Nest(t) PROVE AnswerInv'
  <2> DEFINE r == [req[t] EXCEPT !.phase = "nested"]
  <2>1. /\ req[t].phase = "gated" /\ req[t].op = "accept" /\ req' = [req EXCEPT ![t] = r]
        /\ UNCHANGED <<invitation, registration, window, deletion, account, bereft, held>>
    BY <1>3 DEF Nest
  <2>2. /\ r \in Request /\ r.phase = "nested" /\ r.op = "accept" /\ r.user = req[t].user
        /\ r.matched = req[t].matched
    BY <1>0, <2>1 DEF Request, Phases
  <2> HIDE DEF r
  <2>3. req'[t] = r /\ TypeOK'
    BY <1>0, <2>1, <2>2 DEF TypeOK
  <2>4. \A s \in Requests \ {t} : RowsHeld!(s)'
    BY <2>1, <1>0, OthersHold DEF TypeOK
  <2> QED
    BY <1>0, <2>1, <2>2, <2>3, <2>4 DEF AnswerInv, RowsHeld
<1>4. ASSUME Seat(t) PROVE AnswerInv'
  <2> DEFINE u == req[t].user
             r == IF req[t].phase = "nested" THEN [req[t] EXCEPT !.phase = "seated"] ELSE Idle
  <2>1. /\ u \in Invitees /\ req' = [req EXCEPT ![t] = r]
        /\ registration' \in [Invitees -> RegStatus \union {"NONE"}]
        /\ UNCHANGED <<invitation, window, deletion, account, bereft, held>>
    BY <1>0, <1>4 DEF Seat, TypeOK, RegStatus
  <2>2. \/ r = Idle
        \/ /\ r \in Request /\ r.phase = "seated" /\ r.op = "accept" /\ r.user = req[t].user
           /\ r.matched = req[t].matched /\ req[t].phase = "nested"
    BY <1>0 DEF Request, Phases
  <2> HIDE DEF r
  <2>3. req'[t] = r /\ TypeOK'
    BY <1>0, <2>1, <2>2, IdleRequest DEF TypeOK
  <2>4. \A s \in Requests \ {t} : RowsHeld!(s)'
    BY <2>1, <1>0, OthersHold DEF TypeOK
  <2>5. RowsHeld!(t)'
    BY <1>0, <2>1, <2>2, <2>3, IdleRequest
  <2> QED
    BY <2>3, <2>4, <2>5 DEF AnswerInv, RowsHeld
<1>5. ASSUME CommitAccept(t) \/ CommitDecline(t) PROVE AnswerInv'
  <2>1. PICK to \in {"ACCEPTED", "DECLINED"} :
           invitation' = Answered(req[t].user, req[t].matched, to)
    BY <1>5 DEF CommitAccept, CommitDecline
  <2>2. /\ held' = Unhold(t) /\ req' = [req EXCEPT ![t] = Idle]
        /\ registration' \in [Invitees -> RegStatus \union {"NONE"}]
        /\ UNCHANGED <<window, deletion, account, bereft>>
        /\ req[t].phase \in {"seated", "gated"} /\ req[t].user \in Invitees
    BY <1>0, <1>5 DEF CommitAccept, CommitDecline, TypeOK, RegStatus
  <2>3. TypeOK'
    BY <1>0, <2>1, <2>2, AnsweredRows, UnholdRows, IdleRequest DEF TypeOK, InvitationStatus
  <2>4. \A v \in Invitees, i \in Inviters :
           /\ held[v] # t => invitation'[v][i] = invitation[v][i]
           /\ invitation[v][i] # "NONE" => invitation'[v][i] # "NONE"
    <3>1. \A v \in Invitees, i \in Inviters :
             invitation'[v][i] = IF v = req[t].user /\ i \in req[t].matched THEN to
                                 ELSE invitation[v][i]
      BY <1>0, <2>1, <2>2, AnsweredRows DEF InvitationStatus
    <3> QED
      BY <3>1, <1>0, <2>2
  <2>5. \A s \in Requests \ {t} : RowsHeld!(s)'
    <3>1. \A s \in Requests \ {t} : req'[s] = req[s]
      BY <1>0, <2>2 DEF TypeOK
    <3>2. \A v \in Invitees : held[v] \notin {t, Nobody} => held'[v] = held[v]
      BY <1>0, <2>2, UnholdRows
    <3> QED
      BY <2>2, <3>1, <3>2, <2>4, OthersHold
  <2>6. req'[t] = Idle
    BY <1>0, <2>2 DEF TypeOK
  <2> QED
    BY <2>3, <2>5, <2>6, IdleRequest DEF AnswerInv, RowsHeld
<1>6. ASSUME WriteInvitation(t) PROVE AnswerInv'
  <2>1. /\ req[t].user \in Invitees /\ req[t].from \in Inviters
        /\ req' = [req EXCEPT ![t] = Idle] /\ UNCHANGED <<window, deletion, account, bereft, held>>
    BY <1>0, <1>6 DEF WriteInvitation
  <2>2. registration' \in [Invitees -> RegStatus \union {"NONE"}]
    BY <1>0, <1>6 DEF WriteInvitation, TypeOK, RegStatus
  <2>3. PICK x \in {"ACCEPTED", "PENDING", invitation[req[t].user][req[t].from]} :
           /\ invitation' = [invitation EXCEPT ![req[t].user][req[t].from] = x]
           /\ invitation[req[t].user][req[t].from] # "NONE" =>
                 x = invitation[req[t].user][req[t].from]
    BY <1>0, <1>6, <2>1 DEF WriteInvitation, TypeOK
  <2>4. invitation[req[t].user][req[t].from] \in InvitationStatus \union {"NONE"}
    BY <1>0, <2>1 DEF TypeOK
  <2>5. /\ invitation' \in [Invitees -> [Inviters -> InvitationStatus \union {"NONE"}]]
        /\ \A v \in Invitees, i \in Inviters :
              invitation[v][i] # "NONE" => invitation'[v][i] = invitation[v][i]
    BY <1>0, <2>1, <2>3, <2>4 DEF TypeOK, InvitationStatus
  <2>6. req'[t] = Idle /\ TypeOK'
    BY <1>0, <2>1, <2>2, <2>5, IdleRequest DEF TypeOK
  <2>7. \A s \in Requests \ {t} : RowsHeld!(s)'
    <3>1. \A s \in Requests \ {t} : req'[s] = req[s]
      BY <1>0, <2>1 DEF TypeOK
    <3>2. \A v \in Invitees, i \in Inviters :
             /\ invitation[v][i] = "PENDING" => invitation'[v][i] = "PENDING"
             /\ invitation[v][i] # "NONE" => invitation'[v][i] # "NONE"
      BY <2>5
    <3> QED
      BY <3>1, <3>2, <2>1, OthersHold
  <2> QED
    BY <2>6, <2>7, IdleRequest DEF AnswerInv, RowsHeld
<1>7. ASSUME NothingPending(t) \/ SeatRefused(t) \/ WriteFails(t) PROVE AnswerInv'
  BY <1>7, RollBackKeeps DEF NothingPending, SeatRefused, WriteFails
<1>8. ASSUME Expire(t) PROVE AnswerInv'
  <2>1. CASE RollBack(t)
    BY <2>1, RollBackKeeps
  <2>2. CASE /\ req[t].phase = "nested" /\ held' = Unhold(t)
             /\ req' = [req EXCEPT ![t].phase = "orphaned"]
             /\ UNCHANGED <<invitation, registration, window, deletion, account, bereft>>
    <3> DEFINE r == [req[t] EXCEPT !.phase = "orphaned"]
    <3>1. /\ r \in Request /\ r.phase = "orphaned" /\ r.op = "accept"
          /\ r.user = req[t].user /\ r.user \in Invitees /\ req' = [req EXCEPT ![t] = r]
      BY <1>0, <2>2 DEF Request, Phases
    <3> HIDE DEF r
    <3>2. req'[t] = r /\ TypeOK'
      BY <1>0, <2>2, <3>1, UnholdRows DEF TypeOK
    <3>3. \A s \in Requests \ {t} : RowsHeld!(s)'
      BY <2>2, <3>1, <1>0, UnholdRows, OthersHold DEF TypeOK
    <3>4. r.matched = req[t].matched /\ r.matched # {} /\ r.matched \subseteq Inviters
      BY <1>0, <2>2 DEF Request, r
    <3>5. \A i \in r.matched : invitation'[r.user][i] # "NONE"
      BY <1>0, <2>2, <3>1, <3>4
    <3>6. RowsHeld!(t)'
      BY <3>1, <3>2, <3>4, <3>5 DEF Known
    <3> QED
      BY <3>2, <3>3, <3>6 DEF AnswerInv, RowsHeld
  <2> QED
    BY <1>8, <2>1, <2>2 DEF Expire
<1> QED
  BY <1>1, <1>2, <1>3, <1>4, <1>5, <1>6, <1>7, <1>8 DEF Advance

(* A step that is no request's, and writes no row that a request holds.    *)
LEMMA RequestsUntouched ==
    ASSUME AnswerInv, UNCHANGED <<held, req>>,
           \A u \in Invitees, i \in Inviters :
              /\ held[u] # Nobody /\ (i \in req[held[u]].matched) /\ invitation[u][i] = "PENDING"
                    => invitation'[u][i] = "PENDING"
              /\ Known(u, i) => Known(u, i)'
    PROVE  RowsHeld'
<1> SUFFICES ASSUME NEW s \in Requests PROVE RowsHeld!(s)'
  BY DEF RowsHeld
<1>1. RowsHeld!(s) /\ req[s] \in Request /\ s # Nobody
  BY PoolAssumption DEF AnswerInv, RowsHeld, TypeOK
<1>2. req[s].matched \subseteq Inviters
  BY <1>1 DEF Request
<1> QED
  BY <1>1, <1>2

LEMMA OtherSteps ==
    ASSUME AnswerInv,
           \/ \E u \in Invitees : Ignore(u) \/ SeatChange(u)
           \/ \E p \in Leavers : StartLeaving(p) \/ FinishLeaving(p)
           \/ TimePasses \/ StartDeletion \/ FinishDeletion \/ UNCHANGED vars
    PROVE  AnswerInv'
<1>0. TypeOK /\ RowsHeld
  BY DEF AnswerInv
<1>1. ASSUME NEW u \in Invitees, Ignore(u) PROVE AnswerInv'
  <2>1. /\ held[u] = Nobody /\ invitation' = Answered(u, Pending(u), "IGNORED")
        /\ UNCHANGED <<registration, window, deletion, account, bereft, held, req>>
    BY <1>1 DEF Ignore
  <2>2. TypeOK'
    BY <1>0, <2>1, AnsweredRows DEF TypeOK, InvitationStatus
  <2>3. \A v \in Invitees, i \in Inviters :
           /\ held[v] # Nobody => invitation'[v][i] = invitation[v][i]
           /\ invitation[v][i] # "NONE" => invitation'[v][i] # "NONE"
    BY <1>0, <2>1, AnsweredRows DEF InvitationStatus
  <2>4. RowsHeld'
    BY <2>1, <2>3, KnownStays, RequestsUntouched
  <2> QED
    BY <2>2, <2>4 DEF AnswerInv
<1>2. ASSUME NEW u \in Invitees, SeatChange(u) PROVE AnswerInv'
  <2>1. registration' \in [Invitees -> RegStatus \union {"NONE"}] /\ bereft' \subseteq Invitees
    BY <1>0, <1>2 DEF SeatChange, TypeOK, RegStatus
  <2>2. UNCHANGED <<invitation, window, deletion, account, held, req>>
    BY <1>2 DEF SeatChange
  <2>3. RowsHeld'
    BY <2>2, KnownStays, RequestsUntouched
  <2> QED
    BY <1>0, <2>1, <2>2, <2>3 DEF AnswerInv, TypeOK
<1>3. ASSUME TimePasses \/ StartDeletion \/ UNCHANGED vars PROVE AnswerInv'
  <2>1. /\ UNCHANGED <<invitation, registration, account, bereft, held, req>>
        /\ deletion = "done" => deletion' = "done"
    BY <1>3 DEF TimePasses, StartDeletion, vars
  <2>2. window' \in {"open", "closed"} /\ deletion' \in {"no", "holds", "done"}
    BY <1>0, <1>3 DEF TimePasses, StartDeletion, vars, TypeOK
  <2>3. \A u \in Invitees, i \in Inviters : Known(u, i) => Known(u, i)'
    BY <2>1 DEF Known, Cascaded
  <2>4. RowsHeld'
    BY <2>1, <2>3, RequestsUntouched
  <2> QED
    BY <1>0, <2>1, <2>2, <2>4 DEF AnswerInv, TypeOK
<1>4. ASSUME FinishDeletion PROVE AnswerInv'
  <2>1. /\ \A u \in Invitees : held[u] = Nobody
        /\ deletion' = "done" /\ UNCHANGED <<window, account, held, req>>
    BY <1>4 DEF FinishDeletion
  <2>2. TypeOK'
    BY <1>0, <1>4 DEF FinishDeletion, TypeOK
  <2>3. \A u \in Invitees, i \in Inviters : Known(u, i)'
    BY <2>1 DEF Known, Cascaded
  <2>4. RowsHeld'
    BY <2>1, <2>3, RequestsUntouched
  <2> QED
    BY <2>2, <2>4 DEF AnswerInv
<1>5. ASSUME NEW p \in Leavers, StartLeaving(p) \/ FinishLeaving(p) PROVE AnswerInv'
  <2>0. p \in People
    BY PoolAssumption
  <2>1. CASE StartLeaving(p)
    <3>1. /\ account[p] = "here" /\ account' = [account EXCEPT ![p] = "leaving"]
          /\ UNCHANGED <<invitation, registration, window, deletion, bereft, held, req>>
      BY <2>1 DEF StartLeaving
    <3>2. TypeOK' /\ \A u \in Invitees, i \in Inviters : Known(u, i) => Known(u, i)'
      BY <1>0, <2>0, <3>1 DEF TypeOK, Known, Cascaded, People
    <3>3. RowsHeld'
      BY <3>1, <3>2, RequestsUntouched
    <3> QED
      BY <3>2, <3>3 DEF AnswerInv
  <2>2. CASE FinishLeaving(p)
    <3>1. /\ account' = [account EXCEPT ![p] = "gone"] /\ UNCHANGED <<window, deletion, held, req>>
          /\ \A u \in Invitees : held[u] # Nobody => p # u /\ p \notin req[held[u]].matched
          /\ registration' \in [Invitees -> RegStatus \union {"NONE"}] /\ bereft' \subseteq Invitees
      BY <1>0, <2>2 DEF FinishLeaving, TypeOK
    <3>2. \A u \in Invitees, i \in Inviters :
             invitation'[u][i] = IF p \in {u, i} THEN "NONE" ELSE invitation[u][i]
      BY <2>2 DEF FinishLeaving
    <3>3. invitation' \in [Invitees -> [Inviters -> InvitationStatus \union {"NONE"}]]
      BY <1>0, <2>2 DEF FinishLeaving, TypeOK
    <3>4. \A u \in Invitees, i \in Inviters : Known(u, i) => Known(u, i)'
      BY <1>0, <2>0, <3>1, <3>2 DEF Known, Cascaded, TypeOK, People
    <3>5. RowsHeld'
      BY <3>1, <3>2, <3>4, RequestsUntouched
    <3> QED
      BY <1>0, <2>0, <3>1, <3>3, <3>5 DEF AnswerInv, TypeOK
  <2> QED
    BY <1>5, <2>1, <2>2
<1> QED
  BY <1>1, <1>2, <1>3, <1>4, <1>5

LEMMA AnswerStep == AnswerInv /\ [Next]_vars => AnswerInv'
BY RequestSteps, OtherSteps DEF Next

(* Who answers an invitation holds it: the rows a request matched are      *)
(* PENDING until the request writes them.                                  *)
THEOREM RowsStayHeld == Spec => []AnswerInv
<1> QED
  BY InitAnswers, AnswerStep, PTL DEF Spec

(* Who takes a seat has an invitation to accept for it, or had one before  *)
(* the request's own transaction timed out.                                *)
THEOREM SeatsHaveInvitations == Spec => []SeatHasInvitation
<1>1. AnswerInv => SeatHasInvitation
  <2> SUFFICES ASSUME AnswerInv, NEW t \in Requests,
                      req[t].op = "accept", req[t].phase \in {"nested", "seated", "orphaned"}
               PROVE  \E i \in req[t].matched :
                         \/ invitation[req[t].user][i] = "PENDING"
                         \/ /\ req[t].phase = "orphaned"
                            /\ invitation[req[t].user][i] # "NONE" \/ Cascaded(req[t].user, i)
    BY DEF SeatHasInvitation
  <2>1. /\ req[t].matched # {}
        /\ req[t].phase # "orphaned" => \A i \in req[t].matched : invitation[req[t].user][i] = "PENDING"
        /\ req[t].phase = "orphaned" => \A i \in req[t].matched : Known(req[t].user, i)
    BY DEF AnswerInv, RowsHeld
  <2> QED
    BY <2>1 DEF Known
<1> QED
  BY <1>1, RowsStayHeld, PTL

(* No answer is ever given twice or taken back.                            *)
THEOREM AnswersAlwaysStand == Spec => AnswersStand
<1>1. AnswerInv /\ [Next]_vars =>
        [\A u \in Invitees, i \in Inviters :
           invitation[u][i] \notin {"NONE", "PENDING"} /\ ~Cascaded(u, i)'
              => invitation'[u][i] = invitation[u][i]]_vars
  <2> SUFFICES ASSUME AnswerInv, Next, NEW u \in Invitees, NEW i \in Inviters,
                      invitation[u][i] \notin {"NONE", "PENDING"}, ~Cascaded(u, i)'
               PROVE  invitation'[u][i] = invitation[u][i]
    OBVIOUS
  <2>0. TypeOK /\ \A t \in Requests : RowsHeld!(t)
    BY DEF AnswerInv, RowsHeld
  <2>1. ASSUME NEW t \in Requests, CommitAccept(t) \/ CommitDecline(t)
        PROVE  invitation'[u][i] = invitation[u][i]
    <3>1. PICK to \in {"ACCEPTED", "DECLINED"} :
             invitation' = Answered(req[t].user, req[t].matched, to)
      BY <2>1 DEF CommitAccept, CommitDecline
    <3>2. req[t].phase \in {"seated", "gated"} /\ req[t].user \in Invitees
      BY <2>0, <2>1 DEF CommitAccept, CommitDecline
    <3>3. ~(u = req[t].user /\ i \in req[t].matched)
      BY <2>0, <3>2
    <3> QED
      BY <2>0, <3>1, <3>2, <3>3, AnsweredRows DEF InvitationStatus
  <2>2. ASSUME NEW t \in Requests, WriteInvitation(t)
        PROVE  invitation'[u][i] = invitation[u][i]
    BY <2>0, <2>2 DEF WriteInvitation, TypeOK
  <2>3. ASSUME NEW v \in Invitees, Ignore(v)
        PROVE  invitation'[u][i] = invitation[u][i]
    BY <2>0, <2>3, AnsweredRows DEF Ignore, Pending, InvitationStatus
  <2>4. ASSUME \/ \E t \in Requests :
                     \/ \E op \in Ops, v \in Invitees, j \in Inviters \union {Nobody} :
                           Open(t, op, v, j)
                     \/ Gate(t) \/ NothingPending(t) \/ Nest(t) \/ Seat(t) \/ SeatRefused(t)
                     \/ DeclineInvitations(t) \/ WriteFails(t) \/ Expire(t)
               \/ \E v \in Invitees : SeatChange(v)
               \/ \E p \in Leavers : StartLeaving(p)
               \/ TimePasses \/ StartDeletion
        PROVE  invitation' = invitation
    BY <2>4 DEF StartLeaving, Open, Gate, NothingPending, Nest, Seat, SeatRefused, DeclineInvitations,
                WriteFails, Expire, RollBack, SeatChange, TimePasses, StartDeletion
  <2>5. ~FinishDeletion
    BY DEF FinishDeletion, Cascaded
  <2>6. ASSUME NEW p \in Leavers, FinishLeaving(p)
        PROVE  invitation'[u][i] = invitation[u][i]
    <3>1. p \in People /\ account' = [account EXCEPT ![p] = "gone"]
      BY <2>6, PoolAssumption DEF FinishLeaving
    <3>2. p \notin {u, i}
      BY <2>0, <3>1 DEF Cascaded, TypeOK
    <3> QED
      BY <2>6, <3>2 DEF FinishLeaving
  <2> QED
    BY <2>1, <2>2, <2>3, <2>4, <2>5, <2>6 DEF Next, Advance
<1> QED
  BY <1>1, RowsStayHeld, PTL DEF Spec, AnswersStand

(* An accept that took the seat accepts all it matched, or none of it.     *)
THEOREM AcceptsAreWhole == Spec => AcceptIsWhole
<1>1. AnswerInv /\ [Next]_vars =>
        [\A t \in Requests :
          req[t].phase = "seated" /\ req'[t].phase = "idle"
          => \E to \in {"ACCEPTED"} \union (IF t \in MayExpire THEN {"PENDING"} ELSE {}) :
                \A i \in req[t].matched : invitation'[req[t].user][i] = to]_vars
  <2> SUFFICES ASSUME AnswerInv, Next, NEW t \in Requests,
                      req[t].phase = "seated", req'[t].phase = "idle"
               PROVE  \E to \in {"ACCEPTED"} \union (IF t \in MayExpire THEN {"PENDING"} ELSE {}) :
                         \A i \in req[t].matched : invitation'[req[t].user][i] = to
    OBVIOUS
  <2>0. TypeOK /\ RowsHeld!(t) /\ req \in [Requests -> Request] /\ req[t].matched \subseteq Inviters
    BY DEF AnswerInv, RowsHeld, TypeOK, Request
  <2>1. CASE CommitAccept(t)
    <3>1. /\ req[t].user \in Invitees
          /\ invitation' = Answered(req[t].user, req[t].matched, "ACCEPTED")
      BY <2>0, <2>1 DEF CommitAccept
    <3>2. \A i \in req[t].matched : invitation'[req[t].user][i] = "ACCEPTED"
      BY <2>0, <3>1, AnsweredRows DEF InvitationStatus
    <3> QED
      BY <3>2
  <2>2. CASE Expire(t)
    <3>1. t \in MayExpire /\ invitation' = invitation
      BY <2>2 DEF Expire, RollBack
    <3>2. \A i \in req[t].matched : invitation'[req[t].user][i] = "PENDING"
      BY <2>0, <3>1
    <3> QED
      BY <3>1, <3>2
  <2>3. ASSUME \/ \E op \in Ops, u \in Invitees, i \in Inviters \union {Nobody} : Open(t, op, u, i)
               \/ Gate(t) \/ NothingPending(t) \/ Nest(t) \/ Seat(t) \/ SeatRefused(t)
               \/ DeclineInvitations(t) \/ CommitDecline(t) \/ WriteInvitation(t) \/ WriteFails(t)
        PROVE  FALSE
    BY <2>0, <2>3 DEF Open, Gate, NothingPending, Nest, Seat, SeatRefused, DeclineInvitations,
                      CommitDecline, WriteInvitation, WriteFails
  <2>4. ASSUME NEW s \in Requests \ {t},
               \/ \E op \in Ops, u \in Invitees, i \in Inviters \union {Nobody} : Open(s, op, u, i)
               \/ Advance(s) \/ Expire(s)
        PROVE  FALSE
    <3>1. req'[t] = req[t]
      BY <2>0, <2>4 DEF Open, Advance, Gate, NothingPending, Nest, Seat, SeatRefused, RollBack,
                        CommitAccept, DeclineInvitations, CommitDecline, WriteInvitation, WriteFails, Expire
    <3> QED
      BY <3>1
  <2>5. ASSUME \/ \E u \in Invitees : Ignore(u) \/ SeatChange(u)
               \/ \E p \in Leavers : StartLeaving(p) \/ FinishLeaving(p)
               \/ TimePasses \/ StartDeletion \/ FinishDeletion
        PROVE  FALSE
    BY <2>5 DEF Ignore, SeatChange, TimePasses, StartDeletion, FinishDeletion, StartLeaving, FinishLeaving
  <2> QED
    BY <2>1, <2>2, <2>3, <2>4, <2>5 DEF Next, Advance
<1> QED
  BY <1>1, RowsStayHeld, PTL DEF Spec, AcceptIsWhole

(* Who has no registration has never been invited, so an invitation is     *)
(* what it was when the registration was INVITED: whoever reads a          *)
(* registration reads one that stays, and whoever has taken a seat is      *)
(* INVITED no more.  The bereft are the exception throughout.              *)
NeverInvited ==
    \A u \in Invitees \ bereft :
        registration[u] = "NONE" => \A i \in Inviters : invitation[u][i] = "NONE"
SeenStays ==
    \A t \in Requests :
        LET u == req[t].user
        IN u \notin bereft =>
            /\ /\ req[t].phase = "opened" /\ req[t].op = "create" /\ req[t].seen # "NONE"
               /\ deletion # "done" /\ account[u] # "gone"
               => registration[u] # "NONE"
            /\ req[t].phase = "seated" => registration[u] \notin {"NONE", "INVITED"}

CanAnswerInv == AnswerInv /\ InvitedCanAnswer /\ NeverInvited /\ SeenStays

LEMMA InitCanAnswer == Init => CanAnswerInv
<1> SUFFICES ASSUME Init PROVE CanAnswerInv
  OBVIOUS
<1>1. \A t \in Requests : req[t].phase = "idle"
  BY IdleRequest DEF Init
<1>2. PICK from \in [Invitees -> Inviters] :
         invitation = [u \in Invitees |-> [i \in Inviters |->
                           IF registration[u] = "INVITED" /\ i = from[u] THEN "PENDING" ELSE "NONE"]]
  BY DEF Init
<1>3. InvitedCanAnswer
  BY <1>2 DEF InvitedCanAnswer
<1>4. NeverInvited /\ SeenStays
  BY <1>1, <1>2 DEF NeverInvited, SeenStays
<1> QED
  BY <1>3, <1>4, InitAnswers DEF CanAnswerInv

(* A step that leaves the rows as they are, and whose request, if it goes  *)
(* on, neither read a registration nor took a seat in it.                  *)
LEMMA RowsUntouched ==
    ASSUME CanAnswerInv, AnswerInv', UNCHANGED <<invitation, registration, bereft>>,
           deletion' = "done" <=> deletion = "done",
           \A p \in People : account'[p] = "gone" <=> account[p] = "gone",
           \A t \in Requests :
              \/ req'[t] = req[t]
              \/ req'[t].phase \notin {"opened", "seated"}
              \/ req'[t].phase = "opened" /\ (req'[t].op = "create" =>
                                                req'[t].seen = Seen(registration[req'[t].user]))
    PROVE  CanAnswerInv'
<1>1. InvitedCanAnswer' /\ NeverInvited'
  BY DEF CanAnswerInv, InvitedCanAnswer, NeverInvited
<1>2. SeenStays'
  <2> SUFFICES ASSUME NEW t \in Requests PROVE SeenStays!(t)'
    BY DEF SeenStays
  <2>1. SeenStays!(t) /\ (req'[t].phase # "idle" => req'[t].user \in People)
    BY DEF CanAnswerInv, SeenStays, AnswerInv, RowsHeld, People
  <2>2. CASE req'[t] = req[t]
    BY <2>1, <2>2
  <2>3. CASE req'[t] # req[t]
    BY <2>3 DEF Seen
  <2> QED BY <2>2, <2>3
<1> QED
  BY <1>1, <1>2 DEF CanAnswerInv

LEMMA CanAnswerStep ==
    ASSUME CanAnswerInv, Next
    PROVE  CanAnswerInv'
<1>0. /\ AnswerInv /\ TypeOK /\ RowsHeld /\ AnswerInv' /\ req \in [Requests -> Request]
      /\ Idle.phase = "idle"
  BY AnswerStep, IdleRequest DEF CanAnswerInv, AnswerInv, TypeOK
<1>1. ASSUME NEW t \in Requests, NEW op \in Ops, NEW u \in Invitees,
             NEW i \in Inviters \union {Nobody}, Open(t, op, u, i)
      PROVE  CanAnswerInv'
  <2> DEFINE r == [phase |-> "opened", op |-> op, user |-> u, from |-> i, matched |-> {},
                   seen |-> IF op # "create" THEN "NONE" ELSE Seen(registration[u])]
  <2>1. /\ r.phase = "opened" /\ r.op = op /\ r.user = u
        /\ op = "create" => r.seen = Seen(registration[u])
    OBVIOUS
  <2>2. req' = [req EXCEPT ![t] = r] /\ UNCHANGED <<invitation, registration, deletion, account, bereft>>
    BY <1>1 DEF Open
  <2> HIDE DEF r
  <2>3. req'[t] = r /\ \A s \in Requests \ {t} : req'[s] = req[s]
    BY <1>0, <2>2
  <2> QED
    BY <1>0, <2>1, <2>2, <2>3, RowsUntouched
<1>2. ASSUME NEW t \in Requests,
             \/ RollBack(t) \/ Gate(t) \/ DeclineInvitations(t) \/ Nest(t) \/ Expire(t)
      PROVE  CanAnswerInv'
  <2>1. UNCHANGED <<invitation, registration, deletion, account, bereft>>
    BY <1>2 DEF RollBack, Gate, DeclineInvitations, Nest, Expire
  <2>2. \A s \in Requests \ {t} : req'[s] = req[s]
    BY <1>0, <1>2 DEF RollBack, Gate, DeclineInvitations, Nest, Expire
  <2>3. req'[t].phase \in {"idle", "gated", "nested", "orphaned"}
    BY <1>0, <1>2 DEF RollBack, Gate, DeclineInvitations, Nest, Expire, Request
  <2> QED
    BY <1>0, <2>1, <2>2, <2>3, RowsUntouched
<1>3. ASSUME NEW t \in Requests, Seat(t) PROVE CanAnswerInv'
  <2> DEFINE u == req[t].user
  <2>1. /\ u \in Invitees /\ registration[u] # "NONE" /\ UNCHANGED <<invitation, deletion, account, bereft>>
        /\ registration' = [registration EXCEPT ![u] =
                              IF @ \in {"NOT_GOING", "INVITED"} THEN "HELD" ELSE @]
    BY <1>0, <1>3 DEF Seat, RowsHeld
  <2>2. /\ registration'[u] \notin {"NONE", "INVITED"}
        /\ \A v \in Invitees \ {u} : registration'[v] = registration[v]
    BY <1>0, <2>1 DEF TypeOK
  <2>3. /\ req'[t].phase \in {"seated", "idle"}
        /\ req'[t].phase = "seated" => req'[t].user = u
    BY <1>0, <1>3 DEF Seat, Request
  <2>4. \A s \in Requests \ {t} : req'[s] = req[s]
    BY <1>0, <1>3 DEF Seat
  <2>5. InvitedCanAnswer' /\ NeverInvited'
    BY <2>1, <2>2 DEF CanAnswerInv, InvitedCanAnswer, NeverInvited
  <2>6. SeenStays'
    <3>1. \A s \in Requests : req[s].phase # "idle" => req[s].user \in Invitees
      BY <1>0 DEF RowsHeld
    <3>2. SeenStays!(t)'
      BY <2>1, <2>2, <2>3
    <3>3. ASSUME NEW s \in Requests \ {t} PROVE SeenStays!(s)'
      <4>1. SeenStays!(s)
        BY DEF CanAnswerInv, SeenStays
      <4> QED
        BY <3>1, <4>1, <2>1, <2>2, <2>4
    <3> QED
      BY <3>2, <3>3 DEF SeenStays
  <2> QED
    BY <1>0, <2>5, <2>6 DEF CanAnswerInv
<1>4. ASSUME NEW t \in Requests, CommitAccept(t) \/ CommitDecline(t) PROVE CanAnswerInv'
  <2> DEFINE u == req[t].user
  <2>1. PICK to \in {"ACCEPTED", "DECLINED"} : invitation' = Answered(u, req[t].matched, to)
    BY <1>4 DEF CommitAccept, CommitDecline
  <2>2. /\ u \in Invitees /\ UNCHANGED <<deletion, account, bereft>> /\ req[t].phase \in {"seated", "gated"}
        /\ req' = [req EXCEPT ![t] = Idle]
        /\ \A i \in req[t].matched : invitation[u][i] = "PENDING"
        /\ registration' \in {registration, [registration EXCEPT ![u] =
                                              IF @ = "INVITED" THEN "NOT_GOING" ELSE @]}
    BY <1>0, <1>4 DEF CommitAccept, CommitDecline, RowsHeld
  <2>3. \A v \in Invitees, i \in Inviters :
           invitation'[v][i] = IF v = u /\ i \in req[t].matched THEN to ELSE invitation[v][i]
    BY <1>0, <2>1, <2>2, AnsweredRows DEF InvitationStatus
  <2>4. /\ u \notin bereft => registration'[u] # "INVITED"
        /\ \A v \in Invitees : registration'[v] = "NONE" <=> registration[v] = "NONE"
        /\ \A v \in Invitees \ {u} : registration'[v] = registration[v]
        /\ registration[u] # "INVITED" => registration' = registration
        /\ registration'[u] = "INVITED" => registration[u] = "INVITED"
    <3>1. CASE CommitAccept(t)
      BY <1>0, <2>2, <3>1 DEF CommitAccept, CanAnswerInv, SeenStays
    <3>2. CASE CommitDecline(t)
      BY <1>0, <2>2, <3>2 DEF CommitDecline, TypeOK
    <3> QED BY <1>4, <3>1, <3>2
  <2>5. InvitedCanAnswer'
    BY <2>2, <2>3, <2>4 DEF CanAnswerInv, InvitedCanAnswer
  <2>6. NeverInvited'
    BY <2>2, <2>3, <2>4 DEF CanAnswerInv, NeverInvited
  <2>7. \A s \in Requests \ {t} : req'[s] = req[s] /\ (req[s].phase # "idle" => req[s].user \in Invitees)
    BY <1>0, <2>2 DEF RowsHeld
  <2>8. req'[t].phase = "idle"
    BY <1>0, <2>2
  <2>9. SeenStays'
    BY <2>2, <2>4, <2>7, <2>8 DEF CanAnswerInv, SeenStays
  <2> QED
    BY <1>0, <2>5, <2>6, <2>9 DEF CanAnswerInv
<1>5. ASSUME NEW t \in Requests, WriteInvitation(t) PROVE CanAnswerInv'
  <2> DEFINE u == req[t].user
             i == req[t].from
             seen == req[t].seen
  <2>1. /\ u \in Invitees /\ i \in Inviters /\ deletion = "no" /\ UNCHANGED <<deletion, account, bereft>>
        /\ req[t].phase = "opened" /\ req[t].op = "create"
        /\ seen = "NONE" => registration[u] = "NONE"
        /\ u \notin bereft /\ registration[u] = "NONE" => seen = "NONE"
        /\ req' = [req EXCEPT ![t] = Idle]
        /\ registration' = [registration EXCEPT ![u] = IF seen = "NONE" THEN "INVITED" ELSE @]
    BY <1>0, <1>5 DEF WriteInvitation, RowsHeld, CanAnswerInv, SeenStays
  <2>2. /\ registration'[u] = IF seen = "NONE" THEN "INVITED" ELSE registration[u]
        /\ \A v \in Invitees \ {u} : registration'[v] = registration[v]
    BY <1>0, <2>1 DEF TypeOK
  <2>3. /\ \A v \in Invitees, j \in Inviters :
              v # u \/ j # i \/ invitation[v][j] # "NONE" => invitation'[v][j] = invitation[v][j]
        /\ invitation[u][i] = "NONE" /\ seen # "HELD" => invitation'[u][i] = "PENDING"
    BY <1>0, <1>5, <2>1 DEF WriteInvitation, TypeOK
  <2>4. InvitedCanAnswer'
    <3> SUFFICES ASSUME NEW v \in Invitees \ bereft, registration'[v] = "INVITED"
                 PROVE  \E j \in Inviters : invitation'[v][j] \in {"PENDING", "IGNORED"}
      BY <2>1 DEF InvitedCanAnswer
    <3>1. CASE v = u /\ seen = "NONE"
      BY <3>1, <2>1, <2>3 DEF CanAnswerInv, NeverInvited
    <3>2. CASE v # u \/ seen # "NONE"
      <4>1. registration[v] = "INVITED"
        BY <3>2, <2>2
      <4>2. PICK j \in Inviters : invitation[v][j] \in {"PENDING", "IGNORED"}
        BY <4>1 DEF CanAnswerInv, InvitedCanAnswer
      <4> QED
        BY <4>2, <2>3
    <3> QED BY <3>1, <3>2
  <2>5. NeverInvited'
    BY <2>1, <2>2, <2>3 DEF CanAnswerInv, NeverInvited
  <2>6. \A s \in Requests \ {t} : req'[s] = req[s] /\ (req[s].phase # "idle" => req[s].user \in Invitees)
    BY <1>0, <2>1 DEF RowsHeld
  <2>7. req'[t].phase = "idle"
    BY <1>0, <2>1
  <2>8. SeenStays'
    BY <2>1, <2>2, <2>6, <2>7 DEF CanAnswerInv, SeenStays
  <2> QED
    BY <1>0, <2>4, <2>5, <2>8 DEF CanAnswerInv
<1>6. ASSUME NEW u \in Invitees, Ignore(u) PROVE CanAnswerInv'
  <2>1. /\ invitation' = Answered(u, Pending(u), "IGNORED")
        /\ UNCHANGED <<registration, deletion, account, bereft, req>>
    BY <1>6 DEF Ignore
  <2>2. \A v \in Invitees, i \in Inviters :
           /\ invitation[v][i] \in {"PENDING", "IGNORED"} => invitation'[v][i] \in {"PENDING", "IGNORED"}
           /\ invitation[v][i] = "NONE" => invitation'[v][i] = "NONE"
    BY <1>0, <2>1, AnsweredRows DEF Pending, InvitationStatus
  <2>3. InvitedCanAnswer' /\ NeverInvited'
    BY <2>1, <2>2 DEF CanAnswerInv, InvitedCanAnswer, NeverInvited
  <2>4. SeenStays'
    BY <2>1 DEF CanAnswerInv, SeenStays
  <2> QED
    BY <1>0, <2>3, <2>4 DEF CanAnswerInv
<1>7. ASSUME NEW u \in Invitees, SeatChange(u) PROVE CanAnswerInv'
  <2>1. PICK s \in {"HELD", "NOT_GOING", "BANNED", "NONE"} :
           /\ registration' = [registration EXCEPT ![u] = s]
           /\ s = "NONE" => bereft' = bereft \union {u}
           /\ s # "NONE" => bereft' = bereft
    BY <1>7 DEF SeatChange
  <2>2. UNCHANGED <<invitation, deletion, account, req>>
    BY <1>7 DEF SeatChange
  <2>3. /\ registration'[u] # "INVITED" /\ bereft \subseteq bereft'
        /\ registration'[u] = "NONE" => u \in bereft'
        /\ \A v \in Invitees \ {u} : registration'[v] = registration[v]
    BY <1>0, <2>1 DEF TypeOK
  <2>4. InvitedCanAnswer' /\ NeverInvited'
    BY <2>2, <2>3 DEF CanAnswerInv, InvitedCanAnswer, NeverInvited
  <2>5. \A t \in Requests : req[t].phase # "idle" => req[t].user \in Invitees
    BY <1>0 DEF RowsHeld
  <2>6. SeenStays'
    <3> SUFFICES ASSUME NEW t \in Requests PROVE SeenStays!(t)'
      BY DEF SeenStays
    <3>1. SeenStays!(t)
      BY DEF CanAnswerInv, SeenStays
    <3> QED
      BY <2>2, <2>3, <2>5, <3>1
  <2> QED
    BY <1>0, <2>4, <2>6 DEF CanAnswerInv
<1>8. ASSUME TimePasses \/ StartDeletion PROVE CanAnswerInv'
  BY <1>0, <1>8, RowsUntouched DEF TimePasses, StartDeletion
<1>9. ASSUME FinishDeletion PROVE CanAnswerInv'
  <2>1. /\ \A u \in Invitees : held[u] = Nobody /\ registration'[u] = "NONE"
        /\ \A u \in Invitees, i \in Inviters : invitation'[u][i] = "NONE"
        /\ deletion' = "done" /\ UNCHANGED req
    BY <1>9 DEF FinishDeletion
  <2>2. InvitedCanAnswer' /\ NeverInvited'
    BY <2>1 DEF InvitedCanAnswer, NeverInvited
  <2>3. \A t \in Requests : req[t].phase # "seated"
    BY <1>0, <2>1, PoolAssumption DEF RowsHeld
  <2>4. SeenStays'
    BY <2>1, <2>3 DEF SeenStays
  <2> QED
    BY <1>0, <2>2, <2>4 DEF CanAnswerInv
<1>10. ASSUME NEW p \in Leavers, StartLeaving(p) PROVE CanAnswerInv'
  <2>1. /\ p \in People /\ account[p] = "here" /\ account' = [account EXCEPT ![p] = "leaving"]
        /\ UNCHANGED <<invitation, registration, window, deletion, bereft, held, req>>
    BY <1>10, PoolAssumption DEF StartLeaving
  <2>2. \A q \in People : account'[q] = "gone" <=> account[q] = "gone"
    BY <1>0, <2>1 DEF TypeOK
  <2> QED
    BY <1>0, <2>1, <2>2, RowsUntouched
<1>11. ASSUME NEW p \in Leavers, FinishLeaving(p) PROVE CanAnswerInv'
  <2>1. /\ p \in People /\ account' = [account EXCEPT ![p] = "gone"]
        /\ UNCHANGED <<deletion, held, req>>
        /\ \A u \in Invitees : held[u] # Nobody => p # u /\ p \notin req[held[u]].matched
    BY <1>11, PoolAssumption DEF FinishLeaving
  <2>2. /\ \A u \in Invitees : registration'[u] = IF u = p THEN "NONE" ELSE registration[u]
        /\ \A u \in Invitees, i \in Inviters :
              invitation'[u][i] = IF p \in {u, i} THEN "NONE" ELSE invitation[u][i]
        /\ \A u \in Invitees \ bereft' : u = p \/ u \notin bereft
    BY <1>11 DEF FinishLeaving
  <2>3. \A u \in Invitees \ bereft' :
           u = p \/ Unanswered(u) # {p}
    BY <1>11 DEF FinishLeaving
  <2>4. account'[p] = "gone" /\ \A q \in People : account'[q] = "gone" <=> (q = p \/ account[q] = "gone")
    BY <1>0, <2>1 DEF TypeOK
  <2>5. InvitedCanAnswer'
    <3> SUFFICES ASSUME NEW u \in Invitees, u \notin bereft', registration'[u] = "INVITED"
                 PROVE  \E i \in Inviters : invitation'[u][i] \in {"PENDING", "IGNORED"}
      BY DEF InvitedCanAnswer
    <3>1. u # p /\ registration[u] = "INVITED" /\ u \notin bereft
      BY <2>2
    <3>2. PICK i \in Inviters : invitation[u][i] \in {"PENDING", "IGNORED"}
      BY <3>1 DEF CanAnswerInv, InvitedCanAnswer
    <3>3. PICK j \in Inviters \ {p} : invitation[u][j] \in {"PENDING", "IGNORED"}
      BY <2>3, <3>1, <3>2 DEF Unanswered
    <3> QED
      BY <2>2, <3>1, <3>3
  <2>6. NeverInvited'
    BY <2>2 DEF CanAnswerInv, NeverInvited
  <2>7. SeenStays'
    <3> SUFFICES ASSUME NEW t \in Requests, req[t].phase # "idle", req[t].user \notin bereft'
                 PROVE  SeenStays!(t)'
      BY <1>0, <2>1 DEF SeenStays
    <3>1. req[t].user \in Invitees /\ req[t].user \in People
      BY <1>0 DEF RowsHeld, People
    <3>2. SeenStays!(t)
      BY DEF CanAnswerInv, SeenStays
    <3>3. CASE req[t].user # p
      <4>1. /\ req[t].user \notin bereft /\ registration'[req[t].user] = registration[req[t].user]
            /\ account'[req[t].user] = "gone" <=> account[req[t].user] = "gone"
        BY <2>2, <2>4, <3>1, <3>3
      <4> QED
        BY <2>1, <3>2, <4>1
    <3>4. CASE req[t].user = p
      <4>1. req[t].phase # "seated"
        BY <1>0, <2>1, <3>1, <3>4, PoolAssumption DEF RowsHeld
      <4> QED
        BY <2>1, <2>4, <3>4, <4>1
    <3> QED BY <3>3, <3>4
  <2> QED
    BY <1>0, <2>5, <2>6, <2>7 DEF CanAnswerInv
<1> QED
  BY <1>1, <1>2, <1>3, <1>4, <1>5, <1>6, <1>7, <1>8, <1>9, <1>10, <1>11
     DEF Next, Advance, NothingPending, SeatRefused, WriteFails

(* An INVITED registration never outlives the invitations that explain it: *)
(* whoever sees a private event through it can still answer, however       *)
(* answers, sweeps, timeouts and new invitations interleave, except who    *)
(* was taken off the event or whose inviter's account went.                *)
THEOREM InvitedCanAlwaysAnswer == Spec => []InvitedCanAnswer
<1>1. CanAnswerInv /\ [Next]_vars => CanAnswerInv'
  <2>1. CASE Next
    BY <2>1, CanAnswerStep
  <2>2. CanAnswerInv /\ UNCHANGED vars => CanAnswerInv'
    <3> SUFFICES ASSUME CanAnswerInv, UNCHANGED vars PROVE CanAnswerInv'
      OBVIOUS
    <3>1. AnswerInv'
      BY AnswerStep DEF CanAnswerInv
    <3> QED
      BY <3>1, RowsUntouched DEF vars
  <2> QED BY <2>1, <2>2
<1>2. CanAnswerInv => InvitedCanAnswer
  BY DEF CanAnswerInv
<1> QED
  BY InitCanAnswer, <1>1, <1>2, PTL DEF Spec
=============================================================================
