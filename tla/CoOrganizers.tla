---------------------------- MODULE CoOrganizers ----------------------------
(***************************************************************************)
(* The co-organizers of one event.  An edit of the event invites and       *)
(* withdraws organizations inside the transaction that saves the event;    *)
(* organizations answer, and admins of the event cancel, in transactions   *)
(* that lock the one invitation.  Writes are seen when they commit.        *)
(***************************************************************************)
EXTENDS FiniteSets

CONSTANTS Organizations,  \* who may be invited; the host is left out of a list
          Answers,        \* slots for answers and cancellations
          Edits,          \* slots for edits of the event
          Nobody

ASSUME SlotsAssumption ==
    Nobody \notin Answers \union Edits \union Organizations /\ Answers \intersect Edits = {}

VARIABLES exists,        \* organizations that have not been deleted
          invitation,    \* InvitationStatus, "NONE" without a row
          collaborators, \* organizations attached as COLLABORATOR
          held,          \* per invitation: the transaction that wrote it
          eventHeld,     \* the edit that holds the event row
          answer,
          edit

vars == <<exists, invitation, collaborators, held, eventHeld, answer, edit>>

InvitationStatus == {"PENDING", "ACCEPTED", "DECLINED", "IGNORED", "CANCELLED"}
Responses == {"ACCEPTED", "DECLINED", "IGNORED"}
Open == {"PENDING", "ACCEPTED"}

NoAnswer == [phase |-> "idle", org |-> Nobody, to |-> "NONE"]
NoEdit == [phase |-> "idle", wanted |-> {},
           seen |-> [o \in Organizations |-> "NONE"]]

TypeOK ==
    /\ exists \subseteq Organizations
    /\ invitation \in [Organizations -> InvitationStatus \union {"NONE"}]
    /\ collaborators \subseteq Organizations
    /\ held \in [Organizations -> Answers \union Edits \union {Nobody}]
    /\ eventHeld \in Edits \union {Nobody}
    /\ answer \in [Answers -> [phase : {"idle", "checked", "moved"},
                               org : Organizations \union {Nobody},
                               to : InvitationStatus \union {"NONE"}]]
    /\ edit \in [Edits -> [phase : {"idle", "saved", "read", "withdrawn", "invited"},
                           wanted : SUBSET Organizations,
                           seen : [Organizations -> InvitationStatus \union {"NONE"}]]]

(* Co-organizers from before there were invitations are ACCEPTED.          *)
Init ==
    /\ exists = Organizations
    /\ invitation \in [Organizations -> {"NONE", "PENDING", "ACCEPTED"}]
    /\ collaborators = {o \in Organizations : invitation[o] = "ACCEPTED"}
    /\ held = [o \in Organizations |-> Nobody]
    /\ eventHeld = Nobody
    /\ answer = [a \in Answers |-> NoAnswer]
    /\ edit = [e \in Edits |-> NoEdit]

Unhold(t) == [o \in Organizations |-> IF held[o] = t THEN Nobody ELSE held[o]]

-----------------------------------------------------------------------------
(* respondToCoOrganizerInvitation reads the invitation, and respond moves  *)
(* it in a transaction that reads its status again.                        *)

ReadInvitation(a, o, to) ==
    /\ answer[a].phase = "idle"
    /\ IF to = "CANCELLED" THEN invitation[o] \notin {"CANCELLED", "NONE"}
                           ELSE to \in Responses /\ invitation[o] = "PENDING"
    /\ answer' = [answer EXCEPT ![a] = [phase |-> "checked", org |-> o, to |-> to]]
    /\ UNCHANGED <<exists, invitation, collaborators, held, eventHeld, edit>>

AllowedCurrentStatuses(to) == IF to = "CANCELLED" THEN Open ELSE {"PENDING"}

Move(a) ==
    LET o == answer[a].org
    IN /\ answer[a].phase = "checked"
       /\ held[o] = Nobody
       /\ invitation[o] \in AllowedCurrentStatuses(answer[a].to)
       /\ held' = [held EXCEPT ![o] = a]
       /\ answer' = [answer EXCEPT ![a].phase = "moved"]
       /\ UNCHANGED <<exists, invitation, collaborators, eventHeld, edit>>

(* Nothing matched the update: "not valid for this transition".            *)
TooLate(a) ==
    LET o == answer[a].org
    IN /\ answer[a].phase = "checked"
       /\ held[o] = Nobody
       /\ invitation[o] \notin AllowedCurrentStatuses(answer[a].to)
       /\ answer' = [answer EXCEPT ![a] = NoAnswer]
       /\ UNCHANGED <<exists, invitation, collaborators, held, eventHeld, edit>>

(* Mutant: an organization that declines or is cancelled stays attached.   *)
RespondWithoutDetaching(a) ==
    LET o == answer[a].org
        to == answer[a].to
    IN /\ answer[a].phase = "moved"
       /\ invitation' = [invitation EXCEPT ![o] = to]
       /\ collaborators' = IF to = "ACCEPTED" THEN collaborators \union {o} ELSE collaborators
       /\ held' = Unhold(a)
       /\ answer' = [answer EXCEPT ![a] = NoAnswer]
       /\ UNCHANGED <<exists, eventHeld, edit>>

Respond(a) ==
    LET o == answer[a].org
        to == answer[a].to
    IN /\ answer[a].phase = "moved"
       /\ invitation' = [invitation EXCEPT ![o] = to]
       /\ collaborators' = CASE to = "ACCEPTED" -> collaborators \union {o}
                             [] to \in {"DECLINED", "CANCELLED"} -> collaborators \ {o}
                             [] OTHER -> collaborators
       /\ held' = Unhold(a)
       /\ answer' = [answer EXCEPT ![a] = NoAnswer]
       /\ UNCHANGED <<exists, eventHeld, edit>>

(* The transaction times out or its connection is lost.                    *)
RollBackAnswer(a) ==
    /\ answer[a].phase = "moved"
    /\ held' = Unhold(a)
    /\ answer' = [answer EXCEPT ![a] = NoAnswer]
    /\ UNCHANGED <<exists, invitation, collaborators, eventHeld, edit>>

-----------------------------------------------------------------------------
(* The transaction of EventsService.update: it saves the event first, so   *)
(* that the edits of one event run one after the other.                    *)

(* Mutant: the invitations are not synchronised under the event row.       *)
SaveEventLater(e, wanted) ==
    /\ edit[e].phase = "idle"
    /\ eventHeld' = e
    /\ edit' = [edit EXCEPT ![e] = [NoEdit EXCEPT !.phase = "saved", !.wanted = wanted]]
    /\ UNCHANGED <<exists, invitation, collaborators, held, answer>>

SaveEvent(e, wanted) ==
    /\ edit[e].phase = "idle"
    /\ eventHeld = Nobody
    /\ eventHeld' = e
    /\ edit' = [edit EXCEPT ![e] = [NoEdit EXCEPT !.phase = "saved", !.wanted = wanted]]
    /\ UNCHANGED <<exists, invitation, collaborators, held, answer>>

ReadExisting(e) ==
    /\ edit[e].phase = "saved"
    /\ edit[e].wanted \subseteq exists
    /\ edit' = [edit EXCEPT ![e].phase = "read", ![e].seen = invitation]
    /\ UNCHANGED <<exists, invitation, collaborators, held, eventHeld, answer>>

Withdrawn(e) == {o \in Organizations \ edit[e].wanted : edit[e].seen[o] \in Open}

ToInvite(e) == {o \in edit[e].wanted : edit[e].seen[o] \notin Open}

(* updateMany and the upserts wait for invitations that are being answered *)
(* and take one row after the other; neither looks at the status again.    *)
LockRow(e, o) ==
    /\ \/ edit[e].phase = "read" /\ o \in Withdrawn(e)
       \/ edit[e].phase = "withdrawn" /\ o \in ToInvite(e) \intersect exists
    /\ held[o] = Nobody
    /\ held' = [held EXCEPT ![o] = e]
    /\ UNCHANGED <<exists, invitation, collaborators, eventHeld, answer, edit>>

Withdraw(e) ==
    /\ edit[e].phase = "read"
    /\ \A o \in Withdrawn(e) : held[o] = e
    /\ edit' = [edit EXCEPT ![e].phase = "withdrawn"]
    /\ UNCHANGED <<exists, invitation, collaborators, held, eventHeld, answer>>

Invite(e) ==
    /\ edit[e].phase = "withdrawn"
    /\ \A o \in ToInvite(e) : held[o] = e
    /\ edit' = [edit EXCEPT ![e].phase = "invited"]
    /\ UNCHANGED <<exists, invitation, collaborators, held, eventHeld, answer>>

CommitEdit(e) ==
    /\ edit[e].phase = "invited"
    /\ invitation' = [o \in Organizations |->
                        IF o \in ToInvite(e) THEN "PENDING"
                        ELSE IF o \in Withdrawn(e) /\ invitation[o] # "NONE" THEN "CANCELLED"
                        ELSE invitation[o]]
    /\ collaborators' = collaborators \ Withdrawn(e)
    /\ held' = Unhold(e)
    /\ eventHeld' = Nobody
    /\ edit' = [edit EXCEPT ![e] = NoEdit]
    /\ UNCHANGED <<exists, answer>>

(* Mutant: a failed edit keeps the invitations it wrote.                   *)
UndoKeepingRows(e) ==
    /\ eventHeld' = Nobody
    /\ edit' = [edit EXCEPT ![e] = NoEdit]
    /\ UNCHANGED <<exists, invitation, collaborators, held, answer>>

Undo(e) ==
    /\ held' = Unhold(e)
    /\ eventHeld' = Nobody
    /\ edit' = [edit EXCEPT ![e] = NoEdit]
    /\ UNCHANGED <<exists, invitation, collaborators, answer>>

(* The list names an organization that does not exist (any more).          *)
RefuseUnknown(e) ==
    /\ \/ edit[e].phase = "saved" /\ ~(edit[e].wanted \subseteq exists)
       \/ edit[e].phase = "withdrawn" /\ ~(ToInvite(e) \subseteq exists)
    /\ Undo(e)

(* The old image could not be deleted, a timeout, a lost connection.       *)
RollBackEdit(e) == edit[e].phase # "idle" /\ Undo(e)

(* The cascade takes the invitation and the arranger row with it.          *)
DeleteOrganization(o) ==
    /\ o \in exists
    /\ held[o] = Nobody
    /\ exists' = exists \ {o}
    /\ invitation' = [invitation EXCEPT ![o] = "NONE"]
    /\ collaborators' = collaborators \ {o}
    /\ UNCHANGED <<held, eventHeld, answer, edit>>

-----------------------------------------------------------------------------
Advance(a) == Move(a) \/ TooLate(a) \/ Respond(a)
Sync(e) ==
    \/ \E o \in Organizations : LockRow(e, o)
    \/ ReadExisting(e) \/ Withdraw(e) \/ Invite(e) \/ CommitEdit(e)
    \/ RefuseUnknown(e)

Next ==
    \/ \E a \in Answers :
          \/ \E o \in Organizations, to \in InvitationStatus : ReadInvitation(a, o, to)
          \/ Advance(a)
          \/ RollBackAnswer(a)
    \/ \E e \in Edits :
          \/ \E wanted \in SUBSET Organizations : SaveEvent(e, wanted)
          \/ Sync(e)
          \/ RollBackEdit(e)
    \/ \E o \in Organizations : DeleteOrganization(o)

Spec == Init /\ [][Next]_vars

(* A transaction runs on, and a statement that waits for a row gets it in  *)
(* turn.                                                                   *)
Fairness ==
    /\ \A a \in Answers : SF_vars(Advance(a))
    /\ \A e \in Edits : SF_vars(Sync(e))

FairSpec == Spec /\ Fairness
-----------------------------------------------------------------------------
(* An organization is on the event exactly while its invitation is         *)
(* accepted: no interleaving of answers, cancellations and edits attaches  *)
(* one that did not agree or forgets one that was withdrawn.               *)
CollaboratorsAgreed ==
    collaborators = {o \in Organizations : invitation[o] = "ACCEPTED"}

(* An organization only answers an invitation that is pending when the     *)
(* answer commits, whatever was read before.                               *)
OnlyPendingAnswered ==
    [][\A o \in Organizations :
          invitation'[o] \in Responses /\ invitation'[o] # invitation[o]
             => invitation[o] = "PENDING"]_vars

(* When an edit commits, nobody is on the event that its list leaves out,  *)
(* whoever accepted or edited meanwhile.                                   *)
ListIsFinal ==
    [][\A e \in Edits : CommitEdit(e) => collaborators' \subseteq edit[e].wanted]_vars

(* An edit never takes back the acceptance of an organization that it      *)
(* lists, if that is as recent as the moment before the commit.            *)
ListedStayOn ==
    [][\A e \in Edits :
          CommitEdit(e) =>
             \A o \in edit[e].wanted :
                invitation[o] = "ACCEPTED" => invitation'[o] = "ACCEPTED"]_vars

(* Answers and edits that wait for each other's rows all end.              *)
EveryoneEnds ==
    /\ \A a \in Answers : answer[a].phase # "idle" ~> answer[a].phase = "idle"
    /\ \A e \in Edits : edit[e].phase # "idle" ~> edit[e].phase = "idle"
=============================================================================
