------------------------- MODULE CoOrganizerProofs -------------------------
(***************************************************************************)
(* Theorems about CoOrganizers for any organizations, answers and edits.   *)
(***************************************************************************)
EXTENDS CoOrganizers, TLAPS

AnswerRecord == [phase : {"idle", "checked", "moved"},
                 org : Organizations \union {Nobody},
                 to : InvitationStatus \union {"NONE"}]
EditRecord == [phase : {"idle", "saved", "read", "withdrawn", "invited"},
               wanted : SUBSET Organizations,
               seen : [Organizations -> InvitationStatus \union {"NONE"}]]

(* An answer that has moved its invitation holds it, and the invitation is *)
(* still what it was when it was moved.                                    *)
AnswersHold ==
    \A a \in Answers :
        /\ answer[a].phase # "idle" => /\ answer[a].org \in Organizations
                                       /\ answer[a].to \in Responses \union {"CANCELLED"}
        /\ answer[a].phase = "moved" =>
              /\ held[answer[a].org] = a
              /\ invitation[answer[a].org] \in AllowedCurrentStatuses(answer[a].to)

(* Only one edit runs, and it holds what it is about to write.             *)
EditsHold ==
    \A e \in Edits :
        /\ edit[e].phase # "idle" => eventHeld = e
        /\ edit[e].phase \in {"withdrawn", "invited"} =>
              \A o \in Withdrawn(e) : held[o] = e
        /\ edit[e].phase = "invited" => \A o \in ToInvite(e) : held[o] = e

(* Nobody but an edit opens an invitation: what was not open when the edit *)
(* read it is not open now.                                                *)
SeenStands ==
    \A e \in Edits :
        edit[e].phase \in {"read", "withdrawn", "invited"} =>
           \A o \in Organizations : edit[e].seen[o] \notin Open => invitation[o] \notin Open

SyncInv ==
    TypeOK /\ AnswersHold /\ EditsHold /\ SeenStands /\ CollaboratorsAgreed

LEMMA NoAnswerType == NoAnswer \in AnswerRecord
BY DEF NoAnswer, AnswerRecord

LEMMA NoEditType == NoEdit \in EditRecord
BY DEF NoEdit, EditRecord

LEMMA InitSync == Init => SyncInv
<1> SUFFICES ASSUME Init PROVE SyncInv
  OBVIOUS
<1>1. \A a \in Answers : answer[a] = NoAnswer
  BY DEF Init
<1>2. \A e \in Edits : edit[e] = NoEdit
  BY DEF Init
<1>3. NoAnswer.phase = "idle" /\ NoEdit.phase = "idle"
  BY DEF NoAnswer, NoEdit
<1>4. TypeOK
  BY NoAnswerType, NoEditType DEF Init, TypeOK, AnswerRecord, EditRecord, InvitationStatus
<1>5. AnswersHold /\ EditsHold /\ SeenStands
  BY <1>1, <1>2, <1>3 DEF AnswersHold, EditsHold, SeenStands
<1>6. CollaboratorsAgreed
  BY DEF Init, CollaboratorsAgreed
<1> QED
  BY <1>4, <1>5, <1>6 DEF SyncInv

LEMMA UnholdType ==
    ASSUME TypeOK, NEW t
    PROVE  /\ Unhold(t) \in [Organizations -> Answers \union Edits \union {Nobody}]
           /\ \A o \in Organizations : held[o] # t => Unhold(t)[o] = held[o]
BY DEF Unhold, TypeOK

(* The locks of the edits are not those of an answer that ends.            *)
LEMMA EditsKeepLocks ==
    ASSUME SyncInv, NEW a \in Answers, held' = Unhold(a), UNCHANGED <<eventHeld, edit>>
    PROVE  EditsHold'
<1>1. \A o \in Organizations : held[o] # a => held'[o] = held[o]
  BY UnholdType DEF SyncInv
<1>2. \A e \in Edits : /\ Withdrawn(e)' = Withdrawn(e) /\ ToInvite(e)' = ToInvite(e)
                       /\ Withdrawn(e) \subseteq Organizations
                       /\ ToInvite(e) \subseteq Organizations
                       /\ e # a
  BY SlotsAssumption DEF SyncInv, TypeOK, Withdrawn, ToInvite
<1> QED
  BY <1>1, <1>2 DEF SyncInv, EditsHold

(***************************************************************************)
(* Answers.                                                                *)
(***************************************************************************)
LEMMA AnswerSteps ==
    ASSUME SyncInv, NEW a \in Answers,
           \/ \E o \in Organizations, to \in InvitationStatus : ReadInvitation(a, o, to)
           \/ Advance(a)
           \/ RollBackAnswer(a)
    PROVE  SyncInv'
<1> USE DEF SyncInv
<1>0. answer \in [Answers -> AnswerRecord] /\ edit \in [Edits -> EditRecord]
  BY DEF TypeOK, AnswerRecord, EditRecord
<1>1. ASSUME NEW o \in Organizations, NEW to \in InvitationStatus, ReadInvitation(a, o, to)
      PROVE  SyncInv'
  <2>1. to \in Responses \union {"CANCELLED"}
    BY <1>1 DEF ReadInvitation
  <2>2. TypeOK'
    BY <1>1 DEF ReadInvitation, TypeOK
  <2>3. AnswersHold'
    BY <1>1, <2>1, <1>0 DEF ReadInvitation, AnswersHold
  <2>4. EditsHold' /\ SeenStands' /\ CollaboratorsAgreed'
    BY <1>1 DEF ReadInvitation, EditsHold, SeenStands, CollaboratorsAgreed, Withdrawn, ToInvite
  <2> QED
    BY <2>2, <2>3, <2>4
<1>2. ASSUME Move(a) PROVE SyncInv'
  <2> DEFINE o == answer[a].org
  <2>1. o \in Organizations /\ answer[a].to \in Responses \union {"CANCELLED"}
    BY <1>2 DEF Move, AnswersHold
  <2>2. /\ held[o] = Nobody /\ held' = [held EXCEPT ![o] = a]
        /\ invitation[o] \in AllowedCurrentStatuses(answer[a].to)
        /\ answer' = [answer EXCEPT ![a].phase = "moved"]
        /\ UNCHANGED <<exists, invitation, collaborators, eventHeld, edit>>
    BY <1>2 DEF Move
  <2>3. TypeOK'
    BY <2>1, <2>2, <1>0 DEF TypeOK, AnswerRecord
  <2>4. AnswersHold'
    <3> SUFFICES ASSUME NEW b \in Answers PROVE AnswersHold!(b)'
      BY DEF AnswersHold
    <3>1. CASE b = a
      BY <3>1, <2>1, <2>2, <1>0 DEF AllowedCurrentStatuses, TypeOK, AnswerRecord
    <3>2. CASE b # a
      BY <3>2, <2>1, <2>2, <1>0, SlotsAssumption DEF AnswersHold, AllowedCurrentStatuses, TypeOK
    <3> QED BY <3>1, <3>2
  <2>5. EditsHold'
    BY <2>1, <2>2, SlotsAssumption DEF EditsHold, TypeOK, Withdrawn, ToInvite
  <2>6. SeenStands' /\ CollaboratorsAgreed'
    BY <2>2 DEF SeenStands, CollaboratorsAgreed
  <2> QED
    BY <2>3, <2>4, <2>5, <2>6
<1>3. ASSUME TooLate(a) PROVE SyncInv'
  <2>1. answer' = [answer EXCEPT ![a] = NoAnswer] /\ NoAnswer.phase = "idle"
        /\ UNCHANGED <<exists, invitation, collaborators, held, eventHeld, edit>>
    BY <1>3 DEF TooLate, NoAnswer
  <2>2. TypeOK'
    BY <2>1, NoAnswerType DEF TypeOK, AnswerRecord
  <2>3. AnswersHold'
    BY <2>1, <1>0 DEF AnswersHold, AllowedCurrentStatuses
  <2>4. EditsHold' /\ SeenStands' /\ CollaboratorsAgreed'
    BY <2>1 DEF EditsHold, SeenStands, CollaboratorsAgreed, Withdrawn, ToInvite
  <2> QED
    BY <2>2, <2>3, <2>4
<1>4. ASSUME Respond(a) PROVE SyncInv'
  <2> DEFINE o == answer[a].org
             to == answer[a].to
  <2>1. /\ o \in Organizations /\ to \in Responses \union {"CANCELLED"}
        /\ held[o] = a /\ invitation[o] \in AllowedCurrentStatuses(to)
    BY <1>4 DEF Respond, AnswersHold
  <2>2. invitation[o] \in Open
    BY <2>1 DEF AllowedCurrentStatuses, Open
  <2>3. /\ invitation' = [invitation EXCEPT ![o] = to]
        /\ answer' = [answer EXCEPT ![a] = NoAnswer] /\ NoAnswer.phase = "idle"
        /\ held' = Unhold(a)
        /\ UNCHANGED <<exists, eventHeld, edit>>
    BY <1>4 DEF Respond, NoAnswer
  <2>4. collaborators' = CASE to = "ACCEPTED" -> collaborators \union {o}
                           [] to \in {"DECLINED", "CANCELLED"} -> collaborators \ {o}
                           [] OTHER -> collaborators
    BY <1>4 DEF Respond
  <2>5. to = "IGNORED" => invitation[o] = "PENDING"
    BY <2>1 DEF AllowedCurrentStatuses
  <2> HIDE DEF o, to
  <2>6. TypeOK'
    <3>1. collaborators' \subseteq Organizations
      BY <2>1, <2>4 DEF TypeOK
    <3>2. invitation' \in [Organizations -> InvitationStatus \union {"NONE"}]
      BY <2>1, <2>3 DEF TypeOK, Responses, InvitationStatus
    <3> QED
      BY <2>3, <3>1, <3>2, NoAnswerType, UnholdType DEF TypeOK, AnswerRecord
  <2>7. AnswersHold'
    <3> SUFFICES ASSUME NEW b \in Answers PROVE AnswersHold!(b)'
      BY DEF AnswersHold
    <3>1. CASE b = a
      BY <3>1, <2>3, <1>0
    <3>2. CASE b # a
      <4>1. answer'[b] = answer[b]
        BY <3>2, <2>3, <1>0
      <4>2. answer[b].phase = "moved" => held[answer[b].org] = b /\ answer[b].org \in Organizations
        BY DEF AnswersHold
      <4>3. answer[b].phase = "moved" => /\ held'[answer[b].org] = b
                                         /\ invitation'[answer[b].org] = invitation[answer[b].org]
        BY <4>2, <3>2, <2>1, <2>3, UnholdType DEF TypeOK
      <4> QED
        BY <4>1, <4>3 DEF AnswersHold, AllowedCurrentStatuses
    <3> QED BY <3>1, <3>2
  <2>8. EditsHold'
    BY <2>3, EditsKeepLocks
  <2>9. SeenStands'
    BY <2>1, <2>2, <2>3 DEF SeenStands, TypeOK
  <2>10. CollaboratorsAgreed'
    <3>1. to \in {"ACCEPTED", "DECLINED", "CANCELLED", "IGNORED"}
      BY <2>1 DEF Responses
    <3>2. \A x \in Organizations : invitation'[x] = IF x = o THEN to ELSE invitation[x]
      BY <2>1, <2>3 DEF TypeOK
    <3> QED
      BY <3>1, <3>2, <2>1, <2>4, <2>5 DEF CollaboratorsAgreed
  <2> QED
    BY <2>6, <2>7, <2>8, <2>9, <2>10
<1>5. ASSUME RollBackAnswer(a) PROVE SyncInv'
  <2>1. /\ answer' = [answer EXCEPT ![a] = NoAnswer] /\ NoAnswer.phase = "idle"
        /\ held' = Unhold(a)
        /\ UNCHANGED <<exists, invitation, collaborators, eventHeld, edit>>
    BY <1>5 DEF RollBackAnswer, NoAnswer
  <2>2. TypeOK'
    BY <2>1, NoAnswerType, UnholdType DEF TypeOK, AnswerRecord
  <2>3. AnswersHold'
    BY <2>1, <1>0, UnholdType DEF AnswersHold, AllowedCurrentStatuses
  <2>4. EditsHold'
    BY <2>1, EditsKeepLocks
  <2>5. SeenStands' /\ CollaboratorsAgreed'
    BY <2>1 DEF SeenStands, CollaboratorsAgreed
  <2> QED
    BY <2>2, <2>3, <2>4, <2>5
<1> QED
  BY <1>1, <1>2, <1>3, <1>4, <1>5 DEF Advance

(***************************************************************************)
(* Edits and deletions.                                                    *)
(***************************************************************************)
LEMMA UndoStep == ASSUME SyncInv, NEW e \in Edits, edit[e].phase # "idle", Undo(e) PROVE SyncInv'
<1> USE DEF SyncInv
<1>1. /\ held' = Unhold(e) /\ edit' = [edit EXCEPT ![e] = NoEdit] /\ NoEdit.phase = "idle"
      /\ eventHeld' = Nobody /\ eventHeld = e
      /\ UNCHANGED <<exists, invitation, collaborators, answer>>
  BY DEF Undo, NoEdit, EditsHold
<1>2. TypeOK'
  BY <1>1, NoEditType, UnholdType DEF TypeOK, EditRecord
<1>3. AnswersHold'
  BY <1>1, UnholdType, SlotsAssumption DEF AnswersHold, AllowedCurrentStatuses
<1>4. \A f \in Edits : edit'[f].phase = "idle"
  BY <1>1 DEF TypeOK, EditsHold
<1>5. EditsHold' /\ SeenStands'
  BY <1>4 DEF EditsHold, SeenStands
<1>6. CollaboratorsAgreed'
  BY <1>1 DEF CollaboratorsAgreed
<1> QED
  BY <1>2, <1>3, <1>5, <1>6

LEMMA CommitStep == ASSUME SyncInv, NEW e \in Edits, CommitEdit(e) PROVE SyncInv'
<1> USE DEF SyncInv
<1>1. /\ held' = Unhold(e) /\ edit' = [edit EXCEPT ![e] = NoEdit] /\ NoEdit.phase = "idle"
      /\ eventHeld' = Nobody /\ eventHeld = e /\ edit[e].phase = "invited"
      /\ UNCHANGED <<exists, answer>>
  BY DEF CommitEdit, NoEdit, EditsHold
<1>2. /\ \A o \in Withdrawn(e) \union ToInvite(e) : held[o] = e
      /\ Withdrawn(e) \subseteq Organizations /\ ToInvite(e) \subseteq Organizations
      /\ Withdrawn(e) \intersect ToInvite(e) = {}
  BY <1>1 DEF EditsHold, Withdrawn, ToInvite, TypeOK
<1>3. /\ \A o \in Organizations :
            invitation'[o] = IF o \in ToInvite(e) THEN "PENDING"
                             ELSE IF o \in Withdrawn(e) /\ invitation[o] # "NONE" THEN "CANCELLED"
                             ELSE invitation[o]
      /\ collaborators' = collaborators \ Withdrawn(e)
  BY DEF CommitEdit
<1>4. \A o \in ToInvite(e) : invitation[o] # "ACCEPTED"
  BY <1>1 DEF SeenStands, ToInvite, Open, TypeOK
<1>5. TypeOK'
  <2>1. invitation' \in [Organizations -> InvitationStatus \union {"NONE"}]
    BY DEF CommitEdit, TypeOK, InvitationStatus
  <2> QED
    BY <1>1, <1>3, <2>1, NoEditType, UnholdType DEF TypeOK, EditRecord
<1>6. AnswersHold'
  <2> SUFFICES ASSUME NEW b \in Answers PROVE AnswersHold!(b)'
    BY DEF AnswersHold
  <2>1. answer'[b] = answer[b]
    BY <1>1
  <2>2. answer[b].phase = "moved" =>
           /\ answer[b].org \in Organizations /\ held[answer[b].org] = b
           /\ answer[b].org \notin Withdrawn(e) \union ToInvite(e)
    BY <1>2, SlotsAssumption DEF AnswersHold
  <2>3. answer[b].phase = "moved" => /\ held'[answer[b].org] = b
                                     /\ invitation'[answer[b].org] = invitation[answer[b].org]
    BY <2>2, <1>1, <1>3, UnholdType, SlotsAssumption
  <2> QED
    BY <2>1, <2>3 DEF AnswersHold, AllowedCurrentStatuses
<1>7. \A f \in Edits : edit'[f].phase = "idle"
  BY <1>1 DEF TypeOK, EditsHold
<1>8. EditsHold' /\ SeenStands'
  BY <1>7 DEF EditsHold, SeenStands
<1>9. CollaboratorsAgreed'
  BY <1>2, <1>3, <1>4 DEF CollaboratorsAgreed, TypeOK
<1> QED
  BY <1>5, <1>6, <1>8, <1>9

LEMMA EditSteps ==
    ASSUME SyncInv, NEW e \in Edits,
           \/ \E wanted \in SUBSET Organizations : SaveEvent(e, wanted)
           \/ Sync(e)
           \/ RollBackEdit(e)
    PROVE  SyncInv'
<1> USE DEF SyncInv
<1>0. edit \in [Edits -> EditRecord]
  BY DEF TypeOK, EditRecord
<1>1. ASSUME NEW wanted \in SUBSET Organizations, SaveEvent(e, wanted) PROVE SyncInv'
  <2> DEFINE r == [NoEdit EXCEPT !.phase = "saved", !.wanted = wanted]
  <2>1. r \in EditRecord /\ r.phase = "saved"
    BY NoEditType DEF EditRecord, NoEdit
  <2>2. /\ eventHeld = Nobody /\ eventHeld' = e /\ edit' = [edit EXCEPT ![e] = r]
        /\ UNCHANGED <<exists, invitation, collaborators, held, answer>>
    BY <1>1 DEF SaveEvent
  <2> HIDE DEF r
  <2>3. TypeOK'
    BY <2>1, <2>2 DEF TypeOK, EditRecord
  <2>4. \A f \in Edits : edit'[f].phase = IF f = e THEN "saved" ELSE "idle"
    BY <2>1, <2>2, <1>0, SlotsAssumption DEF EditsHold
  <2>5. EditsHold' /\ SeenStands'
    BY <2>2, <2>4 DEF EditsHold, SeenStands
  <2>6. AnswersHold' /\ CollaboratorsAgreed'
    BY <2>2 DEF AnswersHold, AllowedCurrentStatuses, CollaboratorsAgreed
  <2> QED
    BY <2>3, <2>5, <2>6
<1>2. ASSUME ReadExisting(e) PROVE SyncInv'
  <2>1. /\ edit[e].phase = "saved"
        /\ edit' = [edit EXCEPT ![e].phase = "read", ![e].seen = invitation]
        /\ UNCHANGED <<exists, invitation, collaborators, held, eventHeld, answer>>
    BY <1>2 DEF ReadExisting
  <2>2. edit'[e].phase = "read" /\ edit'[e].seen = invitation
    BY <2>1, <1>0 DEF EditRecord
  <2>3. \A f \in Edits : f # e => edit'[f] = edit[f]
    BY <2>1, <1>0
  <2>4. TypeOK'
    <3>1. [edit[e] EXCEPT !.phase = "read", !.seen = invitation] \in EditRecord
      BY <1>0 DEF EditRecord, TypeOK
    <3>2. edit' = [edit EXCEPT ![e] = [edit[e] EXCEPT !.phase = "read", !.seen = invitation]]
      BY <2>1
    <3>3. edit' \in [Edits -> EditRecord]
      BY <3>1, <3>2, <1>0
    <3> QED
      BY <2>1, <3>3 DEF TypeOK, EditRecord
  <2>5. EditsHold' /\ SeenStands'
    BY <2>1, <2>2, <2>3 DEF EditsHold, SeenStands, Withdrawn, ToInvite
  <2>6. AnswersHold' /\ CollaboratorsAgreed'
    BY <2>1 DEF AnswersHold, AllowedCurrentStatuses, CollaboratorsAgreed
  <2> QED
    BY <2>4, <2>5, <2>6
<1>3. ASSUME Withdraw(e) PROVE SyncInv'
  <2>1. /\ edit[e].phase = "read"
        /\ edit' = [edit EXCEPT ![e].phase = "withdrawn"]
        /\ UNCHANGED <<exists, invitation, collaborators, held, eventHeld, answer>>
    BY <1>3 DEF Withdraw
  <2>2. edit'[e] = [edit[e] EXCEPT !.phase = "withdrawn"]
    BY <2>1, <1>0
  <2>3. \A f \in Edits : f # e => edit'[f] = edit[f] /\ edit[f].phase = "idle"
    BY <2>1, <1>0 DEF EditsHold
  <2>4. /\ edit'[e].wanted = edit[e].wanted /\ edit'[e].seen = edit[e].seen
        /\ edit'[e].phase = "withdrawn"
        /\ Withdrawn(e)' = Withdrawn(e) /\ ToInvite(e)' = ToInvite(e)
    BY <2>2, <1>0 DEF EditRecord, Withdrawn, ToInvite
  <2>5. TypeOK'
    <3>1. [edit[e] EXCEPT !.phase = "withdrawn"] \in EditRecord
      BY <1>0 DEF EditRecord
    <3>2. edit' = [edit EXCEPT ![e] = [edit[e] EXCEPT !.phase = "withdrawn"]]
      BY <2>1
    <3>3. edit' \in [Edits -> EditRecord]
      BY <3>1, <3>2, <1>0
    <3> QED
      BY <2>1, <3>3 DEF TypeOK, EditRecord
  <2>6. EditsHold'
    <3>1. \A o \in Withdrawn(e) : held[o] = e
      BY <1>3 DEF Withdraw
    <3> QED
      BY <3>1, <2>1, <2>3, <2>4 DEF EditsHold
  <2>7. SeenStands' /\ CollaboratorsAgreed' /\ AnswersHold'
    BY <2>1, <2>3, <2>4 DEF SeenStands, CollaboratorsAgreed, AnswersHold, AllowedCurrentStatuses
  <2> QED
    BY <2>5, <2>6, <2>7
<1>4. ASSUME Invite(e) PROVE SyncInv'
  <2>1. /\ edit[e].phase = "withdrawn"
        /\ edit' = [edit EXCEPT ![e].phase = "invited"]
        /\ UNCHANGED <<exists, invitation, collaborators, held, eventHeld, answer>>
    BY <1>4 DEF Invite
  <2>2. edit'[e] = [edit[e] EXCEPT !.phase = "invited"]
    BY <2>1, <1>0
  <2>3. \A f \in Edits : f # e => edit'[f] = edit[f] /\ edit[f].phase = "idle"
    BY <2>1, <1>0 DEF EditsHold
  <2>4. /\ edit'[e].wanted = edit[e].wanted /\ edit'[e].seen = edit[e].seen
        /\ edit'[e].phase = "invited"
        /\ Withdrawn(e)' = Withdrawn(e) /\ ToInvite(e)' = ToInvite(e)
    BY <2>2, <1>0 DEF EditRecord, Withdrawn, ToInvite
  <2>5. TypeOK'
    <3>1. [edit[e] EXCEPT !.phase = "invited"] \in EditRecord
      BY <1>0 DEF EditRecord
    <3>2. edit' = [edit EXCEPT ![e] = [edit[e] EXCEPT !.phase = "invited"]]
      BY <2>1
    <3>3. edit' \in [Edits -> EditRecord]
      BY <3>1, <3>2, <1>0
    <3> QED
      BY <2>1, <3>3 DEF TypeOK, EditRecord
  <2>6. EditsHold'
    <3>1. \A o \in ToInvite(e) : held[o] = e
      BY <1>4 DEF Invite
    <3> QED
      BY <3>1, <2>1, <2>3, <2>4 DEF EditsHold
  <2>7. SeenStands' /\ CollaboratorsAgreed' /\ AnswersHold'
    BY <2>1, <2>3, <2>4 DEF SeenStands, CollaboratorsAgreed, AnswersHold, AllowedCurrentStatuses
  <2> QED
    BY <2>5, <2>6, <2>7
<1>5. ASSUME RefuseUnknown(e) \/ RollBackEdit(e) PROVE SyncInv'
  <2>1. edit[e].phase # "idle" /\ Undo(e)
    BY <1>5 DEF RefuseUnknown, RollBackEdit
  <2> QED
    BY <2>1, UndoStep
<1>6. ASSUME NEW o \in Organizations, LockRow(e, o) PROVE SyncInv'
  <2>1. /\ edit[e].phase # "idle" /\ held[o] = Nobody
        /\ \A x \in Organizations : held'[x] = IF x = o THEN e ELSE held[x]
        /\ held' \in [Organizations -> Answers \union Edits \union {Nobody}]
        /\ UNCHANGED <<exists, invitation, collaborators, eventHeld, answer, edit>>
    BY <1>6 DEF LockRow, TypeOK
  <2>2. \A f \in Edits : f # e => edit[f].phase = "idle"
    BY <2>1 DEF EditsHold
  <2>3. \A f \in Edits : /\ Withdrawn(f)' = Withdrawn(f) /\ ToInvite(f)' = ToInvite(f)
                         /\ Withdrawn(f) \subseteq Organizations
                         /\ ToInvite(f) \subseteq Organizations
    BY <2>1, <1>0 DEF Withdrawn, ToInvite, EditRecord
  <2>4. EditsHold'
    BY <2>1, <2>2, <2>3 DEF EditsHold
  <2>5. AnswersHold'
    BY <2>1, SlotsAssumption DEF AnswersHold, AllowedCurrentStatuses
  <2> QED
    BY <2>1, <2>4, <2>5 DEF TypeOK, SeenStands, CollaboratorsAgreed
<1> QED
  BY <1>1, <1>2, <1>3, <1>4, <1>5, <1>6, CommitStep DEF Sync

LEMMA DeletionStep ==
    ASSUME SyncInv, NEW o \in Organizations, DeleteOrganization(o) PROVE SyncInv'
<1> USE DEF SyncInv, DeleteOrganization
<1>1. TypeOK'
  BY DEF TypeOK
<1>2. AnswersHold'
  BY SlotsAssumption DEF AnswersHold, AllowedCurrentStatuses, TypeOK
<1>3. EditsHold'
  BY DEF EditsHold, Withdrawn, ToInvite
<1>4. SeenStands'
  BY DEF SeenStands, TypeOK, Open
<1>5. CollaboratorsAgreed'
  BY DEF CollaboratorsAgreed, TypeOK
<1> QED
  BY <1>1, <1>2, <1>3, <1>4, <1>5

LEMMA SyncStep == SyncInv /\ [Next]_vars => SyncInv'
<1> SUFFICES ASSUME SyncInv, [Next]_vars PROVE SyncInv'
  OBVIOUS
<1>1. CASE UNCHANGED vars
  BY <1>1 DEF SyncInv, vars, TypeOK, AnswersHold, AllowedCurrentStatuses, EditsHold, Withdrawn,
              ToInvite, SeenStands, CollaboratorsAgreed
<1> QED
  BY <1>1, AnswerSteps, EditSteps, DeletionStep DEF Next

(* SyncInv holds of every behaviour: nothing that a transaction decided    *)
(* from is stale when it commits.                                          *)
THEOREM SyncInvariant == Spec => []SyncInv
<1> QED
  BY InitSync, SyncStep, PTL DEF Spec

(* An organization is on the event exactly while its invitation is         *)
(* accepted, however many answers and edits run at the same time.          *)
THEOREM CollaboratorsAlwaysAgreed == Spec => []CollaboratorsAgreed
<1>1. SyncInv => CollaboratorsAgreed
  BY DEF SyncInv
<1> QED
  BY <1>1, SyncInvariant, PTL

(* An answer only ever replaces PENDING.                                   *)
THEOREM AnswersReplacePending == Spec => OnlyPendingAnswered
<1>1. SyncInv /\ [Next]_vars =>
        [\A o \in Organizations :
            invitation'[o] \in Responses /\ invitation'[o] # invitation[o]
               => invitation[o] = "PENDING"]_vars
  <2> SUFFICES ASSUME SyncInv, Next, NEW o \in Organizations,
                      invitation'[o] \in Responses, invitation'[o] # invitation[o]
               PROVE  invitation[o] = "PENDING"
    OBVIOUS
  <2>1. invitation \in [Organizations -> InvitationStatus \union {"NONE"}]
    BY DEF SyncInv, TypeOK
  <2>2. ASSUME NEW a \in Answers, Respond(a) PROVE invitation[o] = "PENDING"
    <3>1. answer[a].org \in Organizations
          /\ invitation[answer[a].org] \in AllowedCurrentStatuses(answer[a].to)
          /\ invitation' = [invitation EXCEPT ![answer[a].org] = answer[a].to]
      BY <2>2 DEF Respond, SyncInv, AnswersHold
    <3>2. o = answer[a].org /\ answer[a].to \in Responses
      BY <3>1, <2>1
    <3> QED
      BY <3>1, <3>2 DEF AllowedCurrentStatuses, Responses
  <2>3. ASSUME NEW e \in Edits, CommitEdit(e) PROVE FALSE
    <3>1. invitation'[o] = IF o \in ToInvite(e) THEN "PENDING"
                           ELSE IF o \in Withdrawn(e) /\ invitation[o] # "NONE" THEN "CANCELLED"
                           ELSE invitation[o]
      BY <2>3 DEF CommitEdit
    <3> QED
      BY <3>1 DEF Responses
  <2>4. ASSUME NEW p \in Organizations, DeleteOrganization(p) PROVE FALSE
    BY <2>1, <2>4 DEF DeleteOrganization, Responses
  <2>5. UNCHANGED invitation \/ (\E a \in Answers : Respond(a)) \/ (\E e \in Edits : CommitEdit(e))
        \/ (\E p \in Organizations : DeleteOrganization(p))
    BY DEF Next, Advance, Sync, ReadInvitation, Move, TooLate, RollBackAnswer, SaveEvent,
           ReadExisting, LockRow, Withdraw, Invite, RefuseUnknown, RollBackEdit, Undo
  <2> QED
    BY <2>2, <2>3, <2>4, <2>5
<1> QED
  BY <1>1, SyncInvariant, PTL DEF Spec, OnlyPendingAnswered

(* When an edit commits, its list decides who is on the event.             *)
THEOREM ListsAreFinal == Spec => ListIsFinal
<1>1. SyncInv /\ [Next]_vars =>
        [\A e \in Edits : CommitEdit(e) => collaborators' \subseteq edit[e].wanted]_vars
  <2> SUFFICES ASSUME SyncInv, NEW e \in Edits, CommitEdit(e)
               PROVE  collaborators' \subseteq edit[e].wanted
    OBVIOUS
  <2>1. /\ edit[e].phase = "invited" /\ collaborators' = collaborators \ Withdrawn(e)
        /\ collaborators \subseteq Organizations
    BY DEF CommitEdit, SyncInv, TypeOK
  <2>2. \A o \in collaborators : edit[e].seen[o] \in Open
    BY <2>1 DEF SyncInv, SeenStands, CollaboratorsAgreed, Open
  <2> QED
    BY <2>1, <2>2 DEF Withdrawn
<1> QED
  BY <1>1, SyncInvariant, PTL DEF Spec, ListIsFinal

(* An edit does not take back an acceptance of who it lists.               *)
THEOREM ListedOrganizationsStay == Spec => ListedStayOn
<1>1. SyncInv /\ [Next]_vars =>
        [\A e \in Edits :
            CommitEdit(e) =>
               \A o \in edit[e].wanted :
                  invitation[o] = "ACCEPTED" => invitation'[o] = "ACCEPTED"]_vars
  <2> SUFFICES ASSUME SyncInv, NEW e \in Edits, CommitEdit(e),
                      NEW o \in edit[e].wanted, invitation[o] = "ACCEPTED"
               PROVE  invitation'[o] = "ACCEPTED"
    OBVIOUS
  <2>1. edit[e].phase = "invited" /\ o \in Organizations
    BY DEF CommitEdit, SyncInv, TypeOK
  <2>2. o \notin ToInvite(e) /\ o \notin Withdrawn(e)
    BY <2>1 DEF SyncInv, SeenStands, ToInvite, Withdrawn, Open
  <2> QED
    BY <2>1, <2>2 DEF CommitEdit
<1> QED
  BY <1>1, SyncInvariant, PTL DEF Spec, ListedStayOn
=============================================================================
