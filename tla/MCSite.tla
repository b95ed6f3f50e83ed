------------------------------- MODULE MCSite -------------------------------
(* Components that share no state, checked side by side: a behavior is one *)
(* of the component its subject names, and the others stand still.         *)
EXTENDS MCEventPages, EventEdits, SessionStore, PopupSchedule, Audience, Listings,
        Taste, WriteCharges

VARIABLE subject

MCStartOf == <<1, 2, 1>>
MCCapacityOf == <<0, 1, 2>>
MCHostOf == <<1, 2, 2>>
MCCategoriesOf == <<{1}, {1}, {1, 2}>>
MCLimits == [Event |-> 2, EventInvitation |-> 2, Registration |-> 3]

(* Records nested in each other, and beside each a second one where there  *)
(* may be several, or the other one of an upsert.                          *)
Beside(write, nested) ==
    IF write.how \in Upserts THEN {[write EXCEPT !.how = h] : h \in Upserts}
    ELSE {write} \cup {[write EXCEPT !.nr = @ + 1] : n \in
                          IF nested \/ write.how = "createMany" THEN {2} ELSE {}}

StatementOf(chain) ==
    UNION {{[above |-> SubSeq(chain, 1, i - 1), write |-> w] : w \in Beside(chain[i], i > 1)} :
           i \in DOMAIN chain}

Outer == [model : Models, how : {"create", "createMany", "update", "upsertNew"}, nr : {1}]
Inner == [model : Models, how : NESTED_WRITES \ {"createMany"}, nr : {3}]
Innermost == [model : Models, how : {"create", "connectOrCreate", "connect"}, nr : {5}]

Chains == {<<w>> : w \in Outer} \cup (Outer \X Inner) \cup (Outer \X Inner \X Innermost)

MCStatements ==
    {StatementOf(chain) : chain \in {c \in Chains :
        \A i \in 1..(Len(c) - 1) : <<c[i].model, c[i + 1].model>> \in RELATION_TARGET_MODELS}}

siteVars == <<subject, pageVars, editVars, storeVars, popupVars, audienceVars, listVars,
              tasteVars, chargeVars>>

(* Bound of the model: the second organization stays approved. *)
OneWaits == o2 \in approved

SiteInit ==
    /\ subject \in {"pages", "edits", "sessions", "popups", "followers", "attendance",
                    "inbox", "arranged", "taste", "charges"}
    /\ PagesInit /\ EditsInit /\ StoreInit /\ PopupsInit /\ AudienceInit /\ ListsInit
    /\ TasteInit /\ ChargesInit
    /\ IF subject = "pages" THEN OneWaits ELSE approved = {} /\ member = Role("ADMIN")

PagesStep == PagesNext /\ OneWaits' /\ UNCHANGED <<editVars, storeVars, popupVars,
                                               audienceVars, listVars, tasteVars, chargeVars>>
EditsStep == EditsNext /\ UNCHANGED <<pageVars, storeVars, popupVars, audienceVars, listVars,
                                      tasteVars, chargeVars>>
StoreStep == StoreNext /\ UNCHANGED <<pageVars, editVars, popupVars, audienceVars, listVars,
                                      tasteVars, chargeVars>>
PopupsStep == PopupsNext /\ UNCHANGED <<pageVars, editVars, storeVars, audienceVars, listVars,
                                        tasteVars, chargeVars>>
AudienceStep(step) == step /\ UNCHANGED <<pageVars, editVars, storeVars, popupVars, listVars,
                                          tasteVars, chargeVars>>
ListsStep(step) == step /\ UNCHANGED <<pageVars, editVars, storeVars, popupVars, audienceVars,
                                       tasteVars, chargeVars>>
TasteStep == TasteNext /\ UNCHANGED <<pageVars, editVars, storeVars, popupVars, audienceVars,
                                      listVars, chargeVars>>
ChargesStep == ChargesNext /\ UNCHANGED <<pageVars, editVars, storeVars, popupVars,
                                          audienceVars, listVars, tasteVars>>

SiteNext ==
    /\ UNCHANGED subject
    /\ \/ subject = "pages" /\ PagesStep
       \/ subject = "edits" /\ EditsStep
       \/ subject = "sessions" /\ StoreStep
       \/ subject = "popups" /\ PopupsStep
       \/ subject = "followers" /\ AudienceStep(FollowersNext)
       \/ subject = "attendance" /\ AudienceStep(AttendanceNext)
       \/ subject = "inbox" /\ ListsStep(InboxNext)
       \/ subject = "arranged" /\ ListsStep(ArrangedNext)
       \/ subject = "taste" /\ TasteStep
       \/ subject = "charges" /\ ChargesStep

SiteSpec == SiteInit /\ [][SiteNext]_siteVars
=============================================================================
