----------------------------- MODULE SiteProofs -----------------------------
(***************************************************************************)
(* Components that share no state: who sees the page of an event, edits of *)
(* an event, the schedule of the popups, what is rationed, and what a      *)
(* write is charged.                                                       *)
(***************************************************************************)
EXTENDS EventPages, EventEdits, PopupSchedule, Quotas, WriteCharges,
        FiniteSetTheorems, TLAPS

(***************************************************************************)
(* What the lists, the guards and the pages decide agrees in every state   *)
(* the rows can be in, and a request that reads the rows one by one shows  *)
(* only what its reader might see at some moment of it, for any people,    *)
(* organizations and memberships.                                          *)
(***************************************************************************)
Steps == {"none", "arrangers", "asked", "found", "registration", "viewable", "shown", "refused"}

Reads ==
    [step : Steps, user : Guests \cup {Nobody}, of : {"page", "pageByUrlId", "updates"},
     qualifying : SUBSET Orgs, isArranger : BOOLEAN, visibility : EventVisibility,
     shows : {"nothing", "page", "ALL", "GOING"},
     mayPage : BOOLEAN, mayPosts : BOOLEAN, arranged : BOOLEAN, outdated : BOOLEAN]

(* Who arranged the event from the start of the request does so still, and *)
(* was found to, unless the request came by the urlId, or the arrangers it *)
(* read first had changed when it read the memberships.                    *)
ArrangedAllAlong ==
    read.arranged =>
        /\ Reading => Arranges(read.user)
        /\ read.of # "pageByUrlId" /\ read.step \notin {"none", "arrangers"} =>
              read.isArranger \/ read.outdated

(* Memberships are asked of people the event does not name.                *)
OnlyMembersAsk ==
    read.step = "arrangers" =>
        /\ read.user \in People /\ ~read.isArranger /\ ~read.outdated
        /\ arrangers[read.user] \notin EventArrangerRole

OnlyOthersAsk == read.step = "registration" => ~read.isArranger

AccessStrong ==
    /\ PagesTyped
    /\ read \in Reads
    /\ ArrangedAllAlong
    /\ OnlyMembersAsk
    /\ OnlyOthersAsk
    /\ ArrangersMayById

-----------------------------------------------------------------------------
(* What a state decides.                                                   *)

(* Who arranges has an account, and the event is there.                    *)
LEMMA ArrangersFound ==
  ASSUME NEW u, Arranges(u)
  PROVE  u \in People /\ u # Nobody /\ Found
  BY PagesAssumption DEF Arranges, arrangerRoleFor

(* The lists show what a visitor may open (canView). *)
LEMMA ListsAgree == ListsAgreeWithPages
<1>1. ~Arranges(Nobody)
  BY ArrangersFound
<1>2. PageShows(Nobody) <=>
         Found /\ event.visibility = "PUBLIC" /\ ~hasUnapprovedOrganizationArranger
  BY <1>1 DEF PageShows, Viewable, canView, Found
<1>3. ~hasUnapprovedOrganizationArranger <=>
         \A o \in Orgs : arrangers[o] # "none" => o \in approved
  BY DEF hasUnapprovedOrganizationArranger
<1> QED
  BY <1>2, <1>3
     DEF ListsAgreeWithPages, findAll, candidateOfRecommendEvents, findAllPublicWithEvents

(* The decisions on administrators agree. *)
LEMMA AdminsAgreed == AdminsAgree
<1> SUFFICES ASSUME NEW u \in People, Found
             PROVE  /\ isEventAdmin(u) <=> arrangerRoleFor(u, {"ADMIN"}) # {}
                    /\ isEventAdmin(u) => findAllArrangedByUser(u)
  BY DEF AdminsAgree
<1>1. CASE arrangers[u] = "ADMIN"
  <2>1. arrangerRoleFor(u, {"ADMIN"}) = {"ADMIN"}
    BY <1>1 DEF arrangerRoleFor
  <2>2. findAllArrangedByUser(u)
    BY <1>1 DEF findAllArrangedByUser
  <2> QED
    BY <1>1, <2>1, <2>2 DEF isEventAdmin
<1>2. CASE arrangers[u] # "ADMIN"
  <2>1. arrangerRoleFor(u, {"ADMIN"}) =
           {arrangers[o] : o \in {p \in Orgs : /\ arrangers[p] \in {"ADMIN"}
                                               /\ Administers(u, p)}}
    BY <1>2 DEF arrangerRoleFor
  <2>2. isEventAdmin(u) <=> \E o \in Orgs : arrangers[o] = "ADMIN" /\ Administers(u, o)
    BY <1>2 DEF isEventAdmin
  <2>3. isEventAdmin(u) => arrangerRoleFor(u, {"ADMIN"}) # {}
    BY <2>1, <2>2
  <2>4. arrangerRoleFor(u, {"ADMIN"}) # {} => isEventAdmin(u)
    BY <2>1, <2>2
  <2>5. isEventAdmin(u) => findAllArrangedByUser(u)
    BY <2>2 DEF findAllArrangedByUser
  <2> QED
    BY <2>3, <2>4, <2>5
<1> QED
  BY <1>1, <1>2

(* What people kept of an event tells no more than its page. *)
LEMMA OwnListsAgree == PagesTyped => OwnListsNeedThePage
<1> SUFFICES ASSUME PagesTyped, Found, ~hasUnapprovedOrganizationArranger, NEW u \in People,
                    \/ registrationShowsEvent(u) \/ favoriteShowsEvent(u) \/ countShown(u)
             PROVE  PageShows(u)
  BY DEF OwnListsNeedThePage
<1>1. event.visibility = "PUBLIC" \/ Registered(u) \/ Arranges(u)
  <2>1. CASE arrangers[u] # "none"
    <3>1. arrangers[u] \in EventArrangerRole
      BY <2>1 DEF PagesTyped, Arrangers
    <3>2. arrangerRoleFor(u, EventArrangerRole) = {arrangers[u]}
      BY <3>1 DEF arrangerRoleFor
    <3> QED
      BY <3>2 DEF Arranges
  <2>2. CASE arrangers[u] = "none"
    BY <2>2 DEF registrationShowsEvent, favoriteShowsEvent, countShown, viewableEvent,
       Registered
  <2> QED
    BY <2>1, <2>2
<1>2. u # Nobody
  BY PagesAssumption
<1> QED
  BY <1>1, <1>2 DEF PageShows, Viewable, canView, Found

-----------------------------------------------------------------------------
(* What a step of the rows or of the request preserves.                    *)

LEMMA RolesOfArrangers ==
  "ADMIN" \in EventArrangerRole /\ "none" \notin EventArrangerRole /\ "ADMIN" # "none"
  BY DEF EventArrangerRole

(* The rows keep their types, and the event its administrator. *)
RowsOK ==
    /\ event \in [live : BOOLEAN, archived : BOOLEAN, readOnly : BOOLEAN,
                  visibility : EventVisibility]
    /\ arrangers \in [Arrangers -> EventArrangerRole \cup {"none"}]
    /\ approved \subseteq Orgs
    /\ reg \in [People -> Statuses]
    /\ post \in {"none", "ALL", "GOING", "DELETED"}
    /\ event.live <=> \E a \in Arrangers : arrangers[a] = "ADMIN"
    /\ ~event.live => post = "none" /\ \A u \in People : reg[u] = "none"

LEMMA WritesKeepRows ==
  ASSUME RowsOK, Write
  PROVE  RowsOK'
<1> USE PagesAssumption
<1>0. /\ NoEvent \in [live : BOOLEAN, archived : BOOLEAN, readOnly : BOOLEAN,
                      visibility : EventVisibility]
      /\ NoEvent.live = FALSE
  BY DEF NoEvent, EventVisibility
<1>1. ASSUME NEW a \in Arrangers, NEW v \in EventVisibility, NEW b \in BOOLEAN,
             ~event.live,
             event' = [live |-> TRUE, archived |-> FALSE, readOnly |-> b, visibility |-> v],
             arrangers' = [arrangers EXCEPT ![a] = "ADMIN"],
             UNCHANGED <<approved, reg, post>>
      PROVE  RowsOK'
  <2>1. event' \in [live : BOOLEAN, archived : BOOLEAN, readOnly : BOOLEAN,
                    visibility : EventVisibility]
        /\ event'.live = TRUE
    BY <1>0, <1>1
  <2>2. arrangers' \in [Arrangers -> EventArrangerRole \cup {"none"}]
        /\ arrangers'[a] = "ADMIN"
    BY <1>1, RolesOfArrangers DEF RowsOK
  <2> QED
    BY <1>1, <2>1, <2>2 DEF RowsOK
<1>2. ASSUME NEW u \in People, create(u)
      PROVE  RowsOK'
  <2>1. PICK a \in Arrangers, v \in EventVisibility :
           /\ event' = [NoEvent EXCEPT !.live = TRUE, !.visibility = v]
           /\ arrangers' = [arrangers EXCEPT ![a] = "ADMIN"]
    BY <1>2 DEF create
  <2>2. event' = [live |-> TRUE, archived |-> FALSE, readOnly |-> FALSE, visibility |-> v]
    BY <2>1 DEF NoEvent
  <2> QED
    BY <1>1, <1>2, <2>1, <2>2 DEF create
<1>3. ASSUME NEW o \in Orgs, FeedCreates(o)
      PROVE  RowsOK'
  <2>1. o \in Arrangers /\ "PUBLIC" \in EventVisibility
    BY DEF Arrangers, EventVisibility
  <2>2. event' = [live |-> TRUE, archived |-> FALSE, readOnly |-> TRUE,
                  visibility |-> "PUBLIC"]
    BY <1>3 DEF FeedCreates, NoEvent
  <2> QED
    BY <1>1, <1>3, <2>1, <2>2 DEF FeedCreates
<1>4. ASSUME NEW u \in People, remove(u)
      PROVE  RowsOK'
  <2>1. /\ event' = NoEvent /\ arrangers' = [a \in Arrangers |-> "none"]
        /\ reg' = [v \in People |-> "none"] /\ post' = "none" /\ UNCHANGED approved
    BY <1>4 DEF remove
  <2> QED
    BY <1>0, <2>1, RolesOfArrangers DEF RowsOK
<1>5. ASSUME NEW u \in People, EditVisibility(u)
      PROVE  RowsOK'
  <2>1. PICK v \in EventVisibility : event' = [event EXCEPT !.visibility = v]
    BY <1>5 DEF EditVisibility
  <2> QED
    BY <1>5, <2>1 DEF EditVisibility, RowsOK
<1>6. ASSUME NEW u \in People, sendUpdateToEventParticipants(u)
      PROVE  RowsOK'
  <2>1. event.live
    BY <1>6, ArrangersFound DEF sendUpdateToEventParticipants, Found
  <2> QED
    BY <1>6, <2>1 DEF sendUpdateToEventParticipants, RowsOK
<1>7. ASSUME NEW u \in People, deleteUpdateForEvent(u)
      PROVE  RowsOK'
  <2>1. event.live
    BY <1>7, ArrangersFound DEF deleteUpdateForEvent, Found
  <2> QED
    BY <1>7, <2>1 DEF deleteUpdateForEvent, RowsOK
<1>8. ASSUME NEW u \in Guests, RegistrationChanges(u)
      PROVE  RowsOK'
  BY <1>8 DEF RegistrationChanges, RowsOK
<1>9. ASSUME NEW o \in Orgs, CoOrganizerChanges(o)
      PROVE  RowsOK'
  <2>1. PICK r \in EventArrangerRole \cup {"none"} :
           r # "ADMIN" /\ arrangers' = [arrangers EXCEPT ![o] = r]
    BY <1>9 DEF CoOrganizerChanges, EventArrangerRole
  <2>2. o \in Arrangers /\ arrangers[o] # "ADMIN"
    BY <1>9 DEF CoOrganizerChanges, Arrangers
  <2>3. (\E a \in Arrangers : arrangers'[a] = "ADMIN")
           <=> (\E a \in Arrangers : arrangers[a] = "ADMIN")
    BY <2>1, <2>2 DEF RowsOK
  <2> QED
    BY <1>9, <2>1, <2>2, <2>3 DEF CoOrganizerChanges, RowsOK
<1>10. ASSUME NEW o \in Orgs, ApprovalChanges(o)
       PROVE  RowsOK'
  BY <1>10 DEF ApprovalChanges, RowsOK
<1>11. CASE FeedArchives
  BY <1>11 DEF FeedArchives, RowsOK
<1>12. ASSUME NEW u \in People, NEW o \in Orgs, MembershipChanges(u, o)
       PROVE  RowsOK'
  BY <1>12 DEF MembershipChanges, RowsOK
<1> QED
  BY <1>2, <1>3, <1>4, <1>5, <1>6, <1>7, <1>8, <1>9, <1>10, <1>11, <1>12 DEF Write

(* While a request is read, nobody is named an arranger, and the event     *)
(* becomes no import.                                                      *)
LEMMA WhileReading ==
  ASSUME Reading, RowsOK, Write
  PROVE  /\ \A u \in People : arrangers[u] \notin EventArrangerRole
                              => arrangers'[u] \notin EventArrangerRole
         /\ ~event.readOnly => ~event'.readOnly
<1>1. ASSUME NEW u \in People, create(u)
      PROVE  FALSE
  BY <1>1 DEF create
<1>2. ASSUME NEW o \in Orgs, FeedCreates(o)
      PROVE  FALSE
  BY <1>2 DEF FeedCreates
<1>3. ASSUME NEW u \in People, remove(u)
      PROVE  /\ \A v \in People : arrangers'[v] \notin EventArrangerRole
             /\ ~event'.readOnly
  BY <1>3, RolesOfArrangers DEF remove, NoEvent, Arrangers
<1>4. ASSUME NEW o \in Orgs, CoOrganizerChanges(o)
      PROVE  event' = event /\ \A v \in People : arrangers'[v] = arrangers[v]
  BY <1>4, PagesAssumption DEF CoOrganizerChanges, RowsOK, Arrangers
<1>5. ASSUME NEW u \in People,
             \/ EditVisibility(u) \/ sendUpdateToEventParticipants(u)
             \/ deleteUpdateForEvent(u) \/ (\E o \in Orgs : MembershipChanges(u, o))
      PROVE  arrangers' = arrangers /\ event'.readOnly = event.readOnly
  BY <1>5 DEF EditVisibility, sendUpdateToEventParticipants, deleteUpdateForEvent,
     MembershipChanges, RowsOK
<1>6. ASSUME NEW u \in Guests, RegistrationChanges(u)
      PROVE  arrangers' = arrangers /\ event' = event
  BY <1>6 DEF RegistrationChanges
<1>7. ASSUME NEW o \in Orgs, ApprovalChanges(o)
      PROVE  arrangers' = arrangers /\ event' = event
  BY <1>7 DEF ApprovalChanges
<1>8. CASE FeedArchives
  <2>1. arrangers' = arrangers /\ event'.readOnly = event.readOnly
    BY <1>8 DEF FeedArchives, RowsOK
  <2> QED
    BY <2>1
<1> QED
  BY <1>1, <1>2, <1>3, <1>4, <1>5, <1>6, <1>7, <1>8 DEF Write

-----------------------------------------------------------------------------
(* Watching a request changes only what the watcher keeps. *)
LEMMA WatchedKeeps ==
  ASSUME NEW r \in Reads
  PROVE  /\ Watched(r) \in Reads
         /\ Watched(r).step = r.step /\ Watched(r).user = r.user /\ Watched(r).of = r.of
         /\ Watched(r).isArranger = r.isArranger /\ Watched(r).visibility = r.visibility
         /\ Watched(r).shows = r.shows /\ Watched(r).qualifying = r.qualifying
         /\ Watched(r).outdated = r.outdated
         /\ Watched(r).arranged <=> r.arranged /\ Arranges(r.user)
         /\ Watched(r).mayPosts <=>
               r.mayPosts \/ (Viewable(r.user) /\ (Arranges(r.user) \/ Going(r.user)))
         /\ r.of = "updates" => (Watched(r).mayPage <=> r.mayPage \/ Viewable(r.user))
         /\ r.of # "updates" => (Watched(r).mayPage <=> r.mayPage \/ PageShows(r.user))
  BY DEF Watched, Reads

(* The same, by the rows as a step leaves them. *)
LEMMA WatchedAfter ==
  ASSUME NEW r \in Reads
  PROVE  /\ Watched(r)' \in Reads
         /\ Watched(r)'.step = r.step /\ Watched(r)'.user = r.user /\ Watched(r)'.of = r.of
         /\ Watched(r)'.isArranger = r.isArranger /\ Watched(r)'.visibility = r.visibility
         /\ Watched(r)'.shows = r.shows /\ Watched(r)'.qualifying = r.qualifying
         /\ Watched(r)'.outdated = r.outdated
         /\ Watched(r)'.arranged <=> r.arranged /\ Arranges(r.user)'
         /\ Watched(r)'.mayPosts <=>
               r.mayPosts \/ (Viewable(r.user)' /\ (Arranges(r.user)' \/ Going(r.user)'))
         /\ r.of = "updates" => (Watched(r)'.mayPage <=> r.mayPage \/ Viewable(r.user)')
         /\ r.of # "updates" => (Watched(r)'.mayPage <=> r.mayPage \/ PageShows(r.user)')
  BY DEF Watched, Reads

(* What the rows decide stays while they do. *)
LEMMA RowsDecide ==
  ASSUME UNCHANGED pageRows
  PROVE  /\ \A u : Arranges(u)' <=> Arranges(u)
         /\ \A u : Viewable(u)' <=> Viewable(u)
         /\ \A u : PageShows(u)' <=> PageShows(u)
         /\ \A u : Going(u)' <=> Going(u)
         /\ hasUnapprovedOrganizationArranger' <=> hasUnapprovedOrganizationArranger
         /\ event' = event
         /\ RowsOK => RowsOK'
<1>1. /\ event' = event /\ arrangers' = arrangers /\ approved' = approved
      /\ member' = member /\ reg' = reg /\ post' = post
  BY DEF pageRows
<1>2. \A u : Arranges(u)' <=> Arranges(u)
  BY <1>1 DEF Arranges, arrangerRoleFor, Found, Administers
<1>3. hasUnapprovedOrganizationArranger' <=> hasUnapprovedOrganizationArranger
  BY <1>1 DEF hasUnapprovedOrganizationArranger
<1>4. \A u : Viewable(u)' <=> Viewable(u)
  BY <1>1, <1>2, <1>3 DEF Viewable, canView, Registered
<1>5. \A u : PageShows(u)' <=> PageShows(u)
  BY <1>1, <1>4 DEF PageShows, Found
<1>6. \A u : Going(u)' <=> Going(u)
  BY <1>1 DEF Going
<1>7. RowsOK => RowsOK'
  BY <1>1 DEF RowsOK
<1> QED
  BY <1>1, <1>2, <1>3, <1>4, <1>5, <1>6, <1>7

LEMMA TypeOfRows ==
  /\ PagesTyped <=> RowsOK /\ read.shows \in {"nothing", "page", "ALL", "GOING"}
  /\ (PagesTyped <=> RowsOK /\ read.shows \in {"nothing", "page", "ALL", "GOING"})'
  BY DEF PagesTyped, RowsOK

LEMMA NoReadIsRead ==
  /\ NoRead \in Reads
  /\ NoRead.step = "none" /\ ~NoRead.arranged /\ ~NoRead.isArranger
  BY DEF NoRead, Reads, Steps, EventVisibility

(* A request as it arrives: the arrangers of the event have been read. *)
Known(u, of) == of # "pageByUrlId" /\ Found /\ u \in People
Asks(u, of) ==
    IF Known(u, of) /\ arrangers[u] \notin EventArrangerRole /\ OrgArrangers # {}
    THEN [NoRead EXCEPT !.user = u, !.of = of, !.arranged = TRUE,
             !.step = "arrangers", !.qualifying = OrgArrangers]
    ELSE [NoRead EXCEPT !.user = u, !.of = of, !.arranged = TRUE, !.step = "asked",
             !.isArranger = Known(u, of) /\ arrangers[u] \in EventArrangerRole]

LEMMA AsksIsRead ==
  ASSUME NEW u \in Guests \cup {Nobody}, NEW of \in {"page", "pageByUrlId", "updates"}
  PROVE  /\ Asks(u, of) \in Reads
         /\ Asks(u, of).user = u /\ Asks(u, of).of = of /\ Asks(u, of).arranged
         /\ ~Asks(u, of).outdated
         /\ \/ /\ Asks(u, of).step = "asked"
               /\ Asks(u, of).isArranger <=> of # "pageByUrlId" /\ Arranges(u)
            \/ /\ Asks(u, of).step = "arrangers" /\ ~Asks(u, of).isArranger
               /\ u \in People /\ arrangers[u] \notin EventArrangerRole
<1>1. OrgArrangers \in SUBSET Orgs
  BY DEF OrgArrangers
<1>2. CASE Known(u, of) /\ arrangers[u] \notin EventArrangerRole /\ OrgArrangers # {}
  <2>1. Asks(u, of) = [NoRead EXCEPT !.user = u, !.of = of, !.arranged = TRUE,
                          !.step = "arrangers", !.qualifying = OrgArrangers]
    BY <1>2 DEF Asks
  <2> QED
    BY <1>1, <1>2, <2>1 DEF NoRead, Reads, Steps, EventVisibility, Known
<1>3. CASE ~(Known(u, of) /\ arrangers[u] \notin EventArrangerRole /\ OrgArrangers # {})
  <2>1. Asks(u, of) = [NoRead EXCEPT !.user = u, !.of = of, !.arranged = TRUE, !.step = "asked",
                          !.isArranger = Known(u, of) /\ arrangers[u] \in EventArrangerRole]
    BY <1>3 DEF Asks
  <2>2. /\ Asks(u, of) \in Reads
        /\ Asks(u, of).user = u /\ Asks(u, of).of = of /\ Asks(u, of).arranged
        /\ ~Asks(u, of).outdated /\ Asks(u, of).step = "asked"
        /\ Asks(u, of).isArranger <=> Known(u, of) /\ arrangers[u] \in EventArrangerRole
    BY <2>1 DEF NoRead, Reads, Steps, EventVisibility
  <2>3. CASE Known(u, of) /\ arrangers[u] \in EventArrangerRole
    BY <2>2, <2>3 DEF Known, Arranges, arrangerRoleFor
  <2>4. CASE ~(Known(u, of) /\ arrangers[u] \in EventArrangerRole)
    <3>1. Known(u, of) => OrgArrangers = {}
      BY <1>3, <2>4
    <3>2. of # "pageByUrlId" => ~Arranges(u)
      BY <2>4, <3>1 DEF Known, Arranges, arrangerRoleFor, OrgArrangers
    <3> QED
      BY <2>2, <2>4, <3>2
  <2> QED
    BY <2>3, <2>4
<1> QED
  BY <1>2, <1>3

(* What the memberships tell, when the arrangers are still those read.     *)
LEMMA MembershipsTell ==
  ASSUME OnlyMembersAsk, read.step = "arrangers", Found, read.qualifying = OrgArrangers
  PROVE  (\E o \in read.qualifying : Administers(read.user, o)) <=> Arranges(read.user)
<1>1. read.user \in People /\ arrangers[read.user] \notin EventArrangerRole
  BY DEF OnlyMembersAsk
<1>2. arrangerRoleFor(read.user, EventArrangerRole) =
        {arrangers[o] : o \in {p \in Orgs : /\ arrangers[p] \in EventArrangerRole
                                            /\ Administers(read.user, p)}}
  BY <1>1 DEF arrangerRoleFor
<1> QED
  BY <1>2 DEF Arranges, OrgArrangers

LEMMA AccessKept ==
  ASSUME AccessStrong, [PagesNext]_pageVars
  PROVE  AccessStrong'
<1> USE DEF AccessStrong
<1>1. CASE UNCHANGED pageVars
  <2>1. UNCHANGED pageRows /\ UNCHANGED read
    BY <1>1 DEF pageVars, pageRows
  <2> QED
    BY <2>1, RowsDecide, TypeOfRows
       DEF ArrangedAllAlong, OnlyMembersAsk, OnlyOthersAsk, ArrangersMayById, Reading, pageRows
<1>2. CASE Write /\ Changes
  <2>1. RowsOK'
    BY <1>2, WritesKeepRows, TypeOfRows
  <2>2. CASE Reading
    <3>1. PICK r \in {read} : read' = Watched(r)'
      BY <1>2, <2>2 DEF Changes
    <3>2. /\ read' \in Reads /\ read'.step = read.step /\ read'.of = read.of
          /\ read'.user = read.user /\ read'.isArranger = read.isArranger
          /\ read'.shows = read.shows /\ read'.outdated = read.outdated
          /\ read'.arranged <=> r.arranged /\ Arranges(r.user)'
      BY <3>1, WatchedAfter
    <3>3. ArrangedAllAlong'
      <4>1. read'.arranged => Arranges(read.user)' /\ read.arranged /\ read.step # "none"
        BY <2>2, <3>1, <3>2 DEF Reading
      <4> QED
        BY <3>2, <4>1 DEF ArrangedAllAlong
    <3>4. OnlyOthersAsk' /\ ArrangersMayById'
      BY <2>2, <3>2 DEF OnlyOthersAsk, ArrangersMayById, Reading
    <3>5. OnlyMembersAsk'
      BY <1>2, <2>2, <3>2, WhileReading, TypeOfRows DEF OnlyMembersAsk
    <3> QED
      BY <2>1, <3>2, <3>3, <3>4, <3>5, TypeOfRows
  <2>3. CASE ~Reading
    <3>1. read' = NoRead
      BY <1>2, <2>3 DEF Changes
    <3>2. read' \in Reads /\ read'.step = "none" /\ ~read'.arranged
      BY <3>1, NoReadIsRead
    <3> QED
      BY <2>1, <3>2, TypeOfRows
         DEF Reads, ArrangedAllAlong, OnlyMembersAsk, OnlyOthersAsk, ArrangersMayById
  <2> QED
    BY <2>2, <2>3
<1>3. ASSUME NEW u \in Guests \cup {Nobody}, NEW of \in {"page", "pageByUrlId", "updates"},
             ReadStarts(u, of)
      PROVE  AccessStrong'
  <2>1. read' = Watched(Asks(u, of)) /\ UNCHANGED pageRows
    BY <1>3 DEF ReadStarts, Asks, Known
  <2>2. /\ read' \in Reads /\ read'.of = of /\ read'.user = u /\ ~read'.outdated
        /\ \/ /\ read'.step = "asked"
              /\ read'.isArranger <=> of # "pageByUrlId" /\ Arranges(u)
           \/ /\ read'.step = "arrangers" /\ ~read'.isArranger
              /\ u \in People /\ arrangers[u] \notin EventArrangerRole
        /\ read'.arranged <=> Arranges(u)
    BY <2>1, AsksIsRead, WatchedKeeps
  <2>3. RowsOK' /\ (Arranges(u)' <=> Arranges(u)) /\ arrangers' = arrangers
    BY <2>1, RowsDecide, TypeOfRows DEF pageRows
  <2>4. ArrangedAllAlong' /\ OnlyMembersAsk' /\ OnlyOthersAsk' /\ ArrangersMayById'
    BY <2>2, <2>3 DEF ArrangedAllAlong, OnlyMembersAsk, OnlyOthersAsk, ArrangersMayById
  <2>5. read'.shows \in {"nothing", "page", "ALL", "GOING"}
    BY <2>2 DEF Reads
  <2> QED
    BY <2>2, <2>3, <2>4, <2>5, TypeOfRows
<1>4. ASSUME UNCHANGED pageRows, read' \in Reads, Reading, read.step # "arrangers",
             read'.user = read.user, read'.of = read.of,
             read'.isArranger = read.isArranger, read'.arranged = read.arranged,
             read.outdated => read'.outdated, read'.step # "arrangers",
             read'.step = "registration" => ~read.isArranger,
             read'.step = "refused" /\ read.arranged /\ ~read.outdated
                => read.of = "pageByUrlId"
      PROVE  AccessStrong'
  <2>1. ArrangedAllAlong'
    <3>1. read.step # "none"
      BY <1>4 DEF Reading
    <3> QED
      BY <1>4, <3>1, RowsDecide DEF ArrangedAllAlong
  <2>2. OnlyMembersAsk' /\ OnlyOthersAsk' /\ ArrangersMayById'
    BY <1>4 DEF OnlyMembersAsk, OnlyOthersAsk, ArrangersMayById
  <2>3. RowsOK' /\ read'.shows \in {"nothing", "page", "ALL", "GOING"}
    BY <1>4, RowsDecide, TypeOfRows DEF Reads
  <2> QED
    BY <1>4, <2>1, <2>2, <2>3, TypeOfRows
<1>5. ASSUME Reading, read.arranged, ~read.outdated, read.of # "pageByUrlId",
             read.step # "arrangers"
      PROVE  read.isArranger /\ Found /\ read.user # Nobody
  <2>1. Arranges(read.user) /\ read.isArranger
    BY <1>5 DEF ArrangedAllAlong, Reading
  <2> QED
    BY <2>1, ArrangersFound
<1>10. CASE ReadMemberships
  <2>1. read.step = "arrangers" /\ UNCHANGED pageRows /\ Reading
    BY <1>10 DEF ReadMemberships, Reading
  <2>2. read' = [read EXCEPT !.step = "asked", !.qualifying = {},
                    !.isArranger = \E o \in read.qualifying : Administers(read.user, o),
                    !.outdated = ~Found \/ read.qualifying # OrgArrangers]
    BY <1>10 DEF ReadMemberships
  <2>3. /\ read' \in Reads /\ read'.step = "asked" /\ read'.user = read.user
        /\ read'.arranged = read.arranged /\ read'.of = read.of
        /\ read'.isArranger <=> \E o \in read.qualifying : Administers(read.user, o)
        /\ read'.outdated <=> ~Found \/ read.qualifying # OrgArrangers
    BY <2>2 DEF Reads, Steps
  <2>4. ~read'.outdated => (read'.isArranger <=> Arranges(read.user))
    BY <2>1, <2>3, MembershipsTell
  <2>5. RowsOK' /\ \A u : Arranges(u)' <=> Arranges(u)
    BY <2>1, RowsDecide, TypeOfRows
  <2>6. ArrangedAllAlong'
    BY <2>1, <2>3, <2>4, <2>5 DEF ArrangedAllAlong
  <2>7. OnlyMembersAsk' /\ OnlyOthersAsk' /\ ArrangersMayById'
    BY <2>3 DEF OnlyMembersAsk, OnlyOthersAsk, ArrangersMayById
  <2> QED
    BY <2>3, <2>5, <2>6, <2>7, TypeOfRows DEF Reads
<1>6. CASE ReadEvent
  <2>1. read.step = "asked" /\ UNCHANGED pageRows /\ Reading
    BY <1>6 DEF ReadEvent, Reading
  <2>2. CASE event.live /\ (read.of = "updates" \/ ~event.archived)
    <3>1. read' = [read EXCEPT !.step = "found", !.visibility = event.visibility,
                               !.outdated = Waited]
      BY <1>6, <2>2 DEF ReadEvent
    <3>2. event.visibility \in EventVisibility /\ Waited \in BOOLEAN
          /\ (read.outdated => Waited)
      BY TypeOfRows DEF RowsOK, Waited, Reads
    <3> QED
      BY <1>4, <2>1, <3>1, <3>2 DEF Reads, Steps
  <2>3. CASE ~(event.live /\ (read.of = "updates" \/ ~event.archived))
    <3>1. read' = [read EXCEPT !.step = "refused"]
      BY <1>6, <2>3 DEF ReadEvent, Refuse
    <3>2. read.arranged /\ ~read.outdated => read.of = "pageByUrlId"
      BY <1>5, <2>1, <2>3 DEF Found
    <3> QED
      BY <1>4, <2>1, <3>1, <3>2 DEF Reads, Steps
  <2> QED
    BY <2>2, <2>3
<1>7. CASE ReadApproval
  <2>1. read.step = "found" /\ UNCHANGED pageRows /\ Reading
    BY <1>7 DEF ReadApproval, Reading
  <2>2. CASE \/ ~read.isArranger /\ hasUnapprovedOrganizationArranger
             \/ read.visibility # "PUBLIC" /\ read.user = Nobody
    <3>1. read' = [read EXCEPT !.step = "refused"]
      BY <1>7, <2>2 DEF ReadApproval, Refuse
    <3>2. read.arranged /\ ~read.outdated => read.of = "pageByUrlId"
      BY <1>5, <2>1, <2>2
    <3> QED
      BY <1>4, <2>1, <3>1, <3>2 DEF Reads, Steps
  <2>3. CASE ~(\/ ~read.isArranger /\ hasUnapprovedOrganizationArranger
               \/ read.visibility # "PUBLIC" /\ read.user = Nobody)
    <3>1. PICK s \in {"viewable", "registration"} :
             /\ read' = [read EXCEPT !.step = s]
             /\ s = "registration" => ~read.isArranger
      BY <1>7, <2>3 DEF ReadApproval
    <3> QED
      BY <1>4, <2>1, <3>1 DEF Reads, Steps
  <2> QED
    BY <2>2, <2>3
<1>8. CASE ReadRegistration
  <2>1. read.step = "registration" /\ UNCHANGED pageRows /\ Reading /\ ~read.isArranger
    BY <1>8 DEF ReadRegistration, Reading, OnlyOthersAsk
  <2>2. PICK s \in {"viewable", "refused"}, w \in {read.outdated, Waited} :
           read' = [read EXCEPT !.step = s, !.outdated = w]
    <3>1. read = [read EXCEPT !.outdated = read.outdated]
      BY DEF Reads
    <3> QED
      BY <1>8, <3>1 DEF ReadRegistration, Refuse, Reads
  <2>3. read.arranged /\ ~read.outdated => read.of = "pageByUrlId"
    BY <1>5, <2>1
  <2>4. w \in BOOLEAN /\ (read.outdated => w)
    BY DEF Waited, Reads
  <2> QED
    BY <1>4, <2>1, <2>2, <2>3, <2>4 DEF Reads, Steps
<1>9. CASE ShowPage \/ getUpdatesForEvent
  <2>1. read.step = "viewable" /\ UNCHANGED pageRows /\ Reading
    BY <1>9 DEF ShowPage, getUpdatesForEvent, Reading
  <2>2. PICK x \in {"nothing", "page", "ALL", "GOING"}, w \in {read.outdated, Waited} :
           read' = [read EXCEPT !.step = "shown", !.outdated = w, !.shows = x]
    BY <1>9 DEF ShowPage, getUpdatesForEvent, Reads
  <2>3. w \in BOOLEAN /\ (read.outdated => w)
    BY DEF Waited, Reads
  <2> QED
    BY <1>4, <2>1, <2>2, <2>3 DEF Reads, Steps
<1> QED
  BY <1>1, <1>2, <1>3, <1>6, <1>7, <1>8, <1>9, <1>10 DEF PagesNext

(***************************************************************************)
(* Every reachable state decides alike on every list, page and guard, and  *)
(* no arranger is refused a request by id: for any people, organizations   *)
(* and memberships, and however the rows change during a request.          *)
(***************************************************************************)
THEOREM DecisionsAgree == PagesSpec => []AccessInv
<1>1. PagesInit => AccessStrong
  <2> SUFFICES ASSUME PagesInit
               PROVE  AccessStrong
    OBVIOUS
  <2>1. RowsOK
    BY PagesAssumption, RolesOfArrangers DEF PagesInit, RowsOK, NoEvent, EventVisibility
  <2>2. read \in Reads /\ read.step = "none" /\ ~read.arranged
    BY NoReadIsRead DEF PagesInit
  <2> QED
    BY <2>1, <2>2, TypeOfRows
       DEF AccessStrong, Reads, ArrangedAllAlong, OnlyMembersAsk, OnlyOthersAsk,
           ArrangersMayById
<1>2. AccessStrong /\ [PagesNext]_pageVars => AccessStrong'
  BY AccessKept
<1>3. AccessStrong => AccessInv
  BY ListsAgree, AdminsAgreed, OwnListsAgree DEF AccessStrong, AccessInv
<1> QED
  BY <1>1, <1>2, <1>3, PTL DEF PagesSpec

-----------------------------------------------------------------------------
(* What a request knows of the moments it has been through, unless what it *)
(* found of the organizations is outdated.                                 *)
Watching ==
    Reading =>
        /\ read.of = "updates" /\ Viewable(read.user) => read.mayPage
        /\ read.of # "updates" /\ PageShows(read.user) => read.mayPage
        /\ Viewable(read.user) /\ (Arranges(read.user) \/ Going(read.user)) => read.mayPosts

ArrangerSees == read.isArranger /\ ~read.outdated => read.mayPage /\ read.mayPosts

FoundPublic ==
    /\ read.step = "found" /\ read.visibility = "PUBLIC"
    /\ ~read.isArranger /\ ~read.outdated
    => read.mayPage

(* What is not public is no import, and is not archived.                   *)
FoundPrivate ==
    read.step \in {"found", "registration"} /\ read.visibility # "PUBLIC" => ~event.readOnly

Registering ==
    read.step = "registration" => read.visibility # "PUBLIC" /\ read.user # Nobody

MayBeShown == read.step = "viewable" /\ ~read.outdated => read.mayPage

ImportsArePublic ==
    /\ event.archived => event.readOnly
    /\ event.readOnly => event.visibility = "PUBLIC"

SeenInv ==
    /\ AccessStrong
    /\ ImportsArePublic
    /\ Watching
    /\ ArrangerSees
    /\ FoundPublic
    /\ FoundPrivate
    /\ Registering
    /\ MayBeShown
    /\ NothingShownUnseen

(* Who may be shown the event, by the rows of one moment. *)
LEMMA WhoSees ==
  ASSUME RowsOK, NEW u
  PROVE  /\ Arranges(u) => Viewable(u) /\ PageShows(u)
         /\ event.live /\ ~hasUnapprovedOrganizationArranger /\ event.visibility = "PUBLIC"
               => Viewable(u)
         /\ Registered(u) /\ ~hasUnapprovedOrganizationArranger => Viewable(u)
         /\ Viewable(u) /\ ~event.archived => PageShows(u)
         /\ Going(u) => Registered(u)
<1>1. Arranges(u) => Viewable(u) /\ PageShows(u)
  BY ArrangersFound DEF Viewable, PageShows, canView, Found
<1>2. Registered(u) => event.live /\ u # Nobody
  BY PagesAssumption DEF Registered, RowsOK, VIEW_GRANTING_REG_STATUSES
<1>3. Going(u) => Registered(u)
  BY DEF Going, Registered, VIEW_GRANTING_REG_STATUSES
<1> QED
  BY <1>1, <1>2, <1>3 DEF Viewable, PageShows, canView, Found

(* Imports are public, and only they are archived. *)
LEMMA ImportsKept ==
  ASSUME RowsOK, ImportsArePublic, Write
  PROVE  ImportsArePublic'
<1>1. ASSUME NEW u \in People, create(u)
      PROVE  ImportsArePublic'
  <2>1. event'.archived = FALSE /\ event'.readOnly = FALSE
    BY <1>1 DEF create, NoEvent
  <2> QED
    BY <2>1 DEF ImportsArePublic
<1>2. ASSUME NEW o \in Orgs, FeedCreates(o)
      PROVE  ImportsArePublic'
  <2>1. event'.archived = FALSE /\ event'.visibility = "PUBLIC"
    BY <1>2 DEF FeedCreates, NoEvent
  <2> QED
    BY <2>1 DEF ImportsArePublic
<1>3. ASSUME NEW u \in People, remove(u)
      PROVE  ImportsArePublic'
  BY <1>3 DEF remove, NoEvent, ImportsArePublic
<1>4. ASSUME NEW u \in People, EditVisibility(u)
      PROVE  ImportsArePublic'
  <2>1. /\ ~event.readOnly /\ event'.readOnly = event.readOnly
        /\ event'.archived = event.archived
    BY <1>4 DEF EditVisibility, RowsOK
  <2> QED
    BY <2>1 DEF ImportsArePublic
<1>5. CASE FeedArchives
  <2>1. event.readOnly /\ event'.readOnly = event.readOnly
        /\ event'.visibility = event.visibility
    BY <1>5 DEF FeedArchives, RowsOK
  <2> QED
    BY <2>1 DEF ImportsArePublic
<1>6. ASSUME event' = event
      PROVE  ImportsArePublic'
  BY <1>6 DEF ImportsArePublic
<1>7. \A u \in People : sendUpdateToEventParticipants(u) \/ deleteUpdateForEvent(u)
                           => event' = event
  BY DEF sendUpdateToEventParticipants, deleteUpdateForEvent
<1>8. /\ \A u \in Guests : RegistrationChanges(u) => event' = event
      /\ \A o \in Orgs : CoOrganizerChanges(o) \/ ApprovalChanges(o) => event' = event
      /\ \A u \in People, o \in Orgs : MembershipChanges(u, o) => event' = event
  BY DEF RegistrationChanges, CoOrganizerChanges, ApprovalChanges, MembershipChanges
<1> QED
  BY <1>1, <1>2, <1>3, <1>4, <1>5, <1>6, <1>7, <1>8 DEF Write

LEMMA SeenKept ==
  ASSUME SeenInv, [PagesNext]_pageVars
  PROVE  SeenInv'
<1> USE DEF SeenInv
<1>0. AccessStrong' /\ RowsOK /\ RowsOK' /\ read \in Reads /\ read' \in Reads
  BY AccessKept, TypeOfRows DEF AccessStrong
<1>1. CASE UNCHANGED pageVars
  <2>1. UNCHANGED pageRows /\ read' = read
    BY <1>1 DEF pageVars, pageRows
  <2> QED
    BY <1>0, <2>1, RowsDecide
       DEF ImportsArePublic, Watching, ArrangerSees, FoundPublic, FoundPrivate, Registering,
           MayBeShown, NothingShownUnseen, Reading
<1>2. CASE Write /\ Changes
  <2>1. ImportsArePublic'
    BY <1>0, <1>2, ImportsKept
  <2>2. CASE Reading
    <3>1. PICK r \in {read} : read' = Watched(r)'
      BY <1>2, <2>2 DEF Changes
    <3>2. /\ read'.step = read.step /\ read'.of = read.of /\ read'.user = read.user
          /\ read'.isArranger = read.isArranger /\ read'.visibility = read.visibility
          /\ read'.outdated = read.outdated
          /\ read.mayPage => read'.mayPage
          /\ read.mayPosts => read'.mayPosts
      BY <1>0, <3>1, WatchedAfter
    <3>3. Watching'
      BY <1>0, <3>1, WatchedAfter DEF Watching
    <3>4. ~event.readOnly => ~event'.readOnly
      BY <1>0, <1>2, <2>2, WhileReading
    <3>5. ArrangerSees' /\ FoundPublic' /\ FoundPrivate'
      BY <3>2, <3>4 DEF ArrangerSees, FoundPublic, FoundPrivate
    <3>6. Registering' /\ MayBeShown'
      BY <3>2, <3>4 DEF Registering, MayBeShown
    <3>7. NothingShownUnseen'
      BY <2>2, <3>2 DEF NothingShownUnseen, Reading
    <3> QED
      BY <1>0, <2>1, <3>3, <3>5, <3>6, <3>7
  <2>3. CASE ~Reading
    <3>1. read' = NoRead
      BY <1>2, <2>3 DEF Changes
    <3>2. read'.step = "none" /\ ~read'.isArranger
      BY <3>1, NoReadIsRead
    <3> QED
      BY <1>0, <2>1, <3>2
         DEF Watching, ArrangerSees, FoundPublic, FoundPrivate, Registering, MayBeShown,
             NothingShownUnseen, Reading
  <2> QED
    BY <2>2, <2>3
<1>3. ASSUME NEW u \in Guests \cup {Nobody}, NEW of \in {"page", "pageByUrlId", "updates"},
             ReadStarts(u, of)
      PROVE  SeenInv'
  <2>1. read' = Watched(Asks(u, of)) /\ UNCHANGED pageRows
    BY <1>3 DEF ReadStarts, Asks, Known
  <2>2. /\ read'.step \in {"asked", "arrangers"} /\ read'.of = of /\ read'.user = u
        /\ read'.isArranger => Arranges(u)
        /\ of = "updates" /\ Viewable(u) => read'.mayPage
        /\ of # "updates" /\ PageShows(u) => read'.mayPage
        /\ Viewable(u) /\ (Arranges(u) \/ Going(u)) => read'.mayPosts
    BY <2>1, AsksIsRead, WatchedKeeps
  <2>3. Watching'
    BY <2>1, <2>2, RowsDecide DEF Watching
  <2>4. ArrangerSees'
    BY <1>0, <2>2, WhoSees DEF ArrangerSees
  <2>5. ImportsArePublic'
    BY <2>1, RowsDecide DEF ImportsArePublic
  <2> QED
    BY <1>0, <2>2, <2>3, <2>4, <2>5
       DEF FoundPublic, FoundPrivate, Registering, MayBeShown, NothingShownUnseen
<1>4. ASSUME UNCHANGED pageRows, Reading,
             read'.user = read.user, read'.of = read.of, read'.isArranger = read.isArranger,
             read.outdated => read'.outdated,
             read'.mayPage = read.mayPage, read'.mayPosts = read.mayPosts
      PROVE  ImportsArePublic' /\ Watching' /\ ArrangerSees'
  BY <1>4, RowsDecide DEF ImportsArePublic, Watching, ArrangerSees
<1>10. CASE ReadMemberships
  <2> DEFINE m == \E o \in read.qualifying : Administers(read.user, o)
             d == ~Found \/ read.qualifying # OrgArrangers
  <2>1. read.step = "arrangers" /\ UNCHANGED pageRows /\ Reading
    BY <1>10 DEF ReadMemberships, Reading
  <2>2. read' = [read EXCEPT !.step = "asked", !.qualifying = {}, !.isArranger = m,
                    !.outdated = d]
    BY <1>10 DEF ReadMemberships
  <2>3. /\ read'.step = "asked" /\ read'.user = read.user /\ read'.of = read.of
        /\ read'.mayPage = read.mayPage /\ read'.mayPosts = read.mayPosts
        /\ read'.isArranger = m /\ read'.outdated = d
    <3> HIDE DEF m, d
    <3> QED
      BY <1>0, <2>2 DEF Reads
  <2>4. Watching' /\ ImportsArePublic'
    BY <2>1, <2>3, RowsDecide DEF Watching, ImportsArePublic
  <2>5. ArrangerSees'
    <3> SUFFICES ASSUME read'.isArranger, ~read'.outdated
                 PROVE  read.mayPage /\ read.mayPosts
      BY <2>3 DEF ArrangerSees
    <3>1. Arranges(read.user)
      BY <2>1, <2>3, MembershipsTell DEF AccessStrong
    <3> QED
      BY <1>0, <2>1, <3>1, WhoSees DEF Watching
  <2> QED
    BY <1>0, <2>3, <2>4, <2>5
       DEF FoundPublic, FoundPrivate, Registering, MayBeShown, NothingShownUnseen
<1>5. CASE ReadEvent
  <2>1. read.step = "asked" /\ UNCHANGED pageRows /\ Reading
    BY <1>5 DEF ReadEvent, Reading
  <2>2. CASE event.live /\ (read.of = "updates" \/ ~event.archived)
    <3>1. read' = [read EXCEPT !.step = "found", !.visibility = event.visibility,
                               !.outdated = Waited]
      BY <1>5, <2>2 DEF ReadEvent
    <3>2. /\ read'.step = "found" /\ read'.visibility = event.visibility
          /\ read'.outdated = Waited
          /\ read'.user = read.user /\ read'.of = read.of
          /\ read'.isArranger = read.isArranger
          /\ read'.mayPage = read.mayPage /\ read'.mayPosts = read.mayPosts
      BY <1>0, <3>1 DEF Reads
    <3>3. FoundPublic'
      <4> SUFFICES ASSUME event.visibility = "PUBLIC", ~hasUnapprovedOrganizationArranger
                   PROVE  read.mayPage
        BY <2>1, <3>2, RowsDecide DEF FoundPublic, Waited
      <4>1. Viewable(read.user) /\ (read.of # "updates" => PageShows(read.user))
        BY <1>0, <2>2, WhoSees
      <4> QED
        BY <2>1, <4>1 DEF Watching
    <3>4. FoundPrivate'
      BY <2>1, <3>2, RowsDecide DEF FoundPrivate, ImportsArePublic
    <3>5. Registering' /\ MayBeShown' /\ NothingShownUnseen'
      BY <3>2 DEF Registering, MayBeShown, NothingShownUnseen
    <3> QED
      BY <1>0, <1>4, <2>1, <3>2, <3>3, <3>4, <3>5 DEF Waited
  <2>3. CASE ~(event.live /\ (read.of = "updates" \/ ~event.archived))
    <3>1. read' = [read EXCEPT !.step = "refused"]
      BY <1>5, <2>3 DEF ReadEvent, Refuse
    <3>2. /\ read'.step = "refused" /\ read'.outdated = read.outdated
          /\ read'.user = read.user /\ read'.of = read.of
          /\ read'.isArranger = read.isArranger
          /\ read'.mayPage = read.mayPage /\ read'.mayPosts = read.mayPosts
      BY <1>0, <3>1 DEF Reads
    <3> QED
      BY <1>0, <1>4, <2>1, <3>2
         DEF FoundPublic, FoundPrivate, Registering, MayBeShown, NothingShownUnseen
  <2> QED
    BY <2>2, <2>3
<1>6. CASE ReadApproval
  <2>1. read.step = "found" /\ UNCHANGED pageRows /\ Reading
    BY <1>6 DEF ReadApproval, Reading
  <2>2. CASE \/ ~read.isArranger /\ hasUnapprovedOrganizationArranger
             \/ read.visibility # "PUBLIC" /\ read.user = Nobody
    <3>1. read' = [read EXCEPT !.step = "refused"]
      BY <1>6, <2>2 DEF ReadApproval, Refuse
    <3>2. /\ read'.step = "refused" /\ read'.outdated = read.outdated
          /\ read'.user = read.user /\ read'.of = read.of
          /\ read'.isArranger = read.isArranger
          /\ read'.mayPage = read.mayPage /\ read'.mayPosts = read.mayPosts
      BY <1>0, <3>1 DEF Reads
    <3> QED
      BY <1>0, <1>4, <2>1, <3>2
         DEF FoundPublic, FoundPrivate, Registering, MayBeShown, NothingShownUnseen
  <2>3. CASE /\ read.isArranger \/ ~hasUnapprovedOrganizationArranger
             /\ read.visibility = "PUBLIC" \/ read.user # Nobody
    <3>1. PICK s \in {"viewable", "registration"} :
             /\ read' = [read EXCEPT !.step = s]
             /\ s = "viewable" => read.visibility = "PUBLIC" \/ read.isArranger
             /\ s = "registration" => read.visibility # "PUBLIC" /\ ~read.isArranger
      BY <1>6, <2>3 DEF ReadApproval
    <3>2. /\ read'.step = s /\ read'.outdated = read.outdated
          /\ read'.user = read.user /\ read'.of = read.of
          /\ read'.isArranger = read.isArranger /\ read'.visibility = read.visibility
          /\ read'.mayPage = read.mayPage /\ read'.mayPosts = read.mayPosts
      BY <1>0, <3>1 DEF Reads
    <3>3. MayBeShown'
      <4>1. s = "viewable" /\ ~read.outdated => read.mayPage
        BY <2>1, <2>3, <3>1 DEF ArrangerSees, FoundPublic
      <4> QED
        BY <2>1, <2>3, <3>2, <4>1, RowsDecide DEF MayBeShown
    <3>4. Registering'
      BY <2>1, <2>3, <3>1, <3>2, RowsDecide DEF Registering
    <3>5. FoundPrivate'
      BY <2>1, <3>2, RowsDecide DEF FoundPrivate
    <3>6. FoundPublic' /\ NothingShownUnseen'
      BY <3>1, <3>2 DEF FoundPublic, NothingShownUnseen
    <3> QED
      BY <1>0, <1>4, <2>1, <3>2, <3>3, <3>4, <3>5, <3>6
  <2> QED
    BY <2>2, <2>3
<1>7. CASE ReadRegistration
  <2>1. read.step = "registration" /\ UNCHANGED pageRows /\ Reading
    BY <1>7 DEF ReadRegistration, Reading
  <2>2. PICK s \in {"viewable", "refused"} :
           /\ read' = [read EXCEPT !.step = s,
                          !.outdated = IF s = "viewable" THEN Waited ELSE read.outdated]
           /\ s = "viewable" => Registered(read.user)
    <3>1. CASE Registered(read.user)
      BY <1>7, <3>1 DEF ReadRegistration
    <3>2. CASE ~Registered(read.user)
      <4>1. read' = [read EXCEPT !.step = "refused"]
        BY <1>7, <3>2 DEF ReadRegistration, Refuse
      <4>2. [read EXCEPT !.step = "refused"]
              = [read EXCEPT !.step = "refused", !.outdated = read.outdated]
        BY <1>0 DEF Reads
      <4> QED
        BY <4>1, <4>2
    <3> QED
      BY <3>1, <3>2
  <2>3. /\ read'.step = s /\ (read.outdated => read'.outdated)
        /\ s = "viewable" /\ ~read'.outdated => ~read.outdated
                                                /\ ~hasUnapprovedOrganizationArranger
        /\ read'.user = read.user /\ read'.of = read.of
        /\ read'.isArranger = read.isArranger
        /\ read'.mayPage = read.mayPage /\ read'.mayPosts = read.mayPosts
    BY <1>0, <2>1, <2>2 DEF Reads, Waited, AccessStrong, OnlyOthersAsk
  <2>4. ~event.archived
    BY <2>1 DEF Registering, FoundPrivate, ImportsArePublic
  <2>5. s = "viewable" /\ ~read'.outdated => Viewable(read.user) /\ PageShows(read.user)
    BY <1>0, <2>2, <2>3, <2>4, WhoSees
  <2>6. MayBeShown'
    BY <2>1, <2>3, <2>4, <2>5, RowsDecide DEF MayBeShown, Watching
  <2> QED
    BY <1>0, <1>4, <2>1, <2>2, <2>3, <2>6
       DEF FoundPublic, FoundPrivate, Registering, NothingShownUnseen
<1>8. CASE ShowPage
  <2>1. read.step = "viewable" /\ UNCHANGED pageRows /\ Reading
        /\ read' = [read EXCEPT !.step = "shown", !.shows = "page"]
    BY <1>8 DEF ShowPage, Reading
  <2>2. /\ read'.step = "shown" /\ read'.shows = "page" /\ read'.outdated = read.outdated
        /\ read'.user = read.user /\ read'.of = read.of
        /\ read'.isArranger = read.isArranger
        /\ read'.mayPage = read.mayPage /\ read'.mayPosts = read.mayPosts
    BY <1>0, <2>1 DEF Reads
  <2>3. NothingShownUnseen'
    BY <2>1, <2>2 DEF NothingShownUnseen, MayBeShown
  <2> QED
    BY <1>0, <1>4, <2>1, <2>2, <2>3 DEF FoundPublic, FoundPrivate, Registering, MayBeShown
<1>9. CASE getUpdatesForEvent
  <2>1. read.step = "viewable" /\ UNCHANGED pageRows /\ Reading
    BY <1>9 DEF getUpdatesForEvent, Reading
  <2>2. PICK x \in {"nothing", "ALL", "GOING"} :
           /\ read' = [read EXCEPT !.step = "shown", !.outdated = Waited, !.shows = x]
           /\ x = "GOING" => Going(read.user) \/ read.isArranger
    BY <1>9 DEF getUpdatesForEvent
  <2>3. /\ read'.step = "shown" /\ read'.shows = x
        /\ read'.outdated <=> read.outdated
              \/ (~read.isArranger /\ hasUnapprovedOrganizationArranger)
        /\ read'.user = read.user /\ read'.of = read.of
        /\ read'.isArranger = read.isArranger
        /\ read'.mayPage = read.mayPage /\ read'.mayPosts = read.mayPosts
    BY <1>0, <2>2 DEF Reads, Waited
  <2>4. x = "GOING" /\ ~read'.outdated => read.mayPosts
    <3>1. CASE read.isArranger
      BY <2>3, <3>1 DEF ArrangerSees
    <3>2. CASE ~read.isArranger /\ Going(read.user) /\ ~read'.outdated
      <4>1. Viewable(read.user)
        BY <1>0, <2>3, <3>2, WhoSees
      <4> QED
        BY <2>1, <3>2, <4>1 DEF Watching
    <3> QED
      BY <2>2, <3>1, <3>2
  <2>5. NothingShownUnseen'
    BY <2>1, <2>3, <2>4 DEF NothingShownUnseen, MayBeShown
  <2> QED
    BY <1>0, <1>4, <2>1, <2>3, <2>5 DEF FoundPublic, FoundPrivate, Registering, MayBeShown
<1> QED
  BY <1>1, <1>2, <1>3, <1>5, <1>6, <1>7, <1>8, <1>9, <1>10 DEF PagesNext

(***************************************************************************)
(* Nothing is shown that its reader might not see at some moment of the    *)
(* request (canView, getUpdatesForEvent), for any people, organizations    *)
(* and memberships, and however the rows change during it, but for a       *)
(* request whose reads of the organizations do not fit together.           *)
(***************************************************************************)
THEOREM OnlyTheSeeableShown == PagesSpec => []NothingShownUnseen
<1>1. PagesInit => SeenInv
  <2> SUFFICES ASSUME PagesInit
               PROVE  SeenInv
    OBVIOUS
  <2>1. RowsOK
    BY PagesAssumption, RolesOfArrangers DEF PagesInit, RowsOK, NoEvent, EventVisibility
  <2>2. read \in Reads /\ read.step = "none" /\ ~read.arranged /\ ~read.isArranger
    BY NoReadIsRead DEF PagesInit
  <2>3. AccessStrong
    BY <2>1, <2>2, TypeOfRows
       DEF AccessStrong, Reads, ArrangedAllAlong, OnlyMembersAsk, OnlyOthersAsk,
           ArrangersMayById
  <2>4. ImportsArePublic
    BY DEF PagesInit, NoEvent, ImportsArePublic
  <2> QED
    BY <2>2, <2>3, <2>4
       DEF SeenInv, Watching, ArrangerSees, FoundPublic, FoundPrivate, Registering,
           MayBeShown, NothingShownUnseen, Reading
<1>2. SeenInv /\ [PagesNext]_pageVars => SeenInv'
  BY SeenKept
<1>3. SeenInv => NothingShownUnseen
  BY DEF SeenInv
<1> QED
  BY <1>1, <1>2, <1>3, PTL DEF PagesSpec

(***************************************************************************)
(* Edits of one event that overlap leave one edit's categories, and keep   *)
(* the external URL where registration is external unless an edit of the   *)
(* URL alone goes by a mode changed since, for any number of editors.      *)
(***************************************************************************)
RowType == [live : BOOLEAN, mode : Mode, url : Url, categories : SUBSET Categories]

(* The three groups of fields an edit saves. *)
CategoryFields == [categories : SUBSET Categories]
ModeFields == {f \in [mode : Mode, url : Url] : f.mode = "EXTERNAL" <=> f.url # ""}
UrlFields == [url : Url]
Fields == CategoryFields \cup ModeFields \cup UrlFields

EditsTyped ==
    /\ row \in RowType
    /\ edit \in [Editors -> {NoEdit} \cup [step : {"read", "locked"}, fields : Fields,
                                           mode : Mode, old : SUBSET Categories]]
    /\ misfit \in BOOLEAN

(* Who holds the row has read the categories that are still there. *)
HoldersRead ==
    \A u \in Editors : edit[u].step = "locked" =>
        holder = {u} /\ row.live /\ edit[u].old = row.categories

CategoriesInv == EditsTyped /\ HoldersRead

(* An URL asked alone fits the mode that was read.                         *)
UrlsFitTheirMode ==
    \A u \in Editors : Editing(u) /\ edit[u].fields \in UrlFields =>
        (edit[u].mode = "EXTERNAL" <=> edit[u].fields.url # "")

UrlInv == CategoriesInv /\ ExternalUrlWhenExternal /\ UrlsFitTheirMode

-----------------------------------------------------------------------------
(* The groups are told apart by their fields. *)
LEMMA FieldsOfGroups ==
  /\ \A f \in CategoryFields : DOMAIN f = {"categories"} /\ f.categories \in SUBSET Categories
  /\ \A f \in ModeFields : DOMAIN f = {"mode", "url"} /\ f.mode \in Mode /\ f.url \in Url
                           /\ (f.mode = "EXTERNAL" <=> f.url # "")
  /\ \A f \in UrlFields : DOMAIN f = {"url"} /\ f.url \in Url
  BY DEF CategoryFields, ModeFields, UrlFields

LEMMA GroupsApart ==
  /\ \A f \in CategoryFields : f \notin ModeFields /\ f \notin UrlFields
  /\ \A f \in ModeFields : f \notin UrlFields
<1>1. \A f \in CategoryFields : "url" \notin DOMAIN f
  BY FieldsOfGroups
<1>2. \A f \in ModeFields : "url" \in DOMAIN f /\ "mode" \in DOMAIN f
  BY FieldsOfGroups
<1>3. \A f \in UrlFields : "url" \in DOMAIN f /\ "mode" \notin DOMAIN f
  BY FieldsOfGroups
<1> QED
  BY <1>1, <1>2, <1>3

LEMMA NothingYet ==
  /\ NoEdit.step = "none"
  /\ NoRow \in RowType /\ NoRow.live = FALSE
  BY DEF NoEdit, NoRow, RowType, Mode, Url

(* What a new event is like. *)
LEMMA Created ==
  ASSUME createEvent
  PROVE  /\ row' \in RowType /\ (row'.mode = "EXTERNAL" <=> row'.url # "")
         /\ ~row.live /\ (\A u \in Editors : edit[u] = NoEdit)
         /\ UNCHANGED <<edit, holder>> /\ misfit' = FALSE
<1>1. PICK mode \in Mode, url \in Url, cs \in SUBSET Categories :
         /\ mode = "EXTERNAL" => url # ""
         /\ row' = [live |-> TRUE, mode |-> mode, categories |-> cs,
                    url |-> normalizeCreateRegistrationData(mode, url)]
  BY DEF createEvent
<1>2. /\ normalizeCreateRegistrationData(mode, url) \in Url
      /\ mode = "EXTERNAL" <=> normalizeCreateRegistrationData(mode, url) # ""
  BY <1>1 DEF normalizeCreateRegistrationData, Url
<1> QED
  BY <1>1, <1>2 DEF RowType, createEvent

(* What an edit may ask is one of the groups, and an URL alone fits the    *)
(* mode that was read.                                                     *)
LEMMA AskedFields ==
  ASSUME row \in RowType, NEW f \in Asked
  PROVE  f \in Fields /\ (f \in UrlFields => (row.mode = "EXTERNAL" <=> f.url # ""))
<1>0. row.mode \in Mode /\ row.url \in Url
  BY DEF RowType
<1>1. CASE f \in {[categories |-> cs] : cs \in SUBSET Categories}
  <2>1. f \in CategoryFields
    BY <1>1 DEF CategoryFields
  <2> QED
    BY <2>1, GroupsApart DEF Fields
<1>2. ASSUME NEW mode \in Mode \cup {"keep"}, NEW url \in Url \cup {"keep"},
             Kept(mode, row.mode) = "EXTERNAL" => Kept(url, row.url) # "",
             f = normalizeUpdateRegistrationData(mode, url)
      PROVE  f \in Fields /\ (f \in UrlFields => (row.mode = "EXTERNAL" <=> f.url # ""))
  <2> DEFINE next == IF Kept(mode, row.mode) = "EXTERNAL" THEN Kept(url, row.url) ELSE ""
  <2>1. next \in Url /\ (Kept(mode, row.mode) = "EXTERNAL" <=> next # "")
    BY <1>0, <1>2 DEF Kept, Url
  <2> HIDE DEF next
  <2>2. CASE mode = "keep"
    <3>1. f = [url |-> next]
      BY <1>2, <2>2 DEF normalizeUpdateRegistrationData, next
    <3>2. Kept(mode, row.mode) = row.mode
      BY <2>2 DEF Kept
    <3> QED
      BY <2>1, <3>1, <3>2 DEF Fields, UrlFields
  <2>3. CASE mode # "keep"
    <3>1. f = [mode |-> mode, url |-> next]
      BY <1>2, <2>3 DEF normalizeUpdateRegistrationData, next
    <3>2. Kept(mode, row.mode) = mode /\ mode \in Mode
      BY <2>3 DEF Kept
    <3>3. f.mode = mode /\ f.url = next /\ f \in [mode : Mode, url : Url]
      BY <2>1, <3>1, <3>2
    <3>4. f \in ModeFields
      BY <2>1, <3>2, <3>3 DEF ModeFields
    <3> QED
      BY <3>4, GroupsApart DEF Fields
  <2> QED
    BY <2>2, <2>3
<1>3. CASE f \notin {[categories |-> cs] : cs \in SUBSET Categories}
  <2>1. PICK b \in [mode : Mode \cup {"keep"}, url : Url \cup {"keep"}] :
           /\ Kept(b.mode, row.mode) = "EXTERNAL" => Kept(b.url, row.url) # ""
           /\ f = normalizeUpdateRegistrationData(b.mode, b.url)
    BY <1>3 DEF Asked
  <2>2. b.mode \in Mode \cup {"keep"} /\ b.url \in Url \cup {"keep"}
    BY <2>1
  <2> QED
    BY <1>2, <2>1, <2>2
<1> QED
  BY <1>1, <1>3

(* What a commit makes of the row. *)
LEMMA Committed ==
  ASSUME CategoriesInv, NEW u \in Editors, EditCommits(u)
  PROVE  /\ holder = {u} /\ row.live /\ row'.live = row.live
         /\ row' \in RowType
         /\ edit[u].fields \in CategoryFields =>
                /\ row'.mode = row.mode /\ row'.url = row.url
                /\ row'.categories = edit[u].fields.categories
         /\ edit[u].fields \notin CategoryFields =>
                row'.categories = row.categories /\ row'.url = edit[u].fields.url
         /\ edit[u].fields \in ModeFields => row'.mode = edit[u].fields.mode
         /\ edit[u].fields \in UrlFields => row'.mode = row.mode
         /\ edit[u].fields \in CategoryFields => misfit' = misfit
         /\ edit[u].fields \in UrlFields => (misfit' <=> edit[u].mode # row.mode)
         /\ misfit' \in BOOLEAN
<1> DEFINE f == edit[u].fields
<1>1. /\ edit[u].step = "locked" /\ holder = {u} /\ row.live
      /\ edit[u].old = row.categories
  BY DEF EditCommits, CategoriesInv, HoldersRead
<1>2. f \in Fields
  BY <1>1, NothingYet DEF CategoriesInv, EditsTyped
<1>3. /\ DOMAIN row = {"live", "mode", "url", "categories"}
      /\ row.live \in BOOLEAN /\ row.mode \in Mode /\ row.url \in Url
      /\ row.categories \in SUBSET Categories
  BY DEF CategoriesInv, EditsTyped, RowType
<1>4. row' = [g \in {"live", "mode", "url", "categories"} |->
                 IF g \notin DOMAIN f THEN row[g]
                 ELSE IF g = "categories" THEN syncEventCategories(f[g], edit[u].old)
                 ELSE f[g]]
  BY <1>3 DEF EditCommits
<1>8. misfit' = IF "url" \in DOMAIN f THEN OnlyUrl(f) /\ edit[u].mode # row.mode ELSE misfit
  BY DEF EditCommits
<1>9. misfit' \in BOOLEAN
  BY <1>8 DEF CategoriesInv, EditsTyped
<1> HIDE DEF f
<1>5. CASE f \in CategoryFields
  <2>1. DOMAIN f = {"categories"} /\ f.categories \in SUBSET Categories
    BY <1>5, FieldsOfGroups
  <2>2. syncEventCategories(f.categories, edit[u].old) = f.categories
    BY <1>1 DEF syncEventCategories
  <2>3. row' = [live |-> row.live, mode |-> row.mode, url |-> row.url,
                categories |-> f.categories]
    BY <1>4, <2>1, <2>2
  <2>4. f \notin ModeFields /\ f \notin UrlFields
    BY <1>5, GroupsApart
  <2>5. misfit' = misfit
    BY <1>8, <2>1
  <2> QED
    BY <1>1, <1>3, <1>5, <1>9, <2>1, <2>3, <2>4, <2>5 DEF RowType, f
<1>6. CASE f \in ModeFields
  <2>1. DOMAIN f = {"mode", "url"} /\ f.mode \in Mode /\ f.url \in Url
    BY <1>6, FieldsOfGroups
  <2>2. row' = [live |-> row.live, mode |-> f.mode, url |-> f.url,
                categories |-> row.categories]
    BY <1>4, <2>1
  <2>3. f \notin CategoryFields /\ f \notin UrlFields
    BY <1>6, GroupsApart
  <2> QED
    BY <1>1, <1>3, <1>9, <2>1, <2>2, <2>3 DEF RowType, f
<1>7. CASE f \in UrlFields
  <2>1. DOMAIN f = {"url"} /\ f.url \in Url
    BY <1>7, FieldsOfGroups
  <2>2. row' = [live |-> row.live, mode |-> row.mode, url |-> f.url,
                categories |-> row.categories]
    BY <1>4, <2>1
  <2>3. f \notin CategoryFields /\ f \notin ModeFields
    BY <1>7, GroupsApart
  <2>4. misfit' <=> edit[u].mode # row.mode
    BY <1>8, <2>1 DEF OnlyUrl
  <2> QED
    BY <1>1, <1>3, <1>9, <2>1, <2>2, <2>3, <2>4 DEF RowType, f
<1> QED
  BY <1>2, <1>5, <1>6, <1>7 DEF Fields

-----------------------------------------------------------------------------
LEMMA InitCategoriesInv == EditsInit => CategoriesInv
  BY NothingYet DEF EditsInit, CategoriesInv, EditsTyped, HoldersRead

LEMMA NextCategoriesInv == CategoriesInv /\ [EditsNext]_editVars => CategoriesInv'
<1> SUFFICES ASSUME CategoriesInv, [EditsNext]_editVars
             PROVE  CategoriesInv'
  OBVIOUS
<1> USE DEF CategoriesInv
<1>1. CASE UNCHANGED editVars
  BY <1>1 DEF editVars, EditsTyped, HoldersRead
<1>2. CASE createEvent
  BY <1>2, Created, NothingYet DEF EditsTyped, HoldersRead
<1>3. CASE removeEvent
  BY <1>3, NothingYet DEF removeEvent, EditsTyped, HoldersRead
<1>4. ASSUME NEW u \in Editors, EditReads(u)
      PROVE  CategoriesInv'
  <2>1. PICK f \in Asked :
           edit' = [edit EXCEPT ![u] = [step |-> "read", fields |-> f, mode |-> row.mode,
                                        old |-> {}]]
    BY <1>4 DEF EditReads
  <2>2. f \in Fields /\ row.mode \in Mode
    BY <2>1, AskedFields DEF EditsTyped, RowType
  <2> QED
    BY <1>4, <2>1, <2>2 DEF EditReads, EditsTyped, HoldersRead
<1>5. ASSUME NEW u \in Editors, EditFails(u)
      PROVE  CategoriesInv'
  BY <1>5, NothingYet DEF EditFails, EditsTyped, HoldersRead
<1>6. ASSUME NEW u \in Editors, EditLocks(u)
      PROVE  CategoriesInv'
  <2> DEFINE r == [edit[u] EXCEPT !.step = "locked", !.old = row.categories]
  <2>1. edit[u] \in [step : {"read", "locked"}, fields : Fields, mode : Mode,
                     old : SUBSET Categories]
        /\ row.categories \in SUBSET Categories
    BY <1>6, NothingYet DEF EditLocks, EditsTyped, RowType
  <2>2. /\ r \in [step : {"read", "locked"}, fields : Fields, mode : Mode,
                  old : SUBSET Categories]
        /\ r.step = "locked" /\ r.old = row.categories
    BY <2>1
  <2>3. edit' = [edit EXCEPT ![u] = r]
    BY <1>6 DEF EditLocks
  <2> HIDE DEF r
  <2>4. EditsTyped'
    <3> DEFINE E == {NoEdit} \cup [step : {"read", "locked"}, fields : Fields, mode : Mode,
                                  old : SUBSET Categories]
    <3>1. edit \in [Editors -> E] /\ r \in E /\ row' = row /\ misfit' = misfit
      BY <1>6, <2>2 DEF EditLocks, EditsTyped
    <3>2. edit' \in [Editors -> E]
      <4> HIDE DEF E
      <4> QED
        BY <2>3, <3>1
    <3> QED
      BY <3>1, <3>2 DEF EditsTyped
  <2>5. HoldersRead'
    BY <1>6, <2>2, <2>3 DEF EditLocks, EditsTyped, HoldersRead
  <2> QED
    BY <2>4, <2>5
<1>7. ASSUME NEW u \in Editors, EditCommits(u)
      PROVE  CategoriesInv'
  <2>1. row' \in RowType /\ holder = {u} /\ misfit' \in BOOLEAN
    BY <1>7, Committed
  <2>2. edit' = [edit EXCEPT ![u] = NoEdit]
    BY <1>7 DEF EditCommits
  <2> QED
    BY <2>1, <2>2, NothingYet DEF EditsTyped, HoldersRead
<1> QED
  BY <1>1, <1>2, <1>3, <1>4, <1>5, <1>6, <1>7 DEF EditsNext

(* Who holds the row knows its categories, for any number of editors. *)
THEOREM HoldersKnowTheRow == EditsSpec => []CategoriesInv
  BY InitCategoriesInv, NextCategoriesInv, PTL DEF EditsSpec

(***************************************************************************)
(* The categories become those of one edit (syncEventCategories), for any  *)
(* number of editors that overlap in any way.                              *)
(***************************************************************************)
THEOREM CategoriesOfOne == EditsSpec => CategoriesOfOneEdit
<1> DEFINE Step == row.live /\ row'.live /\ row'.categories # row.categories =>
              \E u \in Editors : /\ edit[u].step = "locked"
                                 /\ "categories" \in DOMAIN edit[u].fields
                                 /\ row'.categories = edit[u].fields.categories
<1>1. CategoriesInv /\ [EditsNext]_editVars => [Step]_editVars
  <2> SUFFICES ASSUME CategoriesInv, EditsNext, row.live, row'.live,
                      row'.categories # row.categories
               PROVE  \E u \in Editors : /\ edit[u].step = "locked"
                                         /\ "categories" \in DOMAIN edit[u].fields
                                         /\ row'.categories = edit[u].fields.categories
    BY DEF editVars
  <2>1. PICK u \in Editors : EditCommits(u)
    <3>1. ~createEvent
      BY Created
    <3>2. ~removeEvent
      BY NothingYet DEF removeEvent
    <3>3. \A u \in Editors : ~EditReads(u) /\ ~EditFails(u) /\ ~EditLocks(u)
      BY DEF EditReads, EditFails, EditLocks
    <3> QED
      BY <3>1, <3>2, <3>3 DEF EditsNext
  <2>2. edit[u].fields \in CategoryFields /\ row'.categories = edit[u].fields.categories
    BY <2>1, Committed
  <2> QED
    BY <2>1, <2>2, FieldsOfGroups DEF EditCommits
<1> QED
  BY <1>1, HoldersKnowTheRow, PTL DEF EditsSpec, CategoriesOfOneEdit

-----------------------------------------------------------------------------
LEMMA NextUrlInv ==
  ASSUME UrlInv, [EditsNext]_editVars
  PROVE  UrlInv'
<1>0. CategoriesInv'
  BY NextCategoriesInv DEF UrlInv
<1> USE DEF UrlInv
<1>1. CASE UNCHANGED editVars
  BY <1>0, <1>1 DEF editVars, ExternalUrlWhenExternal, UrlsFitTheirMode, Editing
<1>2. CASE createEvent
  <2>1. row'.mode = "EXTERNAL" <=> row'.url # ""
    BY <1>2, Created
  <2>2. \A u \in Editors : ~Editing(u)'
    BY <1>2, Created, NothingYet DEF Editing
  <2> QED
    BY <1>0, <2>1, <2>2 DEF ExternalUrlWhenExternal, UrlsFitTheirMode
<1>3. CASE removeEvent
  BY <1>0, <1>3, NothingYet DEF removeEvent, ExternalUrlWhenExternal, UrlsFitTheirMode, Editing
<1>4. ASSUME NEW u \in Editors, EditReads(u)
      PROVE  UrlInv'
  <2>1. PICK f \in Asked :
           edit' = [edit EXCEPT ![u] = [step |-> "read", fields |-> f, mode |-> row.mode,
                                        old |-> {}]]
    BY <1>4 DEF EditReads
  <2>2. f \in UrlFields => (row.mode = "EXTERNAL" <=> f.url # "")
    BY <2>1, AskedFields DEF CategoriesInv, EditsTyped
  <2>3. /\ edit'[u].fields = f /\ edit'[u].mode = row.mode
        /\ \A v \in Editors \ {u} : edit'[v] = edit[v]
    BY <2>1 DEF CategoriesInv, EditsTyped
  <2>4. UrlsFitTheirMode'
    BY <2>2, <2>3 DEF UrlsFitTheirMode, Editing
  <2> QED
    BY <1>0, <1>4, <2>4 DEF EditReads, ExternalUrlWhenExternal
<1>5. ASSUME NEW u \in Editors, EditFails(u)
      PROVE  UrlInv'
  BY <1>0, <1>5, NothingYet
     DEF EditFails, ExternalUrlWhenExternal, UrlsFitTheirMode, Editing, CategoriesInv, EditsTyped
<1>6. ASSUME NEW u \in Editors, EditLocks(u)
      PROVE  UrlInv'
  <2>1. Editing(u) /\ UNCHANGED <<row, misfit>>
    BY <1>6 DEF EditLocks, Editing
  <2>2. /\ edit'[u].fields = edit[u].fields /\ edit'[u].mode = edit[u].mode
        /\ \A v \in Editors \ {u} : edit'[v] = edit[v]
    BY <1>6, NothingYet DEF EditLocks, CategoriesInv, EditsTyped
  <2>3. UrlsFitTheirMode'
    BY <2>1, <2>2 DEF UrlsFitTheirMode, Editing
  <2> QED
    BY <1>0, <2>1, <2>3 DEF ExternalUrlWhenExternal
<1>7. ASSUME NEW u \in Editors, EditCommits(u)
      PROVE  UrlInv'
  <2>1. edit[u].step = "locked" /\ edit' = [edit EXCEPT ![u] = NoEdit]
    BY <1>7 DEF EditCommits
  <2>2. Editing(u) /\ edit[u].fields \in Fields
    BY <2>1, NothingYet DEF Editing, CategoriesInv, EditsTyped
  <2>3. UrlsFitTheirMode'
    BY <2>1, NothingYet DEF UrlsFitTheirMode, Editing, CategoriesInv, EditsTyped
  <2>4. ~misfit' => (row'.mode = "EXTERNAL" <=> row'.url # "")
    <3>1. CASE edit[u].fields \in CategoryFields
      BY <1>7, <3>1, Committed DEF ExternalUrlWhenExternal
    <3>2. CASE edit[u].fields \in ModeFields
      <4>1. edit[u].fields \notin CategoryFields
        BY <3>2, GroupsApart
      <4> QED
        BY <1>7, <3>2, <4>1, Committed, FieldsOfGroups
    <3>3. CASE edit[u].fields \in UrlFields
      <4>1. edit[u].fields \notin CategoryFields
        BY <3>3, GroupsApart
      <4> QED
        BY <1>7, <2>2, <3>3, <4>1, Committed DEF UrlsFitTheirMode
    <3> QED
      BY <2>2, <3>1, <3>2, <3>3 DEF Fields
  <2> QED
    BY <1>0, <2>3, <2>4 DEF ExternalUrlWhenExternal
<1> QED
  BY <1>1, <1>2, <1>3, <1>4, <1>5, <1>6, <1>7 DEF EditsNext

(***************************************************************************)
(* An event has an URL exactly when registration is external, for any      *)
(* number of editors that overlap in any way (normalizeUpdateRegistration- *)
(* Data on a row read before the transaction), but for an URL saved alone  *)
(* by an edit that had read a mode changed since.                          *)
(***************************************************************************)
THEOREM UrlsStayExternal == EditsSpec => []ExternalUrlWhenExternal
<1>1. EditsInit => UrlInv
  BY InitCategoriesInv, NothingYet
     DEF EditsInit, UrlInv, ExternalUrlWhenExternal, UrlsFitTheirMode, Editing
<1>2. UrlInv /\ [EditsNext]_editVars => UrlInv'
  BY NextUrlInv
<1>3. UrlInv => ExternalUrlWhenExternal
  BY DEF UrlInv
<1> QED
  BY <1>1, <1>2, <1>3, PTL DEF EditsSpec

(***************************************************************************)
(* At most one popup is active, for any number of administrators and       *)
(* popups: the advisory lock keeps what a request found available          *)
(* available until it has written.                                         *)
(***************************************************************************)
Intervals == Instants \X Instants

Creating == [step : {"asked"}, popup : Popups, new : {TRUE}, from : Instants, to : Instants]
Updating == [step : {"asked"}, popup : Popups, new : {FALSE},
             from : Instants \cup {Keep}, to : Instants \cup {Keep}]
Writing == [step : {"writing"}, popup : Popups, interval : Intervals]
Removing == [step : {"removing"}, popup : Popups]
PopupRequests == {NotAsked} \cup Creating \cup Updating \cup Writing \cup Removing

PopupsTyped ==
    /\ popups \in [Popups -> Intervals \cup {NoInterval}]
    /\ asked \in [Admins -> PopupRequests]
    /\ lockedBy \subseteq Admins

(* No two popups overlap. *)
Apart == \A p, q \in Scheduled : p # q => ~Overlaps(popups[p], popups[q])

(* What a request is about to write is still available, and nobody else    *)
(* writes.                                                                 *)
WritersHold ==
    \A a \in Admins : asked[a].step = "writing" =>
        /\ lockedBy = {a}
        /\ ensureAvailable(asked[a].popup, asked[a].interval)

PopupInv == PopupsTyped /\ Apart /\ WritersHold

-----------------------------------------------------------------------------
LEMMA NoIntervalIsNone == NoInterval \notin Intervals
  BY DEF NoInterval, Intervals

(* The step of a request tells what else it holds. *)
LEMMA StepTells ==
  ASSUME NEW r \in PopupRequests
  PROVE  /\ r.step = "asked" => r \in Creating \cup Updating
         /\ r.step = "writing" => r \in Writing
<1>1. NotAsked.step = "idle"
  BY DEF NotAsked
<1>2. \A s \in Creating : s.step = "asked"
  BY DEF Creating
<1>3. \A s \in Updating : s.step = "asked"
  BY DEF Updating
<1>4. \A s \in Writing : s.step = "writing"
  BY DEF Writing
<1>5. \A s \in Removing : s.step = "removing"
  BY DEF Removing
<1> QED
  BY <1>1, <1>2, <1>3, <1>4, <1>5 DEF PopupRequests

(* The interval of an accepted request is one of the calendar's. *)
LEMMA AcceptedIsInterval ==
  ASSUME PopupsTyped, NEW a \in Admins, asked[a].step = "asked", Accepted(asked[a])
  PROVE  /\ Interval(asked[a]) \in Intervals
         /\ asked[a].popup \in Popups
<1> DEFINE r == asked[a]
<1>1. asked[a] \in PopupRequests
  BY DEF PopupsTyped
<1>2. CASE r \in Creating
  BY <1>2 DEF Interval, Intervals, Creating
<1>3. CASE r \in Updating
  <2>1. r.popup \in Scheduled /\ r.popup \in Popups
    BY <1>3 DEF Accepted, Updating
  <2>2. popups[r.popup] \in Intervals
    BY <2>1 DEF PopupsTyped, Scheduled
  <2>3. popups[r.popup][1] \in Instants /\ popups[r.popup][2] \in Instants
    BY <2>2 DEF Intervals
  <2> QED
    BY <1>3, <2>1, <2>3 DEF Interval, Chosen, Intervals, Updating
<1> QED
  BY <1>1, <1>2, <1>3, StepTells

THEOREM SchedulesStayApart == PopupsSpec => []PopupInv
<1>1. PopupsInit => PopupInv
  BY DEF PopupsInit, PopupInv, PopupsTyped, Apart, WritersHold, Scheduled, PopupRequests, NotAsked
<1>2. PopupInv /\ [PopupsNext]_popupVars => PopupInv'
  <2> SUFFICES ASSUME PopupInv, [PopupsNext]_popupVars
               PROVE  PopupInv'
    OBVIOUS
  <2> USE DEF PopupInv
  <2>1. CASE UNCHANGED popupVars
    BY <2>1 DEF popupVars, PopupsTyped, Apart, WritersHold, Scheduled, ensureAvailable
  <2>2. ASSUME NEW a \in Admins, AskCreate(a) \/ AskChange(a) \/ AskRemoval(a)
        PROVE  PopupInv'
    <3>1. UNCHANGED <<popups, lockedBy>>
      BY <2>2 DEF AskCreate, AskChange, AskRemoval
    <3>2. PICK r \in PopupRequests : r.step # "writing" /\ asked' = [asked EXCEPT ![a] = r]
      <4>1. CASE AskCreate(a)
        BY <4>1 DEF AskCreate, PopupRequests, Creating
      <4>2. CASE AskChange(a)
        BY <4>2 DEF AskChange, PopupRequests, Updating, Scheduled
      <4>3. CASE AskRemoval(a)
        BY <4>3 DEF AskRemoval, PopupRequests, Removing, Scheduled
      <4> QED
        BY <2>2, <4>1, <4>2, <4>3
    <3>3. PopupsTyped'
      BY <3>1, <3>2 DEF PopupsTyped
    <3>4. Apart'
      BY <3>1 DEF Apart, Scheduled
    <3>5. WritersHold'
      BY <3>1, <3>2 DEF WritersHold, PopupsTyped, ensureAvailable, Scheduled
    <3> QED
      BY <3>3, <3>4, <3>5
  <2>3. ASSUME NEW a \in Admins, LockAndRead(a)
        PROVE  PopupInv'
    <3>1. asked[a].step = "asked" /\ lockedBy = {} /\ UNCHANGED popups
      BY <2>3 DEF LockAndRead
    <3>2. \A b \in Admins : asked[b].step # "writing"
      BY <3>1 DEF WritersHold
    <3>3. CASE Accepted(asked[a])
      <4>1. Interval(asked[a]) \in Intervals /\ asked[a].popup \in Popups
        BY <3>1, <3>3, AcceptedIsInterval
      <4> DEFINE w == [step |-> "writing", popup |-> asked[a].popup,
                       interval |-> Interval(asked[a])]
      <4>2. w \in PopupRequests /\ w.step = "writing" /\ w.popup = asked[a].popup
            /\ w.interval = Interval(asked[a])
        BY <4>1 DEF PopupRequests, Writing
      <4>3. asked' = [asked EXCEPT ![a] = w] /\ lockedBy' = {a}
        BY <2>3, <3>3 DEF LockAndRead
      <4>4. ensureAvailable(asked[a].popup, Interval(asked[a]))
        BY <3>3 DEF Accepted
      <4> HIDE DEF w
      <4>5. PopupsTyped'
        BY <3>1, <4>2, <4>3 DEF PopupsTyped
      <4>6. Apart'
        BY <3>1 DEF Apart, Scheduled
      <4>7. WritersHold'
        BY <3>1, <3>2, <4>2, <4>3, <4>4 DEF WritersHold, PopupsTyped, ensureAvailable, Scheduled
      <4> QED
        BY <4>5, <4>6, <4>7
    <3>4. CASE ~Accepted(asked[a])
      <4>1. asked' = [asked EXCEPT ![a] = NotAsked] /\ UNCHANGED lockedBy
        BY <2>3, <3>4 DEF LockAndRead
      <4>2. NotAsked \in PopupRequests /\ NotAsked.step # "writing"
        BY DEF PopupRequests, NotAsked
      <4>3. PopupsTyped'
        BY <3>1, <4>1, <4>2 DEF PopupsTyped
      <4>4. Apart'
        BY <3>1 DEF Apart, Scheduled
      <4>5. WritersHold'
        BY <3>2, <4>1, <4>2 DEF WritersHold, PopupsTyped
      <4> QED
        BY <4>3, <4>4, <4>5
    <3> QED
      BY <3>3, <3>4
  <2>4. ASSUME NEW a \in Admins, WriteAndCommit(a)
        PROVE  PopupInv'
    <3> DEFINE p == asked[a].popup
               i == asked[a].interval
    <3>1. asked[a].step = "writing" /\ popups' = [popups EXCEPT ![p] = i]
          /\ asked' = [asked EXCEPT ![a] = NotAsked] /\ lockedBy' = {}
      BY <2>4 DEF WriteAndCommit
    <3>2. p \in Popups /\ i \in Intervals
      BY <3>1, StepTells DEF PopupsTyped, Writing
    <3>3. \A b \in Admins : b # a => asked[b].step # "writing"
      BY <3>1 DEF WritersHold
    <3>4. ensureAvailable(p, i)
      BY <3>1 DEF WritersHold
    <3> HIDE DEF p, i
    <3>5. NotAsked \in PopupRequests /\ NotAsked.step # "writing"
      BY DEF PopupRequests, NotAsked
    <3>6. PopupsTyped'
      BY <3>1, <3>2, <3>5 DEF PopupsTyped
    <3>7. Apart'
      <4> SUFFICES ASSUME NEW x \in Scheduled', NEW y \in Scheduled', x # y
                   PROVE  ~Overlaps(popups'[x], popups'[y])
        BY DEF Apart
      <4>1. x \in Popups /\ y \in Popups
        BY DEF Scheduled
      <4>2. CASE x = p
        <5>1. y \in Scheduled /\ popups'[y] = popups[y] /\ popups'[x] = i
          BY <3>1, <3>2, <4>1, <4>2 DEF Scheduled, PopupsTyped
        <5> QED
          BY <3>4, <4>2, <5>1 DEF ensureAvailable, Overlaps
      <4>3. CASE y = p
        <5>1. x \in Scheduled /\ popups'[x] = popups[x] /\ popups'[y] = i
          BY <3>1, <3>2, <4>1, <4>3 DEF Scheduled, PopupsTyped
        <5> QED
          BY <3>4, <4>3, <5>1 DEF ensureAvailable, Overlaps
      <4>4. CASE x # p /\ y # p
        <5>1. x \in Scheduled /\ popups'[x] = popups[x] /\ y \in Scheduled
              /\ popups'[y] = popups[y]
          BY <3>1, <3>2, <4>1, <4>4 DEF Scheduled, PopupsTyped
        <5> QED
          BY <5>1 DEF Apart
      <4> QED
        BY <4>2, <4>3, <4>4
    <3>8. WritersHold'
      BY <3>1, <3>3, <3>5 DEF WritersHold, PopupsTyped
    <3> QED
      BY <3>6, <3>7, <3>8
  <2>5. ASSUME NEW a \in Admins, RemovePopup(a)
        PROVE  PopupInv'
    <3> DEFINE p == asked[a].popup
    <3>1. asked[a].step = "removing" /\ lockedBy = {}
          /\ popups' = [popups EXCEPT ![p] = NoInterval]
          /\ asked' = [asked EXCEPT ![a] = NotAsked] /\ UNCHANGED lockedBy
      BY <2>5 DEF RemovePopup
    <3> HIDE DEF p
    <3>2. \A b \in Admins : asked[b].step # "writing"
      BY <3>1 DEF WritersHold
    <3>3. NotAsked \in PopupRequests /\ NotAsked.step # "writing"
      BY DEF PopupRequests, NotAsked
    <3>4. PopupsTyped'
      BY <3>1, <3>3 DEF PopupsTyped
    <3>5. Apart'
      <4>1. \A x \in Scheduled' : x \in Scheduled /\ popups'[x] = popups[x]
        BY <3>1 DEF Scheduled, PopupsTyped
      <4> QED
        BY <4>1 DEF Apart
    <3>6. WritersHold'
      BY <3>1, <3>2, <3>3 DEF WritersHold, PopupsTyped
    <3> QED
      BY <3>4, <3>5, <3>6
  <2> QED
    BY <2>1, <2>2, <2>3, <2>4, <2>5 DEF PopupsNext
<1> QED
  BY <1>1, <1>2, PTL DEF PopupsSpec

-----------------------------------------------------------------------------
(***************************************************************************)
(* At every instant at most one popup is active (ensureAvailable and the   *)
(* advisory lock of create and update), for any number of administrators.  *)
(***************************************************************************)
THEOREM OnePopupAtATime == PopupsSpec => []OneActivePopup
<1>1. PopupInv => OneActivePopup
  <2> SUFFICES ASSUME PopupInv, NEW instant \in Instants
               PROVE  Cardinality(findActive(instant)) <= 1
    BY DEF OneActivePopup
  <2>1. ASSUME NEW p \in findActive(instant), NEW q \in findActive(instant)
        PROVE  p = q
    <3>1. p \in Scheduled /\ q \in Scheduled
      BY DEF findActive
    <3>2. popups[p] \in Intervals /\ popups[q] \in Intervals
      BY <3>1 DEF PopupInv, PopupsTyped, Scheduled
    <3>3. /\ popups[p][1] \in Nat /\ popups[p][2] \in Nat
          /\ popups[q][1] \in Nat /\ popups[q][2] \in Nat /\ instant \in Nat
      BY <3>2, PopupAssumption DEF Intervals, Instants
    <3>4. Overlaps(popups[p], popups[q])
      BY <3>3 DEF findActive, Overlaps
    <3> QED
      BY <3>1, <3>4 DEF PopupInv, Apart
  <2>2. CASE findActive(instant) = {}
    BY <2>2, FS_EmptySet
  <2>3. CASE findActive(instant) # {}
    <3>1. PICK p \in findActive(instant) : findActive(instant) = {p}
      BY <2>1, <2>3
    <3>2. Cardinality({p}) = 1
      BY FS_Singleton
    <3>3. Cardinality(findActive(instant)) = 1
      BY <3>1, <3>2
    <3> QED
      BY <3>3
  <2> QED
    BY <2>2, <2>3
<1> QED
  BY <1>1, SchedulesStayApart, PTL

-----------------------------------------------------------------------------
(***************************************************************************)
(* Quotas: every limit holds, whatever overlaps and whether Redis answers. *)
(* A request that has counted something behind a lock or in a serializable *)
(* transaction still has the count when it writes, and a window that runs  *)
(* has counted what was let through in it.                                 *)
(***************************************************************************)
Counter == [count : Nat, reset : Nat]
Key == [id : KeyIds, user : Users, expires : Nat, revoked : BOOLEAN]
RequestRecord == [phase : Phases, user : Users, on : Rows \union {Idle.on}, key : {0} \union KeyIds,
                  tries : 0 .. 2, seen : SUBSET KeyIds, at : Nat]

QuotasTyped ==
    /\ now \in 0 .. MaxTime /\ starts \in 0 .. MaxStarts
    /\ store \in [Counters -> Counter]
    /\ \A k \in Counters : store[k].reset <= now + Window[k[1]]
    /\ reachable \in BOOLEAN
    /\ keys \subseteq Key /\ IsFiniteSet(keys)
    /\ reports \in [Users \X Organizations -> Seq(0 .. now)]
    /\ updates \in [Events -> Seq(0 .. now)]
    /\ locked \subseteq Rows
    /\ request \in [Requests -> RequestRecord]
    /\ uses \in [KeyIds -> Seq(0 .. now)] /\ pings \in Seq(0 .. now)

(* Of the keys that a creation counted, fewer than the limit are active,   *)
(* and none of them is deleted.                                            *)
Counts(q) == {k \in Active(q.user, q.at) : k.id \in q.seen}
CreatesKey(q) ==
    /\ q.phase \in {"begin", "commit"} => q.at <= now
    /\ q.phase = "commit" => /\ Cardinality(Counts(q)) < MaxKeys
                             /\ q.seen \subseteq {k.id : k \in keys}
Calls(q) == q.phase = "tool" => q.key \in KeyIds

(* What was found under a lock on a row is still so.                       *)
Reporting(q) ==
    /\ q.phase \in {"report", "charge", "insert"} => q.on \in Organizations
    /\ q.phase \in {"charge", "insert"} => CanReport(q.user, q.on)
Mailing(q) ==
    /\ q.phase \in {"update", "reserve"} => q.on \in Events
    /\ q.phase = "reserve" => SentInLastDay(q.on) < MaxUpdates
RequestOK(q) == CreatesKey(q) /\ Calls(q) /\ Reporting(q) /\ Mailing(q)

Holds(q) == q.phase \in {"charge", "insert", "reserve"}
RowsHeld ==
    /\ \A r \in Requests : Holds(request[r]) => request[r].on \in locked
    /\ \A r, s \in Requests :
          Holds(request[r]) /\ Holds(request[s]) /\ request[r].on = request[s].on => r = s

KeysOK == ActiveKeysBounded /\ \A k, l \in keys : k.id = l.id => k = l

(* A counter whose window is over has counted no call of this tick.        *)
ToolsOK ==
    /\ ToolCallsBounded
    /\ \A i \in KeyIds : store[<<"mcp.tool", i>>].reset <= now => \A j \in DOMAIN uses[i] : uses[i][j] < now

(* The window that runs has seen a report, and the last mention is an hour *)
(* ago or falls into it.                                                   *)
Mentions == store[<<"mention", "all">>]
PingsOK ==
    /\ PingsApart
    /\ Mentions.reset <= now \/ Mentions.count >= 1
    /\ pings # <<>> => pings[Len(pings)] + Hour <= now \/ pings[Len(pings)] + Hour <= Mentions.reset

UpdatesOK ==
    /\ UpdatesBounded
    /\ \A e \in Events : \A i, j \in DOMAIN updates[e] : i <= j => updates[e][i] <= updates[e][j]

QuotasInv ==
    /\ QuotasTyped /\ KeysOK /\ ToolsOK /\ ReportsApart /\ PingsOK /\ UpdatesOK /\ RowsHeld
    /\ \A r \in Requests : RequestOK(request[r])

-----------------------------------------------------------------------------
LEMMA Appended ==
    ASSUME NEW S, NEW s \in Seq(S), NEW x \in S
    PROVE  /\ Append(s, x) \in Seq(S) /\ Len(Append(s, x)) = Len(s) + 1 /\ Len(s) \in Nat
           /\ DOMAIN s = 1 .. Len(s) /\ DOMAIN Append(s, x) = 1 .. Len(s) + 1
           /\ Append(s, x)[Len(s) + 1] = x /\ \A i \in 1 .. Len(s) : Append(s, x)[i] = s[i]
OBVIOUS

LEMMA SeqFacts ==
    ASSUME NEW n \in Nat, NEW m \in Nat, m <= n, NEW s \in Seq(0 .. m)
    PROVE  /\ s \in Seq(0 .. n) /\ Len(s) \in Nat /\ DOMAIN s = 1 .. Len(s)
           /\ \A i \in DOMAIN s : s[i] \in 0 .. m /\ s[i] \in Nat /\ s[i] <= n
<1>1. /\ Len(s) \in Nat /\ DOMAIN s = 1 .. Len(s) /\ \A i \in DOMAIN s : s[i] \in 0 .. m
  OBVIOUS
<1>2. \A i \in DOMAIN s : s[i] \in 0 .. n /\ s[i] \in Nat /\ s[i] <= n
  BY <1>1
<1>3. s \in Seq(0 .. n)
  BY <1>1, <1>2
<1> QED
  BY <1>1, <1>2, <1>3

LEMMA InvTells ==
    ASSUME QuotasInv
    PROVE  LimitsHold
<1>1. TypeOK
  <2>1. \A k \in Counters : store[k].count \in Nat /\ store[k].reset \in 0 .. now + Window[k[1]]
    <3>1. \A k \in Counters : k[1] \in Actions
      BY DEF Counters, Actions
    <3> QED
      BY <3>1, QuotasAssumption DEF QuotasInv, QuotasTyped, Counter
  <2> QED
    BY <2>1 DEF QuotasInv, QuotasTyped, TypeOK, Key, RequestRecord
<1> QED
  BY <1>1 DEF QuotasInv, KeysOK, ToolsOK, PingsOK, UpdatesOK, LimitsHold

-----------------------------------------------------------------------------
(* Requests.                                                               *)

Moves(r, q) == request' = [request EXCEPT ![r] = q]

LEMMA MovesFacts ==
    ASSUME QuotasTyped, NEW r \in Requests, NEW q \in RequestRecord, Moves(r, q)
    PROVE  /\ request' \in [Requests -> RequestRecord] /\ request'[r] = q
           /\ \A s \in Requests : s # r => request'[s] = request[s]
BY DEF QuotasTyped, Moves

LEMMA IdleOK == Idle \in RequestRecord /\ Idle.phase = "idle" /\ RequestOK(Idle)
<1>1. Idle.user \in Users
  BY QuotasAssumption DEF Idle
<1>2. Idle.phase = "idle" /\ Idle.key = 0 /\ Idle.tries = 0 /\ Idle.seen = {} /\ Idle.at = 0
  BY DEF Idle
<1>3. Idle \in RequestRecord
  BY <1>1, <1>2 DEF RequestRecord, Phases, Idle
<1>4. RequestOK(Idle)
  BY <1>2 DEF RequestOK, CreatesKey, Calls, Reporting, Mailing
<1> QED
  BY <1>2, <1>3, <1>4

(* What a request knows is of the rows and the time.                       *)
LEMMA QuietRows ==
    ASSUME UNCHANGED <<now, rows>>, NEW c, RequestOK(c)
    PROVE  RequestOK(c)'
<1>1. Counts(c)' = Counts(c) /\ CanReport(c.user, c.on)' = CanReport(c.user, c.on)
  BY DEF rows, Counts, Active, CanReport
<1>2. SentInLastDay(c.on)' = SentInLastDay(c.on)
  BY DEF rows, SentInLastDay
<1> QED
  BY <1>1, <1>2 DEF rows, RequestOK, CreatesKey, Calls, Reporting, Mailing

LEMMA QuietTables ==
    ASSUME QuotasInv, UNCHANGED <<now, rows>>
    PROVE  KeysOK' /\ ReportsApart' /\ UpdatesOK'
<1>1. KeysOK'
  BY DEF QuotasInv, KeysOK, ActiveKeysBounded, Active, rows
<1>2. ReportsApart'
  BY DEF QuotasInv, ReportsApart, rows
<1>3. UpdatesOK'
  BY DEF QuotasInv, UpdatesOK, UpdatesBounded, rows
<1> QED
  BY <1>1, <1>2, <1>3

LEMMA QuietTools ==
    ASSUME QuotasInv, UNCHANGED <<now, uses>>,
           \A i \in KeyIds : store'[<<"mcp.tool", i>>] = store[<<"mcp.tool", i>>]
    PROVE  ToolsOK'
BY DEF QuotasInv, ToolsOK, ToolCallsBounded

LEMMA QuietPings ==
    ASSUME QuotasInv, UNCHANGED <<now, pings>>, store'[<<"mention", "all">>] = store[<<"mention", "all">>]
    PROVE  PingsOK'
BY DEF QuotasInv, PingsOK, PingsApart, Mentions

(* One request goes on and the others know what they knew.                 *)
LEMMA OthersStand ==
    ASSUME QuotasInv, NEW r \in Requests, NEW q \in RequestRecord, Moves(r, q), RequestOK(q)',
           \A s \in Requests : s # r => \A c : c = request[s] => RequestOK(c)'
    PROVE  \A s \in Requests : RequestOK(request[s])'
<1> SUFFICES ASSUME NEW s \in Requests
             PROVE  RequestOK(request[s])'
  OBVIOUS
<1>1. PICK c : c = IF s = r THEN q ELSE request[s]
  OBVIOUS
<1>2. request'[s] = c
  BY <1>1, MovesFacts DEF QuotasInv
<1>3. RequestOK(c)'
  BY <1>1
<1> QED
  BY <1>2, <1>3

(* A request keeps the row it had or none, takes one, or gives one back.   *)
Keeps(r, q) == locked' = locked /\ (Holds(q) => Holds(request[r]) /\ q.on = request[r].on)
Takes(q) == q.on \notin locked /\ q.on \in Rows /\ locked' = locked \union {q.on}
Gives(r, q) == Holds(request[r]) /\ ~Holds(q) /\ locked' = locked \ {request[r].on}

LEMMA RowsKept ==
    ASSUME QuotasInv, NEW r \in Requests, NEW q \in RequestRecord, Moves(r, q),
           Keeps(r, q) \/ Takes(q) \/ Gives(r, q)
    PROVE  RowsHeld' /\ locked' \subseteq Rows
<1>1. /\ request'[r] = q /\ \A s \in Requests : s # r => request'[s] = request[s]
  BY MovesFacts DEF QuotasInv
<1>2. locked' \subseteq Rows
  BY DEF QuotasInv, QuotasTyped, Keeps, Takes, Gives
<1>3. RowsHeld'
  BY <1>1 DEF QuotasInv, RowsHeld, Holds, Keeps, Takes, Gives
<1> QED
  BY <1>2, <1>3
-----------------------------------------------------------------------------
(* Counters.                                                               *)

LEMMA WindowOf ==
    ASSUME NEW k \in Counters
    PROVE  k[1] \in Actions /\ Window[k[1]] \in Nat \ {0} /\ Limit[k[1]] \in Nat \ {0}
<1>1. k[1] \in Actions
  BY DEF Counters, Actions
<1> QED
  BY <1>1, QuotasAssumption

LEMMA CountedFacts ==
    ASSUME QuotasTyped, NEW k \in Counters, NEW cost \in Nat \ {0}
    PROVE  /\ Counted(k, cost) \in Counter
           /\ store[k] \in Counter
           /\ store[k].reset <= now =>
                 Counted(k, cost).count = cost /\ Counted(k, cost).reset = now + Window[k[1]]
           /\ store[k].reset > now =>
                 /\ Counted(k, cost).count = store[k].count + cost
                 /\ Counted(k, cost).reset = store[k].reset
           /\ Counted(k, cost).reset <= now + Window[k[1]]
<1>1. store[k] \in Counter /\ now \in Nat /\ Window[k[1]] \in Nat \ {0} /\ store[k].reset <= now + Window[k[1]]
  BY WindowOf, QuotasAssumption DEF QuotasTyped
<1>2. CASE store[k].reset <= now
  BY <1>1, <1>2 DEF Counted, Counter
<1>3. CASE store[k].reset > now
  BY <1>1, <1>3 DEF Counted, Counter
<1> QED
  BY <1>1, <1>2, <1>3 DEF Counter

LEMMA Charges ==
    ASSUME QuotasTyped, NEW k \in Counters, NEW cost \in Nat \ {0}, NEW admitted,
           Charge(k, cost, admitted)
    PROVE  /\ store' \in [Counters -> Counter]
           /\ \A j \in Counters : store'[j].reset <= now + Window[j[1]]
           /\ \A j \in Counters : j # k => store'[j] = store[j]
           /\ store'[k] = store[k] \/ store'[k] = Counted(k, cost)
           /\ admitted /\ k[1] \notin FailOpen => Admits(k, cost) /\ store'[k] = Counted(k, cost)
<1>1. CASE store' = store
  <2>1. admitted => k[1] \in FailOpen \/ store = [store EXCEPT ![k] = Counted(k, cost)]
    BY <1>1 DEF Charge
  <2>2. admitted /\ k[1] \notin FailOpen => Admits(k, cost)
    BY DEF Charge
  <2> QED
    BY <1>1, <2>1, <2>2 DEF QuotasTyped
<1>2. CASE store' = [store EXCEPT ![k] = Counted(k, cost)]
  <2>1. admitted /\ k[1] \notin FailOpen => Admits(k, cost)
    BY DEF Charge
  <2>2. /\ store'[k] = Counted(k, cost) /\ \A j \in Counters : j # k => store'[j] = store[j]
        /\ store' \in [Counters -> Counter]
    BY <1>2, CountedFacts DEF QuotasTyped
  <2>3. \A j \in Counters : store'[j].reset <= now + Window[j[1]]
    BY <2>2, CountedFacts DEF QuotasTyped
  <2> QED
    BY <2>1, <2>2, <2>3
<1> QED
  BY <1>1, <1>2 DEF Charge

-----------------------------------------------------------------------------
(* What a step has to show that leaves the rows and the time alone.        *)

Recorded ==
    /\ store' \in [Counters -> Counter] /\ \A j \in Counters : store'[j].reset <= now + Window[j[1]]
    /\ uses' \in [KeyIds -> Seq(0 .. now)] /\ pings' \in Seq(0 .. now)
    /\ reachable' \in BOOLEAN /\ starts' \in 0 .. MaxStarts
    /\ ToolsOK' /\ PingsOK'

LEMMA QuietStep ==
    ASSUME QuotasInv, NEW r \in Requests, NEW q \in RequestRecord, Moves(r, q), RequestOK(q),
           UNCHANGED <<now, rows>>, Keeps(r, q) \/ Takes(q) \/ Gives(r, q), Recorded
    PROVE  QuotasInv'
<1>1. RequestOK(q)' /\ \A s \in Requests : \A c : c = request[s] => RequestOK(c)'
  BY QuietRows DEF QuotasInv
<1>2. \A s \in Requests : RequestOK(request[s])'
  BY <1>1, OthersStand
<1>3. RowsHeld' /\ locked' \subseteq Rows
  BY RowsKept
<1>4. KeysOK' /\ ReportsApart' /\ UpdatesOK'
  BY QuietTables
<1>5. QuotasTyped'
  <2>1. request' \in [Requests -> RequestRecord]
    BY MovesFacts DEF QuotasInv
  <2> QED
    BY <1>3, <2>1 DEF Recorded, QuotasInv, QuotasTyped, rows
<1> QED
  BY <1>2, <1>3, <1>4, <1>5 DEF QuotasInv, Recorded

LEMMA Uncounted ==
    ASSUME QuotasInv, UNCHANGED <<now, counters, history>>, starts' \in 0 .. MaxStarts
    PROVE  Recorded
<1>1. ToolsOK' /\ PingsOK'
  BY QuietTools, QuietPings DEF counters, history
<1> QED
  BY <1>1 DEF Recorded, QuotasInv, QuotasTyped, counters, history

LEMMA Spends ==
    ASSUME QuotasTyped, Spend
    PROVE  starts' \in 0 .. MaxStarts
BY QuotasAssumption DEF QuotasTyped, Spend

LEMMA ToFacts ==
    ASSUME QuotasTyped, NEW r \in Requests, NEW p \in Phases, To(r, p)
    PROVE  \E q \in RequestRecord :
              /\ Moves(r, q) /\ q.phase = p
              /\ q.user = request[r].user /\ q.on = request[r].on /\ q.key = request[r].key
              /\ q.tries = request[r].tries /\ q.seen = request[r].seen /\ q.at = request[r].at
<1> DEFINE q == [request[r] EXCEPT !.phase = p]
<1>1. request[r] \in RequestRecord
  BY DEF QuotasTyped
<1>2. /\ q \in RequestRecord /\ q.phase = p
      /\ q.user = request[r].user /\ q.on = request[r].on /\ q.key = request[r].key
      /\ q.tries = request[r].tries /\ q.seen = request[r].seen /\ q.at = request[r].at
  BY <1>1 DEF RequestRecord
<1>3. Moves(r, q)
  BY DEF To, Moves
<1> QED
  BY <1>2, <1>3

LEMMA DoneMoves == ASSUME NEW r \in Requests, Done(r) PROVE Moves(r, Idle)
BY DEF Done, Moves

-----------------------------------------------------------------------------
(* What is asked.                                                          *)

LEMMA VerifyStep ==
    ASSUME QuotasInv, NEW r \in Requests, NEW k \in keys, Verify(r, k)
    PROVE  QuotasInv'
<1> DEFINE q == [Idle EXCEPT !.phase = "tool", !.key = k.id]
<1>1. k.id \in KeyIds
  BY DEF QuotasInv, QuotasTyped, Key
<1>2. q \in RequestRecord /\ q.phase = "tool" /\ q.key = k.id
  BY <1>1, IdleOK DEF RequestRecord, Phases
<1>3. Moves(r, q)
  BY DEF Verify, Moves
<1> HIDE DEF q
<1>4. RequestOK(q)
  BY <1>1, <1>2 DEF RequestOK, CreatesKey, Calls, Reporting, Mailing
<1>5. Keeps(r, q)
  BY <1>2 DEF Keeps, Holds, Verify
<1>6. Recorded
  BY Spends, Uncounted DEF Verify, Start, QuotasInv, counters, history
<1> QED
  BY <1>2, <1>3, <1>4, <1>5, <1>6, QuietStep DEF Verify

LEMMA AskKeyStep ==
    ASSUME QuotasInv, NEW r \in Requests, NEW u \in Users, AskKey(r, u)
    PROVE  QuotasInv'
<1> DEFINE q == [Idle EXCEPT !.phase = "begin", !.user = u, !.at = now]
<1>1. now \in Nat
  BY QuotasAssumption DEF QuotasInv, QuotasTyped
<1>2. q \in RequestRecord /\ q.phase = "begin" /\ q.at = now
  BY <1>1, IdleOK DEF RequestRecord, Phases
<1>3. Moves(r, q)
  BY DEF AskKey, Moves
<1> HIDE DEF q
<1>4. RequestOK(q)
  BY <1>1, <1>2 DEF RequestOK, CreatesKey, Calls, Reporting, Mailing
<1>5. Keeps(r, q)
  BY <1>2 DEF Keeps, Holds, AskKey
<1>6. Recorded
  BY Spends, Uncounted DEF AskKey, Start, QuotasInv, counters, history
<1> QED
  BY <1>2, <1>3, <1>4, <1>5, <1>6, QuietStep DEF AskKey

LEMMA AskReportStep ==
    ASSUME QuotasInv, NEW r \in Requests, NEW u \in Users, NEW o \in Organizations, AskReport(r, u, o)
    PROVE  QuotasInv'
<1> DEFINE q == [Idle EXCEPT !.phase = "report", !.user = u, !.on = o]
<1>2. q \in RequestRecord /\ q.phase = "report" /\ q.on = o
  BY IdleOK DEF RequestRecord, Phases, Rows
<1>3. Moves(r, q)
  BY DEF AskReport, Moves
<1> HIDE DEF q
<1>4. RequestOK(q)
  BY <1>2 DEF RequestOK, CreatesKey, Calls, Reporting, Mailing
<1>5. Keeps(r, q)
  BY <1>2 DEF Keeps, Holds, AskReport
<1>6. Recorded
  BY Spends, Uncounted DEF AskReport, Start, QuotasInv, counters, history
<1> QED
  BY <1>2, <1>3, <1>4, <1>5, <1>6, QuietStep DEF AskReport

LEMMA AskUpdateStep ==
    ASSUME QuotasInv, NEW r \in Requests, NEW u \in Users, NEW e \in Events, AskUpdate(r, u, e)
    PROVE  QuotasInv'
<1> DEFINE q == [Idle EXCEPT !.phase = "update", !.user = u, !.on = e]
<1>2. q \in RequestRecord /\ q.phase = "update" /\ q.on = e
  BY IdleOK DEF RequestRecord, Phases, Rows
<1>3. Moves(r, q)
  BY DEF AskUpdate, Moves
<1> HIDE DEF q
<1>4. RequestOK(q)
  BY <1>2 DEF RequestOK, CreatesKey, Calls, Reporting, Mailing
<1>5. Keeps(r, q)
  BY <1>2 DEF Keeps, Holds, AskUpdate
<1>6. Recorded
  BY Spends, Uncounted DEF AskUpdate, Start, QuotasInv, counters, history
<1> QED
  BY <1>2, <1>3, <1>4, <1>5, <1>6, QuietStep DEF AskUpdate

-----------------------------------------------------------------------------
(* Calls of tools.                                                         *)

(* A call that the counter admitted is one of those it counts.             *)
LEMMA CallCounted ==
    ASSUME QuotasInv, NEW n \in KeyIds, NEW admitted \in BOOLEAN,
           Charge(<<"mcp.tool", n>>, 1, admitted), now' = now,
           uses' = IF admitted THEN [uses EXCEPT ![n] = Append(@, now)] ELSE uses
    PROVE  ToolsOK' /\ uses' \in [KeyIds -> Seq(0 .. now)]
<1> DEFINE k == <<"mcp.tool", n>>
<1>1. k \in Counters /\ k[1] = "mcp.tool" /\ k[1] \notin FailOpen
  BY DEF Counters, FailOpen
<1>2. /\ store' \in [Counters -> Counter]
      /\ \A j \in Counters : j # k => store'[j] = store[j]
      /\ store'[k] = store[k] \/ store'[k] = Counted(k, 1)
      /\ admitted => Admits(k, 1) /\ store'[k] = Counted(k, 1)
  BY <1>1, Charges DEF QuotasInv
<1>3. \A i \in KeyIds : i # n => store'[<<"mcp.tool", i>>] = store[<<"mcp.tool", i>>]
  BY <1>2 DEF Counters
<1>4. now \in Nat /\ now \in 0 .. now /\ uses[n] \in Seq(0 .. now)
  BY QuotasAssumption DEF QuotasInv, QuotasTyped
<1>5. uses' \in [KeyIds -> Seq(0 .. now)] /\ \A i \in KeyIds : i # n => uses'[i] = uses[i]
  <2>1. Append(uses[n], now) \in Seq(0 .. now)
    BY <1>4
  <2> QED
    BY <2>1 DEF QuotasInv, QuotasTyped
<1> DEFINE W == Window["mcp.tool"]
           L == Limit["mcp.tool"]
           c == store[k]
           d == store'[k]
           Ran(s, t) == {j \in DOMAIN s : s[j] >= t - W}
<1>6. W \in Nat \ {0} /\ L \in Nat \ {0} /\ c \in Counter /\ d \in Counter
  BY <1>1, <1>2, WindowOf, CountedFacts DEF QuotasInv
<1>7. /\ c.reset <= now => d = c \/ (d.count = 1 /\ d.reset = now + W)
      /\ c.reset > now => d.reset = c.reset /\ (d = c \/ d.count = c.count + 1)
  BY <1>1, <1>2, CountedFacts DEF QuotasInv
<1>8. admitted => /\ d.count <= L /\ d.reset > now
                  /\ c.reset <= now => d.count = 1 /\ d.reset = now + W
                  /\ c.reset > now => d.count = c.count + 1
  <2>1. admitted => d.count <= L /\ d = Counted(k, 1)
    BY <1>1, <1>2 DEF Admits
  <2>2. /\ c.reset <= now => Counted(k, 1).count = 1 /\ Counted(k, 1).reset = now + W
        /\ c.reset > now => Counted(k, 1).count = c.count + 1 /\ Counted(k, 1).reset = c.reset
    BY <1>1, CountedFacts DEF QuotasInv
  <2>3. c.reset \in Nat
    BY <1>6 DEF Counter
  <2> HIDE DEF c, d, k
  <2> QED
    BY <2>1, <2>2, <2>3, <1>4, <1>6
<1>9. /\ c.reset > now => Cardinality(Ran(uses[n], c.reset)) <= c.count /\ Cardinality(Ran(uses[n], c.reset)) <= L
      /\ c.reset <= now => \A j \in DOMAIN uses[n] : uses[n][j] < now
  BY DEF QuotasInv, ToolsOK, ToolCallsBounded
<1>10. /\ DOMAIN uses[n] = 1 .. Len(uses[n]) /\ Len(uses[n]) \in Nat
       /\ \A j \in DOMAIN uses[n] : uses[n][j] \in Nat /\ uses[n][j] <= now
  BY <1>4, SeqFacts
<1>11. \A t \in Nat : IsFiniteSet(Ran(uses[n], t)) /\ Cardinality(Ran(uses[n], t)) \in Nat
  <2> SUFFICES ASSUME NEW t \in Nat
               PROVE  IsFiniteSet(Ran(uses[n], t)) /\ Cardinality(Ran(uses[n], t)) \in Nat
    OBVIOUS
  <2>1. Ran(uses[n], t) \subseteq 1 .. Len(uses[n])
    BY <1>10
  <2>2. IsFiniteSet(1 .. Len(uses[n]))
    BY <1>10, FS_Interval
  <2> QED
    BY <2>1, <2>2, FS_Subset, FS_CardinalityType
<1>12. \A t \in Nat : \A s : s = Append(uses[n], now)
         => Ran(s, t) \subseteq Ran(uses[n], t) \union {Len(uses[n]) + 1}
  BY <1>4, <1>10, Appended
<1>13. c.reset <= now => Ran(uses[n], now + W) = {}
  BY <1>9, <1>10, <1>6, <1>4
<1>14. \A s : s = Append(uses[n], now) => uses'[n] = IF admitted THEN s ELSE uses[n]
  BY DEF QuotasInv, QuotasTyped
<1> HIDE DEF c, d, k, W, L, Ran
<1>15. /\ d.reset > now => Cardinality(Ran(uses'[n], d.reset)) <= d.count /\ Cardinality(Ran(uses'[n], d.reset)) <= L
       /\ d.reset <= now => \A j \in DOMAIN uses'[n] : uses'[n][j] < now
  <2>1. c.reset \in Nat /\ c.count \in Nat /\ d.reset \in Nat /\ d.count \in Nat /\ now + W \in Nat
    BY <1>4, <1>6 DEF Counter
  <2>2. CASE ~admitted
    <3>1. uses'[n] = uses[n]
      BY <2>2
    <3>2. CASE c.reset <= now
      <4>1. Cardinality({}) = 0
        BY FS_EmptySet
      <4>2. d.reset > now => d.reset = now + W /\ d.count = 1
        BY <1>4, <1>7, <2>1, <3>2
      <4>3. d.reset > now => Cardinality(Ran(uses'[n], d.reset)) = 0
        BY <1>13, <3>1, <3>2, <4>1, <4>2
      <4>4. d.reset <= now => \A j \in DOMAIN uses'[n] : uses'[n][j] < now
        BY <1>9, <3>1, <3>2
      <4>5. 0 <= d.count /\ 0 <= L
        BY <1>6, <2>1
      <4> QED
        BY <4>3, <4>4, <4>5
    <3>3. CASE c.reset > now
      <4>1. Cardinality(Ran(uses[n], c.reset)) \in Nat
        BY <1>11, <2>1
      <4> QED
        BY <1>4, <1>6, <1>7, <1>9, <2>1, <3>1, <3>3, <4>1
    <3> QED
      BY <3>2, <3>3, <1>4, <2>1
  <2>3. CASE admitted
    <3>1. PICK s : s = Append(uses[n], now)
      OBVIOUS
    <3>2. uses'[n] = s /\ Ran(s, d.reset) \subseteq Ran(uses[n], d.reset) \union {Len(uses[n]) + 1}
      BY <1>12, <1>14, <2>1, <2>3, <3>1
    <3>3. /\ Cardinality(Ran(uses[n], d.reset) \union {Len(uses[n]) + 1}) <= Cardinality(Ran(uses[n], d.reset)) + 1
          /\ IsFiniteSet(Ran(uses[n], d.reset) \union {Len(uses[n]) + 1})
          /\ Cardinality(Ran(uses[n], d.reset)) \in Nat
      <4>1. IsFiniteSet(Ran(uses[n], d.reset)) /\ Cardinality(Ran(uses[n], d.reset)) \in Nat
        BY <1>11, <2>1
      <4>2. PICK S : S = Ran(uses[n], d.reset)
        OBVIOUS
      <4>3. PICK x : x = Len(uses[n]) + 1
        OBVIOUS
      <4>4. IsFiniteSet(S) /\ Cardinality(S) \in Nat
        BY <4>1, <4>2
      <4>5. IsFiniteSet(S \union {x}) /\ Cardinality(S \union {x}) \in {Cardinality(S), Cardinality(S) + 1}
        BY <4>4, FS_AddElement
      <4>6. Cardinality(S \union {x}) <= Cardinality(S) + 1
        BY <4>4, <4>5
      <4> QED
        BY <4>2, <4>3, <4>4, <4>5, <4>6
    <3>4. Cardinality(Ran(s, d.reset)) <= Cardinality(Ran(uses[n], d.reset)) + 1 /\ Cardinality(Ran(s, d.reset)) \in Nat
      <4>1. /\ Cardinality(Ran(s, d.reset)) <= Cardinality(Ran(uses[n], d.reset) \union {Len(uses[n]) + 1})
            /\ Cardinality(Ran(s, d.reset)) \in Nat
            /\ Cardinality(Ran(uses[n], d.reset) \union {Len(uses[n]) + 1}) \in Nat
        BY <3>2, <3>3, FS_Subset, FS_CardinalityType
      <4> QED
        BY <4>1, <3>3
    <3>5. CASE c.reset <= now
      <4>1. Cardinality({}) = 0
        BY FS_EmptySet
      <4>2. d.reset = now + W /\ d.count = 1 /\ d.count <= L /\ d.reset > now
        BY <1>8, <2>3, <3>5
      <4>3. Cardinality(Ran(uses[n], d.reset)) = 0
        BY <1>13, <3>5, <4>1, <4>2
      <4>4. Cardinality(Ran(s, d.reset)) <= 1
        BY <3>4, <4>3
      <4>5. Cardinality(Ran(s, d.reset)) <= d.count /\ Cardinality(Ran(s, d.reset)) <= L
        BY <1>6, <2>1, <3>4, <4>2, <4>4
      <4>6. ~(d.reset <= now)
        BY <1>4, <2>1, <4>2
      <4>7. uses'[n] = s
        BY <3>2
      <4> QED
        BY <4>5, <4>6, <4>7
    <3>6. CASE c.reset > now
      <4>1. d.reset = c.reset /\ d.count = c.count + 1 /\ d.count <= L
        BY <1>7, <1>8, <2>3, <3>6
      <4>2. Cardinality(Ran(uses[n], d.reset)) <= c.count
        BY <1>9, <3>6, <4>1
      <4>3. Cardinality(Ran(s, d.reset)) <= c.count + 1
        BY <2>1, <3>3, <3>4, <4>2
      <4>4. Cardinality(Ran(s, d.reset)) <= d.count /\ Cardinality(Ran(s, d.reset)) <= L
        BY <1>6, <2>1, <3>4, <4>1, <4>3
      <4>6. ~(d.reset <= now)
        BY <1>4, <2>1, <3>6, <4>1
      <4>7. uses'[n] = s
        BY <3>2
      <4> QED
        BY <4>4, <4>6, <4>7
    <3> QED
      BY <3>5, <3>6, <1>4, <2>1
  <2> QED
    BY <2>2, <2>3
<1> USE DEF c, d, k, W, L, Ran
<1>16. \A i \in KeyIds : i # n => uses'[i] = uses[i] /\ store'[<<"mcp.tool", i>>] = store[<<"mcp.tool", i>>]
  BY <1>3, <1>5
<1>17. ToolsOK'
  <2> SUFFICES ASSUME NEW i \in KeyIds
               PROVE  /\ store'[<<"mcp.tool", i>>].reset > now =>
                            /\ Cardinality(Ran(uses'[i], store'[<<"mcp.tool", i>>].reset)) <= store'[<<"mcp.tool", i>>].count
                            /\ Cardinality(Ran(uses'[i], store'[<<"mcp.tool", i>>].reset)) <= L
                      /\ store'[<<"mcp.tool", i>>].reset <= now => \A j \in DOMAIN uses'[i] : uses'[i][j] < now
    BY DEF ToolsOK, ToolCallsBounded
  <2>1. CASE i = n
    BY <1>15, <2>1
  <2>2. CASE i # n
    BY <1>16, <2>2 DEF QuotasInv, ToolsOK, ToolCallsBounded
  <2> QED
    BY <2>1, <2>2
<1> QED
  BY <1>5, <1>17

LEMMA CallToolStep ==
    ASSUME QuotasInv, NEW r \in Requests, CallTool(r)
    PROVE  QuotasInv'
<1>1. request[r] \in RequestRecord /\ request[r].key \in KeyIds
  BY DEF QuotasInv, QuotasTyped, RequestOK, Calls, CallTool
<1>2. PICK admitted \in BOOLEAN :
         /\ Charge(<<"mcp.tool", request[r].key>>, 1, admitted)
         /\ uses' = IF admitted THEN [uses EXCEPT ![request[r].key] = Append(@, now)] ELSE uses
  BY DEF CallTool
<1>3. ToolsOK' /\ uses' \in [KeyIds -> Seq(0 .. now)]
  BY <1>1, <1>2, CallCounted DEF CallTool
<1>4. /\ store' \in [Counters -> Counter] /\ \A j \in Counters : store'[j].reset <= now + Window[j[1]]
      /\ store'[<<"mention", "all">>] = store[<<"mention", "all">>]
  <2>1. PICK k : k = <<"mcp.tool", request[r].key>>
    OBVIOUS
  <2>2. k \in Counters /\ <<"mention", "all">> \in Counters /\ k # <<"mention", "all">>
    BY <1>1, <2>1 DEF Counters
  <2>3. Charge(k, 1, admitted)
    BY <1>2, <2>1
  <2>4. /\ store' \in [Counters -> Counter] /\ \A j \in Counters : store'[j].reset <= now + Window[j[1]]
        /\ \A j \in Counters : j # k => store'[j] = store[j]
    BY <2>2, <2>3, Charges DEF QuotasInv
  <2> QED
    BY <2>2, <2>4
<1>5. Recorded
  <2>1. PingsOK'
    BY <1>4, QuietPings DEF CallTool
  <2> QED
    BY <1>3, <1>4, <2>1 DEF Recorded, QuotasInv, QuotasTyped, CallTool
<1>6. Moves(r, Idle) /\ Keeps(r, Idle)
  BY DoneMoves, IdleOK DEF CallTool, Keeps, Holds
<1> QED
  BY <1>5, <1>6, IdleOK, QuietStep DEF CallTool

-----------------------------------------------------------------------------
(* Reports, and the mention that goes with one.                            *)

(* What is charged to another counter tells nothing of calls and mentions. *)
LEMMA Elsewhere ==
    ASSUME QuotasInv, NEW a \in {"organization.report", "mail.recipient"}, NEW u \in Users,
           NEW cost \in Nat \ {0}, NEW admitted, Charge(<<a, u>>, cost, admitted),
           UNCHANGED <<now, reachable, history, starts>>
    PROVE  Recorded
<1>1. <<a, u>> \in Counters
  BY DEF Counters
<1>2. /\ store' \in [Counters -> Counter] /\ \A j \in Counters : store'[j].reset <= now + Window[j[1]]
      /\ \A j \in Counters : j # <<a, u>> => store'[j] = store[j]
  BY <1>1, Charges DEF QuotasInv
<1>3. /\ store'[<<"mention", "all">>] = store[<<"mention", "all">>]
      /\ \A i \in KeyIds : store'[<<"mcp.tool", i>>] = store[<<"mcp.tool", i>>]
  BY <1>2 DEF Counters
<1>4. ToolsOK' /\ PingsOK'
  BY <1>3, QuietTools, QuietPings DEF history
<1> QED
  BY <1>2, <1>4 DEF Recorded, QuotasInv, QuotasTyped, history

LEMMA LockOrganizationStep ==
    ASSUME QuotasInv, NEW r \in Requests, LockOrganization(r)
    PROVE  QuotasInv'
<1>1. Recorded
  BY Uncounted DEF LockOrganization, QuotasInv, QuotasTyped
<1>2. CASE ~CanReport(request[r].user, request[r].on)
  <2>1. Moves(r, Idle) /\ Keeps(r, Idle)
    BY <1>2, DoneMoves, IdleOK DEF LockOrganization, Keeps, Holds
  <2> QED
    BY <1>1, <2>1, IdleOK, QuietStep DEF LockOrganization
<1>3. CASE CanReport(request[r].user, request[r].on)
  <2>1. PICK q \in RequestRecord :
           Moves(r, q) /\ q.phase = "charge" /\ q.user = request[r].user /\ q.on = request[r].on
    BY <1>3, ToFacts DEF LockOrganization, QuotasInv, Phases
  <2>2. q.on \in Organizations
    BY <2>1 DEF LockOrganization, QuotasInv, RequestOK, Reporting
  <2>3. RequestOK(q)
    BY <1>3, <2>1, <2>2 DEF RequestOK, CreatesKey, Calls, Reporting, Mailing
  <2>4. Takes(q)
    BY <1>3, <2>1, <2>2 DEF Takes, LockOrganization, Rows
  <2> QED
    BY <1>1, <2>1, <2>3, <2>4, QuietStep DEF LockOrganization
<1> QED
  BY <1>2, <1>3

LEMMA ChargeReportStep ==
    ASSUME QuotasInv, NEW r \in Requests, ChargeReport(r)
    PROVE  QuotasInv'
<1>1. PICK admitted \in BOOLEAN :
         /\ Charge(<<"organization.report", request[r].user>>, 1, admitted)
         /\ IF admitted THEN To(r, "insert") /\ UNCHANGED locked
            ELSE Done(r) /\ locked' = locked \ {request[r].on}
  BY DEF ChargeReport
<1>2. request[r].user \in Users
  BY DEF QuotasInv, QuotasTyped, RequestRecord
<1>3. Recorded
  BY <1>1, <1>2, Elsewhere DEF ChargeReport
<1>4. CASE admitted
  <2>1. PICK q \in RequestRecord :
           Moves(r, q) /\ q.phase = "insert" /\ q.user = request[r].user /\ q.on = request[r].on
    BY <1>1, <1>4, ToFacts DEF QuotasInv, Phases
  <2>2. RequestOK(q)
    BY <2>1 DEF ChargeReport, QuotasInv, RequestOK, CreatesKey, Calls, Reporting, Mailing
  <2>3. Keeps(r, q)
    BY <1>1, <1>4, <2>1 DEF Keeps, Holds, ChargeReport
  <2> QED
    BY <1>3, <2>1, <2>2, <2>3, QuietStep DEF ChargeReport
<1>5. CASE ~admitted
  <2>1. Moves(r, Idle) /\ Gives(r, Idle)
    BY <1>1, <1>5, DoneMoves, IdleOK DEF ChargeReport, Gives, Holds
  <2> QED
    BY <1>3, <2>1, IdleOK, QuietStep DEF ChargeReport
<1> QED
  BY <1>4, <1>5

LEMMA AlertStep ==
    ASSUME QuotasInv, NEW r \in Requests, Alert(r)
    PROVE  QuotasInv'
<1> DEFINE k == <<"mention", "all">>
<1>1. PICK admitted \in BOOLEAN :
         Charge(k, 1, admitted) /\ pings' = IF admitted THEN Append(pings, now) ELSE pings
  BY DEF Alert
<1>2. k \in Counters /\ k[1] = "mention" /\ k[1] \notin FailOpen
  BY DEF Counters, FailOpen
<1>3. /\ store' \in [Counters -> Counter] /\ \A j \in Counters : store'[j].reset <= now + Window[j[1]]
      /\ \A j \in Counters : j # k => store'[j] = store[j]
      /\ store'[k] = store[k] \/ store'[k] = Counted(k, 1)
      /\ admitted => Admits(k, 1) /\ store'[k] = Counted(k, 1)
  BY <1>1, <1>2, Charges DEF QuotasInv
<1> DEFINE c == store[k]
           d == store'[k]
<1>4. /\ now \in Nat /\ now \in 0 .. now /\ Hour \in Nat \ {0}
      /\ Window["mention"] = Hour /\ Limit["mention"] = 1
  BY QuotasAssumption DEF QuotasInv, QuotasTyped
<1>5. c.reset \in Nat /\ c.count \in Nat /\ d.reset \in Nat /\ d.count \in Nat
  BY <1>2, <1>3 DEF Counter, QuotasInv, QuotasTyped
<1>6. /\ c.reset <= now => d = c \/ (d.count = 1 /\ d.reset = now + Hour)
      /\ c.reset > now => d.reset = c.reset /\ (d = c \/ d.count = c.count + 1)
  BY <1>2, <1>3, <1>4, CountedFacts DEF QuotasInv
<1>7. /\ c.reset <= now \/ c.count >= 1
      /\ pings # <<>> => pings[Len(pings)] + Hour <= now \/ pings[Len(pings)] + Hour <= c.reset
      /\ PingsApart
  BY DEF QuotasInv, PingsOK, Mentions
<1>8. admitted => c.reset <= now /\ d.count = 1 /\ d.reset = now + Hour
  <2>1. admitted => d.count <= 1 /\ d = Counted(k, 1)
    BY <1>2, <1>3, <1>4 DEF Admits
  <2>2. /\ c.reset <= now => Counted(k, 1).count = 1 /\ Counted(k, 1).reset = now + Hour
        /\ c.reset > now => Counted(k, 1).count = c.count + 1
    BY <1>2, <1>4, CountedFacts DEF QuotasInv
  <2> HIDE DEF c, d, k
  <2> QED
    BY <1>4, <1>5, <1>7, <2>1, <2>2
<1>9. pings \in Seq(0 .. now) /\ Len(pings) \in Nat /\ DOMAIN pings = 1 .. Len(pings)
      /\ \A i \in 1 .. Len(pings) : pings[i] \in Nat
  BY <1>4 DEF QuotasInv, QuotasTyped
<1> HIDE DEF c, d, k
<1>10. pings' \in Seq(0 .. now)
  <2>1. Append(pings, now) \in Seq(0 .. now)
    BY <1>4, <1>9, Appended
  <2> QED
    BY <1>1, <1>9, <2>1
<1>11. /\ d.reset <= now \/ d.count >= 1
       /\ pings' # <<>> => pings'[Len(pings')] + Hour <= now \/ pings'[Len(pings')] + Hour <= d.reset
       /\ PingsApart'
  <2>1. CASE ~admitted
    <3>1. pings' = pings
      BY <1>1, <2>1
    <3>2. d.reset <= now \/ d.count >= 1
      BY <1>4, <1>5, <1>6, <1>7
    <3>3. c.reset <= d.reset \/ c.reset <= now
      BY <1>4, <1>5, <1>6
    <3>4. pings # <<>> => pings[Len(pings)] \in Nat
      BY <1>9
    <3>5. pings # <<>> => pings[Len(pings)] + Hour <= now \/ pings[Len(pings)] + Hour <= d.reset
      BY <1>4, <1>5, <1>7, <3>3, <3>4
    <3> QED
      BY <1>7, <3>1, <3>2, <3>5 DEF PingsApart
  <2>2. CASE admitted
    <3>1. PICK s : s = Append(pings, now)
      OBVIOUS
    <3>2. /\ pings' = s /\ Len(s) = Len(pings) + 1 /\ s[Len(s)] = now /\ s # <<>>
          /\ \A i \in 1 .. Len(pings) : s[i] = pings[i]
      BY <1>1, <1>4, <1>9, <2>2, <3>1, Appended
    <3>3. pings # <<>> => pings[Len(pings)] \in Nat /\ pings[Len(pings)] + Hour <= now
      <4>1. pings # <<>> => pings[Len(pings)] \in Nat
        BY <1>9
      <4> QED
        BY <1>4, <1>5, <1>7, <1>8, <2>2, <4>1
    <3>4. \A i \in 2 .. Len(s) : s[i] >= s[i - 1] + Hour
      <4> SUFFICES ASSUME NEW i \in 2 .. Len(s)
                   PROVE  s[i] >= s[i - 1] + Hour
        OBVIOUS
      <4>1. i - 1 \in 1 .. Len(pings) /\ s[i - 1] = pings[i - 1]
        BY <1>9, <3>2
      <4>2. CASE i = Len(s)
        <5>1. s[i] = now /\ s[i - 1] = pings[Len(pings)] /\ pings # <<>>
          BY <1>9, <3>2, <4>1, <4>2
        <5> QED
          BY <1>4, <3>3, <5>1
      <4>3. CASE i # Len(s)
        <5>1. i \in 2 .. Len(pings) /\ s[i] = pings[i]
          BY <1>9, <3>2, <4>3
        <5> QED
          BY <1>7, <4>1, <5>1 DEF PingsApart
      <4> QED
        BY <4>2, <4>3
    <3>5. d.reset <= now \/ d.count >= 1
      BY <1>5, <1>8, <2>2
    <3>6. now + Hour <= d.reset
      BY <1>4, <1>5, <1>8, <2>2
    <3> QED
      BY <3>2, <3>4, <3>5, <3>6 DEF PingsApart
  <2> QED
    BY <2>1, <2>2
<1>12. PingsOK'
  BY <1>11 DEF PingsOK, Mentions, d, k, Alert
<1>13. \A i \in KeyIds : store'[<<"mcp.tool", i>>] = store[<<"mcp.tool", i>>]
  BY <1>3 DEF Counters, k
<1>14. Recorded
  <2>1. ToolsOK'
    BY <1>13, QuietTools DEF Alert
  <2> QED
    BY <1>3, <1>10, <1>12, <2>1 DEF Recorded, QuotasInv, QuotasTyped, Alert
<1>15. Moves(r, Idle) /\ Keeps(r, Idle)
  BY DoneMoves, IdleOK DEF Alert, Keeps, Holds
<1> QED
  BY <1>14, <1>15, IdleOK, QuietStep DEF Alert

-----------------------------------------------------------------------------
(* Updates by mail.                                                        *)

LEMMA CountUpdatesStep ==
    ASSUME QuotasInv, NEW r \in Requests, CountUpdates(r)
    PROVE  QuotasInv'
<1>1. Recorded
  BY Uncounted DEF CountUpdates, QuotasInv, QuotasTyped
<1>2. CASE ~(SentInLastDay(request[r].on) < MaxUpdates)
  <2>1. Moves(r, Idle) /\ Keeps(r, Idle)
    BY <1>2, DoneMoves, IdleOK DEF CountUpdates, Keeps, Holds
  <2> QED
    BY <1>1, <2>1, IdleOK, QuietStep DEF CountUpdates
<1>3. CASE SentInLastDay(request[r].on) < MaxUpdates
  <2>1. PICK q \in RequestRecord :
           Moves(r, q) /\ q.phase = "reserve" /\ q.user = request[r].user /\ q.on = request[r].on
    BY <1>3, ToFacts DEF CountUpdates, QuotasInv, Phases
  <2>2. q.on \in Events
    BY <2>1 DEF CountUpdates, QuotasInv, RequestOK, Mailing
  <2>3. RequestOK(q)
    BY <1>3, <2>1, <2>2 DEF RequestOK, CreatesKey, Calls, Reporting, Mailing
  <2>4. Takes(q)
    BY <1>3, <2>1, <2>2 DEF Takes, CountUpdates, Rows
  <2> QED
    BY <1>1, <2>1, <2>3, <2>4, QuietStep DEF CountUpdates
<1> QED
  BY <1>2, <1>3

LEMMA SendMailStep ==
    ASSUME QuotasInv, NEW r \in Requests, SendMail(r)
    PROVE  QuotasInv'
<1>1. request[r].user \in Users /\ Recipients \subseteq Nat \ {0}
  BY QuotasAssumption DEF QuotasInv, QuotasTyped, RequestRecord
<1>2. Recorded
  <2>1. CASE UNCHANGED store
    BY <2>1, Uncounted DEF SendMail, QuotasInv, QuotasTyped, counters
  <2>2. CASE \E recipients \in Recipients, admitted \in BOOLEAN :
                Charge(<<"mail.recipient", request[r].user>>, recipients, admitted)
    BY <1>1, <2>2, Elsewhere DEF SendMail
  <2> QED
    BY <2>1, <2>2 DEF SendMail
<1>3. Moves(r, Idle) /\ Keeps(r, Idle)
  BY DoneMoves, IdleOK DEF SendMail, Keeps, Holds
<1> QED
  BY <1>2, <1>3, IdleOK, QuietStep DEF SendMail
-----------------------------------------------------------------------------
(* Rows.                                                                   *)

LEMMA ActiveFacts ==
    ASSUME QuotasTyped, NEW u, NEW t
    PROVE  IsFiniteSet(Active(u, t)) /\ Cardinality(Active(u, t)) \in Nat
<1>1. Active(u, t) \subseteq keys /\ IsFiniteSet(keys)
  BY DEF Active, QuotasTyped
<1> QED
  BY <1>1, FS_Subset, FS_CardinalityType

(* What a step has to show that changes rows.                              *)
LEMMA TablesStep ==
    ASSUME QuotasInv, UNCHANGED <<now, counters, history>>, starts' \in 0 .. MaxStarts,
           request' \in [Requests -> RequestRecord], locked' \subseteq Rows, RowsHeld',
           \A s \in Requests : RequestOK(request[s])',
           keys' \subseteq Key, IsFiniteSet(keys'), KeysOK',
           reports' \in [Users \X Organizations -> Seq(0 .. now)], ReportsApart',
           updates' \in [Events -> Seq(0 .. now)], UpdatesOK'
    PROVE  QuotasInv'
<1>1. Recorded
  BY Uncounted
<1>2. QuotasTyped'
  BY <1>1 DEF Recorded, QuotasInv, QuotasTyped
<1> QED
  BY <1>1, <1>2 DEF QuotasInv, Recorded

LEMMA CountKeysStep ==
    ASSUME QuotasInv, NEW r \in Requests, CountKeys(r)
    PROVE  QuotasInv'
<1>1. Recorded
  BY Uncounted DEF CountKeys, QuotasInv, QuotasTyped
<1> DEFINE u == request[r].user
           t == request[r].at
           ids == {k.id : k \in keys}
<1>2. request[r] \in RequestRecord /\ request[r].phase = "begin" /\ t <= now /\ ids \subseteq KeyIds
  BY DEF CountKeys, QuotasInv, QuotasTyped, RequestOK, CreatesKey, Key
<1>3. CASE Cardinality(Active(u, t)) >= MaxKeys
  <2>1. Moves(r, Idle) /\ Keeps(r, Idle)
    BY <1>3, DoneMoves, IdleOK DEF CountKeys, Keeps, Holds
  <2> QED
    BY <1>1, <2>1, IdleOK, QuietStep DEF CountKeys
<1>4. CASE ~(Cardinality(Active(u, t)) >= MaxKeys)
  <2> DEFINE q == [request[r] EXCEPT !.phase = "commit", !.seen = ids]
  <2>1. q \in RequestRecord /\ q.phase = "commit" /\ q.seen = ids /\ q.user = u /\ q.at = t
    <3> HIDE DEF ids
    <3> QED
      BY <1>2 DEF RequestRecord, Phases
  <2>2. Moves(r, q)
    BY <1>4 DEF CountKeys, Moves
  <2> HIDE DEF q
  <2>3. Counts(q) \subseteq Active(u, t)
    BY <2>1 DEF Counts
  <2>4. Cardinality(Counts(q)) < MaxKeys
    <3>1. /\ IsFiniteSet(Active(u, t)) /\ Cardinality(Active(u, t)) \in Nat
          /\ Cardinality(Counts(q)) <= Cardinality(Active(u, t)) /\ Cardinality(Counts(q)) \in Nat
      BY <2>3, ActiveFacts, FS_Subset, FS_CardinalityType DEF QuotasInv
    <3> QED
      BY <1>4, <3>1, QuotasAssumption
  <2>5. RequestOK(q)
    BY <1>2, <2>1, <2>4 DEF RequestOK, CreatesKey, Calls, Reporting, Mailing
  <2>6. Keeps(r, q)
    BY <2>1 DEF Keeps, Holds, CountKeys
  <2> QED
    BY <1>1, <2>1, <2>2, <2>5, <2>6, QuietStep DEF CountKeys
<1> QED
  BY <1>3, <1>4

(* There is a number for another key as long as the bound allows one.      *)
LEMMA FreshId ==
    ASSUME QuotasTyped, Cardinality(keys) < MaxRows
    PROVE  \E i \in KeyIds : \A k \in keys : k.id # i
<1> SUFFICES ASSUME \A i \in KeyIds : \E k \in keys : k.id = i
             PROVE  FALSE
  OBVIOUS
<1> DEFINE f == [i \in KeyIds |-> CHOOSE k \in keys : k.id = i]
<1>1. \A i \in KeyIds : f[i] \in keys /\ f[i].id = i
  OBVIOUS
<1>2. f \in Injection(KeyIds, keys)
  BY <1>1 DEF Injection, IsInjective
<1>3. Cardinality(KeyIds) <= Cardinality(keys)
  BY <1>2, FS_Injection DEF QuotasTyped
<1>4. Cardinality(KeyIds) = MaxRows /\ MaxRows \in Nat
  BY QuotasAssumption, FS_Interval DEF KeyIds
<1>5. Cardinality(keys) \in Nat
  BY FS_CardinalityType DEF QuotasTyped
<1> QED
  BY <1>3, <1>4, <1>5

LEMMA CommitKeyStep ==
    ASSUME QuotasInv, NEW r \in Requests, CommitKey(r)
    PROVE  QuotasInv'
<1> DEFINE u == request[r].user
           t == request[r].at
<1>1. /\ request[r] \in RequestRecord /\ request[r].phase = "commit" /\ t \in Nat /\ u \in Users /\ now \in Nat
      /\ t <= now /\ Lifetime \in Nat /\ request[r].tries \in 0 .. 2
      /\ Cardinality(Counts(request[r])) < MaxKeys
  BY QuotasAssumption DEF CommitKey, QuotasInv, QuotasTyped, RequestRecord, RequestOK, CreatesKey
<1>2. CASE UNCHANGED keys
  <2>1. Recorded
    BY Uncounted DEF CommitKey, QuotasInv, QuotasTyped
  <2>2. CASE Done(r)
    <3>1. Moves(r, Idle) /\ Keeps(r, Idle)
      BY <2>2, DoneMoves, IdleOK DEF CommitKey, Keeps, Holds
    <3> QED
      BY <1>2, <2>1, <3>1, IdleOK, QuietStep DEF CommitKey, rows
  <2>3. CASE request[r].tries < 2 /\ request' = [request EXCEPT ![r].phase = "begin", ![r].tries = @ + 1]
    <3> DEFINE n == request[r].tries + 1
               q == [request[r] EXCEPT !.phase = "begin", !.tries = n]
    <3>1. n \in 0 .. 2
      BY <1>1, <2>3
    <3>2. Moves(r, q)
      BY <2>3 DEF Moves
    <3> HIDE DEF n
    <3>3. q \in RequestRecord /\ q.phase = "begin" /\ q.at = t
      BY <1>1, <3>1 DEF RequestRecord, Phases
    <3> HIDE DEF q
    <3>4. RequestOK(q)
      BY <1>1, <3>3 DEF RequestOK, CreatesKey, Calls, Reporting, Mailing
    <3>5. Keeps(r, q)
      BY <3>3 DEF Keeps, Holds, CommitKey
    <3> QED
      BY <1>2, <2>1, <3>2, <3>3, <3>4, <3>5, QuietStep DEF CommitKey, rows
  <2> QED
    BY <1>2, <2>2, <2>3 DEF CommitKey, Done
<1>3. CASE CanCommit(r) /\ Cardinality(keys) < MaxRows /\ Done(r) /\ keys' # keys
  <2> DEFINE i == CHOOSE i \in KeyIds : \A k \in keys : k.id # i
             n == [id |-> i, user |-> u, expires |-> t + Lifetime, revoked |-> FALSE]
  <2>1. i \in KeyIds /\ \A k \in keys : k.id # i
    BY <1>3, FreshId DEF QuotasInv
  <2>2. keys' = keys \union {n}
    BY <1>3 DEF CommitKey
  <2> HIDE DEF i
  <2>3. n \in Key /\ n.id = i /\ n.user = u
    BY <1>1, <2>1 DEF Key
  <2> HIDE DEF n
  <2>4. keys' \subseteq Key /\ IsFiniteSet(keys')
    BY <2>2, <2>3, FS_AddElement DEF QuotasInv, QuotasTyped
  <2>5. \A k, l \in keys' : k.id = l.id => k = l
    BY <2>1, <2>2, <2>3 DEF QuotasInv, KeysOK
  <2>6. Active(u, now) \subseteq Counts(request[r])
    <3> SUFFICES ASSUME NEW k \in Active(u, now)
                 PROVE  k \in Counts(request[r])
      OBVIOUS
    <3>1. k \in keys /\ k.user = u /\ ~k.revoked /\ k.expires > now /\ k.expires \in Nat
      BY DEF Active, QuotasInv, QuotasTyped, Key
    <3>2. k.expires > t
      BY <1>1, <3>1
    <3>3. k.id \in request[r].seen
      BY <1>3, <3>1 DEF CanCommit
    <3> QED
      BY <3>1, <3>2, <3>3 DEF Counts, Active
  <2>7. IsFiniteSet(Counts(request[r])) /\ Cardinality(Counts(request[r])) \in Nat
    <3>1. Counts(request[r]) \subseteq Active(u, t)
      BY DEF Counts
    <3> QED
      BY <3>1, ActiveFacts, FS_Subset, FS_CardinalityType DEF QuotasInv
  <2>8. Cardinality(Active(u, now) \union {n}) <= MaxKeys
    <3>1. /\ IsFiniteSet(Active(u, now)) /\ Cardinality(Active(u, now)) \in Nat
          /\ Cardinality(Active(u, now)) <= Cardinality(Counts(request[r]))
      BY <2>6, <2>7, ActiveFacts, FS_Subset DEF QuotasInv
    <3>2. Cardinality(Active(u, now) \union {n}) \in {Cardinality(Active(u, now)), Cardinality(Active(u, now)) + 1}
      BY <3>1, FS_AddElement
    <3> QED
      BY <1>1, <2>7, <3>1, <3>2, QuotasAssumption
  <2>9. ActiveKeysBounded'
    <3> SUFFICES ASSUME NEW v \in Users
                 PROVE  Cardinality(Active(v, now)') <= MaxKeys
      BY DEF ActiveKeysBounded, CommitKey, Active
    <3>1. CASE v = u
      <4>1. Active(v, now)' \subseteq Active(u, now) \union {n}
        BY <2>2, <3>1 DEF Active, CommitKey
      <4>2. IsFiniteSet(Active(u, now) \union {n}) /\ Cardinality(Active(u, now) \union {n}) \in Nat
        BY ActiveFacts, FS_AddElement, FS_CardinalityType DEF QuotasInv
      <4>3. Cardinality(Active(v, now)') <= Cardinality(Active(u, now) \union {n}) /\ Cardinality(Active(v, now)') \in Nat
        BY <4>1, <4>2, FS_Subset, FS_CardinalityType
      <4> QED
        BY <2>8, <4>2, <4>3, QuotasAssumption
    <3>2. CASE v # u
      <4>1. Active(v, now)' = Active(v, now)
        BY <2>2, <2>3, <3>2 DEF Active, CommitKey
      <4> QED
        BY <4>1 DEF QuotasInv, KeysOK, ActiveKeysBounded
    <3> QED
      BY <3>1, <3>2
  <2>10. ASSUME NEW s \in Requests, NEW c, c = request[s]
         PROVE  RequestOK(c)'
    <3>1. RequestOK(c)
      BY <2>10 DEF QuotasInv
    <3>2. c.phase = "commit" => Counts(c)' = Counts(c)
      BY <2>1, <2>2, <2>3, <3>1 DEF RequestOK, CreatesKey, Counts, Active
    <3>3. CreatesKey(c)'
      BY <2>2, <3>1, <3>2 DEF RequestOK, CreatesKey, CommitKey
    <3>4. Calls(c)' /\ Reporting(c)' /\ Mailing(c)'
      BY <3>1 DEF RequestOK, Calls, Reporting, Mailing, CanReport, SentInLastDay, CommitKey
    <3> QED
      BY <3>3, <3>4 DEF RequestOK
  <2>11. Moves(r, Idle) /\ Keeps(r, Idle)
    BY <1>3, DoneMoves, IdleOK DEF CommitKey, Keeps, Holds
  <2>12. RequestOK(Idle)'
    BY IdleOK DEF RequestOK, CreatesKey, Calls, Reporting, Mailing
  <2>13. \A s \in Requests : RequestOK(request[s])'
    BY <2>10, <2>11, <2>12, IdleOK, OthersStand
  <2>14. request' \in [Requests -> RequestRecord] /\ RowsHeld' /\ locked' \subseteq Rows
    BY <2>11, IdleOK, MovesFacts, RowsKept DEF QuotasInv
  <2>15. /\ reports' \in [Users \X Organizations -> Seq(0 .. now)] /\ ReportsApart'
         /\ updates' \in [Events -> Seq(0 .. now)] /\ UpdatesOK'
    BY DEF CommitKey, QuotasInv, QuotasTyped, ReportsApart, UpdatesOK, UpdatesBounded
  <2>16. KeysOK'
    BY <2>5, <2>9 DEF KeysOK
  <2>17. starts' \in 0 .. MaxStarts /\ UNCHANGED <<now, counters, history>>
    BY DEF CommitKey, QuotasInv, QuotasTyped
  <2> QED
    BY <2>4, <2>13, <2>14, <2>15, <2>16, <2>17, TablesStep
<1> QED
  BY <1>2, <1>3 DEF CommitKey

LEMMA RevokeStep ==
    ASSUME QuotasInv, NEW k \in keys, Revoke(k)
    PROVE  QuotasInv'
<1> DEFINE n == [k EXCEPT !.revoked = TRUE]
<1>1. k \in Key
  BY DEF QuotasInv, QuotasTyped
<1>2. n \in Key /\ n.id = k.id /\ n.revoked = TRUE
  BY <1>1 DEF Key
<1>3. keys' = (keys \ {k}) \union {n}
  BY DEF Revoke
<1> HIDE DEF n
<1>4. keys' \subseteq Key /\ IsFiniteSet(keys')
  BY <1>2, <1>3, FS_AddElement, FS_RemoveElement DEF QuotasInv, QuotasTyped
<1>5. {l.id : l \in keys'} = {l.id : l \in keys}
  BY <1>2, <1>3
<1>6. ASSUME NEW u, NEW t
      PROVE  /\ {l \in keys' : l.user = u /\ ~l.revoked /\ l.expires > t} \subseteq Active(u, t)
  BY <1>2, <1>3 DEF Active
<1>7. ActiveKeysBounded'
  <2> SUFFICES ASSUME NEW u \in Users
               PROVE  Cardinality(Active(u, now)') <= MaxKeys
    BY DEF ActiveKeysBounded, Revoke, Active
  <2>1. Active(u, now)' \subseteq Active(u, now)
    BY <1>6 DEF Active, Revoke
  <2>2. /\ IsFiniteSet(Active(u, now)) /\ Cardinality(Active(u, now)) \in Nat
        /\ Cardinality(Active(u, now)) <= MaxKeys
    BY ActiveFacts DEF QuotasInv, KeysOK, ActiveKeysBounded
  <2>3. Cardinality(Active(u, now)') <= Cardinality(Active(u, now)) /\ Cardinality(Active(u, now)') \in Nat
    BY <2>1, <2>2, FS_Subset, FS_CardinalityType
  <2> QED
    BY <2>2, <2>3, QuotasAssumption
<1>8. KeysOK'
  <2>1. \A l, m \in keys' : l.id = m.id => l = m
    BY <1>2, <1>3 DEF QuotasInv, KeysOK
  <2> QED
    BY <1>7, <2>1 DEF KeysOK
<1>9. ASSUME NEW s \in Requests, NEW c, c = request[s]
      PROVE  RequestOK(c)'
  <2>1. RequestOK(c)
    BY <1>9 DEF QuotasInv
  <2>2. CreatesKey(c)'
    <3>1. c.phase = "commit" => Cardinality(Counts(c)') < MaxKeys
      <4>1. Counts(c)' \subseteq Counts(c)
        BY <1>2, <1>3, <1>6 DEF Counts, Active
      <4>2. IsFiniteSet(Counts(c)) /\ Cardinality(Counts(c)) \in Nat
        <5>1. Counts(c) \subseteq Active(c.user, c.at)
          BY DEF Counts
        <5> QED
          BY <5>1, ActiveFacts, FS_Subset, FS_CardinalityType DEF QuotasInv
      <4>3. Cardinality(Counts(c)') <= Cardinality(Counts(c)) /\ Cardinality(Counts(c)') \in Nat
        BY <4>1, <4>2, FS_Subset, FS_CardinalityType
      <4>4. c.phase = "commit" => Cardinality(Counts(c)) < MaxKeys
        BY <2>1 DEF RequestOK, CreatesKey
      <4> QED
        BY <4>2, <4>3, <4>4, QuotasAssumption
    <3> QED
      BY <1>5, <2>1, <3>1 DEF RequestOK, CreatesKey, Revoke
  <2>3. Calls(c)' /\ Reporting(c)' /\ Mailing(c)'
    BY <2>1 DEF RequestOK, Calls, Reporting, Mailing, CanReport, SentInLastDay, Revoke
  <2> QED
    BY <2>2, <2>3 DEF RequestOK
<1>10. \A s \in Requests : RequestOK(request[s])'
  <2> SUFFICES ASSUME NEW s \in Requests
               PROVE  RequestOK(request[s])'
    OBVIOUS
  <2>1. PICK c : c = request[s]
    OBVIOUS
  <2>2. RequestOK(c)' /\ request'[s] = c
    BY <1>9, <2>1 DEF Revoke
  <2> QED
    BY <2>2
<1>11. /\ reports' \in [Users \X Organizations -> Seq(0 .. now)] /\ ReportsApart'
       /\ updates' \in [Events -> Seq(0 .. now)] /\ UpdatesOK'
  BY DEF Revoke, QuotasInv, QuotasTyped, ReportsApart, UpdatesOK, UpdatesBounded
<1>12. request' \in [Requests -> RequestRecord] /\ RowsHeld' /\ locked' \subseteq Rows
  BY DEF Revoke, QuotasInv, QuotasTyped, RowsHeld, Holds
<1>13. starts' \in 0 .. MaxStarts /\ UNCHANGED <<now, counters, history>>
  BY Spends DEF Revoke, QuotasInv
<1> QED
  BY <1>4, <1>8, <1>10, <1>11, <1>12, <1>13, TablesStep

LEMMA InsertReportStep ==
    ASSUME QuotasInv, NEW r \in Requests, InsertReport(r)
    PROVE  QuotasInv'
<1> DEFINE k == <<request[r].user, request[r].on>>
<1>1. /\ request[r].user \in Users /\ request[r].on \in Organizations
      /\ k \in Users \X Organizations /\ Holds(request[r])
      /\ CanReport(request[r].user, request[r].on)
  BY DEF InsertReport, QuotasInv, QuotasTyped, RequestRecord, RequestOK, Reporting, Holds
<1>2. now \in Nat /\ now \in 0 .. now /\ Hour \in Nat \ {0}
  BY QuotasAssumption DEF QuotasInv, QuotasTyped
<1>3. PICK old \in Seq(0 .. now) : old = reports[k]
  BY <1>1 DEF QuotasInv, QuotasTyped
<1>4. PICK s : s = Append(old, now)
  OBVIOUS
<1>5. /\ s \in Seq(0 .. now) /\ Len(s) = Len(old) + 1 /\ Len(old) \in Nat /\ s[Len(s)] = now
      /\ \A i \in 1 .. Len(old) : s[i] = old[i] /\ old[i] \in Nat
  <2>1. /\ DOMAIN old = 1 .. Len(old) /\ Len(old) \in Nat
        /\ \A i \in DOMAIN old : old[i] \in Nat
    <3> HIDE DEF k
    <3> QED
      BY <1>2, <1>3, SeqFacts
  <2>2. /\ s \in Seq(0 .. now) /\ Len(s) = Len(old) + 1 /\ s[Len(old) + 1] = now
        /\ \A i \in 1 .. Len(old) : s[i] = old[i]
    BY <1>2, <1>3, <1>4, Appended
  <2> QED
    BY <2>1, <2>2
<1>6. /\ reports' = [reports EXCEPT ![k] = s]
      /\ reports'[k] = s /\ \A l \in Users \X Organizations : l # k => reports'[l] = reports[l]
      /\ reports' \in [Users \X Organizations -> Seq(0 .. now)]
  BY <1>1, <1>3, <1>4, <1>5 DEF InsertReport, QuotasInv, QuotasTyped
<1>7. \A i \in 2 .. Len(s) : s[i] >= s[i - 1] + Hour
  <2> SUFFICES ASSUME NEW i \in 2 .. Len(s)
               PROVE  s[i] >= s[i - 1] + Hour
    OBVIOUS
  <2>1. i - 1 \in 1 .. Len(old) /\ s[i - 1] = old[i - 1]
    BY <1>5
  <2>2. CASE i = Len(s)
    <3>1. old # <<>> /\ s[i] = now /\ s[i - 1] = old[Len(old)]
      BY <1>5, <2>1, <2>2
    <3>2. old[Len(old)] + Hour <= now
      BY <1>1, <1>3, <3>1 DEF CanReport
    <3> QED
      BY <1>2, <1>5, <2>1, <3>1, <3>2
  <2>3. CASE i # Len(s)
    <3>1. i \in 2 .. Len(old) /\ s[i] = old[i]
      BY <1>5, <2>3
    <3> QED
      BY <1>1, <1>3, <2>1, <3>1 DEF QuotasInv, ReportsApart
  <2> QED
    BY <2>2, <2>3
<1>8. ReportsApart'
  BY <1>6, <1>7 DEF QuotasInv, ReportsApart
<1>9. PICK q \in RequestRecord : Moves(r, q) /\ q.phase = "alert"
  BY ToFacts DEF InsertReport, QuotasInv, Phases
<1>10. Gives(r, q)
  BY <1>1, <1>9 DEF Gives, Holds, InsertReport
<1>11. RequestOK(q)'
  BY <1>9 DEF RequestOK, CreatesKey, Calls, Reporting, Mailing
<1>12. ASSUME NEW t \in Requests, t # r, NEW c, c = request[t]
       PROVE  RequestOK(c)'
  <2>1. RequestOK(c) /\ c.user \in Users
    BY <1>12 DEF QuotasInv, QuotasTyped, RequestRecord
  <2>2. c.phase \in {"charge", "insert"} => CanReport(c.user, c.on)'
    <3> SUFFICES ASSUME c.phase \in {"charge", "insert"}
                 PROVE  CanReport(c.user, c.on)'
      OBVIOUS
    <3>1. c.on # request[r].on /\ c.on \in Organizations /\ CanReport(c.user, c.on)
      BY <1>1, <1>12, <2>1 DEF QuotasInv, RowsHeld, Holds, RequestOK, Reporting
    <3>2. reports'[<<c.user, c.on>>] = reports[<<c.user, c.on>>]
      BY <1>6, <2>1, <3>1
    <3> QED
      BY <3>1, <3>2 DEF CanReport, InsertReport
  <2>3. CreatesKey(c)' /\ Calls(c)' /\ Mailing(c)'
    <3>1. Counts(c)' = Counts(c)
      BY DEF Counts, Active, InsertReport
    <3>2. SentInLastDay(c.on)' = SentInLastDay(c.on)
      BY DEF SentInLastDay, InsertReport
    <3> QED
      BY <2>1, <3>1, <3>2 DEF RequestOK, CreatesKey, Calls, Mailing, InsertReport
  <2> QED
    BY <2>1, <2>2, <2>3 DEF RequestOK, Reporting
<1>13. \A t \in Requests : RequestOK(request[t])'
  BY <1>9, <1>11, <1>12, OthersStand
<1>14. request' \in [Requests -> RequestRecord] /\ RowsHeld' /\ locked' \subseteq Rows
  BY <1>9, <1>10, MovesFacts, RowsKept DEF QuotasInv
<1>15. /\ keys' \subseteq Key /\ IsFiniteSet(keys') /\ KeysOK'
       /\ updates' \in [Events -> Seq(0 .. now)] /\ UpdatesOK'
  BY DEF InsertReport, QuotasInv, QuotasTyped, KeysOK, ActiveKeysBounded, Active, UpdatesOK, UpdatesBounded
<1>16. starts' \in 0 .. MaxStarts /\ UNCHANGED <<now, counters, history>>
  BY DEF InsertReport, QuotasInv, QuotasTyped
<1> QED
  BY <1>6, <1>8, <1>13, <1>14, <1>15, <1>16, TablesStep

(* With fewer than the limit in the last day, the one that many before the *)
(* next is older than a day.                                               *)
LEMMA OldEnough ==
    ASSUME NEW t \in Nat, NEW d \in Nat, NEW m \in Nat \ {0}, NEW s \in Seq(0 .. t),
           \A i, j \in DOMAIN s : i <= j => s[i] <= s[j],
           Cardinality({i \in DOMAIN s : s[i] >= t - d}) < m,
           Len(s) + 1 > m
    PROVE  t > s[Len(s) + 1 - m] + d
<1> DEFINE n == Len(s)
           first == n + 1 - m
           late == {i \in DOMAIN s : s[i] >= t - d}
<1>1. /\ n \in Nat /\ DOMAIN s = 1 .. n /\ \A i \in DOMAIN s : s[i] \in Nat
      /\ first \in 1 .. n
  BY SeqFacts
<1>2. SUFFICES ASSUME s[first] >= t - d
               PROVE  FALSE
  BY <1>1
<1>3. first .. n \subseteq late
  <2> SUFFICES ASSUME NEW i \in first .. n
               PROVE  i \in late
    OBVIOUS
  <2>1. i \in DOMAIN s /\ first \in DOMAIN s /\ first <= i
    BY <1>1
  <2>2. s[first] <= s[i]
    BY <2>1
  <2> QED
    BY <1>1, <1>2, <2>1, <2>2
<1>4. IsFiniteSet(late)
  <2>1. late \subseteq 1 .. n /\ IsFiniteSet(1 .. n)
    BY <1>1, FS_Interval
  <2> QED
    BY <2>1, FS_Subset
<1>5. Cardinality(first .. n) <= Cardinality(late) /\ Cardinality(late) \in Nat
  BY <1>3, <1>4, FS_Subset, FS_CardinalityType
<1>6. Cardinality(first .. n) = m
  <2>1. first \in Int /\ n \in Int /\ ~(first > n) /\ n - first + 1 = m
    BY <1>1
  <2> HIDE DEF first, n
  <2> QED
    BY <2>1, FS_Interval
<1>7. Cardinality(late) < m
  OBVIOUS
<1> HIDE DEF first, n, late
<1> QED
  BY <1>5, <1>6, <1>7

LEMMA ReserveStep ==
    ASSUME QuotasInv, NEW r \in Requests, Reserve(r)
    PROVE  QuotasInv'
<1> DEFINE e == request[r].on
<1>1. e \in Events /\ Holds(request[r]) /\ SentInLastDay(e) < MaxUpdates
  BY DEF Reserve, QuotasInv, RequestOK, Mailing, Holds
<1>2. now \in Nat /\ now \in 0 .. now /\ Day \in Nat /\ MaxUpdates \in Nat \ {0}
  BY QuotasAssumption DEF QuotasInv, QuotasTyped
<1>3. PICK old \in Seq(0 .. now) : old = updates[e]
  BY <1>1 DEF QuotasInv, QuotasTyped
<1>4. PICK s : s = Append(old, now)
  OBVIOUS
<1>5. /\ s \in Seq(0 .. now) /\ Len(s) = Len(old) + 1 /\ Len(old) \in Nat /\ s[Len(s)] = now
      /\ DOMAIN s = 1 .. Len(old) + 1 /\ DOMAIN old = 1 .. Len(old)
      /\ \A i \in 1 .. Len(old) : s[i] = old[i] /\ old[i] \in Nat /\ old[i] <= now
  BY <1>2, <1>3, <1>4, Appended, SeqFacts
<1>6. /\ updates'[e] = s /\ \A f \in Events : f # e => updates'[f] = updates[f]
      /\ updates' \in [Events -> Seq(0 .. now)]
  BY <1>1, <1>3, <1>4, <1>5 DEF Reserve, QuotasInv, QuotasTyped
<1>7. /\ \A i, j \in DOMAIN old : i <= j => old[i] <= old[j]
      /\ \A i \in DOMAIN old : i > MaxUpdates => old[i] > old[i - MaxUpdates] + Day
      /\ Cardinality({i \in DOMAIN old : old[i] >= now - Day}) < MaxUpdates
  BY <1>1, <1>3 DEF QuotasInv, UpdatesOK, UpdatesBounded, SentInLastDay
<1>8. \A i, j \in DOMAIN s : i <= j => s[i] <= s[j]
  <2> SUFFICES ASSUME NEW i \in DOMAIN s, NEW j \in DOMAIN s, i <= j
               PROVE  s[i] <= s[j]
    OBVIOUS
  <2>1. CASE j = Len(old) + 1
    <3>1. s[j] = now
      BY <1>5, <2>1
    <3>2. s[i] \in Nat /\ s[i] <= now
      BY <1>2, <1>5
    <3> QED
      BY <3>1, <3>2
  <2>2. CASE j # Len(old) + 1
    <3>1. i \in 1 .. Len(old) /\ j \in 1 .. Len(old)
      BY <1>5, <2>2
    <3> QED
      BY <1>5, <1>7, <3>1
  <2> QED
    BY <2>1, <2>2
<1>9. \A i \in DOMAIN s : i > MaxUpdates => s[i] > s[i - MaxUpdates] + Day
  <2> SUFFICES ASSUME NEW i \in DOMAIN s, i > MaxUpdates
               PROVE  s[i] > s[i - MaxUpdates] + Day
    OBVIOUS
  <2>1. i - MaxUpdates \in 1 .. Len(old) /\ s[i - MaxUpdates] = old[i - MaxUpdates]
    BY <1>2, <1>5
  <2>2. CASE i = Len(old) + 1
    <3>1. s[i] = now
      BY <1>5, <2>2
    <3>2. now > old[Len(old) + 1 - MaxUpdates] + Day
      BY <1>2, <1>7, <2>2, OldEnough
    <3>3. i - MaxUpdates = Len(old) + 1 - MaxUpdates
      BY <1>2, <1>5, <2>2
    <3>4. now > s[i - MaxUpdates] + Day
      BY <2>1, <3>2, <3>3
    <3>5. s[i - MaxUpdates] \in Nat
      BY <1>5, <2>1
    <3> QED
      BY <1>2, <3>1, <3>4, <3>5
  <2>3. CASE i # Len(old) + 1
    <3>1. i \in DOMAIN old /\ s[i] = old[i]
      BY <1>5, <2>3
    <3> QED
      BY <1>7, <2>1, <3>1
  <2> QED
    BY <2>2, <2>3
<1>10. UpdatesOK'
  BY <1>6, <1>8, <1>9 DEF QuotasInv, UpdatesOK, UpdatesBounded
<1>11. PICK q \in RequestRecord : Moves(r, q) /\ q.phase = "mail"
  BY ToFacts DEF Reserve, QuotasInv, Phases
<1>12. Gives(r, q)
  BY <1>1, <1>11 DEF Gives, Holds, Reserve
<1>13. RequestOK(q)'
  BY <1>11 DEF RequestOK, CreatesKey, Calls, Reporting, Mailing
<1>14. ASSUME NEW t \in Requests, t # r, NEW c, c = request[t]
       PROVE  RequestOK(c)'
  <2>1. RequestOK(c)
    BY <1>14 DEF QuotasInv
  <2>2. c.phase = "reserve" => SentInLastDay(c.on)' < MaxUpdates
    <3> SUFFICES ASSUME c.phase = "reserve"
                 PROVE  SentInLastDay(c.on)' < MaxUpdates
      OBVIOUS
    <3>1. c.on # e /\ c.on \in Events /\ SentInLastDay(c.on) < MaxUpdates
      BY <1>1, <1>14, <2>1 DEF QuotasInv, RowsHeld, Holds, RequestOK, Mailing
    <3>2. updates'[c.on] = updates[c.on]
      BY <1>6, <3>1
    <3> QED
      BY <3>1, <3>2 DEF SentInLastDay, Reserve
  <2>3. CreatesKey(c)' /\ Calls(c)' /\ Reporting(c)'
    <3>1. Counts(c)' = Counts(c)
      BY DEF Counts, Active, Reserve
    <3>2. CanReport(c.user, c.on)' = CanReport(c.user, c.on)
      BY DEF CanReport, Reserve
    <3> QED
      BY <2>1, <3>1, <3>2 DEF RequestOK, CreatesKey, Calls, Reporting, Reserve
  <2> QED
    BY <2>1, <2>2, <2>3 DEF RequestOK, Mailing
<1>15. \A t \in Requests : RequestOK(request[t])'
  BY <1>11, <1>13, <1>14, OthersStand
<1>16. request' \in [Requests -> RequestRecord] /\ RowsHeld' /\ locked' \subseteq Rows
  BY <1>11, <1>12, MovesFacts, RowsKept DEF QuotasInv
<1>17. /\ keys' \subseteq Key /\ IsFiniteSet(keys') /\ KeysOK'
       /\ reports' \in [Users \X Organizations -> Seq(0 .. now)] /\ ReportsApart'
  BY DEF Reserve, QuotasInv, QuotasTyped, KeysOK, ActiveKeysBounded, Active, ReportsApart
<1>18. starts' \in 0 .. MaxStarts /\ UNCHANGED <<now, counters, history>>
  BY DEF Reserve, QuotasInv, QuotasTyped
<1> QED
  BY <1>6, <1>10, <1>15, <1>16, <1>17, <1>18, TablesStep
-----------------------------------------------------------------------------
(* Time, outages, and the theorem.                                         *)

LEMMA TickStep ==
    ASSUME QuotasInv, Tick
    PROVE  QuotasInv'
<1>1. /\ now \in Nat /\ now' = now + 1 /\ now' \in 0 .. MaxTime /\ now' \in Nat
      /\ {Hour, Day, MaxKeys, MaxUpdates} \subseteq Nat \ {0} /\ MaxTime \in Nat
  BY QuotasAssumption DEF QuotasInv, QuotasTyped, Tick
<1>2. ASSUME NEW k \in Counters
      PROVE  /\ store'[k] \in Counter /\ store[k] \in Counter
             /\ IF store[k].reset <= now' THEN store'[k] = Unused ELSE store'[k] = store[k]
             /\ store'[k].reset <= now' + Window[k[1]]
  <2>1. store[k] \in Counter /\ store[k].reset <= now + Window[k[1]] /\ Unused \in Counter /\ Unused.reset = 0
    BY DEF QuotasInv, QuotasTyped, Counter, Unused
  <2>2. IF store[k].reset <= now' THEN store'[k] = Unused ELSE store'[k] = store[k]
    BY DEF Tick
  <2>3. CASE store[k].reset <= now'
    BY <1>1, <2>1, <2>2, <2>3, WindowOf
  <2>4. CASE ~(store[k].reset <= now')
    <3>1. store'[k] = store[k]
      BY <2>2, <2>4
    <3>2. store[k].reset <= now' + Window[k[1]]
      BY <1>1, <2>1, WindowOf DEF Counter
    <3> QED
      BY <2>1, <2>2, <3>1, <3>2
  <2> QED
    BY <2>3, <2>4
<1>3. store' \in [Counters -> Counter]
  <2>1. store' = [k \in Counters |-> store'[k]]
    BY DEF Tick
  <2> QED
    BY <1>2, <2>1
<1>4. /\ reports' \in [Users \X Organizations -> Seq(0 .. now')]
      /\ updates' \in [Events -> Seq(0 .. now')]
      /\ uses' \in [KeyIds -> Seq(0 .. now')] /\ pings' \in Seq(0 .. now')
  <2>1. \A s \in Seq(0 .. now) : s \in Seq(0 .. now')
    BY <1>1, SeqFacts
  <2>2. UNCHANGED <<reports, updates, uses, pings>>
    BY DEF Tick, rows, history
  <2> QED
    BY <2>1, <2>2 DEF QuotasInv, QuotasTyped
<1>5. QuotasTyped'
  BY <1>1, <1>2, <1>3, <1>4 DEF QuotasInv, QuotasTyped, Tick, rows, history
<1>6. KeysOK'
  <2> SUFFICES ASSUME NEW u \in Users
               PROVE  Cardinality(Active(u, now)') <= MaxKeys
    BY DEF QuotasInv, KeysOK, ActiveKeysBounded, Tick, rows, Active
  <2>1. Active(u, now)' \subseteq Active(u, now)
    BY <1>1 DEF Active, Tick, rows, QuotasInv, QuotasTyped, Key
  <2>2. /\ IsFiniteSet(Active(u, now)) /\ Cardinality(Active(u, now)) \in Nat
        /\ Cardinality(Active(u, now)) <= MaxKeys
    BY ActiveFacts DEF QuotasInv, KeysOK, ActiveKeysBounded
  <2>3. Cardinality(Active(u, now)') <= Cardinality(Active(u, now)) /\ Cardinality(Active(u, now)') \in Nat
    BY <2>1, <2>2, FS_Subset, FS_CardinalityType
  <2> QED
    BY <1>1, <2>2, <2>3
<1>7. ToolsOK'
  <2> SUFFICES ASSUME NEW i \in KeyIds
               PROVE  /\ store'[<<"mcp.tool", i>>].reset > now' =>
                            store'[<<"mcp.tool", i>>] = store[<<"mcp.tool", i>>] /\ store[<<"mcp.tool", i>>].reset > now
                      /\ \A j \in DOMAIN uses[i] : uses[i][j] < now'
    BY DEF QuotasInv, ToolsOK, ToolCallsBounded, Tick, history
  <2>1. <<"mcp.tool", i>> \in Counters
    BY DEF Counters
  <2>2. Unused.reset = 0
    BY DEF Unused
  <2>3. PICK c \in Counter : c = store[<<"mcp.tool", i>>]
    BY <1>2, <2>1
  <2>4. store'[<<"mcp.tool", i>>].reset > now' => store'[<<"mcp.tool", i>>] = c /\ ~(c.reset <= now')
    BY <1>1, <1>2, <2>1, <2>2, <2>3
  <2>5. ~(c.reset <= now') => c.reset > now
    BY <1>1, <2>3 DEF Counter
  <2>6. \A j \in DOMAIN uses[i] : uses[i][j] < now'
    <3>1. \A j \in DOMAIN uses[i] : uses[i][j] \in Nat /\ uses[i][j] <= now
      BY <1>1, SeqFacts DEF QuotasInv, QuotasTyped
    <3> QED
      BY <1>1, <3>1
  <2> QED
    BY <2>3, <2>4, <2>5, <2>6
<1>8. ReportsApart' /\ UpdatesOK'
  BY DEF Tick, rows, QuotasInv, ReportsApart, UpdatesOK, UpdatesBounded
<1>9. PingsOK'
  <2>1. <<"mention", "all">> \in Counters
    BY DEF Counters
  <2>2. Unused.reset = 0
    BY DEF Unused
  <2>3. PICK c \in Counter : c = Mentions
    BY <1>2, <2>1 DEF Mentions
  <2>4. PICK d \in Counter : d = Mentions'
    BY <1>2, <2>1 DEF Mentions
  <2>5. IF c.reset <= now' THEN d = Unused ELSE d = c
    BY <1>2, <2>1, <2>3, <2>4 DEF Mentions
  <2>6. /\ PingsApart
        /\ c.reset <= now \/ c.count >= 1
        /\ pings # <<>> => pings[Len(pings)] + Hour <= now \/ pings[Len(pings)] + Hour <= c.reset
    BY <2>3 DEF QuotasInv, PingsOK
  <2>7. c.reset \in Nat /\ c.count \in Nat
    BY DEF Counter
  <2>8. pings # <<>> => pings[Len(pings)] \in Nat
    BY <1>1, SeqFacts DEF QuotasInv, QuotasTyped
  <2>9. d.reset <= now' \/ d.count >= 1
    BY <1>1, <2>2, <2>5, <2>6, <2>7
  <2>10. pings # <<>> => pings[Len(pings)] + Hour <= now' \/ pings[Len(pings)] + Hour <= d.reset
    BY <1>1, <2>5, <2>6, <2>7, <2>8
  <2>11. pings' = pings
    BY DEF Tick, history
  <2> QED
    BY <2>4, <2>6, <2>9, <2>10, <2>11 DEF PingsOK, PingsApart
<1>10. RowsHeld'
  BY DEF Tick, QuotasInv, RowsHeld, Holds
<1>11. ASSUME NEW c \in RequestRecord, RequestOK(c)
       PROVE  RequestOK(c)'
  <2>1. CreatesKey(c)'
    <3>1. Counts(c)' = Counts(c)
      BY DEF Counts, Active, Tick, rows
    <3>2. c.at \in Nat
      BY DEF RequestRecord
    <3>3. c.phase \in {"begin", "commit"} => c.at <= now'
      BY <1>1, <1>11, <3>2 DEF RequestOK, CreatesKey
    <3> QED
      BY <1>11, <3>1, <3>3 DEF RequestOK, CreatesKey, Tick, rows
  <2>2. Reporting(c)'
    <3>1. c.phase \in {"charge", "insert"} => CanReport(c.user, c.on)'
      <4> SUFFICES ASSUME c.phase \in {"charge", "insert"}
                   PROVE  CanReport(c.user, c.on)'
        OBVIOUS
      <4>1. <<c.user, c.on>> \in Users \X Organizations /\ CanReport(c.user, c.on)
        BY <1>11 DEF RequestOK, Reporting, RequestRecord
      <4>2. PICK s \in Seq(0 .. now) : s = reports[<<c.user, c.on>>]
        BY <4>1 DEF QuotasInv, QuotasTyped
      <4>3. s = <<>> \/ s[Len(s)] + Hour <= now
        BY <4>1, <4>2 DEF CanReport
      <4>4. s = <<>> \/ s[Len(s)] \in Nat
        BY <1>1, SeqFacts
      <4>5. s = <<>> \/ s[Len(s)] + Hour <= now'
        BY <1>1, <4>3, <4>4
      <4>6. reports'[<<c.user, c.on>>] = s
        BY <4>2 DEF Tick, rows
      <4> QED
        BY <4>5, <4>6 DEF CanReport
    <3> QED
      BY <1>11, <3>1 DEF RequestOK, Reporting
  <2>3. Mailing(c)'
    <3>1. c.phase = "reserve" => SentInLastDay(c.on)' < MaxUpdates
      <4> SUFFICES ASSUME c.phase = "reserve"
                   PROVE  SentInLastDay(c.on)' < MaxUpdates
        OBVIOUS
      <4>1. c.on \in Events /\ SentInLastDay(c.on) < MaxUpdates
        BY <1>11 DEF RequestOK, Mailing
      <4>2. PICK s \in Seq(0 .. now) : s = updates[c.on]
        BY <4>1 DEF QuotasInv, QuotasTyped
      <4> DEFINE Late(t) == {i \in DOMAIN s : s[i] >= t - Day}
      <4>3. /\ Len(s) \in Nat /\ DOMAIN s = 1 .. Len(s) /\ \A i \in DOMAIN s : s[i] \in Nat
        BY <1>1, SeqFacts
      <4>4. Late(now') \subseteq Late(now)
        BY <1>1, <4>3
      <4>5. IsFiniteSet(Late(now))
        <5>1. Late(now) \subseteq 1 .. Len(s) /\ IsFiniteSet(1 .. Len(s))
          BY <4>3, FS_Interval
        <5> QED
          BY <5>1, FS_Subset
      <4>6. /\ Cardinality(Late(now')) <= Cardinality(Late(now))
            /\ Cardinality(Late(now')) \in Nat /\ Cardinality(Late(now)) \in Nat
        BY <4>4, <4>5, FS_Subset, FS_CardinalityType
      <4>7. Cardinality(Late(now)) < MaxUpdates /\ SentInLastDay(c.on)' = Cardinality(Late(now'))
        BY <4>1, <4>2 DEF SentInLastDay, Tick, rows
      <4> HIDE DEF Late
      <4> QED
        BY <1>1, <4>6, <4>7
    <3> QED
      BY <1>11, <3>1 DEF RequestOK, Mailing
  <2> QED
    BY <1>11, <2>1, <2>2, <2>3 DEF RequestOK, Calls
<1>12. \A s \in Requests : RequestOK(request[s])'
  <2> SUFFICES ASSUME NEW s \in Requests
               PROVE  RequestOK(request[s])'
    OBVIOUS
  <2>1. PICK c \in RequestRecord : c = request[s]
    BY DEF QuotasInv, QuotasTyped
  <2>2. RequestOK(c)' /\ request'[s] = c
    BY <1>11, <2>1 DEF Tick, QuotasInv
  <2> QED
    BY <2>2
<1> QED
  BY <1>5, <1>6, <1>7, <1>8, <1>9, <1>10, <1>12 DEF QuotasInv

(* Nothing that is known is of the store or of whether it can be reached.  *)
LEMMA ReachOrLoseStep ==
    ASSUME QuotasInv, ReachOrLose
    PROVE  QuotasInv'
<1>1. UNCHANGED <<now, store, rows, locked, request, history>> /\ reachable' \in BOOLEAN /\ starts' \in 0 .. MaxStarts
  BY Spends DEF ReachOrLose, QuotasInv
<1>2. KeysOK' /\ ReportsApart' /\ UpdatesOK'
  BY <1>1, QuietTables
<1>3. ToolsOK' /\ PingsOK'
  BY <1>1, QuietTools, QuietPings DEF history
<1>4. RowsHeld'
  BY <1>1 DEF QuotasInv, RowsHeld, Holds
<1>5. \A s \in Requests : RequestOK(request[s])'
  <2> SUFFICES ASSUME NEW s \in Requests
               PROVE  RequestOK(request[s])'
    OBVIOUS
  <2>1. PICK c : c = request[s]
    OBVIOUS
  <2>2. RequestOK(c)' /\ request'[s] = c
    BY <1>1, <2>1, QuietRows DEF QuotasInv
  <2> QED
    BY <2>2
<1>6. QuotasTyped'
  BY <1>1 DEF QuotasInv, QuotasTyped, rows, history
<1> QED
  BY <1>2, <1>3, <1>4, <1>5, <1>6 DEF QuotasInv

LEMMA StutterStep ==
    ASSUME QuotasInv, UNCHANGED vars
    PROVE  QuotasInv'
<1>1. KeysOK' /\ ReportsApart' /\ UpdatesOK'
  BY QuietTables DEF vars, rows
<1>2. ToolsOK' /\ PingsOK'
  BY QuietTools, QuietPings DEF vars
<1>3. RowsHeld'
  BY DEF vars, QuotasInv, RowsHeld, Holds
<1>4. \A s \in Requests : RequestOK(request[s])'
  <2> SUFFICES ASSUME NEW s \in Requests
               PROVE  RequestOK(request[s])'
    OBVIOUS
  <2>1. PICK c : c = request[s]
    OBVIOUS
  <2>2. RequestOK(c)' /\ request'[s] = c
    BY <2>1, QuietRows DEF QuotasInv, vars, rows
  <2> QED
    BY <2>2
<1>5. QuotasTyped'
  BY DEF vars, QuotasInv, QuotasTyped
<1> QED
  BY <1>1, <1>2, <1>3, <1>4, <1>5 DEF QuotasInv

LEMMA QuotasInit == Init => QuotasInv
<1> SUFFICES ASSUME Init
             PROVE  QuotasInv
  OBVIOUS
<1>1. /\ 0 \in 0 .. MaxTime /\ 0 \in 0 .. MaxStarts /\ Lifetime \in Nat /\ 1 \in KeyIds
      /\ {MaxKeys, MaxUpdates, Hour, Day} \subseteq Nat \ {0}
  BY QuotasAssumption DEF KeyIds
<1>2. Idle.user \in Users
  BY QuotasAssumption DEF Idle
<1> DEFINE first == [id |-> 1, user |-> Idle.user, expires |-> Lifetime, revoked |-> FALSE]
<1>3. first \in Key
  BY <1>1, <1>2 DEF Key
<1>4. keys = {} \/ keys = {first}
  BY DEF Init
<1> HIDE DEF first
<1>5. keys \subseteq Key /\ IsFiniteSet(keys) /\ Cardinality(keys) \in {0, 1}
  BY <1>3, <1>4, FS_EmptySet, FS_Singleton
<1>6. KeysOK
  <2> SUFFICES ASSUME NEW u \in Users
               PROVE  Cardinality(Active(u, now)) <= MaxKeys
    BY <1>4 DEF KeysOK, ActiveKeysBounded
  <2>1. Active(u, now) \subseteq keys
    BY DEF Active
  <2>2. Cardinality(Active(u, now)) <= Cardinality(keys) /\ Cardinality(Active(u, now)) \in Nat
    BY <1>5, <2>1, FS_Subset, FS_CardinalityType
  <2> QED
    BY <1>1, <1>5, <2>2
<1>7. QuotasTyped
  <2>1. store \in [Counters -> Counter] /\ \A k \in Counters : store[k].reset <= now + Window[k[1]]
    <3>1. Unused \in Counter /\ Unused.reset = 0
      BY DEF Unused, Counter
    <3>2. \A k \in Counters : 0 <= 0 + Window[k[1]]
      BY WindowOf
    <3> QED
      BY <3>1, <3>2 DEF Init
  <2>2. <<>> \in Seq(0 .. 0)
    OBVIOUS
  <2>3. request \in [Requests -> RequestRecord]
    BY IdleOK DEF Init
  <2> QED
    BY <1>1, <1>5, <2>1, <2>2, <2>3 DEF Init, QuotasTyped
<1>8. ToolsOK
  BY DEF Init, ToolsOK, ToolCallsBounded, Unused, Counters
<1>9. ReportsApart /\ UpdatesOK
  BY DEF Init, ReportsApart, UpdatesOK, UpdatesBounded
<1>10. PingsOK
  BY DEF Init, PingsOK, PingsApart, Mentions, Unused, Counters
<1>11. RowsHeld
  BY IdleOK DEF Init, RowsHeld, Holds
<1>12. \A s \in Requests : RequestOK(request[s])
  BY IdleOK DEF Init
<1> QED
  BY <1>6, <1>7, <1>8, <1>9, <1>10, <1>11, <1>12 DEF QuotasInv

LEMMA QuotasStep == QuotasInv /\ [Next]_vars => QuotasInv'
<1> SUFFICES ASSUME QuotasInv, [Next]_vars
             PROVE  QuotasInv'
  OBVIOUS
<1>1. ASSUME NEW r \in Requests, Work(r)
      PROVE  QuotasInv'
  BY <1>1, CallToolStep, CountKeysStep, CommitKeyStep, LockOrganizationStep, ChargeReportStep,
     InsertReportStep, AlertStep, CountUpdatesStep, ReserveStep, SendMailStep DEF Work
<1>2. ASSUME NEW r \in Requests, Ask(r)
      PROVE  QuotasInv'
  BY <1>2, VerifyStep, AskKeyStep, AskReportStep, AskUpdateStep DEF Ask
<1>3. ASSUME NEW k \in keys, Revoke(k)
      PROVE  QuotasInv'
  BY <1>3, RevokeStep
<1> QED
  BY <1>1, <1>2, <1>3, TickStep, ReachOrLoseStep, StutterStep DEF Next

(* Keys that are created at the same time, calls of tools, reports,        *)
(* mentions and updates stay within their limits, for any limits, windows  *)
(* and numbers of requests, whether Redis can be reached or not            *)
(* (McpApiKeyService.create, AbuseBudgetService.consume, report,           *)
(* MentionCooldown, sendUpdateToEventParticipants).                        *)
THEOREM LimitsAlwaysHold == Spec => []LimitsHold
<1>1. Spec => []QuotasInv
  BY QuotasInit, QuotasStep, PTL DEF Spec
<1>2. QuotasInv => LimitsHold
  BY InvTells
<1> QED
  BY <1>1, <1>2, PTL
-----------------------------------------------------------------------------
(* What a budget holds while its statements run.                           *)
ChargesTyped ==
    /\ charged \in [Costed -> Nat] /\ written \in [Costed -> Nat]
    /\ WrittenIsCharged

LEMMA RowsCounted ==
    ASSUME NEW s \in Statements, NEW m \in Costed, NEW found
    PROVE  /\ IsFiniteSet(chargedRows(s, m)) /\ Cardinality(chargedRows(s, m)) \in Nat
           /\ IsFiniteSet(createdRows(s, m, found))
           /\ Cardinality(createdRows(s, m, found)) \in Nat
<1>1. IsFiniteSet(s)
  BY ChargesAssumption
<1>2. chargedRows(s, m) \subseteq s /\ createdRows(s, m, found) \subseteq s
  BY DEF chargedRows, createdRows
<1> QED BY <1>1, <1>2, FS_Subset, FS_CardinalityType

(* All of a statement is looked into.                                      *)
LEMMA AllLookedInto == \A s \in Statements : \A r \in s : chargeNestedWrites(r)
<1> SUFFICES ASSUME NEW s \in Statements, NEW r \in s, NEW i \in DOMAIN r.above
             PROVE  /\ r.above[i].how \in NESTED_WRITES
                    /\ <<ModelAt(r, i), ModelAt(r, i + 1)>> \in RELATION_TARGET_MODELS
  BY DEF chargeNestedWrites
<1>1. r \in WrittenRecord /\ r.above[i].how # "connect"
      /\ <<ModelAt(r, i), ModelAt(r, i + 1)>> \in RELATION_TARGET_MODELS
  BY ChargesAssumption
<1>2. r.above \in Seq(RelationWrite)
  BY <1>1 DEF WrittenRecord
<1>3. r.above[i] \in RelationWrite
  BY <1>2
<1>4. r.above[i].how \in NESTED_WRITES \cup {"connect"}
  BY <1>3 DEF RelationWrite
<1> QED BY <1>1, <1>4

(* Every row created of a model with a price is charged.                   *)
LEMMA CreatedAreCharged ==
    ASSUME NEW s \in Statements, NEW m \in Costed, NEW found, ~refuseCostedUpsert(s)
    PROVE  createdRows(s, m, found) \subseteq chargedRows(s, m)
<1>1. SUFFICES ASSUME NEW r \in createdRows(s, m, found) PROVE r \in chargedRows(s, m)
  OBVIOUS
<1>2. /\ r \in s /\ r.write.model = m /\ r.write.how \in NESTED_CREATES \cup {"upsertNew"}
  BY DEF createdRows, NESTED_CREATES
<1>3. chargeNestedWrites(r)
  BY <1>2, AllLookedInto
<1>4. r.write.how # "upsertNew"
  BY <1>2, <1>3 DEF refuseCostedUpsert, Upserts
<1>5. r.above = <<>> => r.write.how \in CREATE_OPERATIONS \cup Upserts \cup {"update"}
  BY <1>2, ChargesAssumption
<1>6. addCharge(r)
  BY <1>2, <1>4, <1>5 DEF addCharge, NESTED_CREATES, CREATE_OPERATIONS, Upserts
<1> QED BY <1>2, <1>3, <1>6 DEF chargedRows

LEMMA ChargesCover ==
    ASSUME NEW s \in Statements, NEW m \in Costed, NEW found, ~refuseCostedUpsert(s)
    PROVE  /\ creationChargesFor(s)[m] \in Nat /\ RowsCreated(s, found)[m] \in Nat
           /\ RowsCreated(s, found)[m] <= creationChargesFor(s)[m]
<1>1. createdRows(s, m, found) \subseteq chargedRows(s, m)
  BY CreatedAreCharged
<1>2. Cardinality(createdRows(s, m, found)) <= Cardinality(chargedRows(s, m))
  BY <1>1, RowsCounted, FS_Subset
<1> QED BY <1>2, RowsCounted DEF creationChargesFor, RowsCreated

LEMMA RunsKeeps ==
    ASSUME ChargesTyped, NEW s \in Statements, Runs(s)
    PROVE  ChargesTyped'
<1>1. ~refuseCostedUpsert(s) /\ Limits \in [Costed -> Nat]
  BY ChargesAssumption DEF Runs
<1> DEFINE price == creationChargesFor(s)
<1>2. PICK found : written' \in {written, [m \in Costed |-> written[m] + RowsCreated(s, found)[m]]}
  BY DEF Runs
<1> DEFINE got == RowsCreated(s, found)
<1>3. \A m \in Costed : price[m] \in Nat /\ got[m] \in Nat /\ got[m] <= price[m]
  BY <1>1, ChargesCover
<1>4. \A m \in Costed : price[m] > 0 => charged[m] + price[m] <= Limits[m]
  <2> TAKE m \in Costed
  <2>1. m \notin TooMuch(s)
    BY DEF Runs
  <2>2. charged[m] \in Nat /\ Limits[m] \in Nat
    BY <1>1 DEF ChargesTyped
  <2> QED BY <1>3, <2>1, <2>2 DEF TooMuch
<1>5. charged' = [m \in Costed |-> charged[m] + price[m]]
  BY DEF Runs
<1>6. written' \in {written, [m \in Costed |-> written[m] + got[m]]}
  BY <1>2
<1> HIDE DEF price, got
<1>7. ASSUME NEW m \in Costed
      PROVE  /\ charged'[m] \in Nat /\ written'[m] \in Nat
             /\ written'[m] <= charged'[m] /\ written'[m] <= Limits[m]
  <2>1. charged'[m] = charged[m] + price[m] /\ written'[m] \in {written[m], written[m] + got[m]}
    BY <1>5, <1>6
  <2>2. /\ charged[m] \in Nat /\ written[m] \in Nat /\ Limits[m] \in Nat
        /\ written[m] <= charged[m] /\ written[m] <= Limits[m]
    BY <1>1 DEF ChargesTyped, WrittenIsCharged
  <2>3. price[m] \in Nat /\ got[m] \in Nat /\ got[m] <= price[m]
    BY <1>3
  <2>4. price[m] > 0 => charged[m] + price[m] <= Limits[m]
    BY <1>4
  <2> QED BY <2>1, <2>2, <2>3, <2>4
<1>8. charged' \in [Costed -> Nat] /\ written' \in [Costed -> Nat]
  BY <1>5, <1>6, <1>7 DEF ChargesTyped
<1> QED BY <1>7, <1>8 DEF ChargesTyped, WrittenIsCharged

LEMMA IsTooMuchKeeps ==
    ASSUME ChargesTyped, NEW s \in Statements, IsTooMuch(s)
    PROVE  ChargesTyped'
<1>1. ~refuseCostedUpsert(s) /\ written' = written
  BY DEF IsTooMuch
<1> DEFINE price == creationChargesFor(s)
<1>2. PICK up \in SUBSET Costed :
         charged' = [k \in Costed |-> IF k \in up THEN charged[k] + price[k] ELSE charged[k]]
  <2>1. PICK m \in TooMuch(s), before \in SUBSET (Costed \ TooMuch(s)) :
           charged' = [k \in Costed |->
                          IF k = m \/ k \in before THEN charged[k] + price[k] ELSE charged[k]]
    BY DEF IsTooMuch
  <2>2. {m} \union before \in SUBSET Costed
    BY DEF TooMuch
  <2> HIDE DEF price
  <2>3. charged' = [k \in Costed |->
                       IF k \in {m} \union before THEN charged[k] + price[k] ELSE charged[k]]
    BY <2>1
  <2> QED BY <2>2, <2>3
<1>3. \A m \in Costed : price[m] \in Nat
  BY RowsCounted DEF creationChargesFor
<1> HIDE DEF price
<1>4. ASSUME NEW m \in Costed
      PROVE  charged'[m] \in Nat /\ written[m] <= charged'[m] /\ written[m] <= Limits[m]
  <2>1. charged[m] \in Nat /\ written[m] \in Nat /\ written[m] <= charged[m]
        /\ written[m] <= Limits[m]
    BY DEF ChargesTyped, WrittenIsCharged
  <2>2. charged'[m] \in {charged[m], charged[m] + price[m]} /\ price[m] \in Nat
    BY <1>2, <1>3
  <2> QED BY <2>1, <2>2
<1>5. charged' \in [Costed -> Nat]
  BY <1>2, <1>4
<1> QED BY <1>1, <1>4, <1>5 DEF ChargesTyped, WrittenIsCharged

(* What a statement is charged for nothing else decides.                   *)
LEMMA ExactLemma == ChargedExactly
<1> SUFFICES ASSUME NEW s \in Statements,
                    \A r \in s : \A write \in WritesAt(r) :
                        write.how \notin Upserts \cup {"connectOrCreate"}
             PROVE  creationChargesFor(s) = RowsCreated(s, {})
  BY DEF ChargedExactly
<1>1. \A r \in s : chargeNestedWrites(r)
  BY AllLookedInto
<1>2. \A r \in s : \A write \in WritesAt(r) : IsTaken(write, {})
  BY DEF IsTaken, Upserts
<1>3. \A r \in s : r.write \in WritesAt(r) /\ r.write.how \notin Upserts \cup {"connectOrCreate"}
  BY DEF WritesAt
<1>4. ASSUME NEW m \in Costed PROVE chargedRows(s, m) = createdRows(s, m, {})
  <2>1. ASSUME NEW r \in s
        PROVE  addCharge(r) <=> r.write.how \in NESTED_CREATES \cup {"upsertNew"}
    BY <1>3 DEF addCharge, CREATE_OPERATIONS, NESTED_CREATES, Upserts
  <2> QED BY <1>1, <1>2, <2>1 DEF chargedRows, createdRows, NESTED_CREATES
<1> QED BY <1>4 DEF creationChargesFor, RowsCreated

(***************************************************************************)
(* No row with a price is created without its charge nor beyond the limit  *)
(* of its action, and nothing is charged that is not created where the     *)
(* statement alone decides: for any statements, however deep, and limits.  *)
(***************************************************************************)
THEOREM ChargesAreRight == ChargesSpec => []ChargesInv
<1>1. ChargesInit => ChargesTyped
  <2>1. Nothing \in [Costed -> Nat] /\ \A m \in Costed : Nothing[m] = 0
    BY DEF Nothing
  <2>2. \A m \in Costed : Limits[m] \in Nat
    BY ChargesAssumption
  <2> QED BY <2>1, <2>2 DEF ChargesInit, ChargesTyped, WrittenIsCharged
<1>2. ASSUME ChargesTyped, [ChargesNext]_chargeVars PROVE ChargesTyped'
  <2>1. CASE ChargesNext
    BY <1>2, <2>1, RunsKeeps, IsTooMuchKeeps DEF ChargesNext
  <2>2. CASE UNCHANGED chargeVars
    BY <1>2, <2>2 DEF chargeVars, ChargesTyped, WrittenIsCharged
  <2> QED BY <1>2, <2>1, <2>2
<1>3. ChargesTyped => ChargesInv
  BY ExactLemma DEF ChargesTyped, ChargesInv
<1> QED BY <1>1, <1>2, <1>3, PTL DEF ChargesSpec
=============================================================================
