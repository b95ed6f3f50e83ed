----------------------------- MODULE EventPages -----------------------------
(***************************************************************************)
(* Who may see and who may change one event, and what the pages, the       *)
(* lists and the updates show of it, while its arrangers edit it, the      *)
(* administrator approves organizations, and registrations come and go.    *)
(*                                                                         *)
(* A page is answered in several reads (event-access.service.ts), and the  *)
(* rows change in between. Of the fields of an event only the visibility   *)
(* and the archival are kept: edits, images, mails, seats and co-organizer *)
(* invitations have modules of their own.                                  *)
(***************************************************************************)
EXTENDS FiniteSets, Integers

CONSTANTS
    People,       \* people with an account; each is an arranger
    Guests,      \* those of them who register, and who read
    Orgs,        \* organizations; each is an arranger
    Nobody,      \* the visitor without an account
    Memberships, \* the roles people may have in organizations
    Statuses     \* registration statuses, "none" for no registration

ASSUME PagesAssumption ==
    /\ Guests \subseteq People /\ Nobody \notin People /\ "none" \in Statuses
    /\ People \cap Orgs = {}

VARIABLES
    event,       \* the row
    arrangers,   \* the role each arranger has on it, or "none"
    approved,    \* the approved organizations
    member,      \* member[u][o]: the role of u in o
    reg,         \* the registration of each user
    post,        \* the update on it: its visibility, or "none"
    read         \* the page or the updates being read

pageRows == <<event, arrangers, approved, member, reg, post>>
pageVars == <<pageRows, read>>

Arrangers == People \cup Orgs
EventArrangerRole == {"ADMIN", "COLLABORATOR"}
EventVisibility == {"PUBLIC", "PRIVATE", "UNLISTED"}

NoEvent == [live |-> FALSE, archived |-> FALSE, readOnly |-> FALSE,
            visibility |-> "PRIVATE"]
-----------------------------------------------------------------------------
(* event-access.service.ts *)

VIEW_GRANTING_REG_STATUSES == {"INVITED", "GOING", "WAITLISTED"}

Found == event.live /\ ~event.archived

Administers(u, o) == u \in People /\ member[u][o] = "ADMIN"

(* Mutant: only the row of the user is looked at. *)
DirectRoleOnly(u, allowed) ==
    IF Found /\ u \in People /\ arrangers[u] \in allowed
    THEN {arrangers[u]} ELSE {}

(* The roles arrangerRoleFor may return, none when it returns null: which  *)
(* of several qualifying organizations comes first is up to the database.  *)
arrangerRoleFor(u, allowed) ==
    IF ~Found \/ u \notin People THEN {}
    ELSE IF arrangers[u] \in allowed THEN {arrangers[u]}
    ELSE {arrangers[o] : o \in {p \in Orgs : /\ arrangers[p] \in allowed
                                             /\ Administers(u, p)}}

Arranges(u) == arrangerRoleFor(u, EventArrangerRole) # {}

(* events.service.ts: the other decision, for cancelling invitations. *)
isEventAdmin(u) ==
    \/ arrangers[u] = "ADMIN"
    \/ \E o \in Orgs : arrangers[o] = "ADMIN" /\ Administers(u, o)

hasUnapprovedOrganizationArranger ==
    \E o \in Orgs \ approved : arrangers[o] # "none"

Going(u) == u \in People /\ reg[u] = "GOING"
Registered(u) == u \in People /\ reg[u] \in VIEW_GRANTING_REG_STATUSES

canView(u, isArranger) ==
    /\ isArranger \/ ~hasUnapprovedOrganizationArranger
    /\ \/ event.visibility = "PUBLIC"
       \/ u # Nobody /\ (isArranger \/ Registered(u))

(* What a page shows when nothing changes while it is read: the updates of *)
(* an archived event are still there, its page is not.                     *)
Viewable(u) == event.live /\ canView(u, Arranges(u))
PageShows(u) == Found /\ Viewable(u)
-----------------------------------------------------------------------------
(* The lists: each has a where clause of its own. *)

findAllPublicWithEvents(a) ==
    /\ Found /\ event.visibility = "PUBLIC" /\ arrangers[a] # "none"
    /\ \A o \in Orgs : arrangers[o] # "none" => o \in approved

findAll == /\ Found /\ event.visibility = "PUBLIC"
           /\ \A o \in Orgs : arrangers[o] # "none" => o \in approved

candidateOfRecommendEvents == findAll

findAllArrangedByUser(u) ==
    /\ Found
    /\ \E a \in {u} \cup {o \in Orgs : Administers(u, o)} : arrangers[a] # "none"

viewableEvent(u) == arrangers[u] # "none" \/ Registered(u)

registrationShowsEvent(u) ==
    /\ event.live /\ reg[u] # "none"
    /\ \/ event.visibility = "PUBLIC" \/ reg[u] \in VIEW_GRANTING_REG_STATUSES
       \/ viewableEvent(u)

(* For who has it as a favorite: a favorite outlives what allowed it. *)
favoriteShowsEvent(u) ==
    event.live /\ (event.visibility = "PUBLIC" \/ viewableEvent(u))

countShown(u) == event.live /\ (Arranges(u) \/ event.visibility = "PUBLIC")
-----------------------------------------------------------------------------
NoRead == [step |-> "none", user |-> Nobody, of |-> "page", qualifying |-> {},
           isArranger |-> FALSE, visibility |-> "PUBLIC", shows |-> "nothing",
           mayPage |-> FALSE, mayPosts |-> FALSE, arranged |-> FALSE, outdated |-> FALSE]

PagesInit ==
    /\ event = NoEvent
    /\ arrangers = [a \in Arrangers |-> "none"]
    /\ approved \in SUBSET Orgs
    /\ member \in Memberships
    /\ reg = [u \in People |-> "none"]
    /\ post = "none"
    /\ read = NoRead

(* What the reader might have been shown at some moment of the request     *)
(* (mayPage, mayPosts), and whether they arranged the event all along.     *)
(* outdated: the request goes by what one of its reads found of the        *)
(* organizations, and at a later one it was so no longer.                  *)
Watched(r) ==
    [r EXCEPT !.mayPage = @ \/ IF r.of = "updates" THEN Viewable(r.user)
                                                 ELSE PageShows(r.user),
              !.mayPosts = @ \/ (Viewable(r.user)
                                   /\ (Arranges(r.user) \/ Going(r.user))),
              !.arranged = @ /\ Arranges(r.user)]

(* The rows change: the request being read is watched, and one that was    *)
(* answered is over.                                                       *)
Reading == read.step \notin {"none", "shown", "refused"}
Changes == \E r \in {read} : read' = IF Reading THEN Watched(r)' ELSE NoRead
-----------------------------------------------------------------------------
(* The controller: an arrangerId is the user's own, or of an organization  *)
(* they administer. Nobody reads a new event before it is there, and no    *)
(* event takes the id of one that was removed.                             *)
MayCreateAs(u, a) == a = u \/ (a \in Orgs /\ Administers(u, a))

create(u) ==
    /\ ~event.live /\ ~Reading
    /\ \E a \in {b \in Arrangers : MayCreateAs(u, b)}, v \in EventVisibility :
          /\ event' = [NoEvent EXCEPT !.live = TRUE, !.visibility = v]
          /\ arrangers' = [arrangers EXCEPT ![a] = "ADMIN"]
    /\ UNCHANGED <<approved, member, reg, post>>

(* An imported event belongs to its organization, and its feed archives    *)
(* it and brings it back.                                                  *)
FeedCreates(o) ==
    /\ ~event.live /\ ~Reading
    /\ event' = [NoEvent EXCEPT !.live = TRUE, !.readOnly = TRUE,
                    !.visibility = "PUBLIC"]
    /\ arrangers' = [arrangers EXCEPT ![o] = "ADMIN"]
    /\ UNCHANGED <<approved, member, reg, post>>

FeedArchives ==
    /\ event.live /\ event.readOnly
    /\ event' = [event EXCEPT !.archived = ~@]
    /\ UNCHANGED <<arrangers, approved, member, reg, post>>

(* Registrations, co-organizers, approvals and roles change as their own   *)
(* modules say; here any change of one of them.                            *)
RegistrationChanges(u) ==
    /\ event.live
    /\ \E s \in Statuses \ {reg[u]} : reg' = [reg EXCEPT ![u] = s]
    /\ UNCHANGED <<event, arrangers, approved, member, post>>

CoOrganizerChanges(o) ==
    /\ event.live /\ arrangers[o] # "ADMIN"
    /\ arrangers' = [arrangers EXCEPT ![o] =
                        IF @ = "none" THEN "COLLABORATOR" ELSE "none"]
    /\ UNCHANGED <<event, approved, member, reg, post>>

ApprovalChanges(o) ==
    /\ approved' = IF o \in approved THEN approved \ {o} ELSE approved \cup {o}
    /\ UNCHANGED <<event, arrangers, member, reg, post>>

MembershipChanges(u, o) ==
    /\ \E m \in Memberships \ {member} :
          /\ \A v \in People, p \in Orgs : <<v, p>> # <<u, o>> => m[v][p] = member[v][p]
          /\ member' = m
    /\ UNCHANGED <<event, arrangers, approved, reg, post>>

sendUpdateToEventParticipants(u) ==
    /\ post = "none" /\ Arranges(u)
    /\ post' \in {"ALL", "GOING", "DELETED"}
    /\ UNCHANGED <<event, arrangers, approved, member, reg>>

deleteUpdateForEvent(u) ==
    /\ post # "none" /\ Arranges(u)
    /\ post' = "DELETED"
    /\ UNCHANGED <<event, arrangers, approved, member, reg>>
-----------------------------------------------------------------------------
(* The visibility is what an edit changes here: EventEdits has the rest.   *)
EditVisibility(u) ==
    /\ Arranges(u) /\ ~event.readOnly
    /\ \E v \in EventVisibility \ {event.visibility} :
          event' = [event EXCEPT !.visibility = v]
    /\ UNCHANGED <<arrangers, approved, member, reg, post>>

remove(u) ==
    /\ arrangerRoleFor(u, {"ADMIN"}) # {} /\ ~event.readOnly
    /\ event' = NoEvent
    /\ arrangers' = [a \in Arrangers |-> "none"]
    /\ reg' = [v \in People |-> "none"]
    /\ post' = "none"
    /\ UNCHANGED <<approved, member>>
-----------------------------------------------------------------------------
(* A page, by the id of the event or by its urlId, or its updates. The     *)
(* interceptor first asks for the role of who is reading: the arrangers of *)
(* the event, and their memberships in those that are organizations. The   *)
(* route names its parameter id, so an urlId finds no event to arrange.    *)
OrgArrangers == {o \in Orgs : arrangers[o] \in EventArrangerRole}

ReadStarts(u, of) ==
    /\ ~Reading
    /\ \E asks \in {[NoRead EXCEPT !.user = u, !.of = of, !.arranged = TRUE]},
          known \in {of # "pageByUrlId" /\ Found /\ u \in People} :
          read' = Watched(
             IF known /\ arrangers[u] \notin EventArrangerRole /\ OrgArrangers # {}
             THEN [asks EXCEPT !.step = "arrangers", !.qualifying = OrgArrangers]
             ELSE [asks EXCEPT !.step = "asked",
                      !.isArranger = known /\ arrangers[u] \in EventArrangerRole])
    /\ UNCHANGED pageRows

ReadMemberships ==
    /\ read.step = "arrangers"
    /\ read' = [read EXCEPT !.step = "asked", !.qualifying = {},
          !.isArranger = \E o \in read.qualifying : Administers(read.user, o),
          !.outdated = ~Found \/ read.qualifying # OrgArrangers]
    /\ UNCHANGED pageRows

Refuse == read' = [read EXCEPT !.step = "refused"]

(* What a reader who does not arrange the event is shown goes by one read  *)
(* that found no organization waiting for approval.                        *)
Waited == read.outdated \/ (~read.isArranger /\ hasUnapprovedOrganizationArranger)

ReadEvent ==
    /\ read.step = "asked"
    /\ IF event.live /\ (read.of = "updates" \/ ~event.archived)
       THEN read' = [read EXCEPT !.step = "found", !.visibility = event.visibility,
                                 !.outdated = Waited]
       ELSE Refuse
    /\ UNCHANGED pageRows

ReadApproval ==
    /\ read.step = "found"
    /\ IF \/ ~read.isArranger /\ hasUnapprovedOrganizationArranger
          \/ read.visibility # "PUBLIC" /\ read.user = Nobody
       THEN Refuse
       ELSE read' = [read EXCEPT !.step =
                IF read.visibility = "PUBLIC" \/ read.isArranger
                THEN "viewable" ELSE "registration"]
    /\ UNCHANGED pageRows

ReadRegistration ==
    /\ read.step = "registration"
    /\ IF Registered(read.user)
       THEN read' = [read EXCEPT !.step = "viewable", !.outdated = Waited]
       ELSE Refuse
    /\ UNCHANGED pageRows

ShowPage ==
    /\ read.step = "viewable" /\ read.of # "updates"
    /\ read' = [read EXCEPT !.step = "shown", !.shows = "page"]
    /\ UNCHANGED pageRows

(* Mutant: who may see the event may see all its updates. *)
AllUpdates ==
    /\ read.step = "viewable" /\ read.of = "updates"
    /\ read' = [read EXCEPT !.step = "shown", !.outdated = Waited,
                  !.shows = IF post \in {"none", "DELETED"} THEN "nothing" ELSE post]
    /\ UNCHANGED pageRows

getUpdatesForEvent ==
    /\ read.step = "viewable" /\ read.of = "updates"
    /\ read' = [read EXCEPT !.step = "shown", !.outdated = Waited,
          !.shows = IF \/ post = "ALL"
                       \/ post = "GOING" /\ (Going(read.user) \/ read.isArranger)
                    THEN post ELSE "nothing"]
    /\ UNCHANGED pageRows

Write ==
    \/ \E u \in People : \/ create(u) \/ remove(u) \/ EditVisibility(u)
                       \/ sendUpdateToEventParticipants(u) \/ deleteUpdateForEvent(u)
    \/ \E u \in Guests : RegistrationChanges(u)
    \/ \E u \in People, o \in Orgs : MembershipChanges(u, o)
    \/ \E o \in Orgs : FeedCreates(o) \/ CoOrganizerChanges(o) \/ ApprovalChanges(o)
    \/ FeedArchives

PagesNext ==
    \/ Write /\ Changes
    \/ \E u \in Guests \cup {Nobody}, of \in {"page", "pageByUrlId", "updates"} :
          ReadStarts(u, of)
    \/ ReadMemberships \/ ReadEvent \/ ReadApproval \/ ReadRegistration \/ ShowPage \/ getUpdatesForEvent

PagesSpec == PagesInit /\ [][PagesNext]_pageVars
-----------------------------------------------------------------------------
(* The rows and the request being read have their types; a live event has  *)
(* an administrator, and nothing outlives an event (the cascades of remove *)
(* and the requirement of update, "Event must have an admin arranger").    *)
PagesTyped ==
    /\ event \in [live : BOOLEAN, archived : BOOLEAN, readOnly : BOOLEAN,
                  visibility : EventVisibility]
    /\ arrangers \in [Arrangers -> EventArrangerRole \cup {"none"}]
    /\ approved \subseteq Orgs
    /\ reg \in [People -> Statuses]
    /\ post \in {"none", "ALL", "GOING", "DELETED"}
    /\ read.shows \in {"nothing", "page", "ALL", "GOING"}
    /\ event.live <=> \E a \in Arrangers : arrangers[a] = "ADMIN"
    /\ ~event.live => post = "none" /\ \A u \in People : reg[u] = "none"

(***************************************************************************)
(* The front page, the recommendations and the list of each arranger show  *)
(* an event exactly when a visitor without an account may open its page    *)
(* (findAll, recommendEvents, findAllPublicWithEvents and canView).        *)
(***************************************************************************)
ListsAgreeWithPages ==
    /\ findAll <=> PageShows(Nobody)
    /\ candidateOfRecommendEvents <=> PageShows(Nobody)
    /\ \A a \in Arrangers :
          findAllPublicWithEvents(a) <=> arrangers[a] # "none" /\ PageShows(Nobody)

(***************************************************************************)
(* The two decisions on who runs an event agree: isEventAdmin of the       *)
(* service, and arrangerRoleFor of the guards open to ADMIN; and who runs  *)
(* an event finds it among their own.                                      *)
(***************************************************************************)
AdminsAgree == \A u \in People : Found =>
    /\ isEventAdmin(u) <=> arrangerRoleFor(u, {"ADMIN"}) # {}
    /\ isEventAdmin(u) => findAllArrangedByUser(u)

(***************************************************************************)
(* The lists of registrations and of favorites, and the counts, tell       *)
(* nothing of an event that its page would refuse to the same person,      *)
(* unless an organization waits for approval (redactUnviewableEvents,      *)
(* FavoritesService.findAll, getRegistrationCount).                        *)
(***************************************************************************)
OwnListsNeedThePage ==
    Found /\ ~hasUnapprovedOrganizationArranger => \A u \in People :
        \/ registrationShowsEvent(u) \/ favoriteShowsEvent(u) \/ countShown(u)
        => PageShows(u)

(***************************************************************************)
(* A request shows the event, or an update for participants, only to who   *)
(* might see it at some moment of the request, though visibility, roles,   *)
(* memberships, registrations and the update change between its reads: but *)
(* for one that put together what was never so at one moment, of the       *)
(* organizations that arrange the event, their approval and their members  *)
(* (arrangerRoleFor, findOneVisibleToUser, canView, getUpdatesForEvent).   *)
(***************************************************************************)
NothingShownUnseen ==
    read.step = "shown" /\ ~read.outdated =>
        /\ read.shows \in {"page", "ALL"} => read.mayPage
        /\ read.shows = "GOING" => read.mayPosts

(* False of the code: who became an administrator of an organization after *)
(* it had left the event, or who asked while an organization waited for    *)
(* approval and was answered after the event had become private.           *)
NothingEverShownUnseen ==
    read.step = "shown" =>
        /\ read.shows \in {"page", "ALL"} => read.mayPage
        /\ read.shows = "GOING" => read.mayPosts

(***************************************************************************)
(* Who arranges the event during the whole request is not refused it, if   *)
(* the arrangers it read first are the arrangers when it reads memberships.*)
(***************************************************************************)
ArrangersAlwaysMay == read.step = "refused" /\ ~read.outdated => ~read.arranged

(* The same for requests that name the event by its id. *)
ArrangersMayById ==
    read.step = "refused" /\ read.arranged /\ ~read.outdated => read.of = "pageByUrlId"

(***************************************************************************)
(* Who may see an event, run it and find it is decided the same everywhere *)
(* (event-access.service.ts): the lists show what the pages would, the     *)
(* decisions on administrators agree, what a person kept of an event tells *)
(* no more than its page, and who arranges the event is not refused it     *)
(* when the request names it by its id.                                    *)
(***************************************************************************)
AccessInv ==
    /\ PagesTyped
    /\ ListsAgreeWithPages
    /\ AdminsAgree
    /\ OwnListsNeedThePage
    /\ ArrangersMayById

(***************************************************************************)
(* A person who runs the event is not taken for a collaborator: "the       *)
(* higher grant has to win over the first one found".                      *)
(***************************************************************************)
HigherGrantWins == \A u \in People :
    Found /\ isEventAdmin(u) => arrangerRoleFor(u, EventArrangerRole) = {"ADMIN"}
=============================================================================
