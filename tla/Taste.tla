------------------------------- MODULE Taste --------------------------------
(***************************************************************************)
(* Recommendations (recommendations.service.ts): the taste profile made of *)
(* a user's registrations, favorites and follows, and the events and       *)
(* organizations ranked by it. The history grows and shrinks with what the *)
(* user does, and the newest of it is what counts. Memberships, which are  *)
(* known like follows, and the sample of 30 events are left out.           *)
(*                                                                         *)
(* Events are numbered in the order of their start dates, and were created *)
(* in it; scores are scaled to integers, and the logarithm of popularity   *)
(* is a table.                                                             *)
(***************************************************************************)
EXTENDS Functions, Places, Sums

CONSTANTS
    Coming,        \* the events that have not started
    Hosts,         \* organizations, numbered in the order of their names
    HostOf,        \* the organization of each event
    CategoriesOf,  \* the categories of each event
    Popular,       \* the events many registered for
    Liked,         \* the organizations many follow
    Featured,
    Pool,          \* HISTORY_POOL_SIZE
    Candidates     \* CANDIDATE_POOL_SIZE

ASSUME TasteAssumption ==
    /\ Coming \subseteq Nat /\ IsFiniteSet(Coming)
    /\ Hosts \subseteq Nat /\ IsFiniteSet(Hosts)
    /\ \A e \in Coming : IsFiniteSet(CategoriesOf[e])
    /\ Pool \in Nat \ {0} /\ Candidates \in Nat \ {0}

VARIABLES
    history,       \* registrations, the one updated last first
    favorites,     \* the newest first
    follows,       \* organizations the user follows
    listed         \* the events that are public and not archived

tasteVars == <<history, favorites, follows, listed>>

Scale == 60
WEIGHT_GOING == 3 * Scale
WEIGHT_FAVORITE == 2 * Scale
WEIGHT_FOLLOW == 5 * Scale
WEIGHT_FEATURED == Scale
Popularity(isPopular) == IF isPopular THEN 2 * Scale ELSE 21

TasteInit == history = <<>> /\ favorites = <<>> /\ follows = {} /\ listed = Coming
-----------------------------------------------------------------------------
EventsIn(list) == {r.event : r \in Range(list)}
WithoutEvent(list, e) == Pick(list, {i \in DOMAIN list : list[i].event # e})

(* A registration is made or changed, by the user or by an arranger. *)
Registers(e) ==
    /\ \E going \in BOOLEAN :
          history' = <<[event |-> e, going |-> going]>> \o WithoutEvent(history, e)
    /\ UNCHANGED <<favorites, follows, listed>>

(* Also of an event that is unlisted, archived or waits for approval.      *)
Favors(e) ==
    /\ e \notin EventsIn(favorites)
    /\ favorites' = <<[event |-> e]>> \o favorites
    /\ UNCHANGED <<history, follows, listed>>

Unfavors(e) ==
    /\ e \in EventsIn(favorites)
    /\ favorites' = WithoutEvent(favorites, e)
    /\ UNCHANGED <<history, follows, listed>>

FollowsOrNot(h) ==
    /\ follows' = IF h \in follows THEN follows \ {h} ELSE follows \cup {h}
    /\ UNCHANGED <<history, favorites, listed>>

HidesOrShows(e) ==
    /\ listed' = IF e \in listed THEN listed \ {e} ELSE listed \cup {e}
    /\ UNCHANGED <<history, favorites, follows>>

TasteNext ==
    \/ \E e \in Coming : Registers(e) \/ Favors(e) \/ Unfavors(e) \/ HidesOrShows(e)
    \/ \E h \in Hosts : FollowsOrNot(h)

TasteSpec == TasteInit /\ [][TasteNext]_tasteVars
-----------------------------------------------------------------------------
Known(list) == EventsIn(First(list, Pool))
knownEventIds == Known(history) \cup Known(favorites)

(* What addEventSignal has added up for some events. *)
Signals(list, events) ==
    {i \in DOMAIN First(list, Pool) : list[i].event \in events}

affinity(events) ==
    WEIGHT_GOING * Cardinality({i \in Signals(history, events) : history[i].going})
    + WEIGHT_FAVORITE * Cardinality(Signals(favorites, events))

categoryAffinity(c) == affinity({e \in Coming : c \in CategoriesOf[e]})
arrangerAffinity(h) ==
    affinity({e \in Coming : HostOf[e] = h}) + (IF h \in follows THEN WEIGHT_FOLLOW ELSE 0)

sumAffinity(categories) ==
    Total([c \in categories |-> categoryAffinity(c)], categories)

priorOf(e) == Popularity(e \in Popular) + (IF e \in Featured THEN WEIGHT_FEATURED ELSE 0)

scoreOf(e) == sumAffinity(CategoriesOf[e]) + arrangerAffinity(HostOf[e]) + priorOf(e)

(* The candidates are the first to start, before the known ones leave. *)
candidateEvents == {e \in listed : Cardinality({d \in listed : d < e}) < Candidates}

(* What has a score, by it. *)
HigherFirst(score) ==
    {p \in (DOMAIN score) \X (DOMAIN score) :
        score[p[1]] > score[p[2]] \/ (score[p[1]] = score[p[2]] /\ p[1] < p[2])}

Ranked(score) == InOrder(DOMAIN score, HigherFirst(score))

recommendEvents(take) ==
    First(Ranked([e \in candidateEvents \ knownEventIds |-> scoreOf(e)]), take)

anonymousEvents == Ranked([e \in candidateEvents |-> priorOf(e)])
-----------------------------------------------------------------------------
SampledEvents(h) == {e \in listed : HostOf[e] = h}

(* The mutant of categoryScore: many events win. *)
SumOfOverlaps(h) ==
    Total([e \in SampledEvents(h) |-> sumAffinity(CategoriesOf[e])], SampledEvents(h))

categoryScore(h) ==
    IF SampledEvents(h) = {} THEN 0
    ELSE SumOfOverlaps(h) \div Cardinality(SampledEvents(h))

scoreOfHost(h) == arrangerAffinity(h) + categoryScore(h) + Popularity(h \in Liked)

(* Followed organizations are known; equal scores go by name, the number.  *)
recommendOrganizations(take) ==
    First(Ranked([h \in Hosts \ follows |-> scoreOfHost(h)]), take)
-----------------------------------------------------------------------------
(***************************************************************************)
(* An event the user knows, by any registration or a favorite, is not      *)
(* recommended, and neither is one that is hidden, as long as the user's   *)
(* history fits in what is read of it; nor is an organization the user     *)
(* follows (knownEventIds, recommendEvents, recommendOrganizations).       *)
(***************************************************************************)
OnlyNewRecommended ==
    /\ Len(history) <= Pool /\ Len(favorites) <= Pool =>
        \A e \in Range(recommendEvents(Cardinality(Coming))) :
            /\ e \in listed
            /\ e \notin EventsIn(history) \cup EventsIn(favorites)
    /\ \A h \in Range(recommendOrganizations(Cardinality(Hosts))) : h \notin follows

(***************************************************************************)
(* A user who neither goes anywhere, nor has favorites or follows, gets    *)
(* the ranking of an anonymous visitor without the events they know, also  *)
(* when they declined events or were banned from them (buildTasteProfile). *)
(***************************************************************************)
DecliningTeachesNothing ==
    favorites = <<>> /\ follows = {} /\ (\A r \in Range(history) : ~r.going) =>
        recommendEvents(Cardinality(Coming))
            = Pick(anonymousEvents,
                   {i \in DOMAIN anonymousEvents : anonymousEvents[i] \notin knownEventIds})

(***************************************************************************)
(* "Orgs with many events are not favored over orgs whose events           *)
(* consistently match the user": when every event of one organization      *)
(* matches the user at least as well as every event of another, the other  *)
(* has no higher category score, however many events it has.               *)
(***************************************************************************)
ManyEventsNoAdvantage ==
    \A g, h \in {o \in Hosts : SampledEvents(o) # {}} :
        (\A d \in SampledEvents(g), e \in SampledEvents(h) :
            sumAffinity(CategoriesOf[d]) >= sumAffinity(CategoriesOf[e]))
        => categoryScore(g) >= categoryScore(h)

(***************************************************************************)
(* Nothing the user already knows is recommended (OnlyNewRecommended), who *)
(* only declined gets the ranking of a visitor (DecliningTeachesNothing,   *)
(* buildTasteProfile), and an organization is not favored for the number   *)
(* of its events (ManyEventsNoAdvantage, recommendOrganizations): from the *)
(* first thing the user does on.                                           *)
(***************************************************************************)
TasteInv ==
    TasteInit \/ (OnlyNewRecommended /\ DecliningTeachesNothing /\ ManyEventsNoAdvantage)
=============================================================================
