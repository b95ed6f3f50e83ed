------------------------------ MODULE Listings ------------------------------
(***************************************************************************)
(* Two lists that are read page by page, while their rows come and go: the *)
(* notifications of a user, merged of three sources                        *)
(* (notifications.service.ts), and the events the user arranges, in person *)
(* or through organizations (eventArrangers.service.ts).                   *)
(*                                                                         *)
(* Ids are numbers. A page is answered from the rows there are: a row that *)
(* comes or goes between two requests moves the pages, in the code too.    *)
(***************************************************************************)
EXTENDS Integers, Functions, Places

CONSTANTS
    Invitations,  \* ids
    Sources,      \* of events, of organizations, of co-organizers
    Times,        \* when an invitation is created
    Events,       \* ids
    StartOf,      \* the start date of each event
    Me,           \* the arranger of the user
    MyOrgs,       \* the arrangers of the organizations the user administers
    Others,       \* other arrangers
    LongestPage   \* bound of the model

ASSUME ListsAssumption ==
    /\ Invitations \subseteq Nat /\ IsFiniteSet(Invitations) /\ Times \subseteq Nat
    /\ Events \subseteq Nat /\ IsFiniteSet(Events) /\ \A e \in Events : StartOf[e] \in Nat
    /\ LongestPage \in Nat /\ Cardinality(Events) <= LongestPage

VARIABLES
    inbox,        \* the pending invitations: a function from their ids
    arrangersOf   \* the arrangers of each event

listVars == <<inbox, arrangersOf>>

ListsInit == inbox = <<>> /\ arrangersOf = [e \in Events |-> {}]

Absent == Invitations \ DOMAIN inbox

Arrives(i) ==
    /\ i \in Absent
    /\ \E s \in Sources, t \in Times :
          inbox' = [j \in DOMAIN inbox \cup {i} |->
                      IF j = i THEN [source |-> s, at |-> t] ELSE inbox[j]]
    /\ UNCHANGED arrangersOf

Answered(i) ==
    /\ i \in DOMAIN inbox
    /\ inbox' = [j \in DOMAIN inbox \ {i} |-> inbox[j]]
    /\ UNCHANGED arrangersOf

InboxNext == \E i \in Invitations : Arrives(i) \/ Answered(i)

ArrangerChanges(e, a) ==
    /\ arrangersOf' = [arrangersOf EXCEPT ![e] = IF a \in @ THEN @ \ {a} ELSE @ \cup {a}]
    /\ UNCHANGED inbox

ArrangedNext == \E e \in Events, a \in {Me} \cup MyOrgs \cup Others : ArrangerChanges(e, a)

ListsSpec == ListsInit /\ [][InboxNext \/ ArrangedNext]_listVars
-----------------------------------------------------------------------------
(* skip and take of a request; 0 for a take left out. *)
pageBoundsOf(skip, take) ==
    [skip |-> skip, take |-> IF take = 0 THEN LongestPage ELSE take]

Slice(seq, page) == First(SubSeq(seq, page.skip + 1, Len(seq)), page.take)

newestFirst(i, j) == inbox[i].at > inbox[j].at \/ (inbox[i].at = inbox[j].at /\ i > j)
Sorted(ids) == InOrder(ids, {p \in ids \X ids : newestFirst(p[1], p[2])})

findAllPending(source, take) ==
    First(Sorted({i \in DOMAIN inbox : inbox[i].source = source}), take)

(* Mutant: each source offers a page. *)
PageOfEach(page) ==
    Slice(Sorted(UNION {Range(findAllPending(s, page.take)) : s \in Sources}), page)

findAllPendingByUserId(page) ==
    Slice(Sorted(UNION {Range(findAllPending(s, page.skip + page.take)) : s \in Sources}),
          page)
-----------------------------------------------------------------------------
Mine == {Me} \cup MyOrgs
MyEvents == {e \in Events : arrangersOf[e] \cap Mine # {}}
latestFirst(d, e) == StartOf[d] > StartOf[e] \/ (StartOf[d] = StartOf[e] /\ d > e)
LatestFirst == {p \in Events \X Events : latestFirst(p[1], p[2])}

(* The row of an event: the first of my arrangers on it, and which of all  *)
(* its arrangers are mine.                                                 *)
MyRow(e) == [event |-> e, row |-> CHOOSE a \in arrangersOf[e] \cap Mine : TRUE,
             isMine |-> arrangersOf[e] \cap Mine]

arrangedByMe(page) ==
    LET events == Slice(InOrder(MyEvents, LatestFirst), page)
    IN  [i \in DOMAIN events |-> MyRow(events[i])]

(* The pages of a list read to its end. *)
Skips(take) == {n * take : n \in 0..LongestPage}
Takes == 1..LongestPage
-----------------------------------------------------------------------------
(***************************************************************************)
(* A page of the notifications is the same page of the one list of them    *)
(* all: no pending invitation is left out because its source was asked for *)
(* too few (findAllPendingByUserId and the orders of its sources).         *)
(***************************************************************************)
PageOfOneList ==
    \A skip \in 0..LongestPage, take \in 0..LongestPage :
        LET page == pageBoundsOf(skip, take)
            shown == findAllPendingByUserId(page)
        IN  /\ \A k \in DOMAIN shown :
                  Cardinality({i \in DOMAIN inbox : newestFirst(i, shown[k])})
                      = skip + k - 1
            /\ Len(shown) < page.take => Cardinality(DOMAIN inbox) <= skip + Len(shown)

(***************************************************************************)
(* Read to the end page by page, "my events" shows each event the user     *)
(* arranges on one page, once, however many of the user's arrangers it has *)
(* (findAllWithEventsArrangedByUserAndOrganizationsOfUser).                *)
(***************************************************************************)
EachEventOnce ==
    \A take \in Takes : \A e \in MyEvents :
        Cardinality({p \in Skips(take) \X (1..take) :
            LET page == arrangedByMe(pageBoundsOf(p[1], take))
            IN  p[2] \in DOMAIN page /\ page[p[2]].event = e}) = 1

(***************************************************************************)
(* Both: pages are pages of one list, however the rows are spread over its *)
(* sources and whoever arranges the events. An empty inbox has no pages.   *)
(***************************************************************************)
PagesInv == (DOMAIN inbox # {} => PageOfOneList) /\ EachEventOnce
=============================================================================
