---------------------------- MODULE IcsFeedSync ----------------------------
(***************************************************************************)
(* The calendar feed of one organization.  Syncs take a lock that is a     *)
(* time stamp on the feed row, import the remote calendar one event at a   *)
(* time and archive what left it; the feed can be replaced and             *)
(* disconnected meanwhile, and the process can stop between any two steps. *)
(*                                                                         *)
(* Each step of a sync is one statement.  Disconnecting reads the feed,    *)
(* then is a transaction: what its first two statements chose is seen when *)
(* it commits.                                                             *)
(***************************************************************************)
EXTENDS Integers, FiniteSets

CONSTANTS Syncs,      \* slots for syncs: cron, manual, and after a PUT
          Disconnects,\* requests to disconnect the feed, each made once
          Urls,
          Events,     \* external ids
          MaxFeeds,   \* bound: how often a feed is connected
          Budget      \* bound: edits by organizers and remote owners, crashes, stalls

ASSUME IcsAssumption == Urls # {} /\ MaxFeeds \in Nat /\ Budget \in Nat

VARIABLES calendar,  \* per url: the events that parse returns
          down,      \* urls whose host does not answer, or not with a calendar
          feed,      \* the row; id 0 when there is none
          connected, \* how many feeds there have been
          rows,      \* per feed id and external id: "none", "live" or "archived";
                     \* those of a feed that is gone belong to none
          sync,
          disconnect,
          robbed,    \* history: a lock was taken from a sync that still ran
          budget

vars == <<calendar, down, feed, connected, rows, sync, disconnect, robbed, budget>>

NotifyAt == 3
MaxFailures == 3     \* bound: what follows the third failure does not count on
Keys == (1 .. MaxFeeds) \X Events
Phases == {"idle", "fetched", "asked", "locked", "importing", "looked",
           "imported", "failed", "mailing", "disabling"}

NoFeed == [id |-> 0, url |-> CHOOSE u \in Urls : TRUE, enabled |-> FALSE,
           lock |-> "free", failures |-> 0, due |-> FALSE, overdue |-> FALSE]
NewFeed(id, u) == [NoFeed EXCEPT !.id = id, !.url = u, !.enabled = TRUE, !.due = TRUE]
NoSync == [phase |-> "idle", feed |-> 0, url |-> NoFeed.url, prefetched |-> FALSE,
           body |-> {}, todo |-> {}, found |-> FALSE]
Disconnecting(phase, id) ==
    [phase |-> phase, feed |-> id, seen |-> {}, archive |-> {}, detach |-> {}]

TypeOK ==
    /\ calendar \in [Urls -> SUBSET Events]
    /\ down \subseteq Urls
    /\ feed \in [id : 0 .. MaxFeeds, url : Urls, enabled : BOOLEAN,
                 lock : {"free", "held", "stale"}, failures : 0 .. MaxFailures,
                 due : BOOLEAN, overdue : BOOLEAN]
    /\ connected \in 0 .. MaxFeeds
    /\ rows \in [Keys -> {"none", "live", "archived"}]
    /\ sync \in [Syncs -> [phase : Phases, feed : 0 .. MaxFeeds, url : Urls,
                           prefetched : BOOLEAN, body : SUBSET Events,
                           todo : SUBSET Events, found : BOOLEAN]]
    /\ disconnect \in [Disconnects ->
                       [phase : {"idle", "read", "archived", "detached", "done"},
                        feed : 0 .. MaxFeeds, seen : SUBSET Keys, archive : SUBSET Keys,
                        detach : SUBSET Keys]]
    /\ robbed \in BOOLEAN
    /\ budget \in 0 .. Budget

Init ==
    /\ calendar \in [Urls -> SUBSET Events]
    /\ down = {}
    /\ feed \in {NoFeed} \union {NewFeed(1, u) : u \in {v \in Urls : MaxFeeds > 0}}
    /\ connected = feed.id
    /\ rows = [k \in Keys |-> "none"]
    /\ sync = [s \in Syncs |-> NoSync]
    /\ disconnect = [d \in Disconnects |-> Disconnecting("idle", 0)]
    /\ robbed = FALSE
    /\ budget = Budget

Spend == budget > 0 /\ budget' = budget - 1

(* Rows that a statement of another transaction has to wait for.           *)
HeldBy(D) == UNION {disconnect[d].archive \union disconnect[d].detach : d \in D}
Held == HeldBy(Disconnects)

(* The events of the feed with this id; a feed that is gone has none.      *)
OfFeed(id) == {k \in Keys : k[1] = id /\ id = feed.id /\ rows[k] # "none"}

LiveEvents == {e \in Events : feed.id # 0 /\ rows[<<feed.id, e>>] = "live"}

(* Who works under the lock, whether or not it still is theirs.            *)
Running(s) == sync[s].phase \in {"locked", "importing", "looked", "imported", "failed"}
RobbedBy(s) == \E t \in Syncs \ {s} : Running(t) /\ sync[t].feed = feed.id

To(s, phase) == sync' = [sync EXCEPT ![s].phase = phase]
Stop(s) == sync' = [sync EXCEPT ![s] = NoSync]

-----------------------------------------------------------------------------
(* upsertOrganizationFeed: fetch and parse first, then write, then sync    *)
(* what was fetched.  A calendar that cannot be had changes nothing.       *)

FetchNew(s, u) ==
    /\ sync[s].phase = "idle"
    /\ u \notin down
    /\ Spend
    /\ sync' = [sync EXCEPT ![s] = [NoSync EXCEPT !.phase = "fetched", !.url = u,
                                                  !.prefetched = TRUE, !.body = calendar[u]]]
    /\ UNCHANGED <<calendar, down, feed, connected, rows, disconnect, robbed>>

SaveFeed(s) ==
    /\ sync[s].phase = "fetched"
    /\ \/ /\ feed.id # 0
          /\ feed' = [feed EXCEPT !.url = sync[s].url, !.enabled = TRUE]
          /\ UNCHANGED connected
       \/ /\ feed.id = 0
          /\ connected < MaxFeeds
          /\ connected' = connected + 1
          /\ feed' = NewFeed(connected + 1, sync[s].url)
    /\ sync' = [sync EXCEPT ![s].phase = "asked", ![s].feed = feed'.id]
    /\ UNCHANGED <<calendar, down, rows, disconnect, robbed, budget>>

(* syncDueFeeds, every five minutes.                                       *)
StartDue(s) ==
    /\ sync[s].phase = "idle"
    /\ feed.id # 0 /\ feed.enabled /\ feed.due
    /\ sync' = [sync EXCEPT ![s] = [NoSync EXCEPT !.phase = "asked", !.feed = feed.id]]
    /\ UNCHANGED <<calendar, down, feed, connected, rows, disconnect, robbed, budget>>

(* syncOrganizationFeed: an admin asks, also for a feed that is disabled.  *)
StartByHand(s) ==
    /\ sync[s].phase = "idle"
    /\ feed.id # 0
    /\ Spend
    /\ sync' = [sync EXCEPT ![s] = [NoSync EXCEPT !.phase = "asked", !.feed = feed.id]]
    /\ UNCHANGED <<calendar, down, feed, connected, rows, disconnect, robbed>>

(* Mutant: the lock is taken whoever holds it.                             *)
AcquireAnyway(s) ==
    /\ sync[s].phase = "asked"
    /\ sync[s].feed = feed.id
    /\ feed' = [feed EXCEPT !.lock = "held"]
    /\ To(s, "locked")
    /\ UNCHANGED <<calendar, down, connected, rows, disconnect, robbed, budget>>

(* Mutant: a lock that a crash left behind is respected for ever.          *)
AcquireFree(s) ==
    /\ sync[s].phase = "asked"
    /\ sync[s].feed = feed.id
    /\ feed.lock = "free"
    /\ feed' = [feed EXCEPT !.lock = "held"]
    /\ To(s, "locked")
    /\ UNCHANGED <<calendar, down, connected, rows, disconnect, robbed, budget>>

AcquireLock(s) ==
    /\ sync[s].phase = "asked"
    /\ sync[s].feed = feed.id
    /\ feed.lock # "held"
    /\ feed' = [feed EXCEPT !.lock = "held"]
    /\ To(s, "locked")
    /\ robbed' = (robbed \/ (feed.lock = "stale" /\ RobbedBy(s)))
    /\ UNCHANGED <<calendar, down, connected, rows, disconnect, budget>>

(* Another sync is at it, or the feed is gone: nothing is done.            *)
Skip(s) ==
    /\ sync[s].phase = "asked"
    /\ sync[s].feed # feed.id \/ feed.lock = "held"
    /\ Stop(s)
    /\ UNCHANGED <<calendar, down, feed, connected, rows, disconnect, robbed, budget>>

(* The feed row is read under the lock; what was fetched before is used as *)
(* it is, and else the url of the row is fetched.                          *)
ReadFeed(s) ==
    LET body == IF sync[s].prefetched THEN sync[s].body ELSE calendar[feed.url]
    IN /\ sync[s].phase = "locked"
       /\ IF sync[s].feed # feed.id
          THEN Stop(s)
          ELSE IF ~sync[s].prefetched /\ feed.url \in down
          THEN To(s, "failed")
          ELSE sync' = [sync EXCEPT ![s].phase = "importing", ![s].body = body, ![s].todo = body]
       /\ UNCHANGED <<calendar, down, feed, connected, rows, disconnect, robbed, budget>>

-----------------------------------------------------------------------------
(* upsertImportedEvents: a read and a write for each event, as an upsert   *)
(* that also creates the arranger is, then one update archives the rest.   *)

NextKey(s) == <<sync[s].feed, CHOOSE e \in sync[s].todo : TRUE>>

Look(s) ==
    /\ sync[s].phase = "importing"
    /\ sync[s].todo # {}
    /\ sync' = [sync EXCEPT ![s].phase = "looked",
                            ![s].found = sync[s].feed = feed.id /\ rows[NextKey(s)] # "none"]
    /\ UNCHANGED <<calendar, down, feed, connected, rows, disconnect, robbed, budget>>

Imported(s) ==
    sync' = [sync EXCEPT ![s].phase = "importing", ![s].found = FALSE,
                         ![s].todo = sync[s].todo \ {NextKey(s)[2]}]

(* Mutant: the update leaves archivedAt as it is.                          *)
UpdateArchived(s) ==
    /\ sync[s].phase = "looked" /\ sync[s].found
    /\ NextKey(s) \notin Held
    /\ Imported(s)
    /\ UNCHANGED <<calendar, down, feed, connected, rows, disconnect, robbed, budget>>

(* The row that was read is written by its primary key.                    *)
Update(s) ==
    /\ sync[s].phase = "looked" /\ sync[s].found
    /\ NextKey(s) \notin Held
    /\ rows' = [rows EXCEPT ![NextKey(s)] = "live"]
    /\ Imported(s)
    /\ UNCHANGED <<calendar, down, feed, connected, disconnect, robbed, budget>>

(* The unique key or the foreign key of the new row may refuse it.         *)
Create(s) ==
    /\ sync[s].phase = "looked" /\ ~sync[s].found
    /\ NextKey(s) \notin Held
    /\ IF sync[s].feed = feed.id /\ rows[NextKey(s)] = "none"
       THEN rows' = [rows EXCEPT ![NextKey(s)] = "live"] /\ Imported(s)
       ELSE To(s, "failed") /\ UNCHANGED rows
    /\ UNCHANGED <<calendar, down, feed, connected, disconnect, robbed, budget>>

Left(s) ==
    {k \in Keys : k[1] = sync[s].feed /\ sync[s].feed = feed.id
                  /\ rows[k] = "live" /\ k[2] \notin sync[s].body}

ArchiveLeft(s) ==
    /\ sync[s].phase = "importing" /\ sync[s].todo = {}
    /\ Left(s) \intersect Held = {}
    /\ rows' = [k \in Keys |-> IF k \in Left(s) THEN "archived" ELSE rows[k]]
    /\ To(s, "imported")
    /\ UNCHANGED <<calendar, down, feed, connected, disconnect, robbed, budget>>

Succeed(s) ==
    /\ sync[s].phase = "imported"
    /\ IF sync[s].feed = feed.id
       THEN feed' = [feed EXCEPT !.failures = 0, !.enabled = TRUE, !.lock = "free",
                                 !.due = FALSE, !.overdue = FALSE]
       ELSE UNCHANGED feed
    /\ Stop(s)
    /\ UNCHANGED <<calendar, down, connected, rows, disconnect, robbed, budget>>

-----------------------------------------------------------------------------
(* The catch block.  The first update frees the lock; the third failure in *)
(* a row is mailed, and a feed without a success in seven days is disabled *)
(* by a later update that nothing guards.                                  *)

Fail(s) ==
    LET failures == feed.failures + 1
    IN /\ sync[s].phase = "failed"
       /\ IF sync[s].feed # feed.id
          THEN Stop(s) /\ UNCHANGED feed
          ELSE /\ feed' = [feed EXCEPT !.failures = IF failures > MaxFailures THEN MaxFailures
                                                    ELSE failures,
                                       !.lock = "free", !.due = FALSE]
               /\ CASE failures = NotifyAt -> sync' = [sync EXCEPT ![s].phase = "mailing",
                                                                   ![s].found = feed.overdue]
                    [] failures # NotifyAt /\ feed.overdue -> To(s, "disabling")
                    [] OTHER -> Stop(s)
       /\ UNCHANGED <<calendar, down, connected, rows, disconnect, robbed, budget>>

(* A mail that throws ends the sync before the feed can be disabled.       *)
Mail(s) ==
    /\ sync[s].phase = "mailing"
    /\ \/ sync[s].found /\ sync' = [sync EXCEPT ![s].phase = "disabling", ![s].found = FALSE]
       \/ Stop(s)
    /\ UNCHANGED <<calendar, down, feed, connected, rows, disconnect, robbed, budget>>

Disable(s) ==
    /\ sync[s].phase = "disabling"
    /\ IF sync[s].feed = feed.id
       THEN /\ feed' = [feed EXCEPT !.enabled = FALSE, !.lock = "free"]
            /\ robbed' = (robbed \/ RobbedBy(s))
       ELSE UNCHANGED <<feed, robbed>>
    /\ Stop(s)
    /\ UNCHANGED <<calendar, down, connected, rows, disconnect, budget>>

-----------------------------------------------------------------------------
(* deleteOrganizationFeed reads the feed there is.                         *)
ReadToDisconnect(d) ==
    /\ disconnect[d].phase = "idle"
    /\ feed.id # 0
    /\ Spend
    /\ disconnect' = [disconnect EXCEPT ![d] = Disconnecting("read", feed.id)]
    /\ UNCHANGED <<calendar, down, feed, connected, rows, sync, robbed>>

(* Its transaction archives and detaches the events of the feed it read,   *)
(* and waits for those that another disconnection has written.             *)
ArchiveAll(d) ==
    LET mine == OfFeed(disconnect[d].feed)
        live == {k \in mine : rows[k] = "live"}
    IN /\ disconnect[d].phase = "read"
       /\ live \intersect HeldBy(Disconnects \ {d}) = {}
       /\ disconnect' = [disconnect EXCEPT ![d].phase = "archived", ![d].seen = mine,
                                           ![d].archive = live]
       /\ UNCHANGED <<calendar, down, feed, connected, rows, sync, robbed, budget>>

(* Mutant: the cascade of the feed takes what is archived already.         *)
DetachArchivedNow(d) ==
    /\ disconnect[d].phase = "archived"
    /\ disconnect' = [disconnect EXCEPT ![d].phase = "detached",
                                        ![d].detach = disconnect[d].archive]
    /\ UNCHANGED <<calendar, down, feed, connected, rows, sync, robbed, budget>>

DetachAll(d) ==
    LET mine == OfFeed(disconnect[d].feed)
    IN /\ disconnect[d].phase = "archived"
       /\ mine \intersect HeldBy(Disconnects \ {d}) = {}
       /\ disconnect' = [disconnect EXCEPT ![d].phase = "detached", ![d].detach = mine]
       /\ UNCHANGED <<calendar, down, feed, connected, rows, sync, robbed, budget>>

(* The feed the organization has by now is deleted, whichever was read,    *)
(* and the cascade takes the events that were not detached from it.        *)
DeleteFeed(d) ==
    /\ disconnect[d].phase = "detached"
    /\ feed.id # 0
    /\ OfFeed(feed.id) \intersect HeldBy(Disconnects \ {d}) = {}
    /\ rows' = [k \in Keys |->
            IF k[1] # feed.id THEN rows[k]
            ELSE IF k \in disconnect[d].archive THEN "archived"
            ELSE IF k \in disconnect[d].detach THEN rows[k] ELSE "none"]
    /\ feed' = NoFeed
    /\ disconnect' = [disconnect EXCEPT ![d] = Disconnecting("done", 0)]
    /\ UNCHANGED <<calendar, down, connected, sync, robbed, budget>>

(* There is no feed to delete, the database sees two disconnections wait   *)
(* for each other, or the transaction times out: it is rolled back.        *)
GiveUp(d) ==
    /\ disconnect[d].phase \in {"archived", "detached"}
    /\ disconnect' = [disconnect EXCEPT ![d] = Disconnecting("done", 0)]
    /\ UNCHANGED <<calendar, down, feed, connected, rows, sync, robbed, budget>>

-----------------------------------------------------------------------------
(* The surroundings.                                                       *)

ChangeCalendar(u) ==
    /\ Spend
    /\ \E c \in SUBSET Events : c # calendar[u] /\ calendar' = [calendar EXCEPT ![u] = c]
    /\ UNCHANGED <<down, feed, connected, rows, sync, disconnect, robbed>>

HostFails(u) ==
    /\ Spend
    /\ down' = IF u \in down THEN down \ {u} ELSE down \union {u}
    /\ UNCHANGED <<calendar, feed, connected, rows, sync, disconnect, robbed>>

(* The sync interval has passed.                                           *)
BecomeDue ==
    /\ feed.id # 0 /\ ~feed.due
    /\ feed' = [feed EXCEPT !.due = TRUE]
    /\ UNCHANGED <<calendar, down, connected, rows, sync, disconnect, robbed, budget>>

(* Seven days have passed since the last success, or since the connection. *)
BecomeOverdue ==
    /\ feed.id # 0 /\ ~feed.overdue
    /\ Spend
    /\ feed' = [feed EXCEPT !.overdue = TRUE]
    /\ UNCHANGED <<calendar, down, connected, rows, sync, disconnect, robbed>>

(* LOCK_TTL_MS has passed: the sync has stopped, or at a cost is so slow.  *)
LockExpires ==
    /\ feed.lock = "held"
    /\ IF \E s \in Syncs : Running(s) /\ sync[s].feed = feed.id THEN Spend ELSE UNCHANGED budget
    /\ feed' = [feed EXCEPT !.lock = "stale"]
    /\ UNCHANGED <<calendar, down, connected, rows, sync, disconnect, robbed>>

(* The process stops; Postgres rolls open transactions back.               *)
Crash ==
    /\ Spend
    /\ sync' = [s \in Syncs |-> NoSync]
    /\ disconnect' = [d \in Disconnects |->
                        IF disconnect[d].phase = "idle" THEN disconnect[d]
                        ELSE Disconnecting("done", 0)]
    /\ UNCHANGED <<calendar, down, feed, connected, rows, robbed>>

Advance(s) ==
    \/ SaveFeed(s) \/ AcquireLock(s) \/ Skip(s) \/ ReadFeed(s)
    \/ Look(s) \/ Update(s) \/ Create(s) \/ ArchiveLeft(s)
    \/ Succeed(s) \/ Fail(s) \/ Mail(s) \/ Disable(s)

Next ==
    \/ \E s \in Syncs :
            \/ \E u \in Urls : FetchNew(s, u)
            \/ StartDue(s) \/ StartByHand(s) \/ Advance(s)
    \/ \E d \in Disconnects : \/ ReadToDisconnect(d) \/ ArchiveAll(d) \/ DetachAll(d)
                              \/ DeleteFeed(d) \/ GiveUp(d)
    \/ \E u \in Urls : ChangeCalendar(u) \/ HostFails(u)
    \/ BecomeDue \/ BecomeOverdue \/ LockExpires \/ Crash

Spec == Init /\ [][Next]_vars

(* Requests that run go on, transactions end or time out, time passes, and *)
(* the cron job comes round.                                               *)
Fairness ==
    /\ \A s \in Syncs : WF_vars(Advance(s))
    /\ WF_vars(\E d \in Disconnects : GiveUp(d))
    /\ WF_vars(LockExpires \/ BecomeDue)
    /\ WF_vars(\E s \in Syncs : StartDue(s))

FairSpec == Spec /\ Fairness
-----------------------------------------------------------------------------
(* Two imports of one feed overlap only when a lock was taken from a sync  *)
(* that still ran: it outlived the 30 minutes, or a late Disable freed it. *)
OneImportAtATime ==
    \A s, t \in Syncs :
        s # t /\ Running(s) /\ Running(t) /\ sync[s].feed = sync[t].feed
              /\ sync[s].feed = feed.id
        => robbed

(* The rows of the feed keep their types, and its syncs their distance.    *)
FeedInv == TypeOK /\ OneImportAtATime

(* A sync that succeeds alone leaves live what its calendar held, and      *)
(* nothing else of the feed: what came back is shown, what left archived.  *)
SuccessIsExact ==
    [][\A s \in Syncs :
            Succeed(s) /\ sync[s].feed = feed.id /\ ~robbed
            => LiveEvents = sync[s].body]_vars

(* Disconnecting a feed is not more destructive than leaving it: an event  *)
(* of the feed a disconnection has read, there when its transaction began, *)
(* is not deleted when it commits, whatever syncs and disconnections run   *)
(* at the same time and however often the process stops.                   *)
KeptOnDisconnect ==
    [][\A d \in Disconnects, k \in Keys :
            disconnect'[d].phase = "done" /\ rows[k] # "none" /\ rows'[k] = "none"
            => k \notin disconnect[d].seen]_vars

(* False of the code, README.md, 6: a feed that was connected since the    *)
(* disconnection read another goes with its events.                        *)
OnlyWhatWasReadGoes ==
    [][\A d \in Disconnects, k \in Keys :
            disconnect'[d] # disconnect[d] /\ rows[k] # "none" /\ rows'[k] = "none"
            => k[1] = disconnect[d].feed]_vars

(* Once organizers and remote owner leave a feed alone and its host        *)
(* answers, the events shown become those of the calendar it names: a lock *)
(* left by a crash, a fetch of a url since replaced, a stolen lock or a    *)
(* string of failures delay it and do not prevent it.                      *)
Converges ==
    (<>[](feed.id # 0 /\ feed.enabled /\ feed.url \notin down))
    => <>[](feed.id # 0 /\ LiveEvents = calendar[feed.url])

(* What a disabled feed says of itself: no success in seven days.          *)
DisabledIsOverdue == feed.id # 0 /\ ~feed.enabled => feed.overdue

(* A disconnected feed leaves nothing on the calendar.                     *)
DisconnectedIsArchived ==
    \A k \in Keys : k[1] # feed.id => rows[k] # "live"
=============================================================================
