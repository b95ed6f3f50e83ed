--------------------------- MODULE IcsFeedProofs ----------------------------
(***************************************************************************)
(* What the sync lock of a feed is worth, for any number of syncs, urls    *)
(* and events: as long as nobody takes it from a sync that still runs,     *)
(* imports exclude each other and a success leaves exactly the calendar.   *)
(* Disconnecting deletes nothing that was there, lock or no lock.          *)
(***************************************************************************)
EXTENDS IcsFeedSync, TLAPS

(* A sync that works on the feed there is.                                 *)
Working(s) == Running(s) /\ sync[s].feed = feed.id

(* Ids of feeds are not used again, and a sync that asked has one.         *)
IdsKnown ==
    /\ feed.id <= connected
    /\ \A s \in Syncs : /\ sync[s].feed <= connected
                        /\ sync[s].phase \notin {"idle", "fetched"} => sync[s].feed # 0

(* Who works has the lock, or had it when its 30 minutes were over.        *)
LockTaken == ~robbed => \A s \in Syncs : Working(s) => feed.lock # "free"

LockInv == TypeOK /\ IdsKnown /\ LockTaken /\ OneImportAtATime

(* What a sync that works alone has done so far is still there: events it  *)
(* imported are live, and after the archiving nothing else is.             *)
ProgressKept ==
    ~robbed => \A s \in Syncs : Working(s) =>
        /\ sync[s].phase \in {"importing", "looked"} =>
              \A e \in sync[s].body \ sync[s].todo : rows[<<feed.id, e>>] = "live"
        /\ sync[s].phase = "imported" => LiveEvents = sync[s].body

(* Who has looked an event up has one to write.                            *)
LookedHasMore == \A s \in Syncs : sync[s].phase = "looked" => sync[s].todo # {}

ImportInv == LockInv /\ LookedHasMore /\ ProgressKept

(* The rows a disconnection has seen stay as long as their feed does, and  *)
(* its second statement saves them from the cascade.                       *)
Saved(d) ==
    /\ disconnect[d].feed <= connected
    /\ disconnect[d].seen # {} =>
          disconnect[d].feed # 0 /\ disconnect[d].phase \in {"archived", "detached"}
    /\ \A k \in disconnect[d].seen :
          /\ k[1] = disconnect[d].feed
          /\ feed.id = disconnect[d].feed =>
                rows[k] # "none" /\ (disconnect[d].phase = "detached" => k \in disconnect[d].detach)
SeenKept == \A d \in Disconnects : Saved(d)

-----------------------------------------------------------------------------
FeedType == [id : 0 .. MaxFeeds, url : Urls, enabled : BOOLEAN,
             lock : {"free", "held", "stale"}, failures : 0 .. MaxFailures,
             due : BOOLEAN, overdue : BOOLEAN]
SyncType == [phase : Phases, feed : 0 .. MaxFeeds, url : Urls, prefetched : BOOLEAN,
             body : SUBSET Events, todo : SUBSET Events, found : BOOLEAN]
DisconnectType == [phase : {"idle", "read", "archived", "detached", "done"}, feed : 0 .. MaxFeeds,
                   seen : SUBSET Keys, archive : SUBSET Keys, detach : SUBSET Keys]

LEMMA ConstantsTyped ==
    /\ NoFeed \in FeedType /\ NoSync \in SyncType
    /\ \A id \in 0 .. MaxFeeds, phase \in {"idle", "read", "done"} :
          Disconnecting(phase, id) \in DisconnectType
    /\ \A id \in 0 .. MaxFeeds, u \in Urls :
          NewFeed(id, u) \in FeedType /\ NewFeed(id, u).id = id
<1>1. (CHOOSE u \in Urls : TRUE) \in Urls
  BY IcsAssumption
<1>2. NoFeed \in FeedType
  BY <1>1, IcsAssumption DEF NoFeed, MaxFailures, FeedType
<1>3. NoSync \in SyncType
  BY <1>1, IcsAssumption DEF NoFeed, NoSync, Phases, SyncType
<1>4. ASSUME NEW id \in 0 .. MaxFeeds, NEW phase \in {"idle", "read", "done"}
      PROVE  Disconnecting(phase, id) \in DisconnectType
  BY DEF Disconnecting, DisconnectType
<1>5. ASSUME NEW id \in 0 .. MaxFeeds, NEW u \in Urls
      PROVE  NewFeed(id, u) \in FeedType /\ NewFeed(id, u).id = id
  BY <1>1, <1>2 DEF NewFeed, NoFeed, FeedType
<1> QED
  BY <1>2, <1>3, <1>4, <1>5

(* The parts of the type invariant, by the names used below.               *)
LEMMA TypeParts ==
    TypeOK <=> /\ calendar \in [Urls -> SUBSET Events]
               /\ down \subseteq Urls
               /\ feed \in FeedType
               /\ connected \in 0 .. MaxFeeds
               /\ rows \in [Keys -> {"none", "live", "archived"}]
               /\ sync \in [Syncs -> SyncType]
               /\ disconnect \in [Disconnects -> DisconnectType]
               /\ robbed \in BOOLEAN
               /\ budget \in 0 .. Budget
  BY DEF TypeOK, FeedType, SyncType, DisconnectType

LEMMA TypePartsNext ==
    TypeOK' <=> /\ calendar' \in [Urls -> SUBSET Events]
                /\ down' \subseteq Urls
                /\ feed' \in FeedType
                /\ connected' \in 0 .. MaxFeeds
                /\ rows' \in [Keys -> {"none", "live", "archived"}]
                /\ sync' \in [Syncs -> SyncType]
                /\ disconnect' \in [Disconnects -> DisconnectType]
                /\ robbed' \in BOOLEAN
                /\ budget' \in 0 .. Budget
  BY DEF TypeOK, FeedType, SyncType, DisconnectType

LEMMA InitLockInv == Init => LockInv
<1> SUFFICES ASSUME Init
             PROVE  LockInv
  OBVIOUS
<1>1. TypeOK
  <2>1. /\ sync \in [Syncs -> SyncType] /\ disconnect \in [Disconnects -> DisconnectType]
        /\ feed \in FeedType /\ connected \in 0 .. MaxFeeds
    <3>1. 0 \in 0 .. MaxFeeds /\ (MaxFeeds > 0 => 1 \in 0 .. MaxFeeds)
      BY IcsAssumption
    <3>2. NoFeed.id = 0
      BY DEF NoFeed
    <3> QED
      BY <3>1, <3>2, ConstantsTyped DEF Init
  <2>2. budget \in 0 .. Budget
    BY IcsAssumption DEF Init
  <2>3. /\ calendar \in [Urls -> SUBSET Events] /\ down \subseteq Urls
        /\ rows \in [Keys -> {"none", "live", "archived"}] /\ robbed \in BOOLEAN
    BY DEF Init
  <2> QED
    BY <2>1, <2>2, <2>3, TypeParts
<1>2. connected = feed.id /\ \A s \in Syncs : sync[s].phase = "idle" /\ sync[s].feed = 0
  BY DEF Init, NoSync
<1>3. IdsKnown /\ LockTaken /\ OneImportAtATime
  BY <1>1, <1>2, TypeParts
     DEF IdsKnown, LockTaken, OneImportAtATime, Working, Running, FeedType
<1> QED
  BY <1>1, <1>3 DEF LockInv

(***************************************************************************)
(* What the steps that many actions share make of the sync.                *)
(***************************************************************************)
LEMMA Steps ==
    ASSUME sync \in [Syncs -> SyncType], NEW s \in Syncs
    PROVE  /\ \A p \in Phases : To(s, p) =>
                /\ sync' \in [Syncs -> SyncType]
                /\ \A t \in Syncs \ {s} : sync'[t] = sync[t]
                /\ sync'[s].phase = p /\ sync'[s].feed = sync[s].feed
                /\ sync'[s].body = sync[s].body /\ sync'[s].todo = sync[s].todo
           /\ Stop(s) =>
                /\ sync' \in [Syncs -> SyncType]
                /\ \A t \in Syncs \ {s} : sync'[t] = sync[t]
                /\ sync'[s].phase = "idle" /\ sync'[s].feed = 0
           /\ Imported(s) =>
                /\ sync' \in [Syncs -> SyncType]
                /\ \A t \in Syncs \ {s} : sync'[t] = sync[t]
                /\ sync'[s].phase = "importing" /\ sync'[s].feed = sync[s].feed
                /\ sync'[s].body = sync[s].body
                /\ sync'[s].todo = sync[s].todo \ {NextKey(s)[2]}
<1>1. ASSUME NEW p \in Phases, To(s, p)
      PROVE  /\ sync' \in [Syncs -> SyncType]
             /\ \A t \in Syncs \ {s} : sync'[t] = sync[t]
             /\ sync'[s].phase = p /\ sync'[s].feed = sync[s].feed
             /\ sync'[s].body = sync[s].body /\ sync'[s].todo = sync[s].todo
  BY <1>1 DEF To, SyncType
<1>2. ASSUME Stop(s)
      PROVE  /\ sync' \in [Syncs -> SyncType]
             /\ \A t \in Syncs \ {s} : sync'[t] = sync[t]
             /\ sync'[s].phase = "idle" /\ sync'[s].feed = 0
  <2>1. sync' \in [Syncs -> SyncType] /\ sync'[s] = NoSync
    BY <1>2, ConstantsTyped DEF Stop
  <2> QED
    BY <1>2, <2>1 DEF Stop, NoSync
<1>3. ASSUME Imported(s)
      PROVE  /\ sync' \in [Syncs -> SyncType]
             /\ \A t \in Syncs \ {s} : sync'[t] = sync[t]
             /\ sync'[s].phase = "importing" /\ sync'[s].feed = sync[s].feed
             /\ sync'[s].body = sync[s].body
             /\ sync'[s].todo = sync[s].todo \ {NextKey(s)[2]}
  <2>1. sync'[s] = [sync[s] EXCEPT !.phase = "importing", !.found = FALSE,
                                   !.todo = sync[s].todo \ {NextKey(s)[2]}]
    BY <1>3 DEF Imported
  <2>2. /\ sync'[s].phase = "importing" /\ sync'[s].feed = sync[s].feed
        /\ sync'[s].url = sync[s].url /\ sync'[s].prefetched = sync[s].prefetched
        /\ sync'[s].body = sync[s].body
        /\ sync'[s].todo = sync[s].todo \ {NextKey(s)[2]}
        /\ sync'[s].found = FALSE
    BY <2>1 DEF SyncType
  <2>3. sync'[s] \in SyncType
    BY <2>1, <2>2 DEF SyncType, Phases
  <2>4. \A t \in Syncs \ {s} : sync'[t] = sync[t]
    BY <1>3 DEF Imported
  <2>5. sync' \in [Syncs -> SyncType]
    BY <1>3, <2>3, <2>4 DEF Imported
  <2> QED
    BY <2>2, <2>4, <2>5
<1> QED
  BY <1>1, <1>2, <1>3


(***************************************************************************)
(* A sync starts: what it asks for is a feed there is, or an url.          *)
(***************************************************************************)
LEMMA Starts ==
    ASSUME TypeOK, NEW s \in Syncs,
           StartDue(s) \/ StartByHand(s) \/ \E u \in Urls : FetchNew(s, u)
    PROVE  /\ sync' \in [Syncs -> SyncType]
           /\ \A t \in Syncs \ {s} : sync'[t] = sync[t]
           /\ \/ sync'[s].phase = "fetched" /\ sync'[s].feed = 0
              \/ sync'[s].phase = "asked" /\ sync'[s].feed = feed.id /\ feed.id # 0
           /\ budget' \in 0 .. Budget
           /\ UNCHANGED <<calendar, down, feed, connected, rows, disconnect, robbed>>
<1>0. sync \in [Syncs -> SyncType] /\ feed \in FeedType /\ budget \in 0 .. Budget
  BY TypeParts
<1>1. CASE StartDue(s) \/ StartByHand(s)
  <2>1. sync' = [sync EXCEPT ![s] = [NoSync EXCEPT !.phase = "asked", !.feed = feed.id]]
    BY <1>1 DEF StartDue, StartByHand
  <2>2. sync'[s] = [NoSync EXCEPT !.phase = "asked", !.feed = feed.id]
    BY <1>0, <2>1
  <2>3. /\ sync'[s].phase = "asked" /\ sync'[s].feed = feed.id
        /\ sync'[s].url = NoSync.url /\ sync'[s].prefetched = NoSync.prefetched
        /\ sync'[s].body = NoSync.body /\ sync'[s].todo = NoSync.todo
        /\ sync'[s].found = NoSync.found
    BY <2>2, ConstantsTyped DEF SyncType
  <2>4. feed.id \in 0 .. MaxFeeds
    BY <1>0 DEF FeedType
  <2>5. sync'[s] \in SyncType
    BY <2>2, <2>3, <2>4, ConstantsTyped DEF SyncType, Phases
  <2>6. sync' \in [Syncs -> SyncType] /\ \A t \in Syncs \ {s} : sync'[t] = sync[t]
    BY <1>0, <2>1, <2>5
  <2>7. budget' \in 0 .. Budget
    BY <1>0, <1>1, IcsAssumption DEF StartDue, StartByHand, Spend
  <2> QED
    BY <1>1, <2>3, <2>6, <2>7 DEF StartDue, StartByHand
<1>2. ASSUME NEW u \in Urls, FetchNew(s, u)
      PROVE  /\ sync' \in [Syncs -> SyncType]
             /\ \A t \in Syncs \ {s} : sync'[t] = sync[t]
             /\ sync'[s].phase = "fetched" /\ sync'[s].feed = 0
             /\ budget' \in 0 .. Budget
             /\ UNCHANGED <<calendar, down, feed, connected, rows, disconnect, robbed>>
  <2>1. sync' = [sync EXCEPT ![s] = [NoSync EXCEPT !.phase = "fetched", !.url = u,
                                     !.prefetched = TRUE, !.body = calendar[u]]]
    BY <1>2 DEF FetchNew
  <2>2. sync'[s] = [NoSync EXCEPT !.phase = "fetched", !.url = u,
                                  !.prefetched = TRUE, !.body = calendar[u]]
    BY <1>0, <2>1
  <2>3. /\ sync'[s].phase = "fetched" /\ sync'[s].feed = NoSync.feed
        /\ sync'[s].url = u /\ sync'[s].prefetched = TRUE
        /\ sync'[s].body = calendar[u] /\ sync'[s].todo = NoSync.todo
        /\ sync'[s].found = NoSync.found
    BY <2>2, ConstantsTyped DEF SyncType
  <2>4. calendar[u] \in SUBSET Events
    BY TypeParts
  <2>5. sync'[s] \in SyncType
    BY <2>2, <2>3, <2>4, ConstantsTyped DEF SyncType, Phases
  <2>6. sync' \in [Syncs -> SyncType] /\ \A t \in Syncs \ {s} : sync'[t] = sync[t]
    BY <1>0, <2>1, <2>5
  <2>7. budget' \in 0 .. Budget
    <3>1. Spend
      BY <1>2 DEF FetchNew
    <3> QED
      BY <1>0, <3>1, IcsAssumption DEF Spend
  <2>8. NoSync.feed = 0
    BY DEF NoSync
  <2> QED
    BY <1>2, <2>3, <2>6, <2>7, <2>8 DEF FetchNew
<1> QED
  BY <1>1, <1>2

(***************************************************************************)
(* Saving a feed: the one there is, or one with an id that is new.         *)
(***************************************************************************)
LEMMA Saves ==
    ASSUME TypeOK, NEW s \in Syncs, SaveFeed(s)
    PROVE  /\ sync' \in [Syncs -> SyncType] /\ feed' \in FeedType
           /\ connected' \in 0 .. MaxFeeds
           /\ \A t \in Syncs \ {s} : sync'[t] = sync[t]
           /\ sync'[s].phase = "asked" /\ sync'[s].feed = feed'.id
           /\ \/ feed.id # 0 /\ feed'.id = feed.id /\ feed'.lock = feed.lock
                             /\ connected' = connected
              \/ feed.id = 0 /\ feed'.id = connected' /\ connected' = connected + 1
           /\ UNCHANGED <<calendar, down, rows, disconnect, robbed, budget>>
<1>0. /\ sync \in [Syncs -> SyncType] /\ feed \in FeedType /\ connected \in 0 .. MaxFeeds
      /\ sync[s] \in SyncType /\ sync[s].url \in Urls
  BY TypeParts DEF SyncType
<1>1. /\ feed' \in FeedType /\ connected' \in 0 .. MaxFeeds
      /\ \/ feed.id # 0 /\ feed'.id = feed.id /\ feed'.lock = feed.lock
                        /\ connected' = connected
         \/ feed.id = 0 /\ feed'.id = connected' /\ connected' = connected + 1
  <2>1. CASE feed.id # 0
    <3>1. feed' = [feed EXCEPT !.url = sync[s].url, !.enabled = TRUE]
      BY <2>1 DEF SaveFeed
    <3>2. /\ feed'.id = feed.id /\ feed'.url = sync[s].url /\ feed'.enabled = TRUE
          /\ feed'.lock = feed.lock /\ feed'.failures = feed.failures
          /\ feed'.due = feed.due /\ feed'.overdue = feed.overdue
      BY <1>0, <3>1 DEF FeedType
    <3>3. feed' \in FeedType
      BY <1>0, <3>1, <3>2 DEF FeedType
    <3> QED
      BY <1>0, <2>1, <3>2, <3>3 DEF SaveFeed
  <2>2. CASE feed.id = 0
    <3>1. /\ feed' = NewFeed(connected + 1, sync[s].url)
          /\ connected < MaxFeeds /\ connected' = connected + 1
      BY <2>2 DEF SaveFeed
    <3>2. connected + 1 \in 0 .. MaxFeeds
      BY <1>0, <3>1, IcsAssumption
    <3> QED
      BY <1>0, <2>2, <3>1, <3>2, ConstantsTyped
  <2> QED
    BY <2>1, <2>2
<1>2. sync'[s] = [sync[s] EXCEPT !.phase = "asked", !.feed = feed'.id]
  BY <1>0 DEF SaveFeed
<1>3. /\ sync'[s].phase = "asked" /\ sync'[s].feed = feed'.id
      /\ sync'[s].url = sync[s].url /\ sync'[s].prefetched = sync[s].prefetched
      /\ sync'[s].body = sync[s].body /\ sync'[s].todo = sync[s].todo
      /\ sync'[s].found = sync[s].found
  BY <1>0, <1>2 DEF SyncType
<1>4. feed'.id \in 0 .. MaxFeeds
  BY <1>1 DEF FeedType
<1>5. sync'[s] \in SyncType
  BY <1>0, <1>2, <1>3, <1>4 DEF SyncType, Phases
<1>6. sync' \in [Syncs -> SyncType] /\ \A t \in Syncs \ {s} : sync'[t] = sync[t]
  BY <1>0, <1>5 DEF SaveFeed
<1> QED
  BY <1>1, <1>3, <1>6 DEF SaveFeed


(***************************************************************************)
(* The other steps of a sync start no import, and change the lock only to  *)
(* end an import of their own, or at the risk that robbed tells of.        *)
(***************************************************************************)
GoesOn(s) ==
    \/ Skip(s) \/ ReadFeed(s) \/ Look(s) \/ Update(s) \/ Create(s) \/ ArchiveLeft(s)
    \/ Succeed(s) \/ Fail(s) \/ Mail(s) \/ Disable(s)

LEMMA GoingOn ==
    ASSUME TypeOK, NEW s \in Syncs, GoesOn(s)
    PROVE  /\ TypeOK'
           /\ feed'.id = feed.id /\ connected' = connected
           /\ \A t \in Syncs \ {s} : sync'[t] = sync[t]
           /\ sync'[s].phase # "asked" /\ sync'[s].phase # "fetched"
           /\ Running(s)' => Running(s)
           /\ \/ sync'[s].feed = sync[s].feed
              \/ sync'[s].phase = "idle" /\ sync'[s].feed = 0
           /\ sync[s].phase \notin {"idle", "fetched"}
           /\ feed'.lock # feed.lock =>
                 /\ sync[s].feed = feed.id
                 /\ ~Running(s)'
                 /\ Running(s) \/ robbed' \/ ~RobbedBy(s)
           /\ robbed => robbed'
<1> DEFINE Goal ==
           /\ TypeOK'
           /\ feed'.id = feed.id /\ connected' = connected
           /\ \A t \in Syncs \ {s} : sync'[t] = sync[t]
           /\ sync'[s].phase # "asked" /\ sync'[s].phase # "fetched"
           /\ Running(s)' => Running(s)
           /\ \/ sync'[s].feed = sync[s].feed
              \/ sync'[s].phase = "idle" /\ sync'[s].feed = 0
           /\ sync[s].phase \notin {"idle", "fetched"}
           /\ feed'.lock # feed.lock =>
                 /\ sync[s].feed = feed.id
                 /\ ~Running(s)'
                 /\ Running(s) \/ robbed' \/ ~RobbedBy(s)
           /\ robbed => robbed'
<1>0. /\ calendar \in [Urls -> SUBSET Events] /\ down \subseteq Urls
      /\ feed \in FeedType /\ connected \in 0 .. MaxFeeds
      /\ rows \in [Keys -> {"none", "live", "archived"}]
      /\ sync \in [Syncs -> SyncType] /\ sync[s] \in SyncType
      /\ disconnect \in [Disconnects -> DisconnectType] /\ robbed \in BOOLEAN /\ budget \in 0 .. Budget
  BY TypeParts
<1>1. CASE Skip(s)
  BY <1>0, <1>1, Steps, TypePartsNext DEF Skip, Running
<1>2. CASE ReadFeed(s)
  <2>1. CASE Stop(s)
    BY <1>0, <1>2, <2>1, Steps, TypePartsNext DEF ReadFeed, Running
  <2>2. CASE To(s, "failed")
    <3>1. "failed" \in Phases
      BY DEF Phases
    <3> QED
      BY <1>0, <1>2, <2>2, <3>1, Steps, TypePartsNext DEF ReadFeed, Running
  <2>3. CASE sync[s].feed = feed.id /\ ~(~sync[s].prefetched /\ feed.url \in down)
    <3> DEFINE body == IF sync[s].prefetched THEN sync[s].body ELSE calendar[feed.url]
    <3>1. body \in SUBSET Events
      BY <1>0 DEF SyncType, FeedType
    <3> HIDE DEF body
    <3>2. sync' = [sync EXCEPT ![s].phase = "importing", ![s].body = body, ![s].todo = body]
      BY <1>2, <2>3 DEF ReadFeed, body
    <3>3. sync'[s] = [sync[s] EXCEPT !.phase = "importing", !.body = body, !.todo = body]
      BY <1>0, <3>2
    <3>4. /\ sync'[s].phase = "importing" /\ sync'[s].feed = sync[s].feed
          /\ sync'[s].url = sync[s].url /\ sync'[s].prefetched = sync[s].prefetched
          /\ sync'[s].body = body /\ sync'[s].todo = body
          /\ sync'[s].found = sync[s].found
      BY <1>0, <3>3 DEF SyncType
    <3>5. sync'[s] \in SyncType
      BY <1>0, <3>1, <3>3, <3>4 DEF SyncType, Phases
    <3>6. sync' \in [Syncs -> SyncType] /\ \A t \in Syncs \ {s} : sync'[t] = sync[t]
      BY <1>0, <3>2, <3>5
    <3> QED
      BY <1>0, <1>2, <3>4, <3>6, TypePartsNext DEF ReadFeed, Running
  <2> QED
    BY <1>2, <2>1, <2>2, <2>3 DEF ReadFeed
<1>3. CASE Look(s)
  <2>1. PICK found \in BOOLEAN :
             sync' = [sync EXCEPT ![s].phase = "looked", ![s].found = found]
    BY <1>3 DEF Look
  <2>2. sync'[s] = [sync[s] EXCEPT !.phase = "looked", !.found = found]
    BY <1>0, <2>1
  <2>3. /\ sync'[s].phase = "looked" /\ sync'[s].feed = sync[s].feed
        /\ sync'[s].url = sync[s].url /\ sync'[s].prefetched = sync[s].prefetched
        /\ sync'[s].body = sync[s].body /\ sync'[s].todo = sync[s].todo
        /\ sync'[s].found = found
    BY <1>0, <2>2 DEF SyncType
  <2>4. sync'[s] \in SyncType
    BY <1>0, <2>2, <2>3 DEF SyncType, Phases
  <2>5. sync' \in [Syncs -> SyncType] /\ \A t \in Syncs \ {s} : sync'[t] = sync[t]
    BY <1>0, <2>1, <2>4
  <2> QED
    BY <1>0, <1>3, <2>3, <2>5, TypePartsNext DEF Look, Running
<1>4. CASE Update(s)
  <2>1. rows' \in [Keys -> {"none", "live", "archived"}]
    BY <1>0, <1>4 DEF Update
  <2> QED
    BY <1>0, <1>4, <2>1, Steps, TypePartsNext DEF Update, Running
<1>5. CASE Create(s)
  <2>1. rows' \in [Keys -> {"none", "live", "archived"}]
    BY <1>0, <1>5 DEF Create
  <2>2. Imported(s) \/ To(s, "failed")
    BY <1>5 DEF Create
  <2>3. "failed" \in Phases
    BY DEF Phases
  <2> QED
    BY <1>0, <1>5, <2>1, <2>2, <2>3, Steps, TypePartsNext DEF Create, Running
<1>6. CASE ArchiveLeft(s)
  <2>1. rows' \in [Keys -> {"none", "live", "archived"}]
    BY <1>0, <1>6 DEF ArchiveLeft
  <2>2. "imported" \in Phases
    BY DEF Phases
  <2> QED
    BY <1>0, <1>6, <2>1, <2>2, Steps, TypePartsNext DEF ArchiveLeft, Running
<1>7. CASE Succeed(s)
  <2>1. feed' \in FeedType /\ feed'.id = feed.id
    <3>1. CASE sync[s].feed = feed.id
      <4>0. PICK n \in 0 .. MaxFailures : n = 0
        BY DEF MaxFailures
      <4>1. feed' = [feed EXCEPT !.failures = n, !.enabled = TRUE, !.lock = "free",
                                 !.due = FALSE, !.overdue = FALSE]
        BY <1>7, <3>1, <4>0 DEF Succeed
      <4>2. /\ feed'.id = feed.id /\ feed'.url = feed.url /\ feed'.enabled = TRUE
            /\ feed'.lock = "free" /\ feed'.failures = n
            /\ feed'.due = FALSE /\ feed'.overdue = FALSE
        BY <1>0, <4>1 DEF FeedType
      <4> QED
        BY <1>0, <4>1, <4>2 DEF FeedType
    <3> QED
      BY <1>0, <1>7, <3>1 DEF Succeed
  <2>2. sync[s].feed # feed.id => feed' = feed
    BY <1>7 DEF Succeed
  <2> QED
    BY <1>0, <1>7, <2>1, <2>2, Steps, TypePartsNext DEF Succeed, Running
<1>8. CASE Fail(s)
  <2>1. feed' \in FeedType /\ feed'.id = feed.id
    <3>1. CASE sync[s].feed = feed.id
      <4>1. PICK n \in 0 .. MaxFailures :
                 feed' = [feed EXCEPT !.failures = n, !.lock = "free", !.due = FALSE]
        <5>1. feed.failures \in 0 .. MaxFailures
          BY <1>0 DEF FeedType
        <5>2. (IF feed.failures + 1 > MaxFailures THEN MaxFailures ELSE feed.failures + 1)
                  \in 0 .. MaxFailures
          BY <5>1 DEF MaxFailures
        <5> QED
          BY <1>8, <3>1, <5>2 DEF Fail
      <4>2. /\ feed'.id = feed.id /\ feed'.url = feed.url /\ feed'.enabled = feed.enabled
            /\ feed'.lock = "free" /\ feed'.failures = n
            /\ feed'.due = FALSE /\ feed'.overdue = feed.overdue
        BY <1>0, <4>1 DEF FeedType
      <4> QED
        BY <1>0, <4>1, <4>2 DEF FeedType
    <3> QED
      BY <1>0, <1>8, <3>1 DEF Fail
  <2>2. sync[s].feed # feed.id => feed' = feed
    BY <1>8 DEF Fail
  <2>3. /\ sync' \in [Syncs -> SyncType]
        /\ \A t \in Syncs \ {s} : sync'[t] = sync[t]
        /\ sync'[s].phase \in {"idle", "mailing", "disabling"}
        /\ \/ sync'[s].feed = sync[s].feed
           \/ sync'[s].phase = "idle" /\ sync'[s].feed = 0
    <3>1. CASE Stop(s)
      BY <1>0, <3>1, Steps
    <3>2. CASE To(s, "disabling")
      <4>1. "disabling" \in Phases
        BY DEF Phases
      <4> QED
        BY <1>0, <3>2, <4>1, Steps
    <3>3. CASE sync' = [sync EXCEPT ![s].phase = "mailing", ![s].found = feed.overdue]
      <4>1. sync'[s] = [sync[s] EXCEPT !.phase = "mailing", !.found = feed.overdue]
        BY <1>0, <3>3
      <4>2. /\ sync'[s].phase = "mailing" /\ sync'[s].feed = sync[s].feed
            /\ sync'[s].url = sync[s].url /\ sync'[s].prefetched = sync[s].prefetched
            /\ sync'[s].body = sync[s].body /\ sync'[s].todo = sync[s].todo
            /\ sync'[s].found = feed.overdue
        BY <1>0, <4>1 DEF SyncType
      <4>3. feed.overdue \in BOOLEAN
        BY <1>0 DEF FeedType
      <4>4. sync'[s] \in SyncType
        BY <1>0, <4>1, <4>2, <4>3 DEF SyncType, Phases
      <4> QED
        BY <1>0, <3>3, <4>2, <4>4
    <3> QED
      BY <1>8, <3>1, <3>2, <3>3 DEF Fail
  <2> QED
    BY <1>0, <1>8, <2>1, <2>2, <2>3, TypePartsNext DEF Fail, Running
<1>9. CASE Mail(s)
  <2>1. CASE Stop(s)
    BY <1>0, <1>9, <2>1, Steps, TypePartsNext DEF Mail, Running
  <2>2. CASE sync' = [sync EXCEPT ![s].phase = "disabling", ![s].found = FALSE]
    <3>1. sync'[s] = [sync[s] EXCEPT !.phase = "disabling", !.found = FALSE]
      BY <1>0, <2>2
    <3>2. /\ sync'[s].phase = "disabling" /\ sync'[s].feed = sync[s].feed
          /\ sync'[s].url = sync[s].url /\ sync'[s].prefetched = sync[s].prefetched
          /\ sync'[s].body = sync[s].body /\ sync'[s].todo = sync[s].todo
          /\ sync'[s].found = FALSE
      BY <1>0, <3>1 DEF SyncType
    <3>3. sync'[s] \in SyncType
      BY <1>0, <3>1, <3>2 DEF SyncType, Phases
    <3>4. sync' \in [Syncs -> SyncType] /\ \A t \in Syncs \ {s} : sync'[t] = sync[t]
      BY <1>0, <2>2, <3>3
    <3> QED
      BY <1>0, <1>9, <3>2, <3>4, TypePartsNext DEF Mail, Running
  <2> QED
    BY <1>9, <2>1, <2>2 DEF Mail
<1>10. CASE Disable(s)
  <2>1. feed' \in FeedType /\ feed'.id = feed.id
    <3>1. CASE sync[s].feed = feed.id
      <4>1. feed' = [feed EXCEPT !.enabled = FALSE, !.lock = "free"]
        BY <1>10, <3>1 DEF Disable
      <4>2. /\ feed'.id = feed.id /\ feed'.url = feed.url /\ feed'.enabled = FALSE
            /\ feed'.lock = "free" /\ feed'.failures = feed.failures
            /\ feed'.due = feed.due /\ feed'.overdue = feed.overdue
        BY <1>0, <4>1 DEF FeedType
      <4> QED
        BY <1>0, <4>1, <4>2 DEF FeedType
    <3> QED
      BY <1>0, <1>10, <3>1 DEF Disable
  <2>2. robbed' \in BOOLEAN /\ (robbed => robbed')
    BY <1>0, <1>10 DEF Disable
  <2>3. sync[s].feed # feed.id => feed' = feed
    BY <1>10 DEF Disable
  <2>4. sync[s].feed = feed.id => robbed' \/ ~RobbedBy(s)
    BY <1>10 DEF Disable
  <2> QED
    BY <1>0, <1>10, <2>1, <2>2, <2>3, <2>4, Steps, TypePartsNext DEF Disable, Running
<1> HIDE DEF Goal
<1> QED
  <2>1. Goal
    BY <1>1, <1>2, <1>3, <1>4, <1>5, <1>6, <1>7, <1>8, <1>9, <1>10 DEF GoesOn, Goal
  <2> QED
    BY <2>1 DEF Goal


(***************************************************************************)
(* What changes around the syncs.                                          *)
(***************************************************************************)
Around ==
    \/ \E d \in Disconnects : ReadToDisconnect(d) \/ ArchiveAll(d) \/ DetachAll(d) \/ GiveUp(d)
    \/ \E u \in Urls : ChangeCalendar(u) \/ HostFails(u)
    \/ BecomeDue \/ BecomeOverdue \/ LockExpires

LEMMA GoingAround ==
    ASSUME TypeOK, Around
    PROVE  /\ TypeOK'
           /\ feed'.id = feed.id /\ (feed'.lock = "free" => feed.lock = "free")
           /\ UNCHANGED <<connected, rows, sync, robbed>>
<1>0. /\ calendar \in [Urls -> SUBSET Events] /\ down \subseteq Urls
      /\ feed \in FeedType /\ connected \in 0 .. MaxFeeds
      /\ rows \in [Keys -> {"none", "live", "archived"}]
      /\ sync \in [Syncs -> SyncType]
      /\ disconnect \in [Disconnects -> DisconnectType] /\ robbed \in BOOLEAN /\ budget \in 0 .. Budget
  BY TypeParts
<1>1. ASSUME Spend
      PROVE  budget' \in 0 .. Budget
  BY <1>0, <1>1, IcsAssumption DEF Spend
<1>2. ASSUME NEW d \in Disconnects, ReadToDisconnect(d) \/ GiveUp(d)
      PROVE  TypeOK' /\ UNCHANGED <<feed, connected, rows, sync, robbed>>
  <2>1. feed.id \in 0 .. MaxFeeds /\ 0 \in 0 .. MaxFeeds
    BY <1>0, IcsAssumption DEF FeedType
  <2>2. disconnect' \in [Disconnects -> DisconnectType]
    BY <1>0, <1>2, <2>1, ConstantsTyped DEF ReadToDisconnect, GiveUp
  <2> QED
    BY <1>0, <1>1, <1>2, <2>2, TypePartsNext DEF ReadToDisconnect, GiveUp
<1>3. ASSUME NEW d \in Disconnects, ArchiveAll(d) \/ DetachAll(d)
      PROVE  TypeOK' /\ UNCHANGED <<feed, connected, rows, sync, robbed>>
  <2> DEFINE mine == OfFeed(disconnect[d].feed)
             live == {k \in mine : rows[k] = "live"}
  <2>1. mine \in SUBSET Keys /\ live \in SUBSET Keys
    BY DEF OfFeed
  <2>2. \/ disconnect' = [disconnect EXCEPT ![d].phase = "archived", ![d].seen = mine,
                                            ![d].archive = live]
        \/ disconnect' = [disconnect EXCEPT ![d].phase = "detached", ![d].detach = mine]
    BY <1>3 DEF ArchiveAll, DetachAll
  <2> HIDE DEF mine, live
  <2>3. disconnect'[d] \in DisconnectType
    BY <1>0, <2>1, <2>2 DEF DisconnectType
  <2>4. disconnect' \in [Disconnects -> DisconnectType]
    BY <1>0, <2>2, <2>3
  <2> QED
    BY <1>0, <1>3, <2>4, TypePartsNext DEF ArchiveAll, DetachAll
<1>4. ASSUME NEW u \in Urls, ChangeCalendar(u)
      PROVE  /\ TypeOK' /\ UNCHANGED <<feed, connected, rows, sync, robbed>>
  <2>1. calendar' \in [Urls -> SUBSET Events]
    BY <1>0, <1>4 DEF ChangeCalendar
  <2> QED
    BY <1>0, <1>1, <1>4, <2>1, TypePartsNext DEF ChangeCalendar
<1>5. ASSUME NEW u \in Urls, HostFails(u)
      PROVE  /\ TypeOK' /\ UNCHANGED <<feed, connected, rows, sync, robbed>>
  <2>1. down' \subseteq Urls
    BY <1>0, <1>5 DEF HostFails
  <2> QED
    BY <1>0, <1>1, <1>5, <2>1, TypePartsNext DEF HostFails
<1>6. CASE BecomeDue
  <2>1. feed' \in FeedType /\ feed'.id = feed.id /\ feed'.lock = feed.lock
    BY <1>0, <1>6 DEF BecomeDue, FeedType
  <2> QED
    BY <1>0, <1>6, <2>1, TypePartsNext DEF BecomeDue
<1>7. CASE BecomeOverdue
  <2>1. feed' \in FeedType /\ feed'.id = feed.id /\ feed'.lock = feed.lock
    BY <1>0, <1>7 DEF BecomeOverdue, FeedType
  <2> QED
    BY <1>0, <1>1, <1>7, <2>1, TypePartsNext DEF BecomeOverdue
<1>8. CASE LockExpires
  <2>1. feed' \in FeedType /\ feed'.id = feed.id /\ feed'.lock = "stale"
    BY <1>0, <1>8 DEF LockExpires, FeedType
  <2>2. budget' \in 0 .. Budget
    BY <1>0, <1>1, <1>8 DEF LockExpires
  <2> QED
    BY <1>0, <1>8, <2>1, <2>2, TypePartsNext DEF LockExpires
<1> QED
  BY <1>2, <1>3, <1>4, <1>5, <1>6, <1>7, <1>8 DEF Around

-----------------------------------------------------------------------------
(***************************************************************************)
(* The lock holds what it promises.                                        *)
(***************************************************************************)
LEMMA NextLockInv == LockInv /\ [Next]_vars => LockInv'
<1> SUFFICES ASSUME LockInv, [Next]_vars
             PROVE  LockInv'
  OBVIOUS
<1> DEFINE Rest == IdsKnown /\ LockTaken /\ OneImportAtATime
<1>0. /\ TypeOK /\ feed \in FeedType /\ sync \in [Syncs -> SyncType]
      /\ connected \in 0 .. MaxFeeds /\ feed.id \in 0 .. MaxFeeds
      /\ \A s \in Syncs : sync[s].feed \in 0 .. MaxFeeds
  <2>1. TypeOK /\ feed \in FeedType /\ sync \in [Syncs -> SyncType]
               /\ connected \in 0 .. MaxFeeds
    BY TypeParts DEF LockInv
  <2> QED
    BY <2>1 DEF FeedType, SyncType
<1>1. CASE UNCHANGED vars
  <2>1. TypeOK'
    BY <1>0, <1>1, TypeParts, TypePartsNext DEF vars
  <2>2. Rest'
    BY <1>1 DEF vars, LockInv, IdsKnown, LockTaken, OneImportAtATime, Working, Running
  <2> QED
    BY <2>1, <2>2 DEF LockInv
<1>2. ASSUME NEW s \in Syncs,
             StartDue(s) \/ StartByHand(s) \/ \E u \in Urls : FetchNew(s, u)
      PROVE  LockInv'
  <2>1. /\ sync' \in [Syncs -> SyncType]
        /\ \A t \in Syncs \ {s} : sync'[t] = sync[t]
        /\ \/ sync'[s].phase = "fetched" /\ sync'[s].feed = 0
           \/ sync'[s].phase = "asked" /\ sync'[s].feed = feed.id /\ feed.id # 0
        /\ budget' \in 0 .. Budget
        /\ UNCHANGED <<calendar, down, feed, connected, rows, disconnect, robbed>>
    BY <1>0, <1>2, Starts
  <2>2. TypeOK'
    BY <1>0, <2>1, TypeParts, TypePartsNext
  <2>3. IdsKnown'
    BY <1>0, <2>1 DEF LockInv, IdsKnown
  <2>4. \A t \in Syncs : Running(t)' => t # s /\ Running(t)
    BY <2>1 DEF Running
  <2>5. LockTaken' /\ OneImportAtATime'
    BY <2>1, <2>4 DEF LockInv, LockTaken, OneImportAtATime, Working
  <2> QED
    BY <2>2, <2>3, <2>5 DEF LockInv
<1>3. ASSUME NEW s \in Syncs, SaveFeed(s)
      PROVE  LockInv'
  <2>1. /\ sync' \in [Syncs -> SyncType] /\ feed' \in FeedType
        /\ connected' \in 0 .. MaxFeeds
        /\ \A t \in Syncs \ {s} : sync'[t] = sync[t]
        /\ sync'[s].phase = "asked" /\ sync'[s].feed = feed'.id
        /\ \/ feed.id # 0 /\ feed'.id = feed.id /\ feed'.lock = feed.lock
                          /\ connected' = connected
           \/ feed.id = 0 /\ feed'.id = connected' /\ connected' = connected + 1
        /\ UNCHANGED <<calendar, down, rows, disconnect, robbed, budget>>
    BY <1>0, <1>3, Saves
  <2>2. TypeOK'
    BY <1>0, <2>1, TypeParts, TypePartsNext
  <2>3. IdsKnown'
    BY <1>0, <2>1 DEF LockInv, IdsKnown
  <2>4. \A t \in Syncs : Running(t)' => t # s /\ Running(t)
    BY <2>1 DEF Running
  <2>5. \A t \in Syncs : Working(t)' => t # s /\ Working(t) /\ feed'.lock = feed.lock
                                        /\ feed'.id = feed.id
    <3> SUFFICES ASSUME NEW t \in Syncs, Working(t)'
                 PROVE  t # s /\ Working(t) /\ feed'.lock = feed.lock /\ feed'.id = feed.id
      OBVIOUS
    <3>1. t # s /\ Running(t) /\ sync'[t] = sync[t] /\ sync[t].feed = feed'.id
      BY <2>1, <2>4 DEF Working
    <3>2. sync[t].feed <= connected
      BY DEF LockInv, IdsKnown
    <3>3. feed'.id = feed.id /\ feed'.lock = feed.lock
      BY <1>0, <2>1, <3>1, <3>2
    <3> QED
      BY <3>1, <3>3 DEF Working
  <2>6. LockTaken' /\ OneImportAtATime'
    BY <2>1, <2>4, <2>5 DEF LockInv, LockTaken, OneImportAtATime, Working
  <2> QED
    BY <2>2, <2>3, <2>6 DEF LockInv
<1>4. ASSUME NEW s \in Syncs, AcquireLock(s)
      PROVE  LockInv'
  <2>1. "locked" \in Phases /\ To(s, "locked")
    BY <1>4 DEF AcquireLock, Phases
  <2>2. /\ sync' \in [Syncs -> SyncType]
        /\ \A t \in Syncs \ {s} : sync'[t] = sync[t]
        /\ sync'[s].phase = "locked" /\ sync'[s].feed = sync[s].feed
    BY <1>0, <2>1, Steps
  <2>3. feed' \in FeedType /\ feed'.id = feed.id /\ feed'.lock = "held"
    BY <1>0, <1>4 DEF AcquireLock, FeedType
  <2>4. /\ sync[s].phase = "asked" /\ sync[s].feed = feed.id /\ feed.lock # "held"
        /\ robbed' = (robbed \/ (feed.lock = "stale" /\ RobbedBy(s)))
        /\ UNCHANGED <<calendar, down, connected, rows, disconnect, budget>>
    BY <1>4 DEF AcquireLock
  <2>5. TypeOK'
    <3>1. robbed' \in BOOLEAN
      BY <2>4
    <3> QED
      BY <1>0, <2>2, <2>3, <2>4, <3>1, TypeParts, TypePartsNext
  <2>6. IdsKnown'
    BY <1>0, <2>2, <2>3, <2>4 DEF LockInv, IdsKnown
  <2>7. LockTaken'
    BY <2>3 DEF LockTaken
  <2>8. ~robbed' => \A t \in Syncs \ {s} : ~Working(t)
    BY <1>0, <2>4 DEF LockInv, LockTaken, RobbedBy, Working, FeedType
  <2>9. \A t \in Syncs \ {s} : Working(t)' => Working(t)
    BY <2>2, <2>3 DEF Working, Running
  <2>10. OneImportAtATime'
    BY <2>2, <2>3, <2>8, <2>9 DEF OneImportAtATime, Working
  <2> QED
    BY <2>5, <2>6, <2>7, <2>10 DEF LockInv
<1>5. ASSUME NEW s \in Syncs, GoesOn(s)
      PROVE  LockInv'
  <2>1. /\ TypeOK'
        /\ feed'.id = feed.id /\ connected' = connected
        /\ \A t \in Syncs \ {s} : sync'[t] = sync[t]
        /\ Running(s)' => Running(s)
        /\ \/ sync'[s].feed = sync[s].feed
           \/ sync'[s].phase = "idle" /\ sync'[s].feed = 0
        /\ sync[s].phase \notin {"idle", "fetched"}
        /\ feed'.lock # feed.lock =>
              /\ sync[s].feed = feed.id
              /\ ~Running(s)'
              /\ Running(s) \/ robbed' \/ ~RobbedBy(s)
        /\ robbed => robbed'
    BY <1>0, <1>5, GoingOn
  <2>2. IdsKnown'
    BY <1>0, <2>1 DEF LockInv, IdsKnown
  <2>3. \A t \in Syncs : Working(t)' => Working(t)
    BY <2>1 DEF Working, Running
  <2>4. LockTaken'
    <3> SUFFICES ASSUME ~robbed', NEW t \in Syncs, Working(t)'
                 PROVE  feed'.lock # "free"
      BY DEF LockTaken
    <3>1. Working(t) /\ ~robbed
      BY <2>1, <2>3
    <3>2. feed.lock # "free"
      BY <3>1 DEF LockInv, LockTaken
    <3>3. CASE feed'.lock # feed.lock
      <4>1. t # s
        BY <2>1, <3>3 DEF Working
      <4>2. RobbedBy(s)
        BY <3>1, <4>1 DEF RobbedBy, Working
      <4>3. Running(s) /\ sync[s].feed = feed.id
        BY <2>1, <3>3, <4>2
      <4> QED
        BY <3>1, <4>1, <4>3 DEF LockInv, OneImportAtATime, Working
    <3> QED
      BY <3>2, <3>3
  <2>5. OneImportAtATime'
    BY <2>1, <2>3 DEF LockInv, OneImportAtATime, Working
  <2> QED
    BY <2>1, <2>2, <2>4, <2>5 DEF LockInv
<1>6. CASE Around
  <2>1. /\ TypeOK'
        /\ feed'.id = feed.id /\ (feed'.lock = "free" => feed.lock = "free")
        /\ UNCHANGED <<connected, rows, sync, robbed>>
    BY <1>0, <1>6, GoingAround
  <2>2. Rest'
    BY <2>1 DEF LockInv, IdsKnown, LockTaken, OneImportAtATime, Working, Running
  <2> QED
    BY <2>1, <2>2 DEF LockInv
<1>7. ASSUME NEW d \in Disconnects, DeleteFeed(d)
      PROVE  LockInv'
  <2>1. /\ feed' = NoFeed /\ UNCHANGED <<calendar, down, connected, sync, robbed, budget>>
        /\ disconnect' = [disconnect EXCEPT ![d] = Disconnecting("done", 0)]
    BY <1>7 DEF DeleteFeed
  <2>2. rows' \in [Keys -> {"none", "live", "archived"}]
    BY <1>0, <1>7, TypeParts DEF DeleteFeed
  <2>3. TypeOK'
    <3>1. disconnect' \in [Disconnects -> DisconnectType]
      BY <1>0, <2>1, ConstantsTyped, TypeParts, IcsAssumption
    <3> QED
      BY <1>0, <2>1, <2>2, <3>1, ConstantsTyped, TypeParts, TypePartsNext
  <2>4. feed'.id = 0
    BY <2>1 DEF NoFeed
  <2>5. IdsKnown'
    BY <1>0, <2>1, <2>4 DEF LockInv, IdsKnown
  <2>6. \A t \in Syncs : ~Working(t)'
    BY <2>1, <2>4 DEF LockInv, IdsKnown, Working, Running
  <2>7. LockTaken' /\ OneImportAtATime'
    BY <2>6 DEF LockTaken, OneImportAtATime, Working
  <2> QED
    BY <2>3, <2>5, <2>7 DEF LockInv
<1>8. CASE Crash
  <2>1. /\ sync' = [s \in Syncs |-> NoSync]
        /\ Spend /\ UNCHANGED <<calendar, down, feed, connected, rows, robbed>>
    BY <1>8 DEF Crash
  <2>2. sync' \in [Syncs -> SyncType] /\ disconnect' \in [Disconnects -> DisconnectType]
    BY <1>8, <2>1, ConstantsTyped, TypeParts, <1>0, IcsAssumption DEF Crash
  <2>3. budget' \in 0 .. Budget
    BY <1>0, <2>1, TypeParts, IcsAssumption DEF Spend
  <2>4. TypeOK'
    BY <1>0, <2>1, <2>2, <2>3, ConstantsTyped, TypeParts, TypePartsNext
  <2>5. \A s \in Syncs : sync'[s].phase = "idle" /\ sync'[s].feed = 0
    BY <2>1 DEF NoSync
  <2>6. IdsKnown'
    BY <1>0, <2>1, <2>5 DEF LockInv, IdsKnown
  <2>7. LockTaken' /\ OneImportAtATime'
    BY <2>5 DEF LockTaken, OneImportAtATime, Working, Running
  <2> QED
    BY <2>4, <2>6, <2>7 DEF LockInv
<1> QED
  <2>1. CASE Next
    BY <2>1, <1>2, <1>3, <1>4, <1>5, <1>6, <1>7, <1>8 DEF Next, Advance, GoesOn, Around
  <2> QED
    BY <1>1, <2>1

(***************************************************************************)
(* LOCK_TTL_MS and syncStartedAt: two imports of one feed overlap only     *)
(* when a lock was taken from a sync that still ran, for any number of     *)
(* processes, urls and events, crashes and stalls included.                *)
(***************************************************************************)
THEOREM ImportsExclude == Spec => []FeedInv
<1>1. LockInv => FeedInv
  BY DEF LockInv, FeedInv
<1> QED
  BY <1>1, InitLockInv, NextLockInv, PTL DEF Spec


-----------------------------------------------------------------------------
(***************************************************************************)
(* A sync looks an event up only while it has one to import.               *)
(***************************************************************************)
LEMMA NextLookedHasMore == LockInv /\ LookedHasMore /\ [Next]_vars => LookedHasMore'
<1> SUFFICES ASSUME LockInv, LookedHasMore, [Next]_vars, NEW t \in Syncs,
                    sync'[t].phase = "looked"
             PROVE  sync'[t].todo # {}
  BY DEF LookedHasMore
<1>0. TypeOK /\ sync \in [Syncs -> SyncType] /\ sync[t] \in SyncType
  BY TypeParts DEF LockInv
<1>1. CASE sync'[t] = sync[t]
  BY <1>1 DEF LookedHasMore
<1>2. ASSUME NEW s \in Syncs,
             StartDue(s) \/ StartByHand(s) \/ \E u \in Urls : FetchNew(s, u)
      PROVE  sync'[t].todo # {}
  BY <1>0, <1>1, <1>2, Starts
<1>3. ASSUME NEW s \in Syncs, SaveFeed(s)
      PROVE  sync'[t].todo # {}
  BY <1>0, <1>1, <1>3, Saves
<1>4. ASSUME NEW s \in Syncs, AcquireLock(s)
      PROVE  sync'[t].todo # {}
  <2>1. "locked" \in Phases /\ To(s, "locked")
    BY <1>4 DEF AcquireLock, Phases
  <2> QED
    BY <1>0, <1>1, <2>1, Steps
<1>5. ASSUME NEW s \in Syncs, GoesOn(s)
      PROVE  sync'[t].todo # {}
  <2>1. CASE s # t
    BY <1>0, <1>1, <1>5, <2>1, GoingOn
  <2>2. CASE s = t
    <3>1. CASE Skip(t) \/ Succeed(t)
      BY <1>0, <3>1, Steps DEF Skip, Succeed
    <3>2. CASE ReadFeed(t)
      BY <1>0, <3>2 DEF ReadFeed, Stop, To, NoSync, SyncType
    <3>3. CASE Look(t)
      <4>1. PICK found : sync'[t] = [sync[t] EXCEPT !.phase = "looked", !.found = found]
        BY <1>0, <3>3 DEF Look
      <4> QED
        BY <1>0, <3>3, <4>1 DEF Look, SyncType
    <3>4. CASE Update(t)
      BY <1>0, <3>4, Steps DEF Update
    <3>5. CASE Create(t) \/ ArchiveLeft(t)
      <4>1. "failed" \in Phases /\ "imported" \in Phases
        BY DEF Phases
      <4> QED
        BY <1>0, <3>5, <4>1, Steps DEF Create, ArchiveLeft
    <3>6. CASE Fail(t) \/ Mail(t) \/ Disable(t)
      <4>1. ~Running(t)
        BY <3>6, <1>0 DEF Fail, Mail, Disable, Running, Stop, To, NoSync, SyncType
      <4> QED
        BY <1>0, <1>5, <2>2, <4>1, GoingOn DEF Running
    <3> QED
      BY <1>5, <2>2, <3>1, <3>2, <3>3, <3>4, <3>5, <3>6 DEF GoesOn
  <2> QED
    BY <2>1, <2>2
<1>6. CASE Around
  BY <1>0, <1>1, <1>6, GoingAround
<1>7. CASE UNCHANGED vars \/ \E d \in Disconnects : DeleteFeed(d)
  BY <1>1, <1>7 DEF DeleteFeed, vars
<1>8. CASE Crash
  BY <1>8 DEF Crash, NoSync
<1> QED
  BY <1>2, <1>3, <1>4, <1>5, <1>6, <1>7, <1>8 DEF Next, Advance, GoesOn, Around

(***************************************************************************)
(* What a step of one sync writes is of the feed that sync began with.     *)
(***************************************************************************)
LEMMA WritesOwnFeed ==
    ASSUME TypeOK, NEW s \in Syncs, GoesOn(s), NEW k \in Keys,
           k[1] # sync[s].feed \/ ~Running(s)
    PROVE  rows'[k] = rows[k]
<1>0. rows \in [Keys -> {"none", "live", "archived"}]
  BY TypeParts
<1>1. CASE Update(s) \/ Create(s)
  BY <1>0, <1>1 DEF Update, Create, NextKey, Running
<1>2. CASE ArchiveLeft(s)
  BY <1>0, <1>2 DEF ArchiveLeft, Left, Running
<1> QED
  BY <1>1, <1>2 DEF GoesOn, Skip, ReadFeed, Look, Succeed, Fail, Mail, Disable

LEMMA NextProgressKept == ImportInv /\ [Next]_vars => ProgressKept'
<1> DEFINE Done(s) ==
        /\ sync[s].phase \in {"importing", "looked"} =>
              \A e \in sync[s].body \ sync[s].todo : rows[<<feed.id, e>>] = "live"
        /\ sync[s].phase = "imported" => LiveEvents = sync[s].body
<1> SUFFICES ASSUME ImportInv, [Next]_vars, ~robbed', NEW t \in Syncs, Working(t)'
             PROVE  Done(t)'
  BY DEF ProgressKept
<1>0. /\ TypeOK /\ feed \in FeedType /\ sync \in [Syncs -> SyncType]
      /\ sync[t] \in SyncType /\ rows \in [Keys -> {"none", "live", "archived"}]
  BY TypeParts DEF ImportInv, LockInv
<1>1. ASSUME ~robbed, Working(t), sync'[t] = sync[t], feed'.id = feed.id,
             \A k \in Keys : k[1] = feed.id => rows'[k] = rows[k]
      PROVE  Done(t)'
  <2>1. Done(t)
    BY <1>1 DEF ImportInv, ProgressKept
  <2>2. feed.id \in 1 .. MaxFeeds
    BY <1>0, <1>1, IcsAssumption DEF ImportInv, LockInv, IdsKnown, Working, Running, FeedType
  <2>3. \A e \in Events : <<feed.id, e>> \in Keys
    BY <2>2 DEF Keys
  <2>4. \A e \in Events : rows'[<<feed.id, e>>] = rows[<<feed.id, e>>]
    BY <1>1, <2>3
  <2>5. LiveEvents' = LiveEvents
    BY <1>1, <2>4 DEF LiveEvents
  <2>6. sync[t].body \subseteq Events
    BY <1>0 DEF SyncType
  <2> QED
    BY <1>1, <2>1, <2>4, <2>5, <2>6
<1>2. ASSUME NEW s \in Syncs,
             StartDue(s) \/ StartByHand(s) \/ \E u \in Urls : FetchNew(s, u)
      PROVE  Done(t)'
  <2>1. /\ \A r \in Syncs \ {s} : sync'[r] = sync[r]
        /\ sync'[s].phase = "fetched" \/ sync'[s].phase = "asked"
        /\ UNCHANGED <<feed, rows, robbed>>
    BY <1>0, <1>2, Starts
  <2>2. t # s /\ Working(t)
    BY <2>1 DEF Working, Running
  <2> QED
    BY <1>1, <2>1, <2>2
<1>3. ASSUME NEW s \in Syncs, SaveFeed(s)
      PROVE  Done(t)'
  <2>1. /\ connected \in 0 .. MaxFeeds /\ connected' \in 0 .. MaxFeeds
        /\ \A r \in Syncs \ {s} : sync'[r] = sync[r]
        /\ sync'[s].phase = "asked"
        /\ \/ feed.id # 0 /\ feed'.id = feed.id
           \/ feed.id = 0 /\ feed'.id = connected' /\ connected' = connected + 1
        /\ UNCHANGED <<rows, robbed>>
    BY <1>0, <1>3, Saves, TypeParts
  <2>2. t # s /\ Running(t) /\ sync[t].feed = feed'.id
    BY <2>1 DEF Working, Running
  <2>3. sync[t].feed <= connected /\ sync[t].feed \in 0 .. MaxFeeds
    BY <1>0 DEF ImportInv, LockInv, IdsKnown, SyncType
  <2>4. feed'.id = feed.id
    BY <2>1, <2>2, <2>3
  <2> QED
    BY <1>1, <2>1, <2>2, <2>4 DEF Working
<1>4. ASSUME NEW s \in Syncs, AcquireLock(s)
      PROVE  Done(t)'
  <2>1. "locked" \in Phases /\ To(s, "locked")
    BY <1>4 DEF AcquireLock, Phases
  <2>2. /\ \A r \in Syncs \ {s} : sync'[r] = sync[r]
        /\ sync'[s].phase = "locked"
    BY <1>0, <2>1, Steps
  <2>3. feed'.id = feed.id /\ rows' = rows /\ ~robbed
    BY <1>0, <1>4 DEF AcquireLock, FeedType
  <2>4. CASE t = s
    BY <2>2, <2>4
  <2>5. CASE t # s
    BY <1>1, <2>2, <2>3, <2>5 DEF Working, Running
  <2> QED
    BY <2>4, <2>5
<1>5. ASSUME NEW s \in Syncs, GoesOn(s)
      PROVE  Done(t)'
  <2>1. /\ feed'.id = feed.id /\ ~robbed
        /\ \A r \in Syncs \ {s} : sync'[r] = sync[r]
        /\ Running(s)' => Running(s)
        /\ \/ sync'[s].feed = sync[s].feed
           \/ sync'[s].phase = "idle" /\ sync'[s].feed = 0
    BY <1>0, <1>5, GoingOn
  <2>2. Working(t)
    BY <2>1 DEF Working, Running
  <2>3. CASE t # s
    <3>1. ~Working(s)
      BY <2>1, <2>2, <2>3 DEF ImportInv, LockInv, OneImportAtATime, Working
    <3>2. \A k \in Keys : k[1] = feed.id => rows'[k] = rows[k]
      BY <1>0, <1>5, <3>1, WritesOwnFeed DEF Working
    <3> QED
      BY <1>1, <2>1, <2>2, <2>3, <3>2
  <2>4. CASE t = s
    <3>1. Done(t) /\ sync[t].feed = feed.id
      BY <2>1, <2>2 DEF ImportInv, ProgressKept, Working
    <3>2. feed.id \in 1 .. MaxFeeds
      BY <1>0, <2>2, IcsAssumption DEF ImportInv, LockInv, IdsKnown, Working, Running, FeedType
    <3>3. \A e \in Events : <<feed.id, e>> \in Keys
      BY <3>2 DEF Keys
    <3>4. sync[t].body \subseteq Events /\ sync[t].todo \subseteq Events
      BY <1>0 DEF SyncType
    <3>5. CASE Skip(t) \/ Succeed(t)
      BY <1>0, <3>5, Steps DEF Skip, Succeed
    <3>6. CASE ReadFeed(t)
      <4>1. CASE Stop(t)
        BY <1>0, <4>1, Steps
      <4>2. CASE To(t, "failed")
        <5>1. "failed" \in Phases
          BY DEF Phases
        <5> QED
          BY <1>0, <4>2, <5>1, Steps
      <4>3. ASSUME NEW body, sync' = [sync EXCEPT ![t].phase = "importing", ![t].body = body,
                                                  ![t].todo = body]
            PROVE  Done(t)'
        <5>1. sync'[t] = [sync[t] EXCEPT !.phase = "importing", !.body = body, !.todo = body]
          BY <1>0, <4>3
        <5>2. sync'[t].phase = "importing" /\ sync'[t].body = sync'[t].todo
          BY <1>0, <5>1 DEF SyncType
        <5> QED
          BY <5>2
      <4> QED
        BY <3>6, <4>1, <4>2, <4>3 DEF ReadFeed
    <3>7. CASE Look(t)
      <4>1. PICK found : sync'[t] = [sync[t] EXCEPT !.phase = "looked", !.found = found]
        BY <1>0, <3>7 DEF Look
      <4>2. /\ sync'[t].phase = "looked" /\ sync'[t].body = sync[t].body
            /\ sync'[t].todo = sync[t].todo
        BY <1>0, <4>1 DEF SyncType
      <4> QED
        BY <2>1, <3>1, <3>7, <4>2 DEF Look
    <3>8. CASE Imported(t) /\ rows' = [rows EXCEPT ![NextKey(t)] = "live"]
               /\ sync[t].phase = "looked"
      <4> DEFINE next == CHOOSE e \in sync[t].todo : TRUE
      <4>1. NextKey(t) = <<feed.id, next>> /\ NextKey(t)[2] = next
        BY <3>1 DEF NextKey
      <4>2. next \in sync[t].todo
        BY <3>8 DEF ImportInv, LookedHasMore
      <4> HIDE DEF next
      <4>3. /\ sync'[t].phase = "importing" /\ sync'[t].body = sync[t].body
            /\ sync'[t].todo = sync[t].todo \ {next}
        BY <1>0, <3>8, <4>1, Steps
      <4>4. \A e \in Events : e = next \/ rows[<<feed.id, e>>] = "live"
                              => rows'[<<feed.id, e>>] = "live"
        BY <1>0, <3>3, <3>8, <4>1
      <4> QED
        BY <2>1, <3>1, <3>4, <3>8, <4>3, <4>4
    <3>9. CASE Update(t)
      BY <3>8, <3>9 DEF Update
    <3>10. CASE Create(t)
      <4>1. CASE To(t, "failed")
        <5>1. "failed" \in Phases
          BY DEF Phases
        <5> QED
          BY <1>0, <4>1, <5>1, Steps
      <4> QED
        BY <3>8, <3>10, <4>1 DEF Create
    <3>11. CASE ArchiveLeft(t)
      <4>1. "imported" \in Phases /\ To(t, "imported")
        BY <3>11 DEF ArchiveLeft, Phases
      <4>2. sync'[t].phase = "imported" /\ sync'[t].body = sync[t].body
        BY <1>0, <4>1, Steps
      <4>3. \A e \in sync[t].body : rows[<<feed.id, e>>] = "live"
        BY <3>1, <3>11 DEF ArchiveLeft
      <4>4. \A e \in Events : rows'[<<feed.id, e>>] = "live" <=> e \in sync[t].body
        <5> SUFFICES ASSUME NEW e \in Events
                     PROVE  rows'[<<feed.id, e>>] = "live" <=> e \in sync[t].body
          OBVIOUS
        <5>1. <<feed.id, e>> \in Left(t)
                  <=> rows[<<feed.id, e>>] = "live" /\ e \notin sync[t].body
          BY <3>1, <3>3 DEF Left
        <5>2. rows'[<<feed.id, e>>] =
                  IF <<feed.id, e>> \in Left(t) THEN "archived" ELSE rows[<<feed.id, e>>]
          BY <3>3, <3>11 DEF ArchiveLeft
        <5> QED
          BY <4>3, <5>1, <5>2
      <4>5. LiveEvents' = {e \in Events : rows'[<<feed.id, e>>] = "live"}
        BY <2>1, <3>2 DEF LiveEvents
      <4>6. LiveEvents' = sync[t].body
        BY <3>4, <4>4, <4>5
      <4> QED
        BY <4>2, <4>6
    <3>12. CASE Fail(t) \/ Mail(t) \/ Disable(t)
      <4>1. sync[t].phase # "looked" /\ sync[t].phase # "importing"
                /\ sync[t].phase # "imported"
        BY <3>12 DEF Fail, Mail, Disable
      <4>2. ~Running(t)'
        BY <1>0, <3>12 DEF Fail, Mail, Disable, Running, Stop, To, NoSync, SyncType
      <4> QED
        BY <4>2 DEF Working
    <3> QED
      BY <1>5, <2>4, <3>5, <3>6, <3>7, <3>9, <3>10, <3>11, <3>12 DEF GoesOn
  <2> QED
    BY <2>3, <2>4
<1>6. CASE Around
  BY <1>0, <1>1, <1>6, GoingAround DEF Working, Running
<1>7. CASE \E d \in Disconnects : DeleteFeed(d)
  <2>1. feed'.id = 0 /\ sync' = sync
    BY <1>7 DEF DeleteFeed, NoFeed
  <2> QED
    BY <2>1 DEF ImportInv, LockInv, IdsKnown, Working, Running
<1>8. CASE Crash
  BY <1>8 DEF Crash, NoSync, Working, Running
<1>9. CASE UNCHANGED vars
  BY <1>1, <1>9 DEF vars, Working, Running
<1> QED
  BY <1>2, <1>3, <1>4, <1>5, <1>6, <1>7, <1>8, <1>9 DEF Next, Advance, GoesOn, Around

(***************************************************************************)
(* upsertImportedEvents: a sync whose lock nobody took leaves live exactly *)
(* what its calendar held, for any number of syncs, urls and events.       *)
(***************************************************************************)
THEOREM SuccessesAreExact == Spec => SuccessIsExact
<1>1. Init => ImportInv
  BY InitLockInv
     DEF Init, ImportInv, LookedHasMore, ProgressKept, Working, Running, NoSync
<1>2. ImportInv /\ [Next]_vars => ImportInv'
  BY NextLockInv, NextLookedHasMore, NextProgressKept DEF ImportInv
<1>3. ImportInv => \A s \in Syncs :
          Succeed(s) /\ sync[s].feed = feed.id /\ ~robbed => LiveEvents = sync[s].body
  BY DEF ImportInv, ProgressKept, Working, Running, Succeed
<1> QED
  BY <1>1, <1>2, <1>3, PTL DEF Spec, SuccessIsExact

-----------------------------------------------------------------------------
(***************************************************************************)
(* What a disconnection has seen is saved from the cascade.                *)
(***************************************************************************)
LEMMA NextSeenKept == LockInv /\ SeenKept /\ [Next]_vars => SeenKept'
<1> SUFFICES ASSUME LockInv, SeenKept, [Next]_vars, NEW d \in Disconnects
             PROVE  Saved(d)'
  BY DEF SeenKept
<1>0. /\ TypeOK /\ rows \in [Keys -> {"none", "live", "archived"}] /\ Saved(d)
      /\ disconnect \in [Disconnects -> DisconnectType] /\ disconnect[d] \in DisconnectType
      /\ disconnect[d].seen \subseteq Keys /\ disconnect[d].feed \in 0 .. MaxFeeds
      /\ feed \in FeedType /\ feed.id \in 0 .. MaxFeeds /\ connected \in 0 .. MaxFeeds
      /\ feed.id <= connected
  BY TypeParts DEF LockInv, IdsKnown, SeenKept, DisconnectType, FeedType
<1>1. ASSUME disconnect'[d] = disconnect[d], connected' = connected, feed'.id = feed.id,
             \A k \in Keys : rows[k] # "none" => rows'[k] # "none"
      PROVE  Saved(d)'
  BY <1>0, <1>1 DEF Saved
<1>2. ASSUME disconnect'[d].seen = {}, disconnect'[d].feed \in {0, feed.id},
             connected' = connected
      PROVE  Saved(d)'
  BY <1>0, <1>2 DEF Saved
<1>3. ASSUME NEW s \in Syncs,
             StartDue(s) \/ StartByHand(s) \/ \E u \in Urls : FetchNew(s, u)
      PROVE  Saved(d)'
  BY <1>0, <1>1, <1>3, Starts
<1>4. ASSUME NEW s \in Syncs, SaveFeed(s)
      PROVE  Saved(d)'
  <2>1. /\ UNCHANGED <<rows, disconnect>> /\ connected' \in 0 .. MaxFeeds
        /\ \/ feed'.id = feed.id /\ connected' = connected
           \/ feed'.id = connected' /\ connected' = connected + 1
    BY <1>0, <1>4, Saves
  <2>2. CASE feed'.id = feed.id /\ connected' = connected
    BY <1>1, <2>1, <2>2
  <2>3. CASE feed'.id = connected' /\ connected' = connected + 1
    <3>1. disconnect[d].feed <= connected' /\ feed'.id # disconnect[d].feed
      BY <1>0, <2>3 DEF Saved
    <3> QED
      BY <1>0, <2>1, <3>1 DEF Saved
  <2> QED
    BY <2>1, <2>2, <2>3
<1>5. ASSUME NEW s \in Syncs, AcquireLock(s)
      PROVE  Saved(d)'
  BY <1>0, <1>1, <1>5 DEF AcquireLock, FeedType
<1>6. ASSUME NEW s \in Syncs, GoesOn(s)
      PROVE  Saved(d)'
  <2>1. feed'.id = feed.id /\ connected' = connected
    BY <1>0, <1>6, GoingOn
  <2>2. disconnect' = disconnect
    BY <1>6 DEF GoesOn, Skip, ReadFeed, Look, Update, Create, ArchiveLeft, Succeed, Fail, Mail,
                Disable
  <2>3. \A k \in Keys : rows[k] # "none" => rows'[k] # "none"
    <3>1. CASE Update(s) \/ Create(s)
      BY <1>0, <3>1 DEF Update, Create
    <3>2. CASE ArchiveLeft(s)
      BY <1>0, <3>2 DEF ArchiveLeft
    <3> QED
      BY <1>6, <3>1, <3>2 DEF GoesOn, Skip, ReadFeed, Look, Succeed, Fail, Mail, Disable
  <2> QED
    BY <1>1, <2>1, <2>2, <2>3
<1>7. ASSUME NEW e \in Disconnects,
             ReadToDisconnect(e) \/ ArchiveAll(e) \/ DetachAll(e) \/ GiveUp(e)
      PROVE  Saved(d)'
  <2>1. feed' = feed /\ connected' = connected /\ rows' = rows
    BY <1>7 DEF ReadToDisconnect, ArchiveAll, DetachAll, GiveUp
  <2>2. CASE e # d
    BY <1>0, <1>1, <1>7, <2>1, <2>2 DEF ReadToDisconnect, ArchiveAll, DetachAll, GiveUp
  <2>3. CASE e = d /\ (ReadToDisconnect(e) \/ GiveUp(e))
    BY <1>0, <1>2, <2>1, <2>3 DEF ReadToDisconnect, GiveUp, Disconnecting
  <2>4. CASE e = d /\ ArchiveAll(e)
    <3> DEFINE mine == OfFeed(disconnect[d].feed)
               live == {k \in mine : rows[k] = "live"}
    <3>1. disconnect' = [disconnect EXCEPT ![d].phase = "archived", ![d].seen = mine,
                                           ![d].archive = live]
      BY <2>4 DEF ArchiveAll
    <3>2. /\ mine # {} => disconnect[d].feed = feed.id
          /\ \A k \in mine : k[1] = disconnect[d].feed /\ rows[k] # "none" /\ k[1] # 0
      BY IcsAssumption DEF OfFeed, Keys
    <3> HIDE DEF mine, live
    <3>3. /\ disconnect'[d].phase = "archived" /\ disconnect'[d].seen = mine
          /\ disconnect'[d].feed = disconnect[d].feed
      BY <1>0, <3>1 DEF DisconnectType
    <3> QED
      BY <1>0, <2>1, <3>2, <3>3 DEF Saved
  <2>5. CASE e = d /\ DetachAll(e)
    <3> DEFINE mine == OfFeed(disconnect[d].feed)
    <3>1. disconnect' = [disconnect EXCEPT ![d].phase = "detached", ![d].detach = mine]
      BY <2>5 DEF DetachAll
    <3>2. feed.id = disconnect[d].feed => disconnect[d].seen \subseteq mine
      BY <1>0 DEF Saved, OfFeed
    <3> HIDE DEF mine
    <3>3. /\ disconnect'[d].phase = "detached" /\ disconnect'[d].seen = disconnect[d].seen
          /\ disconnect'[d].feed = disconnect[d].feed /\ disconnect'[d].detach = mine
      BY <1>0, <3>1 DEF DisconnectType
    <3> QED
      BY <1>0, <2>1, <3>2, <3>3 DEF Saved
  <2> QED
    BY <1>7, <2>2, <2>3, <2>4, <2>5
<1>8. ASSUME NEW e \in Disconnects, DeleteFeed(e)
      PROVE  Saved(d)'
  <2>1. connected' = connected /\ feed'.id = 0
    BY <1>8 DEF DeleteFeed, NoFeed
  <2>2. CASE e = d
    BY <1>0, <1>2, <1>8, <2>1, <2>2 DEF DeleteFeed, Disconnecting
  <2>3. CASE e # d
    BY <1>0, <1>8, <2>1, <2>3 DEF DeleteFeed, Saved
  <2> QED
    BY <2>2, <2>3
<1>9. CASE Crash
  <2>1. connected' = connected /\ feed'.id = feed.id /\ rows' = rows
    BY <1>9 DEF Crash
  <2>2. CASE disconnect[d].phase = "idle"
    BY <1>1, <1>9, <2>1, <2>2 DEF Crash
  <2>3. CASE disconnect[d].phase # "idle"
    BY <1>0, <1>2, <1>9, <2>1, <2>3 DEF Crash, Disconnecting
  <2> QED
    BY <2>2, <2>3
<1>10. CASE BecomeDue \/ BecomeOverdue \/ LockExpires \/ UNCHANGED vars
             \/ \E u \in Urls : ChangeCalendar(u) \/ HostFails(u)
  BY <1>0, <1>1, <1>10
     DEF BecomeDue, BecomeOverdue, LockExpires, ChangeCalendar, HostFails, vars, FeedType
<1> QED
  BY <1>3, <1>4, <1>5, <1>6, <1>7, <1>8, <1>9, <1>10 DEF Next, Advance, GoesOn

(***************************************************************************)
(* deleteOrganizationFeed: an event of the feed that was read, there when  *)
(* the transaction began, is not deleted when it commits, however many     *)
(* syncs and disconnections run, whoever has the lock, whichever feed is   *)
(* connected meanwhile, and however often the process stops.               *)
(***************************************************************************)
THEOREM DisconnectingKeeps == Spec => KeptOnDisconnect
<1> DEFINE Kept == \A d \in Disconnects, k \in Keys :
                       disconnect'[d].phase = "done" /\ rows[k] # "none" /\ rows'[k] = "none"
                       => k \notin disconnect[d].seen
<1>1. Init => LockInv /\ SeenKept
  <2>1. Init => SeenKept
    BY IcsAssumption, InitLockInv, TypeParts
       DEF Init, SeenKept, Saved, Disconnecting, LockInv
  <2> QED BY <2>1, InitLockInv
<1>2. LockInv /\ SeenKept /\ [Next]_vars => (LockInv /\ SeenKept)'
  BY NextLockInv, NextSeenKept
<1>3. LockInv /\ SeenKept /\ [Next]_vars => [Kept]_vars
  <2> SUFFICES ASSUME LockInv, SeenKept, [Next]_vars, NEW d \in Disconnects, NEW k \in Keys,
                      disconnect'[d].phase = "done", rows[k] # "none", rows'[k] = "none",
                      k \in disconnect[d].seen
               PROVE  FALSE
    OBVIOUS
  <2>0. TypeOK /\ Saved(d) /\ rows \in [Keys -> {"none", "live", "archived"}]
        /\ disconnect \in [Disconnects -> DisconnectType]
    BY TypeParts DEF LockInv, SeenKept
  <2>1. disconnect[d].phase \in {"archived", "detached"} /\ disconnect'[d] # disconnect[d]
    BY <2>0 DEF Saved
  <2>2. ASSUME NEW e \in Disconnects, DeleteFeed(e)
        PROVE  FALSE
    <3>1. e = d
      BY <2>0, <2>1, <2>2 DEF DeleteFeed
    <3>2. k[1] = feed.id /\ k \notin disconnect[d].archive /\ k \notin disconnect[d].detach
      BY <2>2, <3>1 DEF DeleteFeed
    <3>3. k \in disconnect[d].detach
      BY <2>0, <2>2, <3>1, <3>2 DEF Saved, DeleteFeed
    <3> QED
      BY <3>2, <3>3
  <2>3. ASSUME NEW s \in Syncs, Advance(s)
        PROVE  FALSE
    BY <2>1, <2>3 DEF Advance, SaveFeed, AcquireLock, Skip, ReadFeed, Look, Update, Create,
                ArchiveLeft, Succeed, Fail, Mail, Disable
  <2>4. CASE rows' = rows
    BY <2>4
  <2> QED
    BY <2>2, <2>3, <2>4 DEF Next, FetchNew, StartDue, StartByHand, ReadToDisconnect, ArchiveAll,
        DetachAll, GiveUp, ChangeCalendar, HostFails, BecomeDue, BecomeOverdue, LockExpires, Crash,
        vars
<1> QED
  BY <1>1, <1>2, <1>3, PTL DEF Spec, KeptOnDisconnect

=============================================================================
