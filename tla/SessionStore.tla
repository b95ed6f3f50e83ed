---------------------------- MODULE SessionStore ----------------------------
(***************************************************************************)
(* BoundedTtlSessionStore (oauth-session.ts): the sessions of logins under *)
(* way, bounded in time and in number. entries is the Map in its order of  *)
(* iteration, the stalest write first.                                     *)
(***************************************************************************)
EXTENDS Naturals, Functions, Places

CONSTANTS
    Sids,
    MaxEntries,  \* MAX_OAUTH_SESSIONS
    Ttl,         \* OAUTH_SESSION_TTL_MS
    MaxClock     \* bound of the model

ASSUME StoreAssumption == MaxEntries \in Nat \ {0} /\ Ttl \in Nat \ {0}

VARIABLES
    entries,     \* a sequence of [sid, expiresAt]
    clock,
    destroyed    \* the sids the last call asked to drop

storeVars == <<entries, clock, destroyed>>

SidsOf(es) == {e.sid : e \in Range(es)}
Live(e) == e.expiresAt > clock
Dropping(es, dropped) == Pick(es, {i \in DOMAIN es : es[i].sid \notin dropped})

StoreInit == entries = <<>> /\ clock = 0 /\ destroyed = {}

(* The first n of the positions in at. *)
FirstOf(at, n) == {i \in at : Cardinality({j \in at : j < i}) < n}

(* Mutant: the stalest entry goes, though others have expired. *)
DropStalest(es) ==
    IF Len(es) <= MaxEntries THEN es ELSE SubSeq(es, Len(es) - MaxEntries + 1, Len(es))

(* Expired entries go first, then the stalest, until the limit is met. *)
enforceLimit(es) ==
    LET over == IF Len(es) <= MaxEntries THEN 0 ELSE Len(es) - MaxEntries
        expired == FirstOf({i \in DOMAIN es : ~Live(es[i])}, over)
        rest == FirstOf(DOMAIN es \ expired, over - Cardinality(expired))
    IN  Pick(es, DOMAIN es \ (expired \cup rest))

set(sid) ==
    /\ entries' = enforceLimit(Append(Dropping(entries, {sid}),
                                      [sid |-> sid, expiresAt |-> clock + Ttl]))
    /\ destroyed' = {}
    /\ UNCHANGED clock

get(sid) ==
    /\ entries' = Pick(entries, {i \in DOMAIN entries : entries[i].sid # sid \/ Live(entries[i])})
    /\ destroyed' = {}
    /\ UNCHANGED clock

touch(sid) ==
    /\ entries' = [i \in DOMAIN entries |->
                      IF entries[i].sid = sid
                      THEN [sid |-> sid, expiresAt |-> clock + Ttl] ELSE entries[i]]
    /\ destroyed' = {}
    /\ UNCHANGED clock

destroy(sid) ==
    /\ entries' = Dropping(entries, {sid})
    /\ destroyed' = {sid}
    /\ UNCHANGED clock

StoreTick == clock < MaxClock /\ clock' = clock + 1 /\ UNCHANGED <<entries, destroyed>>

StoreNext ==
    \/ \E sid \in Sids : set(sid) \/ get(sid) \/ touch(sid) \/ destroy(sid)
    \/ StoreTick

StoreSpec == StoreInit /\ [][StoreNext]_storeVars
-----------------------------------------------------------------------------
(***************************************************************************)
(* A login under way is lost only to a full store of younger logins (set,  *)
(* enforceLimit): the store keeps one entry of a session and no more than  *)
(* its limit, and when a call drops a live entry nobody destroyed, no      *)
(* expired entry remains, the store is full, and whatever was older is     *)
(* gone too, but for the one the call wrote.                               *)
(***************************************************************************)
LostOnlyToYounger ==
    [][/\ Len(entries') <= MaxEntries
       /\ Cardinality(SidsOf(entries')) = Len(entries')
       /\ \A i \in DOMAIN entries :
             entries[i].sid \notin SidsOf(entries') \cup destroyed' /\ Live(entries[i]) =>
                /\ Len(entries') = MaxEntries
                /\ \A e \in Range(entries') : e.expiresAt > clock
                /\ \A j \in 1..(i - 1) :
                      \/ entries[j].sid \notin SidsOf(entries')
                      \/ entries[j].sid = entries'[MaxEntries].sid]_storeVars
=============================================================================
