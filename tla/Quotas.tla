------------------------------- MODULE Quotas -------------------------------
(***************************************************************************)
(* What is rationed: calls of MCP tools, reports of organizations and the  *)
(* mention that goes with them, updates mailed to the participants of an   *)
(* event, and active MCP keys.  Some of it is counted in Redis, in windows *)
(* that start with the first use, and some in rows behind a lock.          *)
(*                                                                         *)
(* Time goes in ticks, between any two steps.  Redis can be out of reach,  *)
(* and can count a command whose answer comes too late.                    *)
(***************************************************************************)
EXTENDS Integers, Sequences, FiniteSets

CONSTANTS Users, Organizations, Events, Requests,
          Limit,                   \* action -> what one window admits
          Window,                  \* action -> ticks
          Hour, Day,               \* ticks
          MaxKeys,                 \* MCP_MAX_ACTIVE_KEYS_PER_USER
          MaxUpdates,              \* MAX_EMAIL_UPDATES_PER_DAY
          Recipients,              \* how many an update may go to
          MaxTime, MaxStarts, MaxRows, Lifetime  \* bounds of the model

Actions == {"mcp.tool", "organization.report", "mail.recipient", "mention"}
FailOpen == {"organization.report", "mail.recipient"}

ASSUME QuotasAssumption ==
    /\ Limit \in [Actions -> Nat \ {0}] /\ Limit["mention"] = 1
    /\ Window \in [Actions -> Nat \ {0}] /\ Window["mention"] = Hour
    /\ {Hour, Day, MaxKeys, MaxUpdates, Lifetime} \subseteq Nat \ {0}
    /\ Recipients \subseteq Nat \ {0}
    /\ {MaxTime, MaxStarts} \subseteq Nat /\ MaxRows \in Nat \ {0}
    /\ Users # {}

VARIABLES now,
          store,     \* counters in Redis: action and principal -> count, reset
          reachable,
          keys,      \* mcp_api_keys
          reports,   \* organization_reports: times, by user and organization
          updates,   \* event_updates with mail: times, by event
          locked,    \* rows held FOR UPDATE
          request,
          uses,      \* history: times of the tool calls that ran, by key
          pings,     \* history: times of the mentions
          starts     \* requests, revocations and outages so far

counters == <<store, reachable>>
rows == <<keys, reports, updates>>
history == <<uses, pings>>
vars == <<now, store, reachable, keys, reports, updates, locked, request, uses, pings, starts>>

KeyIds == 1 .. MaxRows
Counters == ({"mcp.tool"} \X KeyIds) \union
            ({"organization.report", "mail.recipient"} \X Users) \union {<<"mention", "all">>}
Unused == [count |-> 0, reset |-> 0]
Rows == Organizations \union Events
Idle == [phase |-> "idle", user |-> CHOOSE u \in Users : TRUE, on |-> CHOOSE o \in Rows : TRUE,
         key |-> 0, tries |-> 0, seen |-> {}, at |-> 0]
Phases == {"idle", "report", "charge", "insert", "alert", "update", "reserve",
           "mail", "tool", "begin", "commit"}

TypeOK ==
    /\ now \in 0 .. MaxTime
    /\ \A k \in Counters : /\ store[k].count \in Nat
                           /\ store[k].reset \in 0 .. now + Window[k[1]]
    /\ reachable \in BOOLEAN
    /\ keys \subseteq [id : KeyIds, user : Users, expires : Nat, revoked : BOOLEAN]
    /\ reports \in [Users \X Organizations -> Seq(0 .. now)]
    /\ updates \in [Events -> Seq(0 .. now)]
    /\ locked \subseteq Rows
    /\ \A r \in Requests : request[r].phase \in Phases /\ request[r].tries \in 0 .. 2
    /\ uses \in [KeyIds -> Seq(0 .. now)] /\ pings \in Seq(0 .. now)
    /\ starts \in 0 .. MaxStarts

Init ==
    /\ now = 0
    /\ store = [k \in Counters |-> Unused]
    /\ reachable = TRUE
    /\ keys \in {{}, {[id |-> 1, user |-> Idle.user, expires |-> Lifetime, revoked |-> FALSE]}}
    /\ reports = [k \in Users \X Organizations |-> <<>>]
    /\ updates = [e \in Events |-> <<>>]
    /\ locked = {}
    /\ request = [r \in Requests |-> Idle]
    /\ uses = [i \in KeyIds |-> <<>>]
    /\ pings = <<>>
    /\ starts = 0

Spend == starts < MaxStarts /\ starts' = starts + 1
To(r, phase) == request' = [request EXCEPT ![r].phase = phase]
Done(r) == request' = [request EXCEPT ![r] = Idle]

-----------------------------------------------------------------------------
(* The counters.                                                           *)

(* INCREMENT_WITHIN_WINDOW, and the same in memory.                        *)
Counted(k, cost) ==
    IF store[k].reset <= now
    THEN [count |-> cost, reset |-> now + Window[k[1]]]
    ELSE [store[k] EXCEPT !.count = @ + cost]

(* Mutant: the count before this use is compared.                          *)
AdmitsLate(k, cost) == Counted(k, cost).count - cost <= Limit[k[1]]
(* AbuseBudgetService.consume, when the store has answered.                *)
Admits(k, cost) == Counted(k, cost).count <= Limit[k[1]]

(* Every action that the store cannot decide goes by its fail mode.        *)
Charge(k, cost, admitted) ==
    \/ /\ reachable
       /\ admitted = Admits(k, cost)
       /\ store' = [store EXCEPT ![k] = Counted(k, cost)]
    \/ /\ ~reachable
       /\ admitted = (k[1] \in FailOpen)
       /\ \/ UNCHANGED store
          \/ store' = [store EXCEPT ![k] = Counted(k, cost)]

-----------------------------------------------------------------------------
(* A tool call over MCP.                                                   *)

Start(r) == request[r].phase = "idle" /\ Spend

(* verify, by the handler.                                                 *)
Verify(r, k) ==
    /\ Start(r)
    /\ ~k.revoked /\ k.expires > now
    /\ request' = [request EXCEPT ![r] = [Idle EXCEPT !.phase = "tool", !.key = k.id]]
    /\ UNCHANGED <<now, counters, rows, locked, history>>

(* chargeToolCall, then the tool.                                          *)
CallTool(r) ==
    /\ request[r].phase = "tool"
    /\ \E admitted \in BOOLEAN :
          /\ Charge(<<"mcp.tool", request[r].key>>, 1, admitted)
          /\ uses' = IF admitted THEN [uses EXCEPT ![request[r].key] = Append(@, now)] ELSE uses
    /\ Done(r)
    /\ UNCHANGED <<now, reachable, rows, locked, pings, starts>>

-----------------------------------------------------------------------------
(* Keys: create in a serializable transaction, tried three times.          *)

AskKey(r, u) ==
    /\ Start(r)
    /\ request' = [request EXCEPT ![r] = [Idle EXCEPT !.phase = "begin", !.user = u, !.at = now]]
    /\ UNCHANGED <<now, counters, rows, locked, history>>

Active(u, t) == {k \in keys : k.user = u /\ ~k.revoked /\ k.expires > t}

CountKeys(r) ==
    /\ request[r].phase = "begin"
    /\ IF Cardinality(Active(request[r].user, request[r].at)) >= MaxKeys
       THEN Done(r)
       ELSE request' = [request EXCEPT ![r].phase = "commit", ![r].seen = {k.id : k \in keys}]
    /\ UNCHANGED <<now, counters, rows, locked, history, starts>>

(* Of transactions that counted the same keys one can commit.              *)
CanCommit(r) ==
    {k.id : k \in {l \in keys : l.user = request[r].user}} \subseteq request[r].seen

(* Postgres may also refuse one that could have committed.                 *)
CommitKey(r) ==
    /\ request[r].phase = "commit"
    /\ \/ /\ CanCommit(r)
          /\ Cardinality(keys) < MaxRows     \* bound: MaxRows
          /\ keys' = keys \union {[id |-> CHOOSE i \in KeyIds : \A k \in keys : k.id # i,
                                   user |-> request[r].user,
                                   expires |-> request[r].at + Lifetime, revoked |-> FALSE]}
          /\ Done(r)
       \/ /\ UNCHANGED keys
          /\ IF request[r].tries < 2
             THEN request' = [request EXCEPT ![r].phase = "begin", ![r].tries = @ + 1]
             ELSE Done(r)
    /\ UNCHANGED <<now, counters, reports, updates, locked, history, starts>>

Revoke(k) ==
    /\ ~k.revoked
    /\ Spend
    /\ keys' = (keys \ {k}) \union {[k EXCEPT !.revoked = TRUE]}
    /\ UNCHANGED <<now, counters, reports, updates, locked, request, history>>

-----------------------------------------------------------------------------
(* reportOrganization: the row is locked and the last report looked for;   *)
(* the insert is charged first, inside the transaction.                    *)

AskReport(r, u, o) ==
    /\ Start(r)
    /\ request' = [request EXCEPT ![r] = [Idle EXCEPT !.phase = "report", !.user = u, !.on = o]]
    /\ UNCHANGED <<now, counters, rows, locked, history>>

CanReport(u, o) ==
    LET made == reports[<<u, o>>] IN made = <<>> \/ made[Len(made)] + Hour <= now

LockOrganization(r) ==
    /\ request[r].phase = "report"
    /\ request[r].on \notin locked
    /\ IF CanReport(request[r].user, request[r].on)
       THEN To(r, "charge") /\ locked' = locked \union {request[r].on}
       ELSE Done(r) /\ UNCHANGED locked
    /\ UNCHANGED <<now, counters, rows, history, starts>>

(* Mutant: a refusal that does not roll back.                              *)
ChargeAndHold(r) ==
    /\ request[r].phase = "charge"
    /\ \E admitted \in BOOLEAN :
          /\ Charge(<<"organization.report", request[r].user>>, 1, admitted)
          /\ IF admitted THEN To(r, "insert") ELSE Done(r)
    /\ UNCHANGED <<now, reachable, rows, locked, history, starts>>
ChargeReport(r) ==
    /\ request[r].phase = "charge"
    /\ \E admitted \in BOOLEAN :
          /\ Charge(<<"organization.report", request[r].user>>, 1, admitted)
          /\ IF admitted THEN To(r, "insert") /\ UNCHANGED locked
             ELSE Done(r) /\ locked' = locked \ {request[r].on}
    /\ UNCHANGED <<now, reachable, rows, history, starts>>

InsertReport(r) ==
    /\ request[r].phase = "insert"
    /\ reports' = [reports EXCEPT ![<<request[r].user, request[r].on>>] = Append(@, now)]
    /\ locked' = locked \ {request[r].on}
    /\ To(r, "alert")
    /\ UNCHANGED <<now, counters, keys, updates, history, starts>>

(* send: the alert goes out in any case, with a mention if mayMention.     *)
Alert(r) ==
    /\ request[r].phase = "alert"
    /\ \E admitted \in BOOLEAN :
          /\ Charge(<<"mention", "all">>, 1, admitted)
          /\ pings' = IF admitted THEN Append(pings, now) ELSE pings
    /\ Done(r)
    /\ UNCHANGED <<now, reachable, rows, locked, uses, starts>>

-----------------------------------------------------------------------------
(* sendUpdateToEventParticipants: the slot is reserved behind a lock, and  *)
(* the mail charged for its recipients and sent after that.                *)

AskUpdate(r, u, e) ==
    /\ Start(r)
    /\ request' = [request EXCEPT ![r] = [Idle EXCEPT !.phase = "update", !.user = u, !.on = e]]
    /\ UNCHANGED <<now, counters, rows, locked, history>>

SentInLastDay(e) == Cardinality({i \in DOMAIN updates[e] : updates[e][i] >= now - Day})

CountUpdates(r) ==
    /\ request[r].phase = "update"
    /\ request[r].on \notin locked
    /\ IF SentInLastDay(request[r].on) < MaxUpdates
       THEN To(r, "reserve") /\ locked' = locked \union {request[r].on}
       ELSE Done(r) /\ UNCHANGED locked
    /\ UNCHANGED <<now, counters, rows, history, starts>>

Reserve(r) ==
    /\ request[r].phase = "reserve"
    /\ updates' = [updates EXCEPT ![request[r].on] = Append(@, now)]
    /\ locked' = locked \ {request[r].on}
    /\ To(r, "mail")
    /\ UNCHANGED <<now, counters, keys, reports, history, starts>>

(* A refusal burns the slot.  Who is going is read again for the mail.     *)
SendMail(r) ==
    /\ request[r].phase = "mail"
    /\ \/ UNCHANGED store     \* nobody to mail
       \/ \E recipients \in Recipients, admitted \in BOOLEAN :
             Charge(<<"mail.recipient", request[r].user>>, recipients, admitted)
    /\ Done(r)
    /\ UNCHANGED <<now, reachable, rows, locked, history, starts>>

-----------------------------------------------------------------------------
(* Redis drops what has expired.                                           *)
Tick ==
    /\ now < MaxTime
    /\ now' = now + 1
    /\ store' = [k \in Counters |-> IF store[k].reset <= now' THEN Unused ELSE store[k]]
    /\ UNCHANGED <<reachable, rows, locked, request, history, starts>>

ReachOrLose ==
    /\ Spend
    /\ reachable' = ~reachable
    /\ UNCHANGED <<now, store, rows, locked, request, history>>

Work(r) ==
    \/ CallTool(r) \/ CountKeys(r) \/ CommitKey(r)
    \/ LockOrganization(r) \/ ChargeReport(r) \/ InsertReport(r) \/ Alert(r)
    \/ CountUpdates(r) \/ Reserve(r) \/ SendMail(r)

Ask(r) ==
    \/ \E k \in keys : Verify(r, k)
    \/ \E u \in Users : \/ AskKey(r, u)
                        \/ \E o \in Organizations : AskReport(r, u, o)
                        \/ \E e \in Events : AskUpdate(r, u, e)

Next ==
    \/ \E r \in Requests : Work(r) \/ Ask(r)
    \/ \E k \in keys : Revoke(k)
    \/ Tick \/ ReachOrLose

Spec == Init /\ [][Next]_vars
FairSpec == Spec /\ WF_vars(\E r \in Requests : Work(r))

-----------------------------------------------------------------------------
(* Creations at the same time do not take a user over the limit of active  *)
(* keys; the count of a retry is by the time of the first try.             *)
ActiveKeysBounded == \A u \in Users : Cardinality(Active(u, now)) <= MaxKeys

(* What fails closed is counted: within the window that runs, no more      *)
(* calls ran than the store has admitted, also while it was out of reach.  *)
ToolCallsBounded ==
    \A i \in KeyIds :
       LET counter == store[<<"mcp.tool", i>>]
           ran == {j \in DOMAIN uses[i] : uses[i][j] >= counter.reset - Window["mcp.tool"]}
       IN counter.reset > now =>
             Cardinality(ran) <= counter.count /\ Cardinality(ran) <= Limit["mcp.tool"]

(* A user reports an organization once an hour, and not twice at a time.   *)
ReportsApart ==
    \A k \in Users \X Organizations : \A i \in 2 .. Len(reports[k]) :
       reports[k][i] >= reports[k][i - 1] + Hour

(* The channel is mentioned once an hour, whoever reports what.            *)
PingsApart == \A i \in 2 .. Len(pings) : pings[i] >= pings[i - 1] + Hour

(* No more updates of an event are mailed in any day than the limit, with  *)
(* organizers sending at the same time.                                    *)
UpdatesBounded ==
    \A e \in Events : \A i \in DOMAIN updates[e] :
       i > MaxUpdates => updates[e][i] > updates[e][i - MaxUpdates] + Day

(* Every limit holds, though requests overlap and the store that counts    *)
(* them is lost and found again (AbuseBudgetService, McpApiKeyService,     *)
(* MentionCooldown, report, sendUpdateToEventParticipants).                *)
LimitsHold ==
    /\ TypeOK
    /\ ActiveKeysBounded /\ ToolCallsBounded
    /\ ReportsApart /\ PingsApart /\ UpdatesBounded

(* Every request is answered and gives its row back, refused ones too.     *)
RequestsEnd == []<>(locked = {} /\ \A r \in Requests : request[r].phase = "idle")
=============================================================================
