------------------------------ MODULE Audience ------------------------------
(***************************************************************************)
(* The followers of one organization (follower.service.ts) and what its    *)
(* analytics say of them and of who comes to its events                    *)
(* (organization-analytics.service.ts).                                    *)
(*                                                                         *)
(* Following is a row and an entry of the append-only log, written in one  *)
(* transaction; the row goes with its account, the log knows no account.   *)
(* Time passes in ticks, several to a day. past and departed are history   *)
(* the properties compare the log with.                                    *)
(***************************************************************************)
EXTENDS Sequences, Sums

CONSTANTS
    Fans,           \* people who may follow the organization
    TicksPerDay,    \* MILLISECONDS_PER_DAY
    FixedWindows,   \* the windows of 1, 7 and 30 days
    Periods,        \* ANALYTICS_PERIOD_DAYS
    MaxNow,         \* bound of the model
    Happenings,     \* its events in the period
    CapacityOf,     \* their capacity, 0 for none
    Attendances     \* what the row of a person on an event may be

ASSUME AudienceAssumption ==
    /\ IsFiniteSet(Fans) /\ IsFiniteSet(Happenings)
    /\ TicksPerDay \in Nat \ {0} /\ MaxNow \in Nat
    /\ FixedWindows # {} /\ IsFiniteSet(FixedWindows) /\ FixedWindows \subseteq Nat \ {0}
    /\ Periods \subseteq Nat \ {0}
    /\ Attendances \subseteq {"none", "GOING", "LAST_MINUTE", "NOT_GOING", "WAITLISTED"}

VARIABLES
    follower,       \* the tick each fan followed at; the set of it, or {}
    accounts,       \* the fans that have an account
    log,            \* follows minus unfollows logged at each tick
    tick,           \* now
    past,           \* the number of followers there were before each tick
    departed,       \* followers who went with their account at each tick
    attendance      \* the registration of each fan on each event

followVars == <<follower, accounts, log, tick, past, departed>>
audienceVars == <<followVars, attendance>>

Ticks == 0..MaxNow
Followers == {u \in Fans : follower[u] # {}}

AudienceInit ==
    /\ follower = [u \in Fans |-> {}]
    /\ accounts = Fans
    /\ log = [t \in Ticks |-> 0]
    /\ tick = 0
    /\ past = [t \in Ticks |-> 0]
    /\ departed = [t \in Ticks |-> 0]
    /\ attendance = [e \in Happenings |-> [u \in Fans |-> "none"]]
-----------------------------------------------------------------------------
Logged(delta) == log' = [log EXCEPT ![tick] = @ + delta]

(* A second follow meets the key of the row and takes its entry back. *)
follow(u) ==
    /\ u \in accounts /\ follower[u] = {}
    /\ follower' = [follower EXCEPT ![u] = {tick}]
    /\ Logged(1)
    /\ UNCHANGED <<accounts, tick, past, departed>>

unFollow(u) ==
    /\ follower[u] # {}
    /\ follower' = [follower EXCEPT ![u] = {}]
    /\ Logged(-1)
    /\ UNCHANGED <<accounts, tick, past, departed>>

(* The cascade takes the row, and logs nothing. *)
AccountRemoved(u) ==
    /\ u \in accounts
    /\ accounts' = accounts \ {u}
    /\ follower' = [follower EXCEPT ![u] = {}]
    /\ departed' = [departed EXCEPT ![tick] = @ + Cardinality(follower[u])]
    /\ UNCHANGED <<log, tick, past>>

Later ==
    /\ tick < MaxNow
    /\ tick' = tick + 1
    /\ past' = [past EXCEPT ![tick + 1] = Cardinality(Followers)]
    /\ UNCHANGED <<follower, accounts, log, departed>>

FollowersNext ==
    /\ \/ \E u \in Fans : follow(u) \/ unFollow(u) \/ AccountRemoved(u)
       \/ Later
    /\ UNCHANGED attendance

(* Registrations change as SeatRegistrations says; here in any way. *)
Attends(e, u) ==
    /\ \E a \in Attendances \ {attendance[e][u]} :
          attendance' = [attendance EXCEPT ![e][u] = a]
    /\ UNCHANGED followVars

AttendanceNext == \E u \in Fans :
    \/ \E e \in Happenings : Attends(e, u)
    \/ follow(u) /\ UNCHANGED attendance

AudienceSpec == AudienceInit /\ [][FollowersNext \/ AttendanceNext]_audienceVars
-----------------------------------------------------------------------------
(* The queries: what the log holds since a tick, and of each calendar day. *)
Since(t) == {s \in Ticks : t <= s /\ s <= tick}
cutoff(days) == tick - days * TicksPerDay
DayOf(t) == t \div TicksPerDay
FixedNetWindow == Max(FixedWindows)

followerLogStart(period) == IF cutoff(period) < cutoff(FixedNetWindow)
                            THEN cutoff(period) ELSE cutoff(FixedNetWindow)

WindowNet(period, days) ==
    Total(log, Since(followerLogStart(period)) \cap Since(cutoff(days)))

dailyNets(period) ==
    [d \in {DayOf(t) : t \in Since(followerLogStart(period))} |->
        Total(log, {t \in Since(followerLogStart(period)) : DayOf(t) = d})]

(* Mutant: the series starts with the day the cutoff falls on. *)
SeriesFromCutoff(nets, period) ==
    [d \in (DayOf(tick) - period)..(DayOf(tick) - 1) |->
        IF d \in DOMAIN nets THEN nets[d] ELSE 0]

fillDailyNetSeries(nets, period) ==
    [d \in (DayOf(tick) - period + 1)..DayOf(tick) |->
        IF d \in DOMAIN nets THEN nets[d] ELSE 0]

FollowerGross == Cardinality({u \in Followers :
                                 \A t \in follower[u] : t >= cutoff(FixedNetWindow)})
-----------------------------------------------------------------------------
(* The statistics of the events, from one pass over the registrations. A   *)
(* signup within 48 hours of the start is "LAST_MINUTE", another "GOING".  *)
Enrolled == {r \in Happenings \X Fans : attendance[r[1]][r[2]] # "none"}
GoingRow(r) == attendance[r[1]][r[2]] \in {"GOING", "LAST_MINUTE"}
Increment(f, k) == [f EXCEPT ![k] = @ + 1]

EmptyTally == [goingByEvent |-> [e \in Happenings |-> 0],
               waitlistedByEvent |-> [e \in Happenings |-> 0],
               goingCountByUser |-> [u \in Fans |-> 0],
               signups |-> 0, lastMinuteCount |-> 0, notGoingCount |-> 0]

tallyGoing(r, tally) ==
    [tally EXCEPT !.goingByEvent = Increment(@, r[1]),
                  !.goingCountByUser = Increment(@, r[2]),
                  !.signups = @ + 1,
                  !.lastMinuteCount = @ + (IF attendance[r[1]][r[2]] = "LAST_MINUTE"
                                           THEN 1 ELSE 0)]

tallyOne(r, tally) ==
    CASE attendance[r[1]][r[2]] = "NOT_GOING" ->
            [tally EXCEPT !.notGoingCount = @ + 1]
      [] attendance[r[1]][r[2]] = "WAITLISTED" ->
            [tally EXCEPT !.waitlistedByEvent = Increment(@, r[1])]
      [] OTHER -> tallyGoing(r, tally)

tallyRegistrations == FoldSet(tallyOne, EmptyTally, Enrolled)

(* A ratio is the pair of its parts. *)
eventAggregates(tally) ==
    LET full == {e \in Happenings : CapacityOf[e] # 0}
        totalGoing == Total(tally.goingByEvent, Happenings)
    IN  [totalGoing |-> totalGoing,
         totalWaitlisted |-> Total(tally.waitlistedByEvent, Happenings),
         soldOut |-> <<Cardinality({e \in full :
                           tally.goingByEvent[e] >= CapacityOf[e]}),
                       Cardinality(full)>>,
         lastMinute |-> <<tally.lastMinuteCount, tally.signups>>,
         dropout |-> <<tally.notGoingCount, totalGoing + tally.notGoingCount>>]

audienceAggregates(counts) ==
    LET came == {u \in Fans : counts[u] > 0}
    IN  [unique |-> Cardinality(came),
         returning |-> Cardinality({u \in came : counts[u] >= 2}),
         core |-> Cardinality({u \in came : counts[u] >= 3}),
         following |-> Cardinality(came \cap Followers)]
-----------------------------------------------------------------------------
(***************************************************************************)
(* Every net the analytics give, of whichever period is asked, is what the *)
(* number of followers changed by in that time, not counting who left with *)
(* their account: the rows of who unfollowed are gone, only the log knows  *)
(* (follow, unFollow, followerLogStart, aggregateFollowerNets).            *)
(***************************************************************************)
NetsAreChanges ==
    \A period \in Periods : \A days \in FixedWindows \cup {period} :
        LET before == IF cutoff(days) <= 0 THEN 0 ELSE past[cutoff(days)]
        IN  WindowNet(period, days) = Cardinality(Followers) - before
                                        + Total(departed, Since(cutoff(days)))

(***************************************************************************)
(* The series of a period gives each calendar day the whole of what was    *)
(* logged on it, today included, and with the part of the day the cutoff   *)
(* falls on it adds up to the net of the period (fillDailyNetSeries).      *)
(***************************************************************************)
SeriesAddsUp ==
    \A period \in Periods :
        LET series == fillDailyNetSeries(dailyNets(period), period)
            cut == {t \in Since(cutoff(period)) : DayOf(t) \notin DOMAIN series}
        IN  /\ \A d \in DOMAIN series :
                  series[d] = Total(log, {t \in Since(0) : DayOf(t) = d})
            /\ Total(series, DOMAIN series) + Total(log, cut) = WindowNet(period, period)

(***************************************************************************)
(* The gross growth of the fixed window, counted from the rows, is never   *)
(* less than its net, counted from the log, but for departed accounts.     *)
(***************************************************************************)
GrossCoversNet ==
    \A period \in Periods :
        WindowNet(period, FixedNetWindow)
            <= FollowerGross + Total(departed, Since(cutoff(FixedNetWindow)))

(***************************************************************************)
(* The one pass over the registrations agrees with what they say: seats by *)
(* event and by person add up to the same total, who returns is a part of  *)
(* who comes, and no share is more than the whole (tallyRegistrations,     *)
(* eventAggregates, audienceAggregates).                                   *)
(***************************************************************************)
StatisticsAgree ==
    LET tally == tallyRegistrations
        stats == eventAggregates(tally)
        people == audienceAggregates(tally.goingCountByUser)
    IN  /\ stats.totalGoing = Cardinality({r \in Enrolled : GoingRow(r)})
        /\ stats.totalGoing = Total(tally.goingCountByUser, Fans)
        /\ stats.totalGoing + stats.totalWaitlisted + tally.notGoingCount
                = Cardinality(Enrolled)
        /\ people.unique = Cardinality({r[2] : r \in {s \in Enrolled : GoingRow(s)}})
        /\ people.core <= people.returning /\ people.returning <= people.unique
        /\ people.following <= people.unique
        /\ \A share \in {stats.soldOut, stats.lastMinute, stats.dropout} :
              share[1] <= share[2]

(***************************************************************************)
(* The figures an organization is shown agree with each other and with     *)
(* what happened: all of these, from the first tick and the first          *)
(* registration on (organization-analytics.service.ts).                    *)
(***************************************************************************)
AnalyticsInv ==
    /\ tick > 0 => NetsAreChanges /\ SeriesAddsUp /\ GrossCoversNet
    /\ Enrolled # {} => StatisticsAgree
=============================================================================
