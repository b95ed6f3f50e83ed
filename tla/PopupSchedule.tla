--------------------------- MODULE PopupSchedule ----------------------------
(***************************************************************************)
(* The popups an administrator schedules (popups.service.ts). Each request *)
(* takes the advisory lock, reads in its transaction what is there, and    *)
(* writes; another may run between the read and the write unless the lock  *)
(* keeps it out.                                                           *)
(***************************************************************************)
EXTENDS Naturals, FiniteSets

CONSTANTS
    Admins,      \* requests at a time
    Popups,
    LastInstant

ASSUME PopupAssumption == LastInstant \in Nat

VARIABLES
    popups,      \* the interval of each popup, or NoInterval
    asked,       \* the request of each administrator
    lockedBy       \* who holds the advisory lock

popupVars == <<popups, asked, lockedBy>>

Instants == 0..LastInstant
Keep == LastInstant + 1     \* an end the body leaves out
NoInterval == <<>>
Scheduled == {p \in Popups : popups[p] # NoInterval}
NotAsked == [step |-> "idle"]

PopupsInit ==
    /\ popups = [p \in Popups |-> NoInterval]
    /\ asked = [a \in Admins |-> NotAsked]
    /\ lockedBy = {}

(* A new popup, whose id no other request has yet. *)
AskCreate(a) ==
    /\ asked[a] = NotAsked
    /\ \E p \in Popups \ Scheduled, from, to \in Instants :
          /\ \A b \in Admins : asked[b] # NotAsked => asked[b].popup # p
          /\ asked' = [asked EXCEPT ![a] = [step |-> "asked", popup |-> p, new |-> TRUE,
                                           from |-> from, to |-> to]]
    /\ UNCHANGED <<popups, lockedBy>>

(* A change of one there is, which keeps the end the body leaves out. *)
AskChange(a) ==
    /\ asked[a] = NotAsked
    /\ \E p \in Scheduled, from, to \in Instants \cup {Keep} :
          asked' = [asked EXCEPT ![a] = [step |-> "asked", popup |-> p, new |-> FALSE,
                                         from |-> from, to |-> to]]
    /\ UNCHANGED <<popups, lockedBy>>

AskRemoval(a) ==
    /\ asked[a] = NotAsked
    /\ \E p \in Scheduled :
          asked' = [asked EXCEPT ![a] = [step |-> "removing", popup |-> p]]
    /\ UNCHANGED <<popups, lockedBy>>

Chosen(asking, old) == IF asking = Keep THEN old ELSE asking

Overlaps(i, j) == i[1] < j[2] /\ i[2] > j[1]

ensureAvailable(p, i) == \A q \in Scheduled \ {p} : ~Overlaps(popups[q], i)

Interval(r) ==
    IF r.new THEN <<r.from, r.to>>
    ELSE <<Chosen(r.from, popups[r.popup][1]), Chosen(r.to, popups[r.popup][2])>>

(* Refused: a popup that is gone, an empty interval, an overlap. *)
Accepted(r) ==
    /\ r.new \/ r.popup \in Scheduled
    /\ Interval(r)[1] < Interval(r)[2]
    /\ ensureAvailable(r.popup, Interval(r))

(* Mutant: the transaction starts with the read. *)
ReadsWithoutLock(a) ==
    /\ asked[a].step = "asked"
    /\ asked' = [asked EXCEPT ![a] =
          IF Accepted(asked[a])
          THEN [step |-> "writing", popup |-> asked[a].popup, interval |-> Interval(asked[a])]
          ELSE NotAsked]
    /\ UNCHANGED <<popups, lockedBy>>

LockAndRead(a) ==
    /\ asked[a].step = "asked" /\ lockedBy = {}
    /\ IF Accepted(asked[a])
       THEN /\ asked' = [asked EXCEPT ![a] = [step |-> "writing", popup |-> asked[a].popup,
                                              interval |-> Interval(asked[a])]]
            /\ lockedBy' = {a}
       ELSE asked' = [asked EXCEPT ![a] = NotAsked] /\ UNCHANGED lockedBy
    /\ UNCHANGED popups

WriteAndCommit(a) ==
    /\ asked[a].step = "writing"
    /\ popups' = [popups EXCEPT ![asked[a].popup] = asked[a].interval]
    /\ asked' = [asked EXCEPT ![a] = NotAsked]
    /\ lockedBy' = {}

RemovePopup(a) ==
    /\ asked[a].step = "removing" /\ lockedBy = {}
    /\ popups' = [popups EXCEPT ![asked[a].popup] = NoInterval]
    /\ asked' = [asked EXCEPT ![a] = NotAsked]
    /\ UNCHANGED lockedBy

PopupsNext ==
    \E a \in Admins : \/ AskCreate(a) \/ AskChange(a) \/ AskRemoval(a) \/ LockAndRead(a)
                      \/ WriteAndCommit(a) \/ RemovePopup(a)

PopupsSpec == PopupsInit /\ [][PopupsNext]_popupVars
-----------------------------------------------------------------------------
findActive(now) == {p \in Scheduled : popups[p][1] <= now /\ now < popups[p][2]}

(***************************************************************************)
(* At every instant at most one popup is active, so findActive, which      *)
(* takes the first it finds, has nothing to choose (ensureAvailable under  *)
(* the advisory lock).                                                     *)
(***************************************************************************)
OneActivePopup == \A now \in Instants : Cardinality(findActive(now)) <= 1
=============================================================================
