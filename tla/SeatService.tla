---------------------------- MODULE SeatService ----------------------------
(***************************************************************************)
(* What registration for an event promises: a limited number of seats and  *)
(* a first-come-first-served waitlist.  Nothing here knows of transactions *)
(* or of the many statuses a registration can have.                        *)
(***************************************************************************)
EXTENDS Naturals, Sequences, FiniteSets

CONSTANTS People, Limits, Unlimited

VARIABLES seats,  \* who has a seat
          queue,  \* who waits for one, the next first
          limit

vars == <<seats, queue, limit>>

Queued == {queue[i] : i \in DOMAIN queue}

Init == seats = {} /\ queue = <<>> /\ limit \in Limits

Take(p) ==
    /\ p \notin seats \union Queued
    /\ IF limit = Unlimited \/ Cardinality(seats) < limit
       THEN seats' = seats \union {p} /\ UNCHANGED queue
       ELSE queue' = Append(queue, p) /\ UNCHANGED seats
    /\ UNCHANGED limit

GiveUp(p) ==
    /\ p \in seats
    /\ IF queue = <<>>
       THEN seats' = seats \ {p} /\ UNCHANGED queue
       ELSE seats' = (seats \ {p}) \union {Head(queue)} /\ queue' = Tail(queue)
    /\ UNCHANGED limit

StopWaiting(p) ==
    /\ \E i \in DOMAIN queue :
          /\ queue[i] = p
          /\ queue' = SubSeq(queue, 1, i - 1) \o SubSeq(queue, i + 1, Len(queue))
    /\ UNCHANGED <<seats, limit>>

Next == \E p \in People : Take(p) \/ GiveUp(p) \/ StopWaiting(p)

Spec == Init /\ [][Next]_vars
=============================================================================
