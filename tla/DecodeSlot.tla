----------------------------- MODULE DecodeSlot -----------------------------
(***************************************************************************)
(* The process-wide slot that rations the memory of image decoding: a few  *)
(* decodes run, a few uploads wait, the rest is refused.  Releasing hands  *)
(* the slot itself to the next waiter, who resumes some microtasks later;  *)
(* anything may run in between.                                            *)
(***************************************************************************)
EXTENDS Naturals, Sequences, FiniteSets

CONSTANTS Uploads,              \* calls of runOnDecodeSlot
          MaxConcurrentDecodes,
          MaxQueuedDecodes

ASSUME UploadsAssumption == IsFiniteSet(Uploads)
ASSUME LimitsAssumption == MaxConcurrentDecodes \in Nat \ {0} /\ MaxQueuedDecodes \in Nat

VARIABLES running,  \* slots given out
          waiting,  \* who waits for one, the first to go first
          at        \* how far each upload is

vars == <<running, waiting, at>>

Stages == {"idle", "queued", "woken", "decoding", "refused"}

On(stage) == {u \in Uploads : at[u] = stage}

TypeOK ==
    /\ running \in Nat
    /\ waiting \in Seq(Uploads)
    /\ at \in [Uploads -> Stages]

Init == running = 0 /\ waiting = <<>> /\ at = [u \in Uploads |-> "idle"]

Acquire(u) ==
    /\ at[u] = "idle"
    /\ running < MaxConcurrentDecodes
    /\ running' = running + 1
    /\ at' = [at EXCEPT ![u] = "decoding"]
    /\ UNCHANGED waiting

Queue(u) ==
    /\ at[u] = "idle"
    /\ running >= MaxConcurrentDecodes
    /\ Len(waiting) < MaxQueuedDecodes
    /\ waiting' = Append(waiting, u)
    /\ at' = [at EXCEPT ![u] = "queued"]
    /\ UNCHANGED running

(* DecoderBusyError: the uploader is told to try again.                    *)
Refuse(u) ==
    /\ at[u] = "idle"
    /\ running >= MaxConcurrentDecodes
    /\ Len(waiting) >= MaxQueuedDecodes
    /\ at' = [at EXCEPT ![u] = "refused"]
    /\ UNCHANGED <<running, waiting>>

TryAgain(u) ==
    /\ at[u] = "refused"
    /\ at' = [at EXCEPT ![u] = "idle"]
    /\ UNCHANGED <<running, waiting>>

Resume(u) ==
    /\ at[u] = "woken"
    /\ at' = [at EXCEPT ![u] = "decoding"]
    /\ UNCHANGED <<running, waiting>>

(* Mutant: the slot is freed, and whoever is woken takes it again.         *)
AnnounceFreeSlot(u) ==
    /\ at[u] = "decoding"
    /\ running' = running - 1
    /\ IF waiting = <<>>
       THEN at' = [at EXCEPT ![u] = "idle"] /\ UNCHANGED waiting
       ELSE /\ waiting' = Tail(waiting)
            /\ at' = [at EXCEPT ![u] = "idle", ![Head(waiting)] = "woken"]

(* Mutant: a decode that throws takes its slot with it.                    *)
ReleaseOnSuccess(u) ==
    /\ at[u] = "decoding"
    /\ at' = [at EXCEPT ![u] = "idle"]
    /\ \/ waiting = <<>> /\ running' = running - 1 /\ UNCHANGED waiting
       \/ UNCHANGED <<running, waiting>>

(* The decode returned or threw.                                           *)
Release(u) ==
    /\ at[u] = "decoding"
    /\ IF waiting = <<>>
       THEN /\ at' = [at EXCEPT ![u] = "idle"]
            /\ running' = running - 1
            /\ UNCHANGED waiting
       ELSE /\ at' = [at EXCEPT ![u] = "idle", ![Head(waiting)] = "woken"]
            /\ waiting' = Tail(waiting)
            /\ UNCHANGED running

Next == \E u \in Uploads :
            \/ Acquire(u) \/ Queue(u) \/ Refuse(u)
            \/ TryAgain(u) \/ Resume(u) \/ Release(u)

Spec == Init /\ [][Next]_vars

-----------------------------------------------------------------------------
(* No more decodes run at once than the container has memory for, in the   *)
(* microtasks between a release and the resumption of the waiter too.      *)
DecodesBounded == Cardinality(On("decoding")) <= MaxConcurrentDecodes

(* A fresh upload decodes at once only if nobody waits and a slot is free  *)
(* that was not handed to one who is woken: there is no window in which    *)
(* the decoder looks idle.                                                 *)
NoBarging ==
    [][\A u \in Uploads :
            at'[u] = "decoding"
            => \/ at[u] \in {"woken", "decoding"}
               \/ /\ On("queued") = {}
                  /\ Cardinality(On("decoding") \union On("woken")) < MaxConcurrentDecodes]_vars

(* No slot is lost, however decodes end: uploads wait only for decodes     *)
(* that are running or about to.                                           *)
NoSlotLost ==
    On("queued") # {} => Cardinality(On("decoding") \union On("woken")) = MaxConcurrentDecodes
=============================================================================
