---------------------------- MODULE WriteCharges ----------------------------
(***************************************************************************)
(* What a statement to the database costs the user it is run for           *)
(* (budgeted-prisma.extension.ts and .client.ts): the rows it creates      *)
(* of the models that have a price, however deep they are nested, are      *)
(* charged before it runs. Windows, lost counters and other users are in   *)
(* Quotas.                                                                 *)
(*                                                                         *)
(* A statement is the set of the records it writes, each with the writes   *)
(* it is nested in, the outermost first. An upsert writes two records, the *)
(* new and the old one, of which the database takes one; they have one nr. *)
(***************************************************************************)
EXTENDS Integers, Sequences, FiniteSets

CONSTANTS
    Limits,         \* what a user may create of each action in the window
    Statements,     \* the statements that are run
    MaxStatements   \* bound of the model

VARIABLES
    charged,        \* what each action was charged
    written,        \* the rows there are of it
    statements

chargeVars == <<charged, written, statements>>

COSTED_CREATE_ACTIONS ==
    [Event |-> "event.create", EventInvitation |-> "invitation.recipient",
     Registration |-> "registration.create"]

(* The relations of the models this module tells apart. *)
RELATION_TARGET_MODELS ==
    {<<"Event", "Registration">>, <<"Event", "EventInvitation">>,
     <<"Registration", "Event">>, <<"Registration", "User">>,
     <<"EventInvitation", "Event">>, <<"User", "Registration">>}

Models == {relation[1] : relation \in RELATION_TARGET_MODELS}
Costed == DOMAIN COSTED_CREATE_ACTIONS

CREATE_OPERATIONS == {"create", "createMany"}
NESTED_CREATES == {"create", "createMany", "connectOrCreate"}
Upserts == {"upsertNew", "upsertOld"}
NESTED_WRITES == NESTED_CREATES \cup Upserts \cup {"update"}

RelationWrite == [model : Models, how : NESTED_WRITES \cup {"connect"}, nr : Nat]
WrittenRecord == [above : Seq(RelationWrite), write : RelationWrite]

ModelAt(r, i) == IF i > Len(r.above) THEN r.write.model ELSE r.above[i].model

(* The schema has these relations (relation-target-models.spec.ts), no     *)
(* operation connects, and nothing is nested in a connect.                 *)
ASSUME ChargesAssumption ==
    /\ Limits \in [Costed -> Nat]
    /\ \A s \in Statements :
          /\ IsFiniteSet(s) /\ s \subseteq WrittenRecord
          /\ \A r \in s : r.above = <<>> =>
                r.write.how \in CREATE_OPERATIONS \cup Upserts \cup {"update"}
          /\ \A r \in s : \A i \in DOMAIN r.above :
                /\ r.above[i].how # "connect"
                /\ <<ModelAt(r, i), ModelAt(r, i + 1)>> \in RELATION_TARGET_MODELS
-----------------------------------------------------------------------------
(* Mutant: the records an update changes are not looked into. *)
OnlyIntoCreates(r) ==
    \A i \in DOMAIN r.above :
        /\ r.above[i].how \in NESTED_CREATES
        /\ <<ModelAt(r, i), ModelAt(r, i + 1)>> \in RELATION_TARGET_MODELS

(* A record is looked at when the writes it is nested in are looked into.  *)
chargeNestedWrites(r) ==
    \A i \in DOMAIN r.above :
        /\ r.above[i].how \in NESTED_WRITES
        /\ <<ModelAt(r, i), ModelAt(r, i + 1)>> \in RELATION_TARGET_MODELS

addCharge(r) == r.write.how \in IF r.above = <<>> THEN CREATE_OPERATIONS ELSE NESTED_CREATES

chargedRows(s, model) ==
    {r \in s : r.write.model = model /\ addCharge(r) /\ chargeNestedWrites(r)}

creationChargesFor(s) == [m \in Costed |-> Cardinality(chargedRows(s, m))]

(* Also of an upsert that is the statement itself. *)
refuseCostedUpsert(s) ==
    \E r \in s : chargeNestedWrites(r) /\ r.write.how \in Upserts /\ r.write.model \in Costed
-----------------------------------------------------------------------------
(* What the client does with a statement, when what it looks for in        *)
(* connectOrCreate and upsert is found or not: the rows it creates.        *)
IsTaken(write, found) ==
    /\ write.how \in {"connectOrCreate", "upsertNew"} => write.nr \notin found
    /\ write.how = "upsertOld" => write.nr \in found

WritesAt(r) == {r.write} \cup {r.above[i] : i \in DOMAIN r.above}

createdRows(s, model, found) ==
    {r \in s : /\ r.write.model = model
               /\ r.write.how \in {"create", "createMany", "connectOrCreate", "upsertNew"}
               /\ \A write \in WritesAt(r) : IsTaken(write, found)}

RowsCreated(s, found) == [m \in Costed |-> Cardinality(createdRows(s, m, found))]
-----------------------------------------------------------------------------
Nothing == [m \in Costed |-> 0]

ChargesInit == charged = Nothing /\ written = Nothing /\ statements = 0

TooMuch(s) == {m \in Costed : /\ creationChargesFor(s)[m] > 0
                              /\ charged[m] + creationChargesFor(s)[m] > Limits[m]}

(* The database runs it, or refuses it after it was charged. *)
Runs(s) ==
    /\ ~refuseCostedUpsert(s) /\ TooMuch(s) = {}
    /\ charged' = [m \in Costed |-> charged[m] + creationChargesFor(s)[m]]
    /\ \/ \E found \in SUBSET {r.write.nr : r \in s} :
             written' = [m \in Costed |-> written[m] + RowsCreated(s, found)[m]]
       \/ UNCHANGED written

(* One action after the other is charged; the first that is over its limit *)
(* refuses the statement, and what was charged stays charged.              *)
IsTooMuch(s) ==
    LET price == creationChargesFor(s)
    IN  /\ ~refuseCostedUpsert(s)
        /\ \E m \in TooMuch(s), before \in SUBSET (Costed \ TooMuch(s)) :
              charged' = [k \in Costed |->
                             IF k = m \/ k \in before THEN charged[k] + price[k] ELSE charged[k]]
        /\ UNCHANGED written

ChargesNext ==
    /\ statements < MaxStatements
    /\ statements' = statements + 1
    /\ \E s \in Statements : Runs(s) \/ IsTooMuch(s)

ChargesSpec == ChargesInit /\ [][ChargesNext]_chargeVars
-----------------------------------------------------------------------------
(***************************************************************************)
(* No row that has a price is written without being charged, and no user   *)
(* has more rows written in a window than the limit of their action,       *)
(* however deep in a statement they are created (creationChargesFor).      *)
(***************************************************************************)
WrittenIsCharged == \A m \in Costed : written[m] <= charged[m] /\ written[m] <= Limits[m]

(***************************************************************************)
(* A statement without connectOrCreate and upsert is charged the rows it   *)
(* creates and no more, so that nobody is refused too early.               *)
(***************************************************************************)
ChargedExactly ==
    \A s \in Statements :
        (\A r \in s : \A write \in WritesAt(r) :
            write.how \notin Upserts \cup {"connectOrCreate"})
        => creationChargesFor(s) = RowsCreated(s, {})

(***************************************************************************)
(* The charges for writes: no row with a price is created without its      *)
(* charge, and none is charged that is not created, where that depends on  *)
(* the statement alone (creationChargesFor).                               *)
(***************************************************************************)
ChargesInv == WrittenIsCharged /\ ChargedExactly
=============================================================================
