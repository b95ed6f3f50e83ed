----------------------------- MODULE EventEdits -----------------------------
(***************************************************************************)
(* What editors do to the row of one event (events.service.ts): create     *)
(* normalizes the registration mode and the external URL; update reads the *)
(* row, decides on what it read, and only then starts the transaction that *)
(* saves. Two editors may have read before either saves.                   *)
(*                                                                         *)
(* Who may edit is in EventPages, the image in ImageStore, the capacity in *)
(* SeatRegistrations. An edit changes one group of fields at a time.       *)
(***************************************************************************)
EXTENDS Naturals, FiniteSets

CONSTANTS
    Editors,
    Categories

VARIABLES
    row,         \* the event, or NoRow
    edit,        \* the edit each editor has under way
    holder,      \* who holds the lock on the row: a set of at most one editor
    misfit       \* history: the URL was last saved alone, by an edit that had
                 \* decided on it by a mode the event no longer had

editVars == <<row, edit, holder, misfit>>

Mode == {"PEOPLY", "EXTERNAL"}
Url == {"", "url"}                        \* "" for null and for blank

NoRow == [live |-> FALSE, mode |-> "PEOPLY", url |-> "", categories |-> {}]
NoEdit == [step |-> "none", fields |-> <<>>, mode |-> "PEOPLY", old |-> {}]

EditsInit ==
    row = NoRow /\ edit = [u \in Editors |-> NoEdit] /\ holder = {} /\ misfit = FALSE
-----------------------------------------------------------------------------
normalizeCreateRegistrationData(mode, url) ==
    IF mode = "EXTERNAL" THEN url ELSE ""

(* A new event has an id no edit under way can name. *)
createEvent ==
    /\ ~row.live /\ \A u \in Editors : edit[u] = NoEdit
    /\ \E mode \in Mode, url \in Url, cs \in SUBSET Categories :
          /\ mode = "EXTERNAL" => url # ""
          /\ row' = [live |-> TRUE, mode |-> mode, categories |-> cs,
                     url |-> normalizeCreateRegistrationData(mode, url)]
    /\ misfit' = FALSE
    /\ UNCHANGED <<edit, holder>>

(* mode and url are what the body asks, "keep" what it leaves out. *)
Kept(asked, old) == IF asked = "keep" THEN old ELSE asked

(* Mutant: an event that stops being EXTERNAL keeps its URL. *)
NormalizedKeepingUrl(mode, url) ==
    IF mode # "keep" THEN [mode |-> mode, url |-> Kept(url, row.url)]
    ELSE [url |-> Kept(url, row.url)]

normalizeUpdateRegistrationData(mode, url) ==
    LET next == IF Kept(mode, row.mode) = "EXTERNAL" THEN Kept(url, row.url) ELSE ""
    IN  IF mode # "keep" THEN [mode |-> mode, url |-> next] ELSE [url |-> next]

(* What an edit may ask: an EXTERNAL event without a URL is refused. *)
Asked == {[categories |-> cs] : cs \in SUBSET Categories}
         \cup {normalizeUpdateRegistrationData(b.mode, b.url) :
                  b \in {c \in [mode : Mode \cup {"keep"}, url : Url \cup {"keep"}] :
                      /\ c # [mode |-> "keep", url |-> "keep"]
                      /\ Kept(c.mode, row.mode) = "EXTERNAL" => Kept(c.url, row.url) # ""}}

OnlyUrl(fields) == DOMAIN fields = {"url"}
Editing(u) == edit[u].step # "none"

EditReads(u) ==
    /\ ~Editing(u) /\ row.live
    /\ \E fields \in Asked :
          edit' = [edit EXCEPT ![u] = [step |-> "read", fields |-> fields,
                                       mode |-> row.mode, old |-> {}]]
    /\ UNCHANGED <<row, holder, misfit>>

EditFails(u) ==
    /\ edit[u].step = "read" /\ ~row.live
    /\ edit' = [edit EXCEPT ![u] = NoEdit]
    /\ UNCHANGED <<row, holder, misfit>>

(* Saving the row locks it until the commit; the categories are read only  *)
(* after that.                                                             *)
(* Mutant: the categories are read before the row is saved.                *)
ReadsUnlocked(u) ==
    /\ edit[u].step = "read" /\ row.live
    /\ edit' = [edit EXCEPT ![u] = [@ EXCEPT !.step = "locked", !.old = row.categories]]
    /\ UNCHANGED <<row, holder, misfit>>

EditLocks(u) ==
    /\ edit[u].step = "read" /\ row.live /\ holder = {}
    /\ holder' = {u}
    /\ edit' = [edit EXCEPT ![u] = [@ EXCEPT !.step = "locked", !.old = row.categories]]
    /\ UNCHANGED <<row, misfit>>

syncEventCategories(asked, old) == (row.categories \ (old \ asked)) \cup (asked \ old)

EditCommits(u) ==
    LET fields == edit[u].fields IN
    /\ edit[u].step = "locked"
    /\ row' = [f \in DOMAIN row |->
                  IF f \notin DOMAIN fields THEN row[f]
                  ELSE IF f = "categories" THEN syncEventCategories(fields[f], edit[u].old)
                  ELSE fields[f]]
    /\ edit' = [edit EXCEPT ![u] = NoEdit]
    /\ holder' = {}
    /\ misfit' = IF "url" \in DOMAIN fields
                 THEN OnlyUrl(fields) /\ edit[u].mode # row.mode ELSE misfit

(* The row is deleted by another request once nobody holds it. *)
removeEvent ==
    /\ row.live /\ holder = {}
    /\ row' = NoRow
    /\ UNCHANGED <<edit, holder, misfit>>

EditsNext ==
    \/ createEvent \/ removeEvent
    \/ \E u \in Editors : EditReads(u) \/ EditFails(u) \/ EditLocks(u) \/ EditCommits(u)

EditsSpec == EditsInit /\ [][EditsNext]_editVars
-----------------------------------------------------------------------------
(***************************************************************************)
(* An event has an external URL exactly when registration is external      *)
(* (normalizeCreateRegistrationData and normalizeUpdateRegistrationData),  *)
(* whatever the order of edits that read before others saved, unless the   *)
(* URL was saved alone by an edit that had read a mode changed since.      *)
(***************************************************************************)
ExternalUrlWhenExternal ==
    row.live /\ ~misfit => (row.mode = "EXTERNAL" <=> row.url # "")

(* False of the code: an edit of the URL alone that overlaps one of the    *)
(* mode leaves an EXTERNAL event without an URL, or another one with it.   *)
UrlOnlyWhenExternal == row.live => (row.mode = "EXTERNAL" <=> row.url # "")

(***************************************************************************)
(* The categories of an event become those of one edit, never a mixture of *)
(* edits saved at the same time (syncEventCategories, behind the row).     *)
(***************************************************************************)
CategoriesOfOneEdit ==
    [][row.live /\ row'.live /\ row'.categories # row.categories =>
        \E u \in Editors : /\ edit[u].step = "locked"
                           /\ "categories" \in DOMAIN edit[u].fields
                           /\ row'.categories = edit[u].fields.categories]_editVars
=============================================================================
