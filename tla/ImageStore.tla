----------------------------- MODULE ImageStore -----------------------------
(***************************************************************************)
(* Images in the bucket and the rows that name them.  Nothing spans both:  *)
(* each change deletes, uploads and writes in an order of its own, every   *)
(* call can fail, and what is stored first passes a decode slot.  A change *)
(* happens once; trying again is another change.                           *)
(***************************************************************************)
EXTENDS DecodeSlot

CONSTANTS Changes,        \* uploads whose bucket and row are followed here
          Users, Organizations, EventRows,
          NoImage, Absent \* values of a row: no picture, and no row

VARIABLES row,      \* the picture a row names
          colors,   \* per organization: the picture its colors were read from
          stored,   \* what is in the bucket
          change,   \* the requests
          saving,   \* per event: the open transaction that has updated it
          backfill, \* the script that colors older logos
          contested, spoiled, leaked  \* history, see ImagesExist and NoOrphans

rowVars == <<row, colors, saving>>
ghosts == <<contested, spoiled, leaked>>
storeVars == <<vars, row, colors, stored, change, saving, backfill, ghosts>>

(* A picture is named after its row, at first, or after its change; an     *)
(* event that a change creates is named after the change too.              *)
Owners == Users \union Organizations \union EventRows
Pictures == Owners \union Changes
Rows == Owners \union Changes
IsEvent(o) == o \in EventRows \union Changes

ASSUME ChangesAssumption ==
    /\ Changes \subseteq Uploads
    /\ (Users \union Organizations) \intersect (EventRows \union Changes) = {}
    /\ EventRows \intersect Changes = {}
    /\ NoImage # Absent /\ {NoImage, Absent} \intersect Pictures = {}

Kinds == {"keep", "replace", "remove", "create"}
Phases == {"new", "swap", "upload", "put", "write", "save", "saved",
           "emptied", "cleanup", "done", "failed"}

Over(r) == change[r].phase \in {"new", "done", "failed"}
ActiveOn(o) == {r \in Changes : ~Over(r) /\ change[r].owner = o}

StoreTypeOK ==
    /\ TypeOK
    /\ row \in [Rows -> Pictures \union {NoImage, Absent}]
    /\ colors \in [Organizations -> Pictures \union {NoImage}]
    /\ stored \subseteq Pictures
    /\ change \in [Changes -> [phase : Phases, owner : Rows, kind : Kinds,
                               old : Pictures \union {NoImage},
                               uploaded : BOOLEAN, emptied : BOOLEAN]]
    /\ saving \in [Rows -> Changes \union {NoImage}]
    /\ backfill.organization \in Organizations \union {NoImage}
    /\ contested \subseteq Rows /\ spoiled \subseteq Rows /\ leaked \subseteq Pictures

NotBegun(r) == [phase |-> "new", owner |-> r, kind |-> "create", old |-> NoImage,
                uploaded |-> FALSE, emptied |-> FALSE]
NoBackfill == [organization |-> NoImage, image |-> NoImage, fetched |-> FALSE]

StoreInit ==
    /\ Init
    /\ row = [o \in Rows |-> IF o \in Owners THEN o ELSE Absent]
    /\ colors = [o \in Organizations |-> NoImage]
    /\ stored = Owners
    /\ change = [r \in Changes |-> NotBegun(r)]
    /\ saving = [o \in Rows |-> NoImage]
    /\ backfill = NoBackfill
    /\ contested = {} /\ spoiled = {} /\ leaked = {}

To(r, phase) == change' = [change EXCEPT ![r].phase = phase]

(* The request ends with an error; its picture, if any, is not stored.     *)
End(r) ==
    /\ To(r, "failed")
    /\ spoiled' = IF change[r].emptied THEN spoiled \union {change[r].owner} ELSE spoiled

(* The same, where a picture was uploaded before.                          *)
EndWrite(r) ==
    IF change[r].uploaded THEN To(r, "cleanup") /\ UNCHANGED spoiled ELSE End(r)

-----------------------------------------------------------------------------
(* The row is read long before it is written: by the guard of a user, the  *)
(* handler of an organization, and update of an event.                     *)
Take(r, o, kind, phase) ==
    /\ change[r].phase = "new"
    /\ row[o] # Absent
    /\ change' = [change EXCEPT ![r] = [NotBegun(r) EXCEPT
                        !.phase = phase, !.owner = o, !.kind = kind, !.old = row[o]]]
    /\ contested' = IF ActiveOn(o) = {} THEN contested ELSE contested \union {o}
    /\ UNCHANGED <<vars, rowVars, stored, backfill, spoiled, leaked>>

(* swapImage: the old picture goes first, replaced or removed.             *)
SwapFrom(o, kind) ==
    CASE kind = "keep" -> "write"
      [] kind # "keep" /\ row[o] # NoImage -> "swap"
      [] kind = "replace" /\ row[o] = NoImage -> "upload"
      [] kind = "remove" /\ row[o] = NoImage -> "write"

UpdateUser(r, o, kind) == o \in Users /\ Take(r, o, kind, SwapFrom(o, kind))

UpdateOrganization(r, o, kind) == o \in Organizations /\ Take(r, o, kind, SwapFrom(o, kind))

UpdateEvent(r, o, kind) ==
    IsEvent(o) /\ Take(r, o, kind, IF kind = "replace" THEN "upload" ELSE "save")

(* create of an event, with a picture or without.                          *)
BeginCreate(r, withImage) ==
    /\ change[r].phase = "new"
    /\ change' = [change EXCEPT ![r] = [NotBegun(r) EXCEPT
                        !.phase = IF withImage THEN "upload" ELSE "write"]]
    /\ UNCHANGED <<vars, rowVars, stored, backfill, ghosts>>

(* The bucket deletes the old picture, and the call throws all the same.   *)
LoseOld(r) ==
    /\ stored' = stored \ {change[r].old}
    /\ IF change[r].uploaded
       THEN /\ change' = [change EXCEPT ![r].emptied = TRUE, ![r].phase = "cleanup"]
            /\ UNCHANGED spoiled
       ELSE To(r, "failed") /\ spoiled' = spoiled \union {change[r].owner}

(* swapImage deletes the old picture before anything else.                 *)
SwapDelete(r) ==
    /\ change[r].phase = "swap"
    /\ \/ /\ stored' = stored \ {change[r].old}
          /\ change' = [change EXCEPT ![r].emptied = TRUE,
                            ![r].phase = IF change[r].kind = "replace" THEN "upload" ELSE "write"]
          /\ UNCHANGED spoiled
       \/ End(r) /\ UNCHANGED stored
       \/ LoseOld(r)
    /\ UNCHANGED <<vars, rowVars, backfill, contested, leaked>>

(* upload: the decode slot, which may refuse, ...                          *)
UploadAcquire(r) ==
    /\ change[r].phase = "upload"
    /\ Acquire(r) \/ Queue(r) \/ Resume(r)
    /\ UNCHANGED <<row, colors, stored, change, saving, backfill, ghosts>>

UploadRefused(r) ==
    /\ change[r].phase = "upload"
    /\ Refuse(r)
    /\ End(r)
    /\ UNCHANGED <<rowVars, stored, backfill, contested, leaked>>

(* ... the normalisation, which may reject, ...                            *)
Normalized(r) ==
    /\ change[r].phase = "upload"
    /\ Release(r)
    /\ \/ To(r, "put") /\ UNCHANGED spoiled
       \/ End(r)
    /\ UNCHANGED <<rowVars, stored, backfill, contested, leaked>>

(* ... and the bucket; what was stored with no answer in time is leaked.   *)
Put(r) ==
    /\ change[r].phase = "put"
    /\ \/ /\ stored' = stored \union {r}
          /\ change' = [change EXCEPT ![r].uploaded = TRUE,
                ![r].phase = IF IsEvent(change[r].owner) /\ change[r].kind # "create"
                             THEN "save" ELSE "write"]
          /\ UNCHANGED <<spoiled, leaked>>
       \/ /\ End(r)
          /\ \/ UNCHANGED <<stored, leaked>>
             \/ stored' = stored \union {r} /\ leaked' = leaked \union {r}
    /\ UNCHANGED <<vars, rowVars, backfill, contested>>

-----------------------------------------------------------------------------
(* One statement updates a user or an organization; a transaction creates  *)
(* an event.                                                               *)
WriteRow(r, found) ==
    LET o == change[r].owner
    IN /\ To(r, "done")
       /\ IF change[r].kind = "keep"
          THEN UNCHANGED <<row, colors, spoiled>>
          ELSE /\ row' = [row EXCEPT ![o] = IF change[r].uploaded THEN r ELSE NoImage]
               /\ colors' = IF o \in Organizations THEN [colors EXCEPT ![o] = found] ELSE colors
               /\ spoiled' = spoiled \ {o}

FailToWrite(r) == EndWrite(r) /\ UNCHANGED <<row, colors>>

WriteUser(r) ==
    /\ change[r].phase = "write" /\ change[r].owner \in Users
    /\ \/ FailToWrite(r)
       \/ row[change[r].owner] # Absent /\ WriteRow(r, NoImage)
    /\ UNCHANGED <<vars, stored, saving, backfill, contested, leaked>>

(* The colors, when some were found in the picture, go with it.            *)
WriteOrganization(r) ==
    /\ change[r].phase = "write" /\ change[r].owner \in Organizations
    /\ \/ FailToWrite(r)
       \/ /\ row[change[r].owner] # Absent
          /\ \E found \in {NoImage} \union (IF change[r].uploaded THEN {r} ELSE {}) :
                WriteRow(r, found)
    /\ UNCHANGED <<vars, stored, saving, backfill, contested, leaked>>

CreateEvent(r) ==
    /\ change[r].phase = "write" /\ change[r].kind = "create"
    /\ FailToWrite(r) \/ WriteRow(r, NoImage)
    /\ UNCHANGED <<vars, stored, saving, backfill, contested, leaked>>

(* deleteUploadedImageQuietly                                              *)
Cleanup(r) ==
    /\ change[r].phase = "cleanup"
    /\ End(r)
    /\ \/ stored' = stored \ {r} /\ UNCHANGED leaked
       \/ leaked' = leaked \union {r} /\ UNCHANGED stored
    /\ UNCHANGED <<vars, rowVars, backfill, contested>>

-----------------------------------------------------------------------------
(* update of an event: a transaction that writes the row, calls the bucket *)
(* and commits.                                                            *)

(* The row is locked, with the picture read before the upload in it.       *)
Save(r) ==
    LET c == change[r]
    IN /\ c.phase = "save"
       /\ saving[c.owner] = NoImage
       /\ \/ /\ row[c.owner] # Absent
             /\ saving' = [saving EXCEPT ![c.owner] = r]
             /\ To(r, "saved")
             /\ UNCHANGED spoiled
          \/ EndWrite(r) /\ UNCHANGED saving
       /\ UNCHANGED <<vars, row, colors, stored, backfill, contested, leaked>>

Unlock(r) == saving' = [saving EXCEPT ![change[r].owner] = NoImage]
Rollback(r) == Unlock(r) /\ EndWrite(r)

(* Categories and co-organizers may fail; then the old picture goes, while *)
(* the transaction that says so is open.                                   *)
DeleteOld(r) ==
    LET c == change[r]
    IN /\ c.phase = "saved"
       /\ \/ /\ IF c.old # NoImage /\ c.kind # "keep"
                THEN /\ stored' = stored \ {c.old}
                     /\ change' = [change EXCEPT ![r].phase = "emptied", ![r].emptied = TRUE]
                ELSE To(r, "emptied") /\ UNCHANGED stored
             /\ UNCHANGED <<saving, spoiled>>
          \/ Rollback(r) /\ UNCHANGED stored
          \/ c.old # NoImage /\ c.kind # "keep" /\ Unlock(r) /\ LoseOld(r)
       /\ UNCHANGED <<vars, row, colors, backfill, contested, leaked>>

(* Mutant: the second update, which takes a deleted picture off the row,   *)
(* is missing.                                                             *)
CommitFirstUpdate(r) ==
    LET c == change[r]
    IN /\ c.phase = "emptied"
       /\ row' = [row EXCEPT ![c.owner] = IF c.uploaded THEN r ELSE c.old]
       /\ saving' = [saving EXCEPT ![c.owner] = NoImage]
       /\ To(r, "done")
       /\ UNCHANGED <<vars, colors, stored, backfill, ghosts>>

(* The five seconds of the transaction may have passed.                    *)
Commit(r) ==
    LET c == change[r]
        image == IF c.uploaded THEN r
                 ELSE IF c.kind = "remove" /\ c.old # NoImage THEN NoImage ELSE c.old
    IN /\ c.phase = "emptied"
       /\ \/ /\ row' = [row EXCEPT ![c.owner] = image]
             /\ saving' = [saving EXCEPT ![c.owner] = NoImage]
             /\ spoiled' = IF c.kind = "keep" THEN spoiled ELSE spoiled \ {c.owner}
             /\ To(r, "done")
          \/ Rollback(r) /\ UNCHANGED row
       /\ UNCHANGED <<vars, colors, stored, backfill, contested, leaked>>

-----------------------------------------------------------------------------
(* remove of a user, an organization or an event leaves the picture; it is *)
(* followed where a change of the row is on its way.                       *)
RemoveRow(o) ==
    /\ ActiveOn(o) # {}
    /\ row[o] # Absent /\ saving[o] = NoImage
    /\ row' = [row EXCEPT ![o] = Absent]
    /\ colors' = IF o \in Organizations THEN [colors EXCEPT ![o] = NoImage] ELSE colors
    /\ leaked' = leaked \union ({row[o]} \intersect stored)
    /\ UNCHANGED <<vars, stored, change, saving, backfill, contested, spoiled>>

(* The backfill reads the logos without colors, downloads one and stores   *)
(* the colors if the row still names it.                                   *)
BackfillRead(o) ==
    /\ backfill = NoBackfill
    /\ row[o] \in Pictures /\ colors[o] = NoImage
    /\ backfill' = [organization |-> o, image |-> row[o], fetched |-> FALSE]
    /\ UNCHANGED <<vars, rowVars, stored, change, ghosts>>

BackfillFetch ==
    /\ backfill # NoBackfill /\ ~backfill.fetched
    /\ \/ backfill.image \in stored /\ backfill' = [backfill EXCEPT !.fetched = TRUE]
       \/ backfill' = NoBackfill
    /\ UNCHANGED <<vars, rowVars, stored, change, ghosts>>

StoreColorsIfImageUnchanged ==
    /\ backfill.fetched
    /\ IF row[backfill.organization] = backfill.image
       THEN colors' = [colors EXCEPT ![backfill.organization] = backfill.image]
       ELSE UNCHANGED colors
    /\ backfill' = NoBackfill
    /\ UNCHANGED <<vars, row, saving, stored, change, ghosts>>

(* Uploads of other rows share the slots.                                  *)
OtherUpload(u) ==
    /\ u \notin Changes
    /\ \/ Acquire(u) \/ Queue(u) \/ Refuse(u)
       \/ TryAgain(u) \/ Resume(u) \/ Release(u)
    /\ UNCHANGED <<row, colors, stored, change, saving, backfill, ghosts>>

Advance(r) ==
    \/ SwapDelete(r) \/ UploadAcquire(r) \/ UploadRefused(r) \/ Normalized(r) \/ Put(r)
    \/ WriteUser(r) \/ WriteOrganization(r) \/ CreateEvent(r) \/ Cleanup(r) \/ Save(r) \/ DeleteOld(r) \/ Commit(r)

StoreNext ==
    \/ \E r \in Changes :
            \/ \E o \in Rows, kind \in Kinds \ {"create"} :
                    UpdateUser(r, o, kind) \/ UpdateOrganization(r, o, kind) \/ UpdateEvent(r, o, kind)
            \/ \E withImage \in BOOLEAN : BeginCreate(r, withImage)
            \/ Advance(r)
    \/ \E o \in Rows : RemoveRow(o)
    \/ \E o \in Organizations : BackfillRead(o)
    \/ BackfillFetch \/ StoreColorsIfImageUnchanged
    \/ \E u \in Uploads : OtherUpload(u)

StoreSpec == StoreInit /\ [][StoreNext]_storeVars

(* Requests go on, and so do the decodes of others.                        *)
StoreFairness ==
    /\ \A r \in Changes : WF_storeVars(Advance(r))
    /\ \A u \in Uploads \ Changes :
            WF_storeVars(OtherUpload(u) /\ at[u] \in {"woken", "decoding"})

StoreFairSpec == StoreSpec /\ StoreFairness
-----------------------------------------------------------------------------
(* A row names a picture that is stored, when nobody changes it, unless    *)
(* two changes of it overlapped or one failed after it had deleted the     *)
(* picture, answered or not; the next that goes through makes it good.     *)
ImagesExist ==
    \A o \in Rows :
        row[o] \in Pictures /\ ActiveOn(o) = {} /\ o \notin contested \union spoiled
        => row[o] \in stored

(* What is stored is named by a row or in the hands of a change: a failure *)
(* at any step leaves no picture behind, unless the bucket itself failed,  *)
(* the row was removed, or two changes of it overlapped.                   *)
NoOrphans ==
    \A b \in stored \ leaked :
        \/ \E o \in Rows : row[o] = b
        \/ \E r \in Changes : ~Over(r) /\ b \in {r, change[r].old}
        \/ \E o \in contested : b = o \/ (b \in Changes /\ change[b].owner = o)

(* The colors of an organization are those of the logo it names, though    *)
(* they are read from a download that uploads overtake.                    *)
ColorsOfTheirImage ==
    \A o \in Organizations : colors[o] \in {NoImage, row[o]}

(* Rows and bucket agree, whatever failed: a picture that is named is      *)
(* there, one that is there is named or accounted for, and colors belong   *)
(* to their logo (swapImage, update, deleteUploadedImageQuietly).          *)
PicturesMatchRows == StoreTypeOK /\ ImagesExist /\ NoOrphans /\ ColorsOfTheirImage

(* A request that waits for a slot or for a row comes to an end.           *)
RequestsEnd == \A r \in Changes : ~Over(r) ~> Over(r)
=============================================================================
