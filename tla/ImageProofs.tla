---------------------------- MODULE ImageProofs ----------------------------
(***************************************************************************)
(* The decode slot is safe for any number of uploads, slots and places in  *)
(* the queue; rows and bucket agree for any rows and changes of them.      *)
(***************************************************************************)
EXTENDS ImageStore, FiniteSetTheorems, TLAPS

Holders == On("decoding") \union On("woken")

(* A waiter is in the queue once, and has no slot.                         *)
QueueInv ==
    /\ \A i \in 1..Len(waiting) : at[waiting[i]] = "queued"
    /\ \A i, j \in 1..Len(waiting) : waiting[i] = waiting[j] => i = j
    /\ \A u \in Uploads : at[u] = "queued" => \E i \in 1..Len(waiting) : waiting[i] = u

(* The count is the number of uploads that hold a slot, and all slots are  *)
(* out while anybody waits.                                                *)
CountInv ==
    /\ running = Cardinality(Holders)
    /\ running <= MaxConcurrentDecodes
    /\ waiting # <<>> => running = MaxConcurrentDecodes

SlotInv == TypeOK /\ QueueInv /\ CountInv

LEMMA HoldersFinite == IsFiniteSet(Holders) /\ IsFiniteSet(On("decoding"))
  BY UploadsAssumption, FS_Subset DEF Holders, On

LEMMA InitSlot == Init => SlotInv
<1> SUFFICES ASSUME Init PROVE SlotInv
  OBVIOUS
<1>1. TypeOK
  BY DEF Init, TypeOK, Stages
<1>2. QueueInv
  BY DEF Init, QueueInv
<1>3. Holders = {}
  BY DEF Init, Holders, On
<1>4. CountInv
  BY <1>3, FS_EmptySet, LimitsAssumption DEF Init, CountInv
<1> QED
  BY <1>1, <1>2, <1>4 DEF SlotInv

LEMMA SlotStep == SlotInv /\ [Next]_vars => SlotInv'
<1> SUFFICES ASSUME SlotInv, [Next]_vars PROVE SlotInv'
  OBVIOUS
<1> USE DEF SlotInv
<1>1. ASSUME NEW u \in Uploads, Acquire(u) PROVE SlotInv'
  <2> USE <1>1 DEF Acquire
  <2>1. TypeOK'
    BY DEF TypeOK, Stages
  <2>2. QueueInv'
    BY DEF QueueInv, TypeOK
  <2>3. Holders' = Holders \union {u} /\ u \notin Holders
    BY DEF Holders, On, TypeOK
  <2>4. Cardinality(Holders') = Cardinality(Holders) + 1
    BY <2>3, HoldersFinite, FS_AddElement
  <2>5. CountInv'
    BY <2>4, LimitsAssumption DEF CountInv, TypeOK
  <2> QED
    BY <2>1, <2>2, <2>5
<1>2. ASSUME NEW u \in Uploads, Queue(u) PROVE SlotInv'
  <2> USE <1>2 DEF Queue
  <2>1. TypeOK'
    BY DEF TypeOK, Stages
  <2>2. waiting' = Append(waiting, u) /\ Len(waiting') = Len(waiting) + 1
        /\ waiting'[Len(waiting) + 1] = u
        /\ \A i \in 1..Len(waiting) : waiting'[i] = waiting[i]
    BY DEF TypeOK
  <2>3. \A i \in 1..Len(waiting) : waiting[i] # u /\ waiting[i] \in Uploads
    BY DEF QueueInv, TypeOK
  <2>4. at' = [at EXCEPT ![u] = "queued"] /\ at \in [Uploads -> Stages] /\ Len(waiting) \in Nat
    BY DEF TypeOK
  <2>5. \A i \in 1..Len(waiting') : i \in 1..Len(waiting) \/ i = Len(waiting) + 1
    BY <2>2, <2>4
  <2>6. \A i \in 1..Len(waiting') : at'[waiting'[i]] = "queued"
    BY <2>2, <2>3, <2>4, <2>5 DEF QueueInv
  <2>7. \A i, j \in 1..Len(waiting') : waiting'[i] = waiting'[j] => i = j
    BY <2>2, <2>3, <2>5 DEF QueueInv
  <2>8. \A v \in Uploads : at'[v] = "queued" => \E i \in 1..Len(waiting') : waiting'[i] = v
    BY <2>2, <2>4 DEF QueueInv
  <2>9. Holders' = Holders
    BY DEF Holders, On, TypeOK
  <2>10. CountInv'
    BY <2>9, LimitsAssumption DEF CountInv, TypeOK
  <2> QED
    BY <2>1, <2>6, <2>7, <2>8, <2>10 DEF QueueInv
<1>3. ASSUME NEW u \in Uploads, Refuse(u) \/ TryAgain(u) \/ Resume(u) PROVE SlotInv'
  <2> USE <1>3 DEF Refuse, TryAgain, Resume
  <2>1. TypeOK'
    BY DEF TypeOK, Stages
  <2>2. QueueInv'
    BY DEF QueueInv, TypeOK
  <2>3. Holders' = Holders
    BY DEF Holders, On, TypeOK
  <2>4. CountInv'
    BY <2>3 DEF CountInv
  <2> QED
    BY <2>1, <2>2, <2>4
<1>4. ASSUME NEW u \in Uploads, Release(u), waiting = <<>> PROVE SlotInv'
  <2> USE <1>4 DEF Release
  <2>1. Holders' = Holders \ {u} /\ u \in Holders
    BY DEF Holders, On, TypeOK
  <2>2. Cardinality(Holders') = Cardinality(Holders) - 1 /\ Cardinality(Holders) \in Nat
        /\ Cardinality(Holders') \in Nat
    BY <2>1, HoldersFinite, FS_RemoveElement, FS_CardinalityType, FS_Subset
  <2>3. TypeOK'
    BY <2>2 DEF TypeOK, Stages, CountInv
  <2>4. QueueInv'
    BY DEF QueueInv, TypeOK
  <2>5. CountInv'
    BY <2>2, LimitsAssumption DEF CountInv, TypeOK
  <2> QED
    BY <2>3, <2>4, <2>5
<1>5. ASSUME NEW u \in Uploads, Release(u), waiting # <<>> PROVE SlotInv'
  <2> DEFINE h == Head(waiting)
  <2>1. /\ waiting \in Seq(Uploads) /\ Len(waiting) \in Nat \ {0}
        /\ h = waiting[1] /\ h \in Uploads
        /\ waiting' = Tail(waiting) /\ Len(waiting') = Len(waiting) - 1
        /\ waiting' \in Seq(Uploads)
        /\ \A i \in 1..Len(waiting') : waiting'[i] = waiting[i + 1] /\ i + 1 \in 1..Len(waiting)
    BY <1>5 DEF Release, TypeOK
  <2>2. /\ at[u] = "decoding" /\ at[h] = "queued" /\ h # u
        /\ at' = [at EXCEPT ![u] = "idle", ![h] = "woken"]
        /\ at \in [Uploads -> Stages]
        /\ running' = running
    BY <1>5, <2>1 DEF Release, QueueInv, TypeOK
  <2> HIDE DEF h
  <2>3. \A v \in Uploads : at'[v] = IF v = h THEN "woken" ELSE IF v = u THEN "idle" ELSE at[v]
    BY <2>1, <2>2
  <2>4. TypeOK'
    BY <2>1, <2>2, <2>3 DEF TypeOK, Stages
  <2>5. \A i \in 1..Len(waiting') : at'[waiting'[i]] = "queued"
    <3> SUFFICES ASSUME NEW i \in 1..Len(waiting') PROVE at'[waiting'[i]] = "queued"
      OBVIOUS
    <3>1. waiting'[i] = waiting[i + 1] /\ i + 1 \in 1..Len(waiting) /\ i + 1 # 1 /\ 1 \in 1..Len(waiting)
      BY <2>1
    <3>2. at[waiting[i + 1]] = "queued" /\ waiting[i + 1] # waiting[1] /\ waiting[i + 1] \in Uploads
      BY <2>1, <3>1 DEF QueueInv
    <3> QED
      BY <2>1, <2>2, <2>3, <3>1, <3>2
  <2>6. \A i, j \in 1..Len(waiting') : waiting'[i] = waiting'[j] => i = j
    <3> SUFFICES ASSUME NEW i \in 1..Len(waiting'), NEW j \in 1..Len(waiting'),
                        waiting'[i] = waiting'[j]
                 PROVE  i = j
      OBVIOUS
    <3>1. i + 1 = j + 1
      BY <2>1 DEF QueueInv
    <3> QED
      BY <3>1, <2>1
  <2>7. \A v \in Uploads : at'[v] = "queued" => \E i \in 1..Len(waiting') : waiting'[i] = v
    <3> SUFFICES ASSUME NEW v \in Uploads, at'[v] = "queued"
                 PROVE  \E i \in 1..Len(waiting') : waiting'[i] = v
      OBVIOUS
    <3>1. at[v] = "queued" /\ v # h
      BY <2>3
    <3>2. PICK k \in 1..Len(waiting) : waiting[k] = v
      BY <3>1 DEF QueueInv
    <3>3. k # 1 /\ k - 1 \in 1..Len(waiting') /\ waiting'[k - 1] = waiting[(k - 1) + 1]
      BY <2>1, <3>1, <3>2
    <3> QED
      BY <3>2, <3>3
  <2>8. Holders' = (Holders \ {u}) \union {h} /\ u \in Holders /\ h \notin Holders
    BY <2>1, <2>2, <2>3 DEF Holders, On
  <2>9. Cardinality(Holders') = Cardinality(Holders)
    <3>1. IsFiniteSet(Holders \ {u}) /\ Cardinality(Holders \ {u}) = Cardinality(Holders) - 1
      BY <2>8, HoldersFinite, FS_RemoveElement
    <3>2. Cardinality((Holders \ {u}) \union {h}) = Cardinality(Holders \ {u}) + 1
      BY <2>8, <3>1, FS_AddElement
    <3> QED
      BY <2>8, <3>1, <3>2, HoldersFinite, FS_CardinalityType
  <2>10. CountInv'
    BY <1>5, <2>2, <2>9 DEF CountInv
  <2> QED
    BY <2>4, <2>5, <2>6, <2>7, <2>10 DEF QueueInv
<1>6. CASE UNCHANGED vars
  BY <1>6 DEF vars, TypeOK, QueueInv, CountInv, Holders, On
<1> QED
  BY <1>1, <1>2, <1>3, <1>4, <1>5, <1>6 DEF Next

(* SlotInv holds of every behaviour: the count, the queue and the uploads  *)
(* agree, also between a release and the resumption of the waiter.         *)
THEOREM SlotsAccounted == Spec => []SlotInv
<1>1. Init => SlotInv
  BY InitSlot
<1>2. SlotInv /\ [Next]_vars => SlotInv'
  BY SlotStep
<1> QED
  BY <1>1, <1>2, PTL DEF Spec

(* However uploads arrive and decodes end, no more than the allowed number *)
(* of decodes run at once.                                                 *)
THEOREM DecodesStayBounded == Spec => []DecodesBounded
<1>1. SlotInv => DecodesBounded
  <2> SUFFICES ASSUME SlotInv PROVE DecodesBounded
    OBVIOUS
  <2>1. On("decoding") \subseteq Holders
    BY DEF Holders
  <2>2. Cardinality(On("decoding")) <= Cardinality(Holders)
    BY <2>1, HoldersFinite, FS_Subset
  <2>3. Cardinality(On("decoding")) \in Nat /\ Cardinality(Holders) \in Nat
    BY HoldersFinite, FS_CardinalityType
  <2> QED
    BY <2>2, <2>3, LimitsAssumption DEF SlotInv, CountInv, DecodesBounded, TypeOK
<1> QED
  BY <1>1, SlotsAccounted, PTL

(* An upload waits only while every slot is in use: none is ever lost.     *)
THEOREM SlotsAreNotLost == Spec => []NoSlotLost
<1>1. SlotInv => NoSlotLost
  <2> SUFFICES ASSUME SlotInv, On("queued") # {} PROVE Cardinality(Holders) = MaxConcurrentDecodes
    BY DEF NoSlotLost, Holders
  <2>1. PICK u \in Uploads : at[u] = "queued"
    BY DEF On
  <2>2. waiting # <<>>
    BY <2>1 DEF SlotInv, QueueInv
  <2> QED
    BY <2>2 DEF SlotInv, CountInv
<1> QED
  BY <1>1, SlotsAccounted, PTL

(* Nobody gets a slot but who was handed one, unless nobody waits and one  *)
(* is free that nobody was handed.                                         *)
THEOREM NobodyBarges == Spec => NoBarging
<1>1. SlotInv /\ [Next]_vars
        => [\A u \in Uploads :
              at'[u] = "decoding"
              => \/ at[u] \in {"woken", "decoding"}
                 \/ /\ On("queued") = {}
                    /\ Cardinality(On("decoding") \union On("woken")) < MaxConcurrentDecodes]_vars
  <2> SUFFICES ASSUME SlotInv, Next, NEW u \in Uploads, at'[u] = "decoding",
                      at[u] \notin {"woken", "decoding"}
               PROVE  /\ On("queued") = {}
                      /\ Cardinality(On("decoding") \union On("woken")) < MaxConcurrentDecodes
    OBVIOUS
  <2>1. at \in [Uploads -> Stages]
    BY DEF SlotInv, TypeOK
  <2>2. PICK v \in Uploads : \/ Acquire(v) \/ Queue(v) \/ Refuse(v)
                             \/ TryAgain(v) \/ Resume(v) \/ Release(v)
    BY DEF Next
  <2>3. Acquire(v)
    BY <2>1, <2>2 DEF Queue, Refuse, TryAgain, Resume, Release
  <2>4. running < MaxConcurrentDecodes
    BY <2>3 DEF Acquire
  <2>5. On("queued") = {}
    <3> SUFFICES ASSUME NEW w \in Uploads, at[w] = "queued" PROVE FALSE
      BY DEF On
    <3>1. waiting # <<>> /\ running = MaxConcurrentDecodes
      BY DEF SlotInv, QueueInv, CountInv
    <3> QED
      BY <2>4, <3>1, LimitsAssumption
  <2>6. Cardinality(On("decoding") \union On("woken")) < MaxConcurrentDecodes
    BY <2>4 DEF SlotInv, CountInv, Holders
  <2> QED
    BY <2>5, <2>6
<1> QED
  BY <1>1, SlotsAccounted, PTL DEF Spec, NoBarging

(***************************************************************************)
(* Images.                                                                 *)
(***************************************************************************)
ChangeRecord == [phase : Phases, owner : Rows, kind : Kinds, old : Pictures \union {NoImage},
                 uploaded : BOOLEAN, emptied : BOOLEAN]
Backfill == [organization : Organizations, image : Pictures, fetched : BOOLEAN]

(* What is known of a change from how far it is and of what kind.          *)
WellFormed(r, c) ==
    LET updates == c.kind # "create" /\ c.owner # r
        people == c.owner \in Users \union Organizations
        swapped == people /\ c.old # NoImage => c.emptied
    IN \/ c.phase \in {"done", "failed"}
       \/ c.phase = "new" /\ ~c.uploaded
       \/ /\ c.phase = "swap" /\ people /\ updates /\ c.kind # "keep" /\ c.old # NoImage
          /\ ~c.emptied /\ ~c.uploaded
       \/ /\ c.phase \in {"upload", "put"} /\ c.kind = "replace" /\ updates /\ ~c.uploaded /\ swapped
          /\ IsEvent(c.owner) => ~c.emptied
       \/ /\ c.phase \in {"upload", "put", "write", "cleanup"} /\ c.kind = "create"
          /\ c.owner = r /\ c.old = NoImage /\ ~c.emptied
          /\ c.phase \in {"upload", "put"} => ~c.uploaded
          /\ c.phase = "cleanup" => c.uploaded
       \/ /\ c.phase = "write" /\ people /\ updates
          /\ IF c.kind = "keep" THEN ~c.emptied /\ ~c.uploaded ELSE swapped
       \/ c.phase = "cleanup" /\ updates /\ c.uploaded
       \/ /\ c.phase \in {"save", "saved"} /\ IsEvent(c.owner) /\ updates
          /\ ~c.emptied /\ (c.kind = "replace" <=> c.uploaded)
       \/ /\ c.phase = "emptied" /\ IsEvent(c.owner) /\ updates
          /\ c.kind = "replace" <=> c.uploaded
          /\ c.emptied <=> (c.kind # "keep" /\ c.old # NoImage)

(* The one row that may name a picture: the one it is named after, or that *)
(* of the change that stored it and went through.                          *)
Home(b, o) ==
    \/ b \in Owners /\ b = o
    \/ b \in Changes /\ change[b].phase = "done" /\ change[b].owner = o

(* A row that a change creates is there once the change went through.      *)
Born(o) == o \in Changes => change[o].phase = "done" /\ change[o].owner = o
RowsAtHome ==
    \A o \in Rows : /\ row[o] # Absent => Born(o)
                    /\ row[o] \in Pictures => Home(row[o], o)

(* Changes of a row that is not contested come one after the other, and    *)
(* only one that has begun its transaction holds the row.                  *)
OneByOne ==
    /\ \A r, s \in Changes :
          /\ ~Over(r) /\ ~Over(s) /\ change[r].owner = change[s].owner
          /\ change[r].owner \notin contested
          => r = s
    /\ \A r \in Changes, o \in Rows :
          saving[o] = r <=> change[r].phase \in {"saved", "emptied"} /\ change[r].owner = o

(* What a change in progress knows of its row is still so, and what it has *)
(* stored or deleted is still there or gone.                               *)
Follows(r) ==
    LET c == change[r]
        o == c.owner
    IN /\ c.phase \in {"saved", "emptied"} => row[o] # Absent
       /\ o \notin contested /\ c.kind # "create" =>
             /\ row[o] \in {c.old, Absent}
             /\ row[o] = Absent => c.old \notin stored \ leaked
             /\ row[o] \in Pictures /\ o \notin spoiled /\ ~c.emptied => row[o] \in stored
InHand(r) ==
    LET c == change[r]
    IN ~Over(r) => /\ c.old \in Pictures => Home(c.old, c.owner)
                   /\ c.uploaded => r \in stored
                   /\ c.emptied => c.old \notin stored
                   /\ c.kind # "create" => Born(c.owner)
                   /\ Follows(r)
Stored(r) == r \in stored \ leaked => change[r].uploaded

(* The backfill has a logo that an organization named.                     *)
BackfillInv == backfill = NoBackfill \/ backfill \in Backfill

PicturesInv ==
    /\ SlotInv /\ PicturesMatchRows /\ BackfillInv
    /\ RowsAtHome /\ OneByOne
    /\ \A r \in Changes : WellFormed(r, change[r]) /\ InHand(r) /\ Stored(r)

LEMMA Names ==
    /\ \A o \in Owners : o \notin Changes
    /\ \A b \in Pictures : b # NoImage /\ b # Absent
    /\ \A r \in Changes : r \in Pictures /\ r \in Rows
    /\ \A o \in Rows : o \in Pictures
    /\ NoImage # Absent
BY ChangesAssumption DEF Owners, Pictures, Rows

LEMMA StoreTypes ==
    ASSUME PicturesInv
    PROVE  /\ StoreTypeOK /\ TypeOK /\ change \in [Changes -> ChangeRecord]
           /\ row \in [Rows -> Pictures \union {NoImage, Absent}]
           /\ colors \in [Organizations -> Pictures \union {NoImage}]
           /\ stored \subseteq Pictures
           /\ saving \in [Rows -> Changes \union {NoImage}]
           /\ contested \subseteq Rows /\ spoiled \subseteq Rows /\ leaked \subseteq Pictures
BY DEF PicturesInv, PicturesMatchRows, StoreTypeOK, ChangeRecord

LEMMA Homes ==
    ASSUME NEW b, NEW x, Home(b, x)
    PROVE  /\ \A y : Home(b, y) => x = y
           /\ \A r \in Changes : ~Over(r) \/ change[r].phase = "new" => b # r
           /\ b \in Pictures
BY Names DEF Home, Over, Pictures

LEMMA ChangeTypes ==
    ASSUME PicturesInv, NEW r \in Changes
    PROVE  /\ change[r].phase \in Phases /\ change[r].owner \in Rows /\ change[r].kind \in Kinds
           /\ change[r].old \in Pictures \union {NoImage}
           /\ change[r].uploaded \in BOOLEAN /\ change[r].emptied \in BOOLEAN
BY StoreTypes DEF ChangeRecord

(* A change r of the row o that is not over goes on as q, or ends: what is *)
(* left to show is that it leaves its own row and pictures in order.       *)
Moves(r, q, o) ==
    /\ r \in Changes /\ ~Over(r) /\ q \in ChangeRecord /\ o \in Rows /\ o = change[r].owner
    /\ change' = [change EXCEPT ![r] = q]
    /\ q.owner = o /\ q.kind = change[r].kind /\ q.old = change[r].old /\ q.phase # "new"
    /\ SlotInv' /\ StoreTypeOK' /\ BackfillInv' /\ ColorsOfTheirImage'
    /\ contested' = contested
    /\ \A x \in Rows \ {o} : row'[x] = row[x] /\ saving'[x] = saving[x]
    /\ spoiled' \ {o} = spoiled \ {o}
    /\ \A s \in Changes : saving'[o] = s <=> IF s = r THEN q.phase \in {"saved", "emptied"}
                                             ELSE saving[o] = s
    /\ stored' \subseteq stored \union {r} /\ stored \ stored' \subseteq {r, q.old}
    /\ leaked \subseteq leaked'
    /\ r \in stored' \ leaked' => q.uploaded
    /\ WellFormed(r, q)
    /\ row[o] # Absent => row'[o] # Absent
    /\ row'[o] # Absent => Born(o)'
    /\ row'[o] \in Pictures => Home(row[o], o)'
    /\ q.phase \in {"done", "failed"} /\ o \notin contested =>
          /\ row'[o] \in Pictures /\ o \notin spoiled' => row'[o] \in stored'
          /\ \A b \in {r, q.old, row[o]} : b \in stored' \ leaked' => row'[o] = b
    /\ q.phase \notin {"done", "failed"} => InHand(r)' /\ row'[o] = row[o]

LEMMA AdvanceKeeps ==
    ASSUME PicturesInv, NEW r, NEW q, NEW o, Moves(r, q, o)
    PROVE  PicturesInv'
<1> USE DEF Moves
<1>0. /\ change \in [Changes -> ChangeRecord] /\ row \in [Rows -> Pictures \union {NoImage, Absent}]
      /\ stored \subseteq Pictures
  BY StoreTypes
<1>1. change'[r] = q /\ \A s \in Changes \ {r} : change'[s] = change[s] /\ Over(s)' = Over(s)
  BY <1>0 DEF Over
<1>2. \A b, x : (Home(b, x) => Home(b, x)')
  BY <1>1 DEF Home, Over
<1>3. \A x : (Born(x) => Born(x)')
  BY <1>1 DEF Born, Over
<1>4. q.old \in Pictures => Home(q.old, o)
  BY DEF PicturesInv, InHand
<1>5. RowsAtHome'
  <2>1. ASSUME NEW x \in Rows \ {o}
        PROVE  /\ row'[x] # Absent => Born(x)'
               /\ row'[x] \in Pictures => Home(row[x], x)'
    <3>1. row'[x] = row[x] /\ (row[x] # Absent => Born(x)) /\ (row[x] \in Pictures => Home(row[x], x))
      BY DEF PicturesInv, RowsAtHome
    <3>2. row[x] \in Pictures => Home(row[x], x)'
      BY <3>1, <1>1 DEF Home, Over
    <3> QED
      BY <3>1, <3>2, <1>3
  <2>2. ASSUME NEW x \in Rows
        PROVE  /\ row'[x] # Absent => Born(x)'
               /\ row'[x] \in Pictures => Home(row[x], x)'
    BY <2>1
  <2> QED
    BY <2>2 DEF RowsAtHome
<1>6. OneByOne'
  <2>1. ASSUME NEW s \in Changes, NEW t \in Changes, ~Over(s)', ~Over(t)',
               change'[s].owner = change'[t].owner, change'[s].owner \notin contested
        PROVE  s = t
    <3>1. ~Over(s) /\ ~Over(t) /\ change[s].owner = change[t].owner /\ change[s].owner \notin contested
      BY <2>1, <1>1
    <3> QED
      BY <3>1 DEF PicturesInv, OneByOne
  <2>2. ASSUME NEW s \in Changes, NEW x \in Rows
        PROVE  saving'[x] = s <=> change'[s].phase \in {"saved", "emptied"} /\ change'[s].owner = x
    <3>1. saving[x] = s <=> change[s].phase \in {"saved", "emptied"} /\ change[s].owner = x
      BY DEF PicturesInv, OneByOne
    <3> QED
      BY <3>1, <1>1
  <2> QED
    BY <2>1, <2>2 DEF OneByOne
<1>7. \A x \in Rows \ {o} : row[x] \in Pictures => row[x] \notin {r, q.old}
  BY <1>4, Homes, Names DEF PicturesInv, RowsAtHome
<1>8. ImagesExist'
  <2> SUFFICES ASSUME NEW x \in Rows, row'[x] \in Pictures, ActiveOn(x)' = {},
                      x \notin contested' \union spoiled'
               PROVE  row'[x] \in stored'
    BY DEF ImagesExist
  <2>1. CASE x # o
    <3>1. ActiveOn(x) = {}
      BY <2>1, <1>1 DEF ActiveOn
    <3>2. row[x] \in stored
      BY <2>1, <3>1 DEF PicturesInv, PicturesMatchRows, ImagesExist
    <3> QED
      BY <2>1, <3>2, <1>7
  <2>2. CASE x = o
    <3>1. q.phase \in {"done", "failed"}
      BY <2>2, <1>1 DEF ActiveOn, Over
    <3> QED
      BY <2>2, <3>1
  <2> QED BY <2>1, <2>2
<1>9. NoOrphans'
  <2> SUFFICES ASSUME NEW b \in stored' \ leaked'
               PROVE  \/ \E x \in Rows : row'[x] = b
                      \/ \E s \in Changes : ~Over(s)' /\ b \in {s, change'[s].old}
                      \/ \E x \in contested' : b = x \/ (b \in Changes /\ change'[b].owner = x)
    BY DEF NoOrphans
  <2>1. CASE q.phase \notin {"done", "failed"} /\ b \in {r, q.old}
    BY <2>1, <1>1 DEF Over
  <2>2. CASE q.phase \in {"done", "failed"} /\ o \notin contested /\ b \in {r, q.old, row[o]}
    BY <2>2
  <2>3. CASE o \in contested /\ (b = r \/ Home(b, o))
    BY <2>3, <1>1 DEF Home
  <2>4. CASE /\ b # r /\ b # q.old
             /\ \E x \in Rows : row[x] = b /\ (x # o \/ row'[x] = row[x])
    BY <2>4
  <2>5. CASE b # r /\ \E s \in Changes \ {r} : ~Over(s) /\ b \in {s, change[s].old}
    BY <2>5, <1>1
  <2>6. CASE b # r /\ \E x \in contested : b = x \/ (b \in Changes /\ change[b].owner = x)
    BY <2>6, <1>1
  <2>7. b # r => \/ \E x \in Rows : row[x] = b
                 \/ \E s \in Changes : ~Over(s) /\ b \in {s, change[s].old}
                 \/ \E x \in contested : b = x \/ (b \in Changes /\ change[b].owner = x)
    BY DEF PicturesInv, PicturesMatchRows, NoOrphans
  <2>8. row[o] = b \/ q.old = b => Home(b, o)
    <3>1. b # r => b \in stored
      OBVIOUS
    <3>2. b \in Pictures
      BY <3>1, <1>0, Names
    <3> QED
      BY <3>2, <1>4 DEF PicturesInv, RowsAtHome
  <2> QED
    BY <2>1, <2>2, <2>3, <2>4, <2>5, <2>6, <2>7, <2>8
<1>10. ASSUME NEW s \in Changes \ {r} PROVE InHand(s)'
  <2> SUFFICES ASSUME ~Over(s) PROVE InHand(s)'
    BY <1>1 DEF InHand
  <2> DEFINE c == change[s]
             x == c.owner
  <2>0. /\ change'[s] = c /\ InHand(s) /\ x \in Rows /\ c.old \in Pictures \union {NoImage}
    BY <1>1, ChangeTypes DEF PicturesInv
  <2>1. c.old \in Pictures => Home(c.old, x) /\ Home(c.old, x)'
    BY <2>0, <1>2 DEF InHand
  <2>2. c.old # r
    BY <2>0, <2>1, Homes, Names
  <2>3. c.uploaded => s \in stored'
    <3>1. s # q.old
      BY <1>4, Homes, Names
    <3> QED
      BY <3>1, <2>0 DEF InHand
  <2>4. c.emptied => c.old \notin stored'
    BY <2>0, <2>2 DEF InHand
  <2>5. c.kind # "create" => Born(x)'
    BY <2>0, <1>3 DEF InHand
  <2>6. Follows(s)'
    <3>1. CASE x = o
      <4>1. x \in contested
        BY <3>1 DEF PicturesInv, OneByOne
      <4>2. c.phase \in {"saved", "emptied"} => row'[x] # Absent
        BY <2>0, <3>1 DEF InHand, Follows
      <4> QED
        BY <2>0, <4>1, <4>2 DEF Follows
    <3>2. CASE x # o
      <4>1. row'[x] = row[x] /\ (x \in spoiled' <=> x \in spoiled)
        BY <2>0, <3>2
      <4>2. row[x] \in Pictures /\ row[x] \in stored => row[x] \in stored'
        BY <1>7, <2>0, <3>2
      <4>3. c.old \notin stored \ leaked => c.old \notin stored' \ leaked'
        BY <2>2
      <4>4. Follows(s)
        BY <2>0 DEF InHand
      <4> QED
        BY <2>0, <4>1, <4>2, <4>3, <4>4 DEF Follows
    <3> QED BY <3>1, <3>2
  <2> QED
    BY <2>0, <2>1, <2>3, <2>4, <2>5, <2>6 DEF InHand
<1>11. InHand(r)'
  BY <1>1 DEF InHand, Over
<1>12. \A s \in Changes : WellFormed(s, change[s])' /\ Stored(s)'
  <2>1. WellFormed(r, change[r])' /\ Stored(r)'
    BY <1>1 DEF WellFormed, Stored
  <2>2. ASSUME NEW s \in Changes \ {r} PROVE WellFormed(s, change[s])' /\ Stored(s)'
    <3>1. WellFormed(s, change[s]) /\ Stored(s) /\ change'[s] = change[s]
      BY <1>1 DEF PicturesInv
    <3> QED
      BY <3>1 DEF WellFormed, Stored
  <2> QED BY <2>1, <2>2
<1> QED
  BY <1>5, <1>6, <1>8, <1>9, <1>10, <1>11, <1>12 DEF PicturesInv, PicturesMatchRows

(* The record of a change after a step of it.                              *)
Rec(r, p, u, e) ==
    [phase |-> p, owner |-> change[r].owner, kind |-> change[r].kind, old |-> change[r].old,
     uploaded |-> u, emptied |-> e]

LEMMA RecType ==
    ASSUME PicturesInv, NEW r \in Changes, NEW p \in Phases, NEW u \in BOOLEAN, NEW e \in BOOLEAN
    PROVE  /\ Rec(r, p, u, e) \in ChangeRecord
           /\ Rec(r, p, u, e).phase = p /\ Rec(r, p, u, e).owner = change[r].owner
           /\ Rec(r, p, u, e).kind = change[r].kind /\ Rec(r, p, u, e).old = change[r].old
           /\ Rec(r, p, u, e).uploaded = u /\ Rec(r, p, u, e).emptied = e
BY ChangeTypes DEF Rec, ChangeRecord

LEMMA RecMoves ==
    ASSUME PicturesInv, NEW r \in Changes
    PROVE  /\ \A p \in Phases :
                [change EXCEPT ![r].phase = p]
                = [change EXCEPT ![r] = Rec(r, p, change[r].uploaded, change[r].emptied)]
           /\ \A p \in Phases :
                /\ [change EXCEPT ![r].uploaded = TRUE, ![r].phase = p]
                   = [change EXCEPT ![r] = Rec(r, p, TRUE, change[r].emptied)]
                /\ [change EXCEPT ![r].emptied = TRUE, ![r].phase = p]
                   = [change EXCEPT ![r] = Rec(r, p, change[r].uploaded, TRUE)]
<1>1. change \in [Changes -> ChangeRecord] /\ change[r] \in ChangeRecord
  BY StoreTypes
<1>2. \A p \in Phases : [change[r] EXCEPT !.phase = p] = Rec(r, p, change[r].uploaded, change[r].emptied)
  BY <1>1 DEF Rec, ChangeRecord
<1>3. \A p \in Phases, f \in ChangeRecord :
        [f EXCEPT !.phase = p] = [phase |-> p, owner |-> f.owner, kind |-> f.kind, old |-> f.old,
                                  uploaded |-> f.uploaded, emptied |-> f.emptied]
  BY DEF ChangeRecord
<1>4. \A v \in BOOLEAN, f \in ChangeRecord :
        [f EXCEPT !.uploaded = v] = [phase |-> f.phase, owner |-> f.owner, kind |-> f.kind,
                                     old |-> f.old, uploaded |-> v, emptied |-> f.emptied]
  BY DEF ChangeRecord
<1>7. \A v \in BOOLEAN, f \in ChangeRecord :
        [f EXCEPT !.emptied = v] = [phase |-> f.phase, owner |-> f.owner, kind |-> f.kind,
                                    old |-> f.old, uploaded |-> f.uploaded, emptied |-> v]
  BY DEF ChangeRecord
<1>5. \A p \in Phases :
        /\ [[change[r] EXCEPT !.uploaded = TRUE] EXCEPT !.phase = p] = Rec(r, p, TRUE, change[r].emptied)
        /\ [[change[r] EXCEPT !.emptied = TRUE] EXCEPT !.phase = p] = Rec(r, p, change[r].uploaded, TRUE)
  <2> DEFINE f == [change[r] EXCEPT !.uploaded = TRUE]
             g == [change[r] EXCEPT !.emptied = TRUE]
             c == change[r]
  <2>1. f = [phase |-> c.phase, owner |-> c.owner, kind |-> c.kind,
             old |-> c.old, uploaded |-> TRUE, emptied |-> c.emptied]
    BY <1>1, <1>4
  <2>2. g = [phase |-> c.phase, owner |-> c.owner, kind |-> c.kind,
             old |-> c.old, uploaded |-> c.uploaded, emptied |-> TRUE]
    BY <1>1, <1>7
  <2> HIDE DEF f, g
  <2>3. f \in ChangeRecord /\ g \in ChangeRecord
    BY <1>1, <2>1, <2>2 DEF ChangeRecord
  <2> SUFFICES ASSUME NEW p \in Phases
               PROVE  /\ [f EXCEPT !.phase = p] = Rec(r, p, TRUE, change[r].emptied)
                      /\ [g EXCEPT !.phase = p] = Rec(r, p, change[r].uploaded, TRUE)
    BY DEF f, g
  <2> QED
    BY <2>1, <2>2, <2>3, <1>3 DEF Rec
<1>6. \A f, g : [[change EXCEPT ![r] = f] EXCEPT ![r] = g] = [change EXCEPT ![r] = g]
  BY <1>1
<1> QED
  BY <1>1, <1>2, <1>5, <1>6

(* What holds of the row of a change that is not over.                     *)
LEMMA OwnRow ==
    ASSUME PicturesInv, NEW r \in Changes, ~Over(r)
    PROVE  LET c == change[r]
               o == c.owner
           IN /\ c.phase # "new" /\ c.phase \in Phases /\ WellFormed(r, c)
              /\ o \in Rows /\ row[o] # r /\ c.old # r
              /\ \A x \in Rows : row[x] # r
              /\ c.old \in Pictures => Home(c.old, o)
              /\ c.uploaded => r \in stored
              /\ c.emptied => c.old \notin stored
              /\ r \in stored \ leaked => c.uploaded
              /\ c.kind = "create" => o = r /\ row[o] = Absent /\ c.old = NoImage /\ ~c.emptied
              /\ c.kind # "create" => Born(o) /\ Follows(r)
              /\ \A x \in Rows : saving[x] = r <=> c.phase \in {"saved", "emptied"} /\ o = x
<1> DEFINE c == change[r]
<1>1. /\ WellFormed(r, c) /\ InHand(r) /\ Stored(r) /\ c.phase \in Phases /\ c.owner \in Rows
      /\ c.old \in Pictures \union {NoImage} /\ c.phase \notin {"new", "done", "failed"}
      /\ row \in [Rows -> Pictures \union {NoImage, Absent}]
  BY ChangeTypes, StoreTypes DEF PicturesInv, Over
<1>2. c.kind = "create" => c.owner = r /\ c.old = NoImage /\ ~c.emptied
  BY <1>1 DEF WellFormed
<1>3. row[r] = Absent
  BY <1>1, Names DEF PicturesInv, RowsAtHome, Born
<1>4. \A x \in Rows : row[x] # r
  BY Homes, Names DEF PicturesInv, RowsAtHome
<1>5. c.old # r
  BY <1>1, Homes, Names DEF InHand
<1>6. \A x \in Rows : saving[x] = r <=> c.phase \in {"saved", "emptied"} /\ c.owner = x
  BY DEF PicturesInv, OneByOne
<1> QED
  BY <1>1, <1>2, <1>3, <1>4, <1>5, <1>6 DEF InHand, Stored

(* A change ends with an error and leaves its own picture to nobody.       *)
LEMMA FailKeeps ==
    ASSUME PicturesInv, SlotInv', NEW r \in Changes, ~Over(r), To(r, "failed"),
           NEW lost \in BOOLEAN, change[r].emptied => lost,
           spoiled' = IF lost THEN spoiled \union {change[r].owner} ELSE spoiled,
           UNCHANGED <<row, colors, backfill, contested>>,
           saving' = IF change[r].phase \in {"saved", "emptied"}
                     THEN [saving EXCEPT ![change[r].owner] = NoImage] ELSE saving,
           stored' \subseteq stored \union {r},
           stored \ stored' \subseteq IF lost THEN {r, change[r].old} ELSE {r},
           leaked \subseteq leaked', leaked' \subseteq leaked \union {r},
           r \notin stored' \ leaked'
    PROVE  PicturesInv'
<1> DEFINE c == change[r]
           o == c.owner
           q == Rec(r, "failed", c.uploaded, c.emptied)
<1>0. /\ StoreTypeOK /\ r \in Pictures /\ c.uploaded \in BOOLEAN /\ c.emptied \in BOOLEAN
      /\ o \in Rows /\ "failed" \in Phases /\ change \in [Changes -> ChangeRecord]
      /\ stored \subseteq Pictures /\ saving \in [Rows -> Changes \union {NoImage}]
      /\ NoImage \notin Pictures /\ Absent \notin Pictures /\ NoImage \notin Changes
  BY StoreTypes, ChangeTypes, Names DEF Phases
<1>1. /\ q \in ChangeRecord /\ q.phase = "failed" /\ q.owner = o /\ q.kind = c.kind /\ q.old = c.old
      /\ q.uploaded = c.uploaded /\ q.emptied = c.emptied
  BY <1>0, RecType
<1>2. change' = [change EXCEPT ![r] = q]
  BY <1>0, RecMoves DEF To
<1>3. spoiled' = IF lost THEN spoiled \union {o} ELSE spoiled
  OBVIOUS
<1> HIDE DEF q
<1>4. StoreTypeOK' /\ BackfillInv' /\ ColorsOfTheirImage'
  <2>1. TypeOK' /\ BackfillInv' /\ ColorsOfTheirImage'
    BY DEF SlotInv, PicturesInv, PicturesMatchRows, BackfillInv, ColorsOfTheirImage
  <2>2. change' \in [Changes -> ChangeRecord]
    BY <1>0, <1>1, <1>2
  <2>3. stored' \subseteq Pictures /\ leaked' \subseteq Pictures /\ spoiled' \subseteq Rows
        /\ saving' \in [Rows -> Changes \union {NoImage}]
    BY <1>0, <1>3 DEF StoreTypeOK
  <2> QED
    BY <1>0, <2>1, <2>2, <2>3 DEF StoreTypeOK, ChangeRecord
<1>5. \A s \in Changes : saving'[o] = s <=> IF s = r THEN q.phase \in {"saved", "emptied"}
                                                         ELSE saving[o] = s
  <2>1. saving[o] = r <=> c.phase \in {"saved", "emptied"}
    BY <1>0, OwnRow
  <2>2. CASE c.phase \notin {"saved", "emptied"}
    BY <2>1, <2>2, <1>1
  <2>3. CASE c.phase \in {"saved", "emptied"}
    <3>1. saving'[o] = NoImage /\ saving[o] = r
      BY <2>1, <2>3, <1>0
    <3> QED
      BY <3>1, <1>0, <1>1
  <2> QED BY <2>2, <2>3
<1>6. /\ \A x \in Rows \ {o} : row'[x] = row[x] /\ saving'[x] = saving[x]
      /\ spoiled' \ {o} = spoiled \ {o}
  BY <1>0, <1>3
<1>7. WellFormed(r, q)
  BY <1>1 DEF WellFormed
<1>8. /\ row[o] # Absent => Born(o)'
      /\ row[o] \in Pictures => Home(row[o], o)'
  BY <1>0, <1>1, <1>2, Homes DEF PicturesInv, RowsAtHome, Born, Home, Over
<1>9. ASSUME o \notin contested
      PROVE  /\ row[o] \in Pictures /\ o \notin spoiled' => row[o] \in stored'
             /\ \A b \in {r, q.old, row[o]} : b \in stored' \ leaked' => row[o] = b
  <2>1. row[o] # r /\ c.old # r
    BY OwnRow
  <2>2. CASE c.kind = "create"
    BY <2>1, <2>2, <1>0, <1>1, OwnRow
  <2>3. CASE c.kind # "create"
    BY <2>1, <2>3, <1>0, <1>1, <1>3, <1>9, OwnRow DEF Follows
  <2> QED BY <2>2, <2>3
<1>10. q.phase \notin {"new", "saved", "emptied"} /\ q.phase \in {"done", "failed"}
  BY <1>1
<1>11. Moves(r, q, o)
  BY <1>0, <1>1, <1>2, <1>4, <1>5, <1>6, <1>7, <1>8, <1>9, <1>10 DEF Moves
<1> QED
  BY <1>11, AdvanceKeeps

LEMMA EndKeeps ==
    ASSUME PicturesInv, SlotInv', NEW r \in Changes, ~Over(r), End(r),
           UNCHANGED <<row, colors, backfill, contested>>,
           saving' = IF change[r].phase \in {"saved", "emptied"}
                     THEN [saving EXCEPT ![change[r].owner] = NoImage] ELSE saving,
           stored' \subseteq stored \union {r}, stored \ stored' \subseteq {r},
           leaked \subseteq leaked', leaked' \subseteq leaked \union {r},
           r \notin stored' \ leaked'
    PROVE  PicturesInv'
<1>1. change[r].emptied \in BOOLEAN
  BY ChangeTypes
<1>2. /\ To(r, "failed")
      /\ spoiled' = IF change[r].emptied THEN spoiled \union {change[r].owner} ELSE spoiled
  BY DEF End
<1>3. stored \ stored' \subseteq IF change[r].emptied THEN {r, change[r].old} ELSE {r}
  OBVIOUS
<1> QED
  BY <1>1, <1>2, <1>3, FailKeeps

(* The next step of a change that is not over; the row is not written.     *)
GoesOn(r, p, u, e) ==
    LET c == change[r]
        o == c.owner
    IN /\ r \in Changes /\ ~Over(r) /\ SlotInv'
       /\ p \in Phases \ {"new", "done", "failed"} /\ u \in BOOLEAN /\ e \in BOOLEAN
       /\ change' = [change EXCEPT ![r] = Rec(r, p, u, e)]
       /\ UNCHANGED <<row, colors, backfill, contested, spoiled, leaked>>
       /\ saving' = IF p \in {"saved", "emptied"} THEN [saving EXCEPT ![o] = r]
                    ELSE IF c.phase \in {"saved", "emptied"} THEN [saving EXCEPT ![o] = NoImage]
                    ELSE saving
       /\ p \in {"saved", "emptied"} => saving[o] \in {r, NoImage} /\ row[o] # Absent
       /\ stored' \subseteq stored \union {r} /\ stored \ stored' \subseteq {c.old}
       /\ u => r \in stored'
       /\ c.uploaded => u
       /\ r \in stored' => u \/ r \in stored
       /\ c.emptied => e
       /\ e => c.old \notin stored'
       /\ ~e => stored \subseteq stored'
       /\ WellFormed(r, Rec(r, p, u, e))

LEMMA GoesOnKeeps ==
    ASSUME PicturesInv, NEW r, NEW p, NEW u, NEW e, GoesOn(r, p, u, e)
    PROVE  PicturesInv'
<1> DEFINE c == change[r]
           q == Rec(r, p, u, e)
<1>o. PICK o \in Rows : o = c.owner
  BY ChangeTypes DEF GoesOn
<1>0. /\ StoreTypeOK /\ o = c.owner /\ r \in Pictures /\ r \in Changes /\ ~Over(r)
      /\ p \in Phases \ {"new", "done", "failed"} /\ u \in BOOLEAN /\ e \in BOOLEAN
      /\ o \in Rows /\ change \in [Changes -> ChangeRecord]
      /\ stored \subseteq Pictures /\ saving \in [Rows -> Changes \union {NoImage}]
      /\ NoImage \notin Pictures /\ Absent \notin Pictures /\ NoImage \notin Changes
  BY <1>o, StoreTypes, ChangeTypes, Names DEF GoesOn
<1>1. /\ q \in ChangeRecord /\ q.phase = p /\ q.owner = o /\ q.kind = c.kind /\ q.old = c.old
      /\ q.uploaded = u /\ q.emptied = e
  BY <1>0, RecType
<1>2. change' = [change EXCEPT ![r] = q] /\ WellFormed(r, q)
  BY DEF GoesOn
<1> HIDE DEF q
<1>3. /\ UNCHANGED <<row, colors, backfill, contested, spoiled, leaked>> /\ SlotInv'
      /\ stored' \subseteq stored \union {r} /\ stored \ stored' \subseteq {c.old}
      /\ u => r \in stored'
      /\ c.uploaded => u
      /\ r \in stored' => u \/ r \in stored
      /\ c.emptied => e
      /\ e => c.old \notin stored'
      /\ ~e => stored \subseteq stored'
      /\ p \in {"saved", "emptied"} => saving[o] \in {r, NoImage} /\ row[o] # Absent
  BY <1>o DEF GoesOn
<1>4. saving' = IF p \in {"saved", "emptied"} THEN [saving EXCEPT ![o] = r]
                ELSE IF c.phase \in {"saved", "emptied"} THEN [saving EXCEPT ![o] = NoImage]
                ELSE saving
  BY <1>o DEF GoesOn
<1>5. /\ c.phase # "new" /\ c.phase \in Phases /\ row[o] # r /\ c.old # r
      /\ c.old \in Pictures => Home(c.old, o)
      /\ r \in stored \ leaked => c.uploaded
      /\ c.kind = "create" => o = r /\ row[o] = Absent /\ c.old = NoImage
      /\ c.kind # "create" => Born(o) /\ Follows(r)
      /\ saving[o] = r <=> c.phase \in {"saved", "emptied"}
  BY <1>0, OwnRow
<1>6. StoreTypeOK' /\ BackfillInv' /\ ColorsOfTheirImage'
  <2>1. TypeOK' /\ BackfillInv' /\ ColorsOfTheirImage'
    BY <1>3 DEF SlotInv, PicturesInv, PicturesMatchRows, BackfillInv, ColorsOfTheirImage
  <2>2. change' \in [Changes -> ChangeRecord]
    BY <1>0, <1>1, <1>2
  <2>3. saving' \in [Rows -> Changes \union {NoImage}]
    BY <1>0, <1>4
  <2>4. stored' \subseteq Pictures
    BY <1>0, <1>3
  <2> QED
    BY <1>0, <1>3, <2>1, <2>2, <2>3, <2>4 DEF StoreTypeOK, ChangeRecord
<1>7. \A s \in Changes : saving'[o] = s <=> IF s = r THEN q.phase \in {"saved", "emptied"}
                                                         ELSE saving[o] = s
  BY <1>0, <1>1, <1>3, <1>4, <1>5
<1>8. /\ \A x \in Rows \ {o} : row'[x] = row[x] /\ saving'[x] = saving[x]
      /\ spoiled' \ {o} = spoiled \ {o}
  BY <1>0, <1>3, <1>4
<1>9. /\ change'[r] = q /\ \A s \in Changes : change[s].phase = "done" => change'[s] = change[s]
  BY <1>0, <1>2 DEF Over
<1>10. /\ row[o] # Absent => Born(o)'
       /\ row'[o] \in Pictures => Home(row[o], o)'
       /\ c.old \in Pictures => Home(c.old, o)'
       /\ c.kind # "create" => Born(o)'
  <2>1. row[o] # Absent => Born(o)
    BY <1>0 DEF PicturesInv, RowsAtHome
  <2>2. Born(o) => Born(o)'
    BY <1>9 DEF Born
  <2>3. row[o] \in Pictures => Home(row[o], o)
    BY <1>0 DEF PicturesInv, RowsAtHome
  <2>4. c.old \in Pictures => Home(c.old, o)'
    BY <1>1, <1>5, <1>9 DEF Home
  <2>5. row'[o] \in Pictures => Home(row[o], o)'
    BY <2>3, <1>3, <1>9 DEF Home
  <2> QED
    BY <2>1, <2>2, <2>4, <2>5, <1>5
<1>11. Follows(r)'
  <2>1. p \in {"saved", "emptied"} => row'[o] # Absent
    BY <1>3
  <2>2. ASSUME o \notin contested, c.kind # "create"
        PROVE  /\ row[o] \in {c.old, Absent}
               /\ row[o] = Absent => c.old \notin stored' \ leaked'
               /\ row[o] \in Pictures /\ o \notin spoiled /\ ~e => row[o] \in stored'
    BY <2>2, <1>0, <1>3, <1>5 DEF Follows
  <2> QED
    BY <2>1, <2>2, <1>1, <1>3, <1>9 DEF Follows
<1>12. InHand(r)'
  BY <1>1, <1>3, <1>9, <1>10, <1>11 DEF InHand
<1>13. /\ q.phase \notin {"new", "done", "failed"} /\ (r \in stored' \ leaked' => q.uploaded)
       /\ row'[o] = row[o] /\ contested' = contested
       /\ stored' \subseteq stored \union {r} /\ stored \ stored' \subseteq {r, q.old}
       /\ leaked \subseteq leaked'
  BY <1>0, <1>1, <1>3, <1>5
<1>14. Moves(r, q, o)
  <2>1. /\ r \in Changes /\ ~Over(r) /\ q \in ChangeRecord /\ o \in Rows /\ o = change[r].owner
        /\ change' = [change EXCEPT ![r] = q]
        /\ q.owner = o /\ q.kind = change[r].kind /\ q.old = change[r].old /\ q.phase # "new"
        /\ WellFormed(r, q)
    BY <1>0, <1>1, <1>2
  <2>2. row[o] # Absent => row'[o] # Absent
    BY <1>3
  <2>3. row'[o] # Absent => Born(o)'
    BY <1>3, <1>10
  <2>4. /\ q.phase \notin {"done", "failed"} => InHand(r)' /\ row'[o] = row[o]
        /\ ~(q.phase \in {"done", "failed"})
    BY <1>12, <1>13
  <2>5. SlotInv'
    BY <1>3
  <2>6. q.phase \in {"done", "failed"} /\ o \notin contested =>
          /\ row'[o] \in Pictures /\ o \notin spoiled' => row'[o] \in stored'
          /\ \A b \in {r, q.old, row[o]} : b \in stored' \ leaked' => row'[o] = b
    BY <2>4
  <2>7. row'[o] \in Pictures => Home(row[o], o)'
    BY <1>10
  <2> QED
    BY <2>1, <2>2, <2>3, <2>4, <2>5, <2>6, <2>7, <1>6, <1>7, <1>8, <1>13 DEF Moves
<1> QED
  BY <1>14, AdvanceKeeps

(* The row is written, if at all, with the picture that was uploaded, with *)
(* none, or with what it was when the change leaves the picture alone.     *)
Writes(r, image) ==
    LET c == change[r]
        o == c.owner
    IN /\ r \in Changes /\ ~Over(r) /\ SlotInv'
       /\ change' = [change EXCEPT ![r] = Rec(r, "done", c.uploaded, c.emptied)]
       /\ row' = [row EXCEPT ![o] = image]
       /\ saving' = IF c.phase \in {"saved", "emptied"} THEN [saving EXCEPT ![o] = NoImage] ELSE saving
       /\ spoiled' = IF c.kind = "keep" THEN spoiled ELSE spoiled \ {o}
       /\ UNCHANGED <<stored, backfill, contested, leaked>>
       /\ colors' \in [Organizations -> Pictures \union {NoImage}] /\ ColorsOfTheirImage'
       /\ IF c.uploaded THEN image = r
          ELSE IF c.kind = "keep" THEN image \in {c.old, row[o]} ELSE image = NoImage
       /\ c.kind # "create" => row[o] # Absent
       /\ c.kind # "keep" /\ c.old # NoImage => c.emptied
       /\ c.kind = "keep" => ~c.emptied /\ ~c.uploaded

LEMMA WritesKeeps ==
    ASSUME PicturesInv, NEW r, NEW image, Writes(r, image)
    PROVE  PicturesInv'
<1> DEFINE c == change[r]
           q == Rec(r, "done", c.uploaded, c.emptied)
<1>o. PICK o \in Rows : o = c.owner
  BY ChangeTypes DEF Writes
<1>0. /\ StoreTypeOK /\ o = c.owner /\ r \in Pictures /\ r \in Changes /\ ~Over(r)
      /\ c.uploaded \in BOOLEAN /\ c.emptied \in BOOLEAN /\ "done" \in Phases
      /\ c.old \in Pictures \union {NoImage} /\ c.kind \in Kinds
      /\ row \in [Rows -> Pictures \union {NoImage, Absent}]
      /\ change \in [Changes -> ChangeRecord]
      /\ stored \subseteq Pictures /\ saving \in [Rows -> Changes \union {NoImage}]
      /\ NoImage \notin Pictures /\ Absent \notin Pictures /\ NoImage \notin Changes
      /\ NoImage # Absent
  BY <1>o, StoreTypes, ChangeTypes, Names DEF Writes, Phases
<1>1. /\ q \in ChangeRecord /\ q.phase = "done" /\ q.owner = o /\ q.kind = c.kind /\ q.old = c.old
      /\ q.uploaded = c.uploaded /\ q.emptied = c.emptied
  BY <1>0, RecType
<1>2. change' = [change EXCEPT ![r] = q]
  BY DEF Writes
<1> HIDE DEF q
<1>3. /\ UNCHANGED <<stored, backfill, contested, leaked>> /\ SlotInv'
      /\ row' = [row EXCEPT ![o] = image]
      /\ spoiled' = IF c.kind = "keep" THEN spoiled ELSE spoiled \ {o}
      /\ colors' \in [Organizations -> Pictures \union {NoImage}] /\ ColorsOfTheirImage'
      /\ IF c.uploaded THEN image = r
         ELSE IF c.kind = "keep" THEN image \in {c.old, row[o]} ELSE image = NoImage
      /\ c.kind # "create" => row[o] # Absent
      /\ c.kind # "keep" /\ c.old # NoImage => c.emptied
      /\ c.kind = "keep" => ~c.emptied /\ ~c.uploaded
  BY <1>o DEF Writes
<1>4. saving' = IF c.phase \in {"saved", "emptied"} THEN [saving EXCEPT ![o] = NoImage] ELSE saving
  BY <1>o DEF Writes
<1>5. /\ c.phase # "new" /\ row[o] # r /\ c.old # r
      /\ c.old \in Pictures => Home(c.old, o)
      /\ c.uploaded => r \in stored
      /\ c.emptied => c.old \notin stored
      /\ r \in stored \ leaked => c.uploaded
      /\ c.kind = "create" => o = r /\ row[o] = Absent /\ c.old = NoImage
      /\ c.kind # "create" => Born(o) /\ Follows(r)
      /\ saving[o] = r <=> c.phase \in {"saved", "emptied"}
  BY <1>0, OwnRow
<1>6. image \in Pictures \union {NoImage}
  BY <1>0, <1>3, <1>5
<1>7. StoreTypeOK' /\ BackfillInv'
  <2>1. TypeOK' /\ BackfillInv'
    BY <1>3 DEF SlotInv, PicturesInv, BackfillInv, NoBackfill, Backfill
  <2>2. change' \in [Changes -> ChangeRecord]
    BY <1>0, <1>1, <1>2
  <2>3. saving' \in [Rows -> Changes \union {NoImage}]
    BY <1>0, <1>4
  <2>4. row' \in [Rows -> Pictures \union {NoImage, Absent}]
    BY <1>0, <1>3, <1>6
  <2> QED
    BY <1>0, <1>3, <2>1, <2>2, <2>3, <2>4 DEF StoreTypeOK, ChangeRecord
<1>8. /\ \A s \in Changes : saving'[o] = s <=> IF s = r THEN q.phase \in {"saved", "emptied"}
                                               ELSE saving[o] = s
  BY <1>0, <1>1, <1>4, <1>5
<1>9. /\ \A x \in Rows \ {o} : row'[x] = row[x] /\ saving'[x] = saving[x]
      /\ spoiled' \ {o} = spoiled \ {o}
  BY <1>0, <1>3, <1>4
<1>10. /\ change'[r] = q /\ \A s \in Changes : change[s].phase = "done" => change'[s] = change[s]
       /\ row'[o] = image /\ image # Absent
  BY <1>0, <1>2, <1>3, <1>6 DEF Over
<1>11. Born(o)'
  <2>1. c.kind # "create" => Born(o)'
    BY <1>5, <1>10 DEF Born
  <2>2. c.kind = "create" => Born(o)'
    BY <1>1, <1>5, <1>10 DEF Born
  <2> QED
    BY <2>1, <2>2
<1>12. row'[o] \in Pictures => Home(row[o], o)'
  <2>1. CASE image = r
    BY <2>1, <1>0, <1>1, <1>10 DEF Home
  <2>2. CASE image = c.old
    BY <2>2, <1>5, <1>10 DEF Home
  <2>3. CASE image = row[o]
    <3>1. row[o] \in Pictures => Home(row[o], o)
      BY <1>0 DEF PicturesInv, RowsAtHome
    <3> QED
      BY <2>3, <3>1, <1>10 DEF Home
  <2> QED
    BY <2>1, <2>2, <2>3, <1>0, <1>3, <1>10
<1>13. ASSUME o \notin contested
       PROVE  /\ image \in Pictures /\ o \notin spoiled' => image \in stored'
              /\ \A b \in {r, q.old, row[o]} : b \in stored' \ leaked' => image = b
  <2>1. CASE c.uploaded
    BY <2>1, <1>13, <1>0, <1>1, <1>3, <1>5 DEF Follows
  <2>2. CASE ~c.uploaded /\ c.kind = "keep"
    BY <2>2, <1>13, <1>0, <1>1, <1>3, <1>5 DEF Follows
  <2>3. CASE ~c.uploaded /\ c.kind # "keep"
    BY <2>3, <1>13, <1>0, <1>1, <1>3, <1>5 DEF Follows
  <2> QED BY <2>1, <2>2, <2>3, <1>0
<1>14. Moves(r, q, o)
  <2>1. /\ r \in Changes /\ ~Over(r) /\ q \in ChangeRecord /\ o \in Rows /\ o = change[r].owner
        /\ change' = [change EXCEPT ![r] = q]
        /\ q.owner = o /\ q.kind = change[r].kind /\ q.old = change[r].old /\ q.phase = "done"
        /\ WellFormed(r, q)
    BY <1>0, <1>1, <1>2 DEF WellFormed
  <2>2. /\ r \in stored' \ leaked' => q.uploaded
        /\ contested' = contested
        /\ stored' \subseteq stored \union {r} /\ stored \ stored' \subseteq {r, q.old}
        /\ leaked \subseteq leaked' /\ SlotInv' /\ ColorsOfTheirImage'
    BY <1>1, <1>3, <1>5
  <2> QED
    BY <2>1, <2>2, <1>7, <1>8, <1>9, <1>10, <1>11, <1>12, <1>13 DEF Moves
<1> QED
  BY <1>14, AdvanceKeeps

(* A change r begins as q: it knows the picture of its row, or makes the   *)
(* row itself.                                                             *)
Begins(r, q) ==
    /\ r \in Changes /\ change[r].phase = "new" /\ q \in ChangeRecord /\ WellFormed(r, q)
    /\ q.phase \notin {"new", "done", "failed", "saved", "emptied"} /\ ~q.uploaded /\ ~q.emptied
    /\ change' = [change EXCEPT ![r] = q]
    /\ UNCHANGED <<vars, rowVars, stored, backfill, spoiled, leaked>>
    /\ \/ /\ q.kind # "create" /\ row[q.owner] # Absent /\ q.old = row[q.owner]
          /\ contested' = IF ActiveOn(q.owner) = {} THEN contested ELSE contested \union {q.owner}
       \/ q.kind = "create" /\ q.owner = r /\ q.old = NoImage /\ contested' = contested

LEMMA BeginsKeeps ==
    ASSUME PicturesInv, NEW r, NEW q, Begins(r, q)
    PROVE  PicturesInv'
<1>o. PICK o \in Rows : o = q.owner
  BY DEF Begins, ChangeRecord
<1>0. /\ StoreTypeOK /\ o = q.owner /\ r \in Pictures /\ r \in Changes /\ change[r].phase = "new"
      /\ q \in ChangeRecord /\ WellFormed(r, q) /\ ~q.uploaded /\ ~q.emptied
      /\ q.phase \notin {"new", "done", "failed", "saved", "emptied"}
      /\ row \in [Rows -> Pictures \union {NoImage, Absent}]
      /\ change \in [Changes -> ChangeRecord] /\ contested \subseteq Rows
      /\ NoImage \notin Pictures /\ Absent \notin Pictures
  BY <1>o, StoreTypes, Names DEF Begins
<1>1. /\ change'[r] = q /\ \A s \in Changes \ {r} : change'[s] = change[s] /\ Over(s)' = Over(s)
      /\ Over(r) /\ ~Over(r)' /\ change' \in [Changes -> ChangeRecord]
  BY <1>0 DEF Begins, Over
<1>2. UNCHANGED <<vars, row, colors, saving, stored, backfill, spoiled, leaked>>
  BY DEF Begins, rowVars
<1>3. /\ contested \subseteq contested' /\ contested' \subseteq contested \union {o}
      /\ o \notin contested' /\ q.kind # "create" => ActiveOn(o) = {}
      /\ q.kind # "create" => row[o] # Absent /\ q.old = row[o]
      /\ q.kind = "create" => o = r /\ q.old = NoImage
  BY <1>o DEF Begins
<1>4. SlotInv' /\ StoreTypeOK' /\ BackfillInv' /\ ColorsOfTheirImage'
  <2>1. SlotInv'
    BY <1>2 DEF PicturesInv, SlotInv, TypeOK, QueueInv, CountInv, Holders, On, vars
  <2>2. BackfillInv' /\ ColorsOfTheirImage'
    BY <1>2 DEF PicturesInv, PicturesMatchRows, BackfillInv, ColorsOfTheirImage, NoBackfill, Backfill
  <2> QED
    BY <2>1, <2>2, <1>0, <1>1, <1>2, <1>3 DEF StoreTypeOK, ChangeRecord, SlotInv
<1>5. \A b \in Pictures, x \in Rows : Home(b, x) => b # r
  BY <1>0, Names DEF Home
<1>6. RowsAtHome'
  <2> SUFFICES ASSUME NEW x \in Rows
               PROVE  /\ row'[x] # Absent => Born(x)'
                      /\ row'[x] \in Pictures => Home(row[x], x)'
    BY DEF RowsAtHome
  <2>1. (row[x] # Absent => Born(x)) /\ (row[x] \in Pictures => Home(row[x], x))
    BY DEF PicturesInv, RowsAtHome
  <2>2. row'[x] # Absent => Born(x)'
    BY <2>1, <1>0, <1>1, <1>2 DEF Born
  <2>3. row'[x] \in Pictures => Home(row[x], x)'
    BY <2>1, <1>0, <1>1, <1>2 DEF Home
  <2> QED
    BY <2>2, <2>3
<1>7. \A s \in Changes \ {r} : ~Over(s) /\ change[s].owner = o => o \in contested' \/ q.kind = "create"
  BY <1>3 DEF ActiveOn
<1>8. \A s \in Changes \ {r} : ~Over(s) => ~(q.kind = "create" /\ change[s].owner = o)
  <2> SUFFICES ASSUME NEW s \in Changes \ {r}, ~Over(s), q.kind = "create", change[s].owner = o
               PROVE  FALSE
    OBVIOUS
  <2>1. o = r /\ change[s].owner = r
    BY <1>3
  <2>2. change[s].kind # "create" => Born(r)
    BY <2>1 DEF PicturesInv, InHand
  <2>3. change[s].kind # "create"
    BY <2>1 DEF PicturesInv, WellFormed, Over
  <2> QED
    BY <2>2, <2>3, <1>0 DEF Born
<1>9. OneByOne'
  <2>1. ASSUME NEW s \in Changes, NEW t \in Changes, ~Over(s)', ~Over(t)',
               change'[s].owner = change'[t].owner, change'[s].owner \notin contested'
        PROVE  s = t
    <3>1. CASE s # r /\ t # r
      BY <3>1, <2>1, <1>1, <1>3 DEF PicturesInv, OneByOne
    <3>2. CASE s = r \/ t = r
      BY <3>2, <2>1, <1>0, <1>1, <1>7, <1>8
    <3> QED BY <3>1, <3>2
  <2>2. ASSUME NEW s \in Changes, NEW x \in Rows
        PROVE  saving'[x] = s <=> change'[s].phase \in {"saved", "emptied"} /\ change'[s].owner = x
    <3>1. saving[x] = s <=> change[s].phase \in {"saved", "emptied"} /\ change[s].owner = x
      BY DEF PicturesInv, OneByOne
    <3>2. saving'[x] = saving[x]
      BY <1>2
    <3> QED
      BY <3>1, <3>2, <1>0, <1>1
  <2> QED
    BY <2>1, <2>2 DEF OneByOne
<1>10. ImagesExist'
  <2> SUFFICES ASSUME NEW x \in Rows, row'[x] \in Pictures, ActiveOn(x)' = {},
                      x \notin contested' \union spoiled'
               PROVE  row'[x] \in stored'
    BY DEF ImagesExist
  <2>1. ActiveOn(x) = {} /\ x \notin contested \union spoiled
    BY <1>1, <1>2, <1>3 DEF ActiveOn
  <2> QED
    BY <2>1, <1>2 DEF PicturesInv, PicturesMatchRows, ImagesExist
<1>11. r \notin stored \ leaked
  BY <1>0 DEF PicturesInv, Stored, WellFormed
<1>12. NoOrphans'
  <2> SUFFICES ASSUME NEW b \in stored \ leaked
               PROVE  \/ \E x \in Rows : row'[x] = b
                      \/ \E s \in Changes : ~Over(s)' /\ b \in {s, change'[s].old}
                      \/ \E x \in contested' : b = x \/ (b \in Changes /\ change'[b].owner = x)
    BY <1>2 DEF NoOrphans
  <2>1. b # r
    BY <1>11
  <2>2. \/ \E x \in Rows : row[x] = b
        \/ \E s \in Changes : ~Over(s) /\ b \in {s, change[s].old}
        \/ \E x \in contested : b = x \/ (b \in Changes /\ change[b].owner = x)
    BY DEF PicturesInv, PicturesMatchRows, NoOrphans
  <2> QED
    BY <2>1, <2>2, <1>1, <1>2, <1>3
<1>13. ASSUME NEW s \in Changes \ {r} PROVE InHand(s)'
  <2> SUFFICES ASSUME ~Over(s) PROVE InHand(s)'
    BY <1>1 DEF InHand
  <2>1. InHand(s) /\ change'[s] = change[s]
    BY <1>1 DEF PicturesInv
  <2>2. change[s].old \in Pictures => Home(change[s].old, change[s].owner)'
    BY <2>1, <1>0, <1>1 DEF InHand, Home
  <2>3. change[s].kind # "create" => Born(change[s].owner)'
    BY <2>1, <1>0, <1>1 DEF InHand, Born
  <2>4. Follows(s)'
    BY <2>1, <1>2, <1>3 DEF InHand, Follows
  <2> QED
    BY <2>1, <2>2, <2>3, <2>4, <1>2 DEF InHand
<1>14. InHand(r)'
  <2>1. q.old \in Pictures => Home(q.old, o)'
    <3>1. q.old \in Pictures => q.kind # "create" /\ row[o] \in Pictures /\ q.old = row[o]
      BY <1>0, <1>3
    <3>2. row'[o] \in Pictures => Home(row[o], o)'
      BY <1>6 DEF RowsAtHome
    <3> QED
      BY <3>1, <3>2, <1>2
  <2>2. q.kind # "create" => Born(o)'
    BY <1>2, <1>3, <1>6 DEF RowsAtHome
  <2>3. Follows(r)'
    <3>1. ASSUME o \notin contested', q.kind # "create"
          PROVE  row'[o] = q.old /\ row'[o] # Absent
                 /\ (row'[o] \in Pictures /\ o \notin spoiled' => row'[o] \in stored')
      <4>1. ActiveOn(o) = {} /\ o \notin contested
        BY <3>1, <1>3
      <4> QED
        BY <3>1, <4>1, <1>2, <1>3 DEF PicturesInv, PicturesMatchRows, ImagesExist
    <3> QED
      BY <3>1, <1>0, <1>1 DEF Follows
  <2> QED
    BY <2>1, <2>2, <2>3, <1>0, <1>1 DEF InHand
<1>15. \A s \in Changes : WellFormed(s, change[s])' /\ Stored(s)'
  <2>1. WellFormed(r, change[r])' /\ Stored(r)'
    BY <1>0, <1>1, <1>2, <1>11 DEF WellFormed, Stored
  <2>2. ASSUME NEW s \in Changes \ {r} PROVE WellFormed(s, change[s])' /\ Stored(s)'
    <3>1. WellFormed(s, change[s]) /\ Stored(s) /\ change'[s] = change[s]
      BY <1>1 DEF PicturesInv
    <3> QED
      BY <3>1, <1>2 DEF WellFormed, Stored
  <2> QED BY <2>1, <2>2
<1> QED
  BY <1>4, <1>6, <1>9, <1>10, <1>12, <1>13, <1>14, <1>15 DEF PicturesInv, PicturesMatchRows

(* Steps that leave the rows, the bucket and the changes alone.            *)
LEMMA RestKeeps ==
    ASSUME PicturesInv, SlotInv', BackfillInv', ColorsOfTheirImage',
           colors' \in [Organizations -> Pictures \union {NoImage}],
           UNCHANGED <<row, stored, change, saving, ghosts>>
    PROVE  PicturesInv'
<1>1. UNCHANGED <<row, stored, change, saving, contested, spoiled, leaked>>
  BY DEF ghosts
<1>2. StoreTypeOK'
  BY <1>1, StoreTypes DEF StoreTypeOK, SlotInv, BackfillInv, NoBackfill, Backfill
<1>3. ImagesExist' /\ NoOrphans'
  BY <1>1 DEF PicturesInv, PicturesMatchRows, ImagesExist, NoOrphans, ActiveOn, Over
<1>4. RowsAtHome' /\ OneByOne'
  BY <1>1 DEF PicturesInv, RowsAtHome, Born, Home, OneByOne, Over
<1>5. \A r \in Changes : WellFormed(r, change[r])' /\ InHand(r)' /\ Stored(r)'
  BY <1>1 DEF PicturesInv, WellFormed, InHand, Follows, Born, Home, Stored, Over
<1> QED
  BY <1>2, <1>3, <1>4, <1>5 DEF PicturesInv, PicturesMatchRows

LEMMA BackfillKeeps ==
    ASSUME PicturesInv, SlotInv',
           (\E o \in Organizations : BackfillRead(o)) \/ BackfillFetch \/ StoreColorsIfImageUnchanged
    PROVE  PicturesInv'
<1>1. UNCHANGED <<row, stored, change, saving, ghosts>>
  BY DEF BackfillRead, BackfillFetch, StoreColorsIfImageUnchanged, rowVars
<1>2. /\ BackfillInv /\ ColorsOfTheirImage /\ colors \in [Organizations -> Pictures \union {NoImage}]
  BY StoreTypes DEF PicturesInv, PicturesMatchRows
<1>3. CASE \E o \in Organizations : BackfillRead(o)
  <2>1. BackfillInv' /\ colors' = colors
    BY <1>3 DEF BackfillRead, BackfillInv, Backfill, rowVars
  <2> QED
    BY <2>1, <1>1, <1>2, RestKeeps DEF ColorsOfTheirImage
<1>4. CASE BackfillFetch
  <2>1. backfill \in Backfill
    BY <1>2, <1>4 DEF BackfillFetch, BackfillInv
  <2>2. BackfillInv' /\ colors' = colors
    BY <2>1, <1>4 DEF BackfillFetch, BackfillInv, Backfill, rowVars
  <2> QED
    BY <2>2, <1>1, <1>2, RestKeeps DEF ColorsOfTheirImage
<1>5. CASE StoreColorsIfImageUnchanged
  <2>1. backfill \in Backfill
    BY <1>2, <1>5 DEF StoreColorsIfImageUnchanged, BackfillInv, NoBackfill
  <2>2. BackfillInv'
    BY <1>5 DEF StoreColorsIfImageUnchanged, BackfillInv
  <2>3. colors' \in [Organizations -> Pictures \union {NoImage}] /\ ColorsOfTheirImage'
    BY <2>1, <1>1, <1>2, <1>5 DEF StoreColorsIfImageUnchanged, Backfill, ColorsOfTheirImage
  <2> QED
    BY <2>2, <2>3, <1>1, RestKeeps
<1> QED
  BY <1>3, <1>4, <1>5

LEMMA RemoveRowKeeps ==
    ASSUME PicturesInv, SlotInv', NEW o \in Rows, RemoveRow(o)
    PROVE  PicturesInv'
<1>0. /\ StoreTypeOK /\ row \in [Rows -> Pictures \union {NoImage, Absent}]
      /\ stored \subseteq Pictures /\ NoImage \notin Pictures /\ Absent \notin Pictures
      /\ leaked \subseteq Pictures /\ colors \in [Organizations -> Pictures \union {NoImage}]
      /\ \A x \in Organizations : x \in Rows
  BY StoreTypes, Names DEF Rows, Owners
<1>1. /\ UNCHANGED <<stored, change, saving, backfill, contested, spoiled>>
      /\ row' = [row EXCEPT ![o] = Absent]
      /\ colors' = IF o \in Organizations THEN [colors EXCEPT ![o] = NoImage] ELSE colors
      /\ leaked' = leaked \union ({row[o]} \intersect stored)
      /\ row[o] # Absent /\ saving[o] = NoImage
  BY DEF RemoveRow
<1>2. /\ row'[o] = Absent /\ \A x \in Rows \ {o} : row'[x] = row[x]
      /\ \A s \in Changes : Over(s)' = Over(s)
  BY <1>0, <1>1 DEF Over
<1>3. StoreTypeOK' /\ BackfillInv' /\ ColorsOfTheirImage'
  <2>1. TypeOK' /\ BackfillInv'
    BY <1>1 DEF SlotInv, PicturesInv, BackfillInv, NoBackfill, Backfill
  <2>2. ColorsOfTheirImage'
    BY <1>0, <1>1, <1>2 DEF PicturesInv, PicturesMatchRows, ColorsOfTheirImage
  <2>3. /\ row' \in [Rows -> Pictures \union {NoImage, Absent}]
        /\ colors' \in [Organizations -> Pictures \union {NoImage}]
        /\ leaked' \subseteq Pictures
    BY <1>0, <1>1
  <2> QED
    BY <1>0, <1>1, <2>1, <2>2, <2>3 DEF StoreTypeOK
<1>4. ImagesExist'
  BY <1>0, <1>1, <1>2 DEF PicturesInv, PicturesMatchRows, ImagesExist, ActiveOn
<1>5. NoOrphans'
  <2> SUFFICES ASSUME NEW b \in stored \ leaked'
               PROVE  \/ \E x \in Rows : row'[x] = b
                      \/ \E s \in Changes : ~Over(s)' /\ b \in {s, change'[s].old}
                      \/ \E x \in contested' : b = x \/ (b \in Changes /\ change'[b].owner = x)
    BY <1>1 DEF NoOrphans
  <2>1. b # row[o] /\ b \in stored \ leaked
    BY <1>1
  <2>2. \/ \E x \in Rows : row[x] = b
        \/ \E s \in Changes : ~Over(s) /\ b \in {s, change[s].old}
        \/ \E x \in contested : b = x \/ (b \in Changes /\ change[b].owner = x)
    BY <2>1 DEF PicturesInv, PicturesMatchRows, NoOrphans
  <2> QED
    BY <2>1, <2>2, <1>1, <1>2
<1>6. RowsAtHome'
  <2> SUFFICES ASSUME NEW x \in Rows
               PROVE  /\ row'[x] # Absent => Born(x)'
                      /\ row'[x] \in Pictures => Home(row[x], x)'
    BY DEF RowsAtHome
  <2>1. (row[x] # Absent => Born(x)) /\ (row[x] \in Pictures => Home(row[x], x))
    BY DEF PicturesInv, RowsAtHome
  <2>2. row'[x] # Absent => Born(x)'
    BY <2>1, <1>1, <1>2 DEF Born
  <2>3. row'[x] \in Pictures => Home(row[x], x)'
    BY <2>1, <1>0, <1>1, <1>2 DEF Home
  <2> QED
    BY <2>2, <2>3
<1>7. OneByOne'
  BY <1>1, <1>2 DEF PicturesInv, OneByOne
<1>8. ASSUME NEW s \in Changes PROVE InHand(s)'
  <2> SUFFICES ASSUME ~Over(s) PROVE InHand(s)'
    BY <1>2 DEF InHand
  <2> DEFINE c == change[s]
  <2>1. InHand(s) /\ change'[s] = c /\ c.old \in Pictures \union {NoImage} /\ c.owner \in Rows
    BY <1>1, ChangeTypes DEF PicturesInv
  <2>2. (c.old \in Pictures => Home(c.old, c.owner)') /\ (c.kind # "create" => Born(c.owner)')
    BY <2>1, <1>1 DEF InHand, Home, Born
  <2>3. Follows(s)'
    <3>1. CASE c.owner = o
      <4>1. c.phase \notin {"saved", "emptied"}
        <5>1. saving[o] # s
          BY <1>1, Names
        <5> QED
          BY <3>1, <5>1 DEF PicturesInv, OneByOne
      <4>2. ASSUME o \notin contested, c.kind # "create" PROVE c.old \notin stored' \ leaked'
        BY <4>2, <3>1, <2>1, <1>0, <1>1 DEF InHand, Follows
      <4> QED
        BY <3>1, <4>1, <4>2, <2>1, <1>0, <1>1, <1>2 DEF Follows
    <3>2. CASE c.owner # o
      BY <3>2, <2>1, <1>1, <1>2 DEF InHand, Follows
    <3> QED BY <3>1, <3>2
  <2> QED
    BY <2>1, <2>2, <2>3, <1>1 DEF InHand
<1>9. \A s \in Changes : WellFormed(s, change[s])' /\ Stored(s)'
  <2> SUFFICES ASSUME NEW s \in Changes PROVE WellFormed(s, change[s])' /\ Stored(s)'
    OBVIOUS
  <2>1. WellFormed(s, change[s]) /\ Stored(s)
    BY DEF PicturesInv
  <2> QED
    BY <2>1, <1>1 DEF WellFormed, Stored
<1> QED
  BY <1>3, <1>4, <1>5, <1>6, <1>7, <1>8, <1>9 DEF PicturesInv, PicturesMatchRows

(* A step that involves images is a step of the decode slots, or none.     *)
LEMMA SlotSteps == [StoreNext]_storeVars => [Next]_vars
<1> SUFFICES ASSUME StoreNext PROVE [Next]_vars
  BY DEF storeVars
<1>1. ASSUME NEW r \in Changes, Advance(r) PROVE [Next]_vars
  <2>1. r \in Uploads
    BY ChangesAssumption
  <2>2. UNCHANGED vars \/ Acquire(r) \/ Queue(r) \/ Resume(r) \/ Refuse(r) \/ Release(r)
    BY <1>1 DEF Advance, SwapDelete, UploadAcquire, UploadRefused, Normalized, Put, WriteUser,
                WriteOrganization, CreateEvent, Cleanup, Save, DeleteOld, Commit
  <2> QED
    BY <2>1, <2>2 DEF Next
<1>2. ASSUME NEW r \in Changes, NEW o \in Rows, NEW kind \in Kinds \ {"create"},
             UpdateUser(r, o, kind) \/ UpdateOrganization(r, o, kind) \/ UpdateEvent(r, o, kind)
      PROVE  [Next]_vars
  BY <1>2 DEF UpdateUser, UpdateOrganization, UpdateEvent, Take
<1>3. ASSUME NEW r \in Changes, NEW withImage \in BOOLEAN, BeginCreate(r, withImage)
      PROVE  [Next]_vars
  BY <1>3 DEF BeginCreate
<1>4. ASSUME NEW u \in Uploads, OtherUpload(u) PROVE [Next]_vars
  BY <1>4 DEF OtherUpload, Next
<1>5. ASSUME NEW o \in Rows, RemoveRow(o) PROVE [Next]_vars
  BY <1>5 DEF RemoveRow
<1>6. ASSUME NEW o \in Organizations, BackfillRead(o) PROVE [Next]_vars
  BY <1>6 DEF BackfillRead
<1>7. ASSUME BackfillFetch \/ StoreColorsIfImageUnchanged PROVE [Next]_vars
  BY <1>7 DEF BackfillFetch, StoreColorsIfImageUnchanged
<1> QED
  BY <1>1, <1>2, <1>3, <1>4, <1>5, <1>6, <1>7 DEF StoreNext

BegunAs(r, p, o, k, b) ==
    [NotBegun(r) EXCEPT !.phase = p, !.owner = o, !.kind = k, !.old = b]
CreatesAs(r, p) == [NotBegun(r) EXCEPT !.phase = p]

LEMMA Begun ==
    ASSUME NEW r \in Changes, NEW p \in Phases, NEW o \in Rows, NEW k \in Kinds,
           NEW b \in Pictures \union {NoImage}
    PROVE  /\ BegunAs(r, p, o, k, b)
              = [phase |-> p, owner |-> o, kind |-> k, old |-> b, uploaded |-> FALSE, emptied |-> FALSE]
           /\ CreatesAs(r, p)
              = [phase |-> p, owner |-> r, kind |-> "create", old |-> NoImage,
                 uploaded |-> FALSE, emptied |-> FALSE]
<1> DEFINE n == NotBegun(r)
           f == [n EXCEPT !.phase = p]
           g == [f EXCEPT !.owner = o]
           h == [g EXCEPT !.kind = k]
<1>1. n \in ChangeRecord /\ n = [phase |-> "new", owner |-> r, kind |-> "create", old |-> NoImage,
                                 uploaded |-> FALSE, emptied |-> FALSE]
  BY Names DEF NotBegun, ChangeRecord, Phases, Kinds
<1> HIDE DEF n
<1>2. f = [phase |-> p, owner |-> n.owner, kind |-> n.kind, old |-> n.old,
           uploaded |-> n.uploaded, emptied |-> n.emptied]
  <2>1. \A x \in ChangeRecord :
          [x EXCEPT !.phase = p] = [phase |-> p, owner |-> x.owner, kind |-> x.kind, old |-> x.old,
                                    uploaded |-> x.uploaded, emptied |-> x.emptied]
    BY DEF ChangeRecord
  <2> QED
    BY <2>1, <1>1
<1> HIDE DEF f
<1>3. f \in ChangeRecord
  BY <1>1, <1>2 DEF ChangeRecord
<1>4. g = [phase |-> f.phase, owner |-> o, kind |-> f.kind, old |-> f.old,
           uploaded |-> f.uploaded, emptied |-> f.emptied]
  BY <1>3 DEF ChangeRecord
<1> HIDE DEF g
<1>5. g \in ChangeRecord
  BY <1>3, <1>4 DEF ChangeRecord
<1>6. h = [phase |-> g.phase, owner |-> g.owner, kind |-> k, old |-> g.old,
           uploaded |-> g.uploaded, emptied |-> g.emptied]
  BY <1>5 DEF ChangeRecord
<1> HIDE DEF h
<1>7. h \in ChangeRecord
  BY <1>5, <1>6 DEF ChangeRecord
<1>8. [h EXCEPT !.old = b] = [phase |-> h.phase, owner |-> h.owner, kind |-> h.kind, old |-> b,
                              uploaded |-> h.uploaded, emptied |-> h.emptied]
  BY <1>7 DEF ChangeRecord
<1>9. [h EXCEPT !.old = b]
      = [phase |-> p, owner |-> o, kind |-> k, old |-> b, uploaded |-> FALSE, emptied |-> FALSE]
  BY <1>1, <1>2, <1>4, <1>6, <1>8
<1>10. f = [phase |-> p, owner |-> r, kind |-> "create", old |-> NoImage,
            uploaded |-> FALSE, emptied |-> FALSE]
  BY <1>1, <1>2
<1> QED
  BY <1>9, <1>10 DEF f, g, h, n, BegunAs, CreatesAs

LEMMA TakeKeeps ==
    ASSUME PicturesInv, NEW r \in Changes, NEW o \in Rows, NEW kind \in Kinds \ {"create"},
           UpdateUser(r, o, kind) \/ UpdateOrganization(r, o, kind) \/ UpdateEvent(r, o, kind)
    PROVE  PicturesInv'
<1>1. PICK phase : /\ Take(r, o, kind, phase)
                   /\ \/ o \in Users \union Organizations /\ phase = SwapFrom(o, kind)
                      \/ IsEvent(o) /\ phase = IF kind = "replace" THEN "upload" ELSE "save"
  BY DEF UpdateUser, UpdateOrganization, UpdateEvent
<1> DEFINE q == [phase |-> phase, owner |-> o, kind |-> kind, old |-> row[o],
                 uploaded |-> FALSE, emptied |-> FALSE]
<1>2. row[o] \in Pictures \union {NoImage} /\ row[o] # Absent
  BY <1>1, StoreTypes DEF Take
<1>3. /\ phase \in {"write", "swap", "upload", "save"}
      /\ kind = "keep" => phase \in {"write", "save"}
      /\ phase = "swap" => o \in Users \union Organizations /\ kind # "keep" /\ row[o] # NoImage
      /\ phase = "upload" => kind = "replace" /\ (o \in Users \union Organizations => row[o] = NoImage)
      /\ phase = "write" => o \in Users \union Organizations /\ (kind # "keep" => row[o] = NoImage)
      /\ phase = "save" => IsEvent(o) /\ kind # "replace"
  BY <1>1, ChangesAssumption DEF SwapFrom, Kinds, IsEvent
<1>4. q \in ChangeRecord
  BY <1>2, <1>3 DEF ChangeRecord, Phases, Kinds
<1>5. change' = [change EXCEPT ![r] = q]
  <2>1. kind \in Kinds /\ phase \in Phases
    BY <1>3 DEF Phases
  <2>2. change' = [change EXCEPT ![r] = BegunAs(r, phase, o, kind, row[o])]
    BY <1>1 DEF Take, BegunAs
  <2>3. BegunAs(r, phase, o, kind, row[o]) = q
    BY <2>1, <1>2, Begun
  <2> QED
    BY <2>2, <2>3
<1>6. /\ q.phase = phase /\ q.owner = o /\ q.kind = kind /\ q.old = row[o] /\ q.uploaded = FALSE /\ q.emptied = FALSE
  OBVIOUS
<1> HIDE DEF q
<1>7. o # r
  <2>1. Born(o) /\ change[r].phase = "new"
    BY <1>1, <1>2 DEF Take, PicturesInv, RowsAtHome
  <2> QED
    BY <2>1 DEF Born
<1>8. WellFormed(r, q)
  BY <1>3, <1>6, <1>7 DEF WellFormed
<1>9. Begins(r, q)
  BY <1>1, <1>3, <1>4, <1>5, <1>6, <1>8 DEF Take, Begins
<1> QED
  BY <1>9, BeginsKeeps

LEMMA CreateKeeps ==
    ASSUME PicturesInv, NEW r \in Changes, NEW withImage \in BOOLEAN, BeginCreate(r, withImage)
    PROVE  PicturesInv'
<1> DEFINE p == IF withImage THEN "upload" ELSE "write"
           q == [phase |-> p, owner |-> r, kind |-> "create", old |-> NoImage,
                 uploaded |-> FALSE, emptied |-> FALSE]
<1>1. p \in {"upload", "write"} /\ r \in Rows /\ NoImage \in Pictures \union {NoImage}
      /\ "create" \in Kinds /\ p \in Phases
  BY Names DEF Kinds, Phases
<1>2. q \in ChangeRecord
  BY <1>1 DEF ChangeRecord
<1>3. change' = [change EXCEPT ![r] = q]
  BY <1>1, Begun DEF BeginCreate, CreatesAs
<1>4. q.phase = p /\ q.owner = r /\ q.kind = "create" /\ q.old = NoImage /\ q.uploaded = FALSE /\ q.emptied = FALSE
  OBVIOUS
<1> HIDE DEF q, p
<1>5. WellFormed(r, q)
  BY <1>1, <1>4 DEF WellFormed
<1>6. Begins(r, q)
  BY <1>1, <1>2, <1>3, <1>4, <1>5 DEF BeginCreate, Begins, ghosts
<1> QED
  BY <1>6, BeginsKeeps

(* The record after a step that says how far the change got.               *)
LEMMA ToMoves ==
    ASSUME PicturesInv, NEW r \in Changes, NEW p \in Phases, To(r, p)
    PROVE  change' = [change EXCEPT ![r] = Rec(r, p, change[r].uploaded, change[r].emptied)]
BY RecMoves DEF To

LEMMA EndWriteKeeps ==
    ASSUME PicturesInv, SlotInv', NEW r \in Changes, EndWrite(r),
           change[r].phase \in {"write", "save", "saved", "emptied"},
           UNCHANGED <<row, colors, stored, backfill, contested, leaked>>,
           saving' = IF change[r].phase \in {"saved", "emptied"}
                     THEN [saving EXCEPT ![change[r].owner] = NoImage] ELSE saving
    PROVE  PicturesInv'
<1> DEFINE c == change[r]
           u == c.uploaded
           e == c.emptied
           q == Rec(r, "cleanup", u, e)
<1>0. ~Over(r) /\ u \in BOOLEAN /\ e \in BOOLEAN /\ "cleanup" \in Phases \ {"new", "done", "failed"}
  BY ChangeTypes DEF Over, Phases
<1>1. /\ WellFormed(r, c) /\ c.old # r
      /\ u => r \in stored
      /\ e => c.old \notin stored
      /\ r \in stored \ leaked => u
  BY <1>0, OwnRow
<1>2. CASE u
  <2>1. change' = [change EXCEPT ![r] = q] /\ spoiled' = spoiled
    BY <1>0, <1>2, ToMoves DEF EndWrite
  <2>2. q.phase = "cleanup" /\ q.owner = c.owner /\ q.kind = c.kind /\ q.old = c.old
        /\ q.uploaded = u /\ q.emptied = e
    BY <1>0, RecType
  <2> HIDE DEF q
  <2>3. WellFormed(r, q)
    BY <2>2, <1>0, <1>1, <1>2 DEF WellFormed
  <2>4. stored' = stored
    OBVIOUS
  <2>5. GoesOn(r, "cleanup", u, e)
    BY <2>1, <2>3, <2>4, <1>0, <1>1 DEF GoesOn, q
  <2> QED
    BY <2>5, GoesOnKeeps
<1>3. CASE ~u
  <2>1. End(r) /\ r \notin stored' \ leaked'
    BY <1>1, <1>3 DEF EndWrite
  <2> QED
    BY <2>1, <1>0, EndKeeps
<1> QED BY <1>0, <1>2, <1>3

LEMMA LoseOldKeeps ==
    ASSUME PicturesInv, SlotInv', NEW r \in Changes, LoseOld(r),
           change[r].phase \in {"swap", "saved"},
           change[r].old # NoImage, change[r].kind # "keep",
           UNCHANGED <<row, colors, backfill, contested, leaked>>,
           saving' = IF change[r].phase \in {"saved", "emptied"}
                     THEN [saving EXCEPT ![change[r].owner] = NoImage] ELSE saving
    PROVE  PicturesInv'
<1> DEFINE c == change[r]
           u == c.uploaded
           q == Rec(r, "cleanup", u, TRUE)
<1>0. /\ ~Over(r) /\ u \in BOOLEAN /\ TRUE \in BOOLEAN /\ c.phase # "cleanup"
      /\ "cleanup" \in Phases \ {"new", "done", "failed", "saved", "emptied"}
  BY ChangeTypes DEF Over, Phases
<1>1. /\ WellFormed(r, c) /\ c.old # r
      /\ u => r \in stored
      /\ r \in stored \ leaked => u
      /\ stored' = stored \ {c.old}
  BY <1>0, OwnRow DEF LoseOld
<1>2. CASE u
  <2>1. change' = [change EXCEPT ![r].emptied = TRUE, ![r].phase = "cleanup"] /\ spoiled' = spoiled
    BY <1>2 DEF LoseOld
  <2>2. change' = [change EXCEPT ![r] = q]
    <3>1. change' = [change EXCEPT ![r] = Rec(r, "cleanup", change[r].uploaded, TRUE)]
      BY <2>1, <1>0, RecMoves
    <3> QED
      BY <3>1
  <2>3. q.phase = "cleanup" /\ q.owner = c.owner /\ q.kind = c.kind /\ q.old = c.old
        /\ q.uploaded = u /\ q.emptied = TRUE
    BY DEF Rec
  <2> HIDE DEF q
  <2>4. WellFormed(r, q)
    BY <2>3, <1>0, <1>1, <1>2 DEF WellFormed
  <2>5. GoesOn(r, "cleanup", u, TRUE)
    BY <2>1, <2>2, <2>4, <1>0, <1>1 DEF GoesOn, q
  <2> QED
    BY <2>5, GoesOnKeeps
<1>3. CASE ~u
  <2>1. /\ To(r, "failed") /\ spoiled' = spoiled \union {c.owner}
        /\ stored \ stored' \subseteq {r, c.old} /\ stored' \subseteq stored \union {r}
        /\ r \notin stored' \ leaked'
    BY <1>1, <1>3 DEF LoseOld
  <2> QED
    BY <2>1, <1>0, FailKeeps
<1> QED BY <1>0, <1>2, <1>3

LEMMA SwapDeleteKeeps ==
    ASSUME PicturesInv, SlotInv', NEW r \in Changes, SwapDelete(r)
    PROVE  PicturesInv'
<1> DEFINE c == change[r]
<1>0. ~Over(r) /\ c.phase = "swap" /\ UNCHANGED <<row, colors, saving, backfill, contested, leaked>>
  BY DEF SwapDelete, Over, rowVars
<1>1. /\ WellFormed(r, c) /\ c.old # r /\ c.uploaded = FALSE /\ c.uploaded \in BOOLEAN
      /\ r \in stored \ leaked => c.uploaded
      /\ c.kind # "create" /\ c.kind # "keep" /\ c.owner # r /\ c.owner \in Users \union Organizations
      /\ ~IsEvent(c.owner)
  BY <1>0, OwnRow, ChangeTypes, ChangesAssumption DEF WellFormed, IsEvent
<1>2. CASE /\ stored' = stored \ {c.old}
           /\ change' = [change EXCEPT ![r].emptied = TRUE,
                             ![r].phase = IF change[r].kind = "replace" THEN "upload" ELSE "write"]
           /\ UNCHANGED spoiled
  <2>1. PICK p \in {"upload", "write"} : p = IF c.kind = "replace" THEN "upload" ELSE "write"
    OBVIOUS
  <2>2. p \in Phases \ {"new", "done", "failed"} /\ TRUE \in BOOLEAN /\ FALSE \in BOOLEAN
    BY <2>1 DEF Phases
  <2> DEFINE q == Rec(r, p, FALSE, TRUE)
  <2>3. change' = [change EXCEPT ![r] = q]
    <3>1. change' = [change EXCEPT ![r].emptied = TRUE, ![r].phase = p]
      BY <1>2, <2>1
    <3> QED
      BY <3>1, <2>2, <1>1, RecMoves
  <2>4. q.phase = p /\ q.owner = c.owner /\ q.kind = c.kind /\ q.old = c.old
        /\ q.uploaded = FALSE /\ q.emptied = TRUE
    BY <2>2, RecType
  <2> HIDE DEF q
  <2>5. WellFormed(r, q)
    BY <2>1, <2>4, <1>1 DEF WellFormed
  <2>6. GoesOn(r, p, FALSE, TRUE)
    BY <2>1, <2>2, <2>3, <2>5, <1>0, <1>1, <1>2 DEF GoesOn, q
  <2> QED
    BY <2>6, GoesOnKeeps
<1>3. CASE End(r) /\ UNCHANGED stored
  BY <1>0, <1>1, <1>3, EndKeeps
<1>4. CASE LoseOld(r)
  <2>1. c.old # NoImage
    BY <1>0, <1>1 DEF WellFormed
  <2> QED
    BY <2>1, <1>0, <1>1, <1>4, LoseOldKeeps
<1> QED
  BY <1>2, <1>3, <1>4 DEF SwapDelete

LEMMA UploadKeeps ==
    ASSUME PicturesInv, SlotInv', NEW r \in Changes,
           UploadRefused(r) \/ Normalized(r)
    PROVE  PicturesInv'
<1> DEFINE c == change[r]
           u == c.uploaded
           e == c.emptied
<1>0. /\ ~Over(r) /\ c.phase = "upload"
      /\ UNCHANGED <<row, colors, saving, stored, backfill, contested, leaked>>
  BY DEF UploadRefused, Normalized, Over, rowVars
<1>1. /\ WellFormed(r, c) /\ c.old # r /\ ~u /\ u \in BOOLEAN /\ e \in BOOLEAN
      /\ r \in stored \ leaked => u
      /\ e => c.old \notin stored
  BY <1>0, OwnRow, ChangeTypes DEF WellFormed
<1>2. CASE To(r, "put") /\ UNCHANGED spoiled
  <2>1. "put" \in Phases \ {"new", "done", "failed"}
    BY DEF Phases
  <2> DEFINE q == Rec(r, "put", u, e)
  <2>2. change' = [change EXCEPT ![r] = q]
    BY <1>1, <1>2, <2>1, ToMoves
  <2>3. q.phase = "put" /\ q.owner = c.owner /\ q.kind = c.kind /\ q.old = c.old
        /\ q.uploaded = u /\ q.emptied = e
    BY <2>1, <1>1, RecType
  <2> HIDE DEF q
  <2>4. WellFormed(r, q)
    BY <2>3, <1>0, <1>1 DEF WellFormed
  <2>5. stored' = stored
    BY <1>0
  <2>6. GoesOn(r, "put", u, e)
    BY <2>1, <2>2, <2>4, <2>5, <1>0, <1>1, <1>2 DEF GoesOn, q
  <2> QED
    BY <2>6, GoesOnKeeps
<1>3. CASE End(r)
  BY <1>0, <1>1, <1>3, EndKeeps
<1> QED
  BY <1>2, <1>3 DEF UploadRefused, Normalized

LEMMA PutKeeps ==
    ASSUME PicturesInv, SlotInv', NEW r \in Changes, Put(r)
    PROVE  PicturesInv'
<1> DEFINE c == change[r]
           e == c.emptied
<1>0. ~Over(r) /\ c.phase = "put" /\ UNCHANGED <<row, colors, saving, backfill, contested>>
  BY DEF Put, Over, rowVars
<1>1. /\ WellFormed(r, c) /\ c.old # r /\ ~c.uploaded /\ e \in BOOLEAN /\ c.owner \in Rows
      /\ r \in stored \ leaked => c.uploaded
      /\ e => c.old \notin stored
      /\ c.kind # "create" /\ ~IsEvent(c.owner) => c.owner \in Users \union Organizations
  BY <1>0, OwnRow, ChangeTypes DEF WellFormed, IsEvent, Rows, Owners
<1>2. CASE /\ stored' = stored \union {r}
           /\ change' = [change EXCEPT ![r].uploaded = TRUE,
                 ![r].phase = IF IsEvent(change[r].owner) /\ change[r].kind # "create"
                              THEN "save" ELSE "write"]
           /\ UNCHANGED <<spoiled, leaked>>
  <2>1. PICK p \in {"save", "write"} :
             p = IF IsEvent(c.owner) /\ c.kind # "create" THEN "save" ELSE "write"
    OBVIOUS
  <2>2. p \in Phases \ {"new", "done", "failed"} /\ TRUE \in BOOLEAN
    BY <2>1 DEF Phases
  <2> DEFINE q == Rec(r, p, TRUE, e)
  <2>3. change' = [change EXCEPT ![r] = q]
    <3>1. change' = [change EXCEPT ![r].uploaded = TRUE, ![r].phase = p]
      BY <1>2, <2>1
    <3> QED
      BY <3>1, <2>2, RecMoves
  <2>4. q.phase = p /\ q.owner = c.owner /\ q.kind = c.kind /\ q.old = c.old
        /\ q.uploaded = TRUE /\ q.emptied = e
    BY DEF Rec
  <2> HIDE DEF q
  <2>5. WellFormed(r, q)
    BY <2>1, <2>4, <1>0, <1>1 DEF WellFormed
  <2>6. /\ stored' \subseteq stored \union {r} /\ stored \ stored' \subseteq {c.old}
        /\ r \in stored' /\ (e => c.old \notin stored') /\ stored \subseteq stored'
    BY <1>1, <1>2
  <2>7. UNCHANGED <<spoiled, leaked>> /\ p \notin {"saved", "emptied"}
    BY <1>2, <2>1
  <2>8. saving' = saving /\ c.phase \notin {"saved", "emptied"}
    BY <1>0
  <2>9. GoesOn(r, p, TRUE, e)
    BY <2>2, <2>3, <2>5, <2>6, <2>7, <2>8, <1>0, <1>1 DEF GoesOn, q
  <2> QED
    BY <2>9, GoesOnKeeps
<1>3. CASE /\ End(r)
           /\ \/ UNCHANGED <<stored, leaked>>
              \/ stored' = stored \union {r} /\ leaked' = leaked \union {r}
  BY <1>0, <1>1, <1>3, EndKeeps
<1> QED
  BY <1>2, <1>3 DEF Put

LEMMA CleanupKeeps ==
    ASSUME PicturesInv, SlotInv', NEW r \in Changes, Cleanup(r)
    PROVE  PicturesInv'
<1>0. /\ ~Over(r) /\ change[r].phase = "cleanup" /\ End(r)
      /\ UNCHANGED <<row, colors, saving, backfill, contested>>
  BY DEF Cleanup, Over, rowVars
<1>1. \/ stored' = stored \ {r} /\ UNCHANGED leaked
      \/ leaked' = leaked \union {r} /\ UNCHANGED stored
  BY DEF Cleanup
<1> QED
  BY <1>0, <1>1, EndKeeps

LEMMA WriteKeeps ==
    ASSUME PicturesInv, SlotInv', NEW r \in Changes,
           WriteUser(r) \/ WriteOrganization(r) \/ CreateEvent(r)
    PROVE  PicturesInv'
<1> DEFINE c == change[r]
<1>o. PICK o \in Rows : o = c.owner
  BY ChangeTypes
<1>0. /\ o = c.owner /\ ~Over(r) /\ c.phase = "write" /\ "done" \in Phases
      /\ UNCHANGED <<stored, saving, backfill, contested, leaked>>
  BY <1>o DEF WriteUser, WriteOrganization, CreateEvent, Over, Phases
<1>1. CASE FailToWrite(r)
  BY <1>0, <1>1, EndWriteKeeps DEF FailToWrite
<1>2. ASSUME NEW found, WriteRow(r, found), found \in {NoImage} \union (IF c.uploaded THEN {r} ELSE {}),
             c.kind # "create" => row[o] # Absent
      PROVE  PicturesInv'
  <2>1. /\ WellFormed(r, c) /\ r \in Pictures /\ c.uploaded \in BOOLEAN /\ c.emptied \in BOOLEAN
        /\ row \in [Rows -> Pictures \union {NoImage, Absent}]
        /\ colors \in [Organizations -> Pictures \union {NoImage}]
        /\ ColorsOfTheirImage
        /\ c.kind = "create" => o = r /\ c.old = NoImage
    BY <1>0, OwnRow, ChangeTypes, StoreTypes, Names DEF PicturesInv, PicturesMatchRows
  <2>2. /\ c.kind # "keep" /\ c.old # NoImage => c.emptied
        /\ c.kind = "keep" => ~c.emptied /\ ~c.uploaded
    BY <2>1, <1>0 DEF WellFormed
  <2>3. change' = [change EXCEPT ![r] = Rec(r, "done", c.uploaded, c.emptied)]
    BY <1>0, <1>2, ToMoves DEF WriteRow
  <2>4. CASE c.kind = "keep"
    <3>1. UNCHANGED <<row, colors, spoiled>>
      BY <1>2, <2>4 DEF WriteRow
    <3>2. row' = [row EXCEPT ![o] = row[o]] /\ ColorsOfTheirImage'
          /\ colors' \in [Organizations -> Pictures \union {NoImage}]
      BY <3>1, <2>1 DEF ColorsOfTheirImage
    <3>3. Writes(r, row[o])
      BY <1>0, <1>2, <2>1, <2>2, <2>3, <2>4, <3>1, <3>2 DEF Writes
    <3> QED
      BY <3>3, WritesKeeps
  <2>5. CASE c.kind # "keep"
    <3>1. PICK image : image = IF c.uploaded THEN r ELSE NoImage
      OBVIOUS
    <3>2. /\ row' = [row EXCEPT ![o] = image]
          /\ colors' = IF o \in Organizations THEN [colors EXCEPT ![o] = found] ELSE colors
          /\ spoiled' = spoiled \ {o}
      BY <1>0, <1>2, <2>5, <3>1 DEF WriteRow
    <3>3. \A x \in Organizations : x \in Rows
      BY DEF Rows, Owners
    <3>4. /\ colors' \in [Organizations -> Pictures \union {NoImage}]
          /\ ColorsOfTheirImage'
      BY <1>2, <2>1, <3>1, <3>2, <3>3 DEF ColorsOfTheirImage
    <3>5. Writes(r, image)
      BY <1>0, <1>2, <2>1, <2>2, <2>3, <2>5, <3>1, <3>2, <3>4 DEF Writes
    <3> QED
      BY <3>5, WritesKeeps
  <2> QED BY <2>4, <2>5
<1>3. CASE WriteUser(r)
  BY <1>0, <1>1, <1>2, <1>3 DEF WriteUser
<1>4. CASE WriteOrganization(r)
  BY <1>0, <1>1, <1>2, <1>4 DEF WriteOrganization
<1>5. CASE CreateEvent(r)
  BY <1>0, <1>1, <1>2, <1>5 DEF CreateEvent
<1> QED
  BY <1>3, <1>4, <1>5

(* The steps of a transaction.                                             *)
LEMMA SaveKeeps ==
    ASSUME PicturesInv, SlotInv', NEW r \in Changes, Save(r) \/ DeleteOld(r)
    PROVE  PicturesInv'
<1> DEFINE c == change[r]
           u == c.uploaded
           e == c.emptied
<1>o. PICK o \in Rows : o = c.owner
  BY ChangeTypes
<1>0. /\ o = c.owner /\ ~Over(r) /\ c.phase \in {"save", "saved"} /\ u \in BOOLEAN /\ e \in BOOLEAN
      /\ "saved" \in Phases \ {"new", "done", "failed"} /\ "emptied" \in Phases \ {"new", "done", "failed"}
      /\ TRUE \in BOOLEAN
      /\ UNCHANGED <<row, colors, backfill, contested, leaked>>
      /\ saving \in [Rows -> Changes \union {NoImage}]
  BY <1>o, ChangeTypes, StoreTypes DEF Save, DeleteOld, Over, Phases
<1>1. /\ WellFormed(r, c) /\ c.old # r /\ c.kind # "create"
      /\ u => r \in stored
      /\ e => c.old \notin stored
      /\ r \in stored \ leaked => u
      /\ c.phase = "saved" => saving[o] = r /\ row[o] # Absent
  BY <1>0, OwnRow DEF Follows, WellFormed
<1>2. CASE Save(r)
  <2>0. c.phase = "save" /\ stored' = stored /\ saving[o] = NoImage
    BY <1>0, <1>2 DEF Save
  <2>1. CASE row[o] # Absent /\ saving' = [saving EXCEPT ![o] = r] /\ To(r, "saved") /\ UNCHANGED spoiled
    <3> DEFINE q == Rec(r, "saved", u, e)
    <3>1. change' = [change EXCEPT ![r] = q]
      BY <2>1, <1>0, ToMoves
    <3>2. q.phase = "saved" /\ q.owner = o /\ q.kind = c.kind /\ q.old = c.old
          /\ q.uploaded = u /\ q.emptied = e
      BY <1>0, RecType
    <3> HIDE DEF q
    <3>3. WellFormed(r, q)
      BY <3>2, <2>0, <1>0, <1>1 DEF WellFormed
    <3>4. GoesOn(r, "saved", u, e)
      BY <2>0, <2>1, <3>1, <3>3, <1>0, <1>1 DEF GoesOn, q
    <3> QED
      BY <3>4, GoesOnKeeps
  <2>2. CASE EndWrite(r) /\ UNCHANGED saving
    BY <2>0, <2>2, <1>0, EndWriteKeeps
  <2> QED
    BY <1>0, <1>2, <2>1, <2>2 DEF Save
<1>3. CASE DeleteOld(r)
  <2>0. c.phase = "saved"
    BY <1>3 DEF DeleteOld
  <2>1. CASE Rollback(r) /\ UNCHANGED stored
    BY <2>0, <2>1, <1>0, EndWriteKeeps DEF Rollback, Unlock
  <2>2. CASE /\ c.old # NoImage /\ c.kind # "keep"
             /\ stored' = stored \ {c.old}
             /\ change' = [change EXCEPT ![r].emptied = TRUE, ![r].phase = "emptied"]
             /\ UNCHANGED <<saving, spoiled>>
    <3> DEFINE q == Rec(r, "emptied", u, TRUE)
    <3>1. change' = [change EXCEPT ![r] = q]
      BY <2>2, <1>0, RecMoves
    <3>2. q.phase = "emptied" /\ q.owner = o /\ q.kind = c.kind /\ q.old = c.old
          /\ q.uploaded = u /\ q.emptied = TRUE
      BY <1>0 DEF Rec
    <3> HIDE DEF q
    <3>3. WellFormed(r, q)
      BY <3>2, <2>0, <2>2, <1>0, <1>1 DEF WellFormed
    <3>4. saving' = [saving EXCEPT ![o] = r]
      BY <2>0, <2>2, <1>0, <1>1
    <3>5. /\ stored' \subseteq stored \union {r} /\ stored \ stored' \subseteq {c.old}
          /\ (u => r \in stored') /\ c.old \notin stored' /\ (r \in stored' => r \in stored)
      BY <2>2, <1>1
    <3>6. GoesOn(r, "emptied", u, TRUE)
      BY <2>0, <2>2, <3>1, <3>3, <3>4, <3>5, <1>0, <1>1 DEF GoesOn, q
    <3> QED
      BY <3>6, GoesOnKeeps
  <2>3. CASE /\ ~(c.old # NoImage /\ c.kind # "keep")
             /\ To(r, "emptied") /\ UNCHANGED stored
             /\ UNCHANGED <<saving, spoiled>>
    <3> DEFINE q == Rec(r, "emptied", u, e)
    <3>1. change' = [change EXCEPT ![r] = q]
      BY <2>3, <1>0, ToMoves
    <3>2. q.phase = "emptied" /\ q.owner = o /\ q.kind = c.kind /\ q.old = c.old
          /\ q.uploaded = u /\ q.emptied = e
      BY <1>0, RecType
    <3> HIDE DEF q
    <3>3. WellFormed(r, q)
      BY <3>2, <2>0, <2>3, <1>0, <1>1 DEF WellFormed
    <3>4. saving' = [saving EXCEPT ![o] = r] /\ stored' = stored
      BY <2>0, <2>3, <1>0, <1>1
    <3>5. GoesOn(r, "emptied", u, e)
      BY <2>0, <2>3, <3>1, <3>3, <3>4, <1>0, <1>1 DEF GoesOn, q
    <3> QED
      BY <3>5, GoesOnKeeps
  <2>4. CASE c.old # NoImage /\ c.kind # "keep" /\ Unlock(r) /\ LoseOld(r)
    BY <2>0, <2>4, <1>0, LoseOldKeeps DEF Unlock
  <2> QED
    BY <1>3, <2>1, <2>2, <2>3, <2>4 DEF DeleteOld
<1> QED
  BY <1>2, <1>3

LEMMA CommitKeeps ==
    ASSUME PicturesInv, SlotInv', NEW r \in Changes, Commit(r)
    PROVE  PicturesInv'
<1> DEFINE c == change[r]
<1>o. PICK o \in Rows : o = c.owner
  BY ChangeTypes
<1>0. /\ o = c.owner /\ ~Over(r) /\ c.phase = "emptied" /\ "done" \in Phases
      /\ UNCHANGED <<stored, colors, backfill, contested, leaked>>
      /\ colors \in [Organizations -> Pictures \union {NoImage}] /\ ColorsOfTheirImage
      /\ row \in [Rows -> Pictures \union {NoImage, Absent}]
      /\ c.kind \in Kinds
  BY <1>o, StoreTypes, ChangeTypes DEF Commit, Over, Phases, PicturesInv, PicturesMatchRows
<1>1. /\ WellFormed(r, c) /\ row[o] # Absent /\ IsEvent(o) /\ c.kind # "create"
      /\ (c.kind = "replace" <=> c.uploaded)
      /\ (c.emptied <=> (c.kind # "keep" /\ c.old # NoImage))
  BY <1>0, OwnRow DEF Follows, WellFormed
<1>2. CASE Rollback(r) /\ UNCHANGED row
  BY <1>0, <1>2, EndWriteKeeps DEF Rollback, Unlock
<1>3. CASE ~(Rollback(r) /\ UNCHANGED row)
  <2>1. PICK image : image = IF c.uploaded THEN r
                             ELSE IF c.kind = "remove" /\ c.old # NoImage THEN NoImage ELSE c.old
    OBVIOUS
  <2>2. /\ row' = [row EXCEPT ![o] = image]
        /\ saving' = [saving EXCEPT ![o] = NoImage]
        /\ spoiled' = IF c.kind = "keep" THEN spoiled ELSE spoiled \ {o}
        /\ To(r, "done")
    BY <1>0, <1>3, <2>1 DEF Commit
  <2>3. change' = [change EXCEPT ![r] = Rec(r, "done", c.uploaded, c.emptied)]
    BY <2>2, <1>0, ToMoves
  <2>4. o \notin Organizations
    BY <1>1, ChangesAssumption DEF IsEvent
  <2>5. colors' \in [Organizations -> Pictures \union {NoImage}] /\ ColorsOfTheirImage'
    BY <2>2, <2>4, <1>0 DEF ColorsOfTheirImage
  <2>6. IF c.uploaded THEN image = r
        ELSE IF c.kind = "keep" THEN image \in {c.old, row[o]} ELSE image = NoImage
    BY <2>1, <1>0, <1>1 DEF Kinds
  <2>7. Writes(r, image)
    BY <2>2, <2>3, <2>5, <2>6, <1>0, <1>1 DEF Writes
  <2> QED
    BY <2>7, WritesKeeps
<1> QED
  BY <1>2, <1>3

LEMMA InitPictures == StoreInit => PicturesInv
<1> SUFFICES ASSUME StoreInit PROVE PicturesInv
  OBVIOUS
<1>0. /\ row = [o \in Rows |-> IF o \in Owners THEN o ELSE Absent]
      /\ colors = [o \in Organizations |-> NoImage] /\ stored = Owners
      /\ change = [r \in Changes |-> NotBegun(r)] /\ saving = [o \in Rows |-> NoImage]
      /\ backfill = NoBackfill /\ contested = {} /\ spoiled = {} /\ leaked = {}
  BY DEF StoreInit
<1>1. \A o \in Owners : o \in Pictures /\ o \in Rows
  BY DEF Pictures, Rows
<1>2. \A r \in Changes : change[r] \in ChangeRecord /\ change[r].phase = "new" /\ ~change[r].uploaded
  BY <1>0, Names DEF NotBegun, ChangeRecord, Phases, Kinds
<1>3. SlotInv /\ BackfillInv
  BY <1>0, InitSlot DEF StoreInit, BackfillInv
<1>4. StoreTypeOK
  <2>1. change \in [Changes -> ChangeRecord]
    BY <1>0, <1>2
  <2>2. row \in [Rows -> Pictures \union {NoImage, Absent}]
    BY <1>0, <1>1
  <2>3. backfill.organization \in Organizations \union {NoImage}
    BY <1>0 DEF NoBackfill
  <2> QED
    BY <2>1, <2>2, <2>3, <1>0, <1>1, <1>3 DEF StoreTypeOK, ChangeRecord, SlotInv
<1>5. ImagesExist /\ NoOrphans /\ ColorsOfTheirImage
  BY <1>0, <1>1, Names DEF ImagesExist, NoOrphans, ColorsOfTheirImage
<1>6. RowsAtHome
  BY <1>0, Names DEF RowsAtHome, Born, Home
<1>7. OneByOne
  BY <1>0, <1>2, Names DEF OneByOne, Over
<1>8. \A r \in Changes : WellFormed(r, change[r]) /\ InHand(r) /\ Stored(r)
  BY <1>0, <1>2, Names DEF WellFormed, InHand, Stored, Over
<1> QED
  BY <1>3, <1>4, <1>5, <1>6, <1>7, <1>8 DEF PicturesInv, PicturesMatchRows

LEMMA PicturesStep == PicturesInv /\ [StoreNext]_storeVars => PicturesInv'
<1> SUFFICES ASSUME PicturesInv, [StoreNext]_storeVars PROVE PicturesInv'
  OBVIOUS
<1>0. SlotInv'
  BY SlotSteps, SlotStep DEF PicturesInv
<1>1. ASSUME NEW r \in Changes, Advance(r) PROVE PicturesInv'
  <2>1. CASE UploadAcquire(r)
    <3>1. UNCHANGED <<row, colors, stored, change, saving, backfill, ghosts>>
      BY <2>1 DEF UploadAcquire
    <3>2. BackfillInv' /\ ColorsOfTheirImage' /\ colors' \in [Organizations -> Pictures \union {NoImage}]
      BY <3>1, StoreTypes DEF PicturesInv, PicturesMatchRows, BackfillInv, ColorsOfTheirImage, Backfill, NoBackfill
    <3> QED
      BY <3>1, <3>2, <1>0, RestKeeps
  <2> QED
    BY <2>1, <1>0, <1>1, SwapDeleteKeeps, UploadKeeps, PutKeeps, WriteKeeps, CleanupKeeps,
       SaveKeeps, CommitKeeps DEF Advance
<1>2. ASSUME NEW r \in Changes, NEW o \in Rows, NEW kind \in Kinds \ {"create"},
             UpdateUser(r, o, kind) \/ UpdateOrganization(r, o, kind) \/ UpdateEvent(r, o, kind)
      PROVE  PicturesInv'
  BY <1>2, TakeKeeps
<1>3. ASSUME NEW r \in Changes, NEW withImage \in BOOLEAN, BeginCreate(r, withImage)
      PROVE  PicturesInv'
  BY <1>3, CreateKeeps
<1>4. ASSUME NEW o \in Rows, RemoveRow(o) PROVE PicturesInv'
  BY <1>0, <1>4, RemoveRowKeeps
<1>5. ASSUME (\E o \in Organizations : BackfillRead(o)) \/ BackfillFetch \/ StoreColorsIfImageUnchanged
      PROVE  PicturesInv'
  BY <1>0, <1>5, BackfillKeeps
<1>6. ASSUME (\E u \in Uploads : OtherUpload(u)) \/ UNCHANGED storeVars PROVE PicturesInv'
  <2>1. UNCHANGED <<row, colors, stored, change, saving, backfill, ghosts>>
    BY <1>6 DEF OtherUpload, storeVars
  <2>2. BackfillInv' /\ ColorsOfTheirImage' /\ colors' \in [Organizations -> Pictures \union {NoImage}]
    BY <2>1, StoreTypes DEF PicturesInv, PicturesMatchRows, BackfillInv, ColorsOfTheirImage, Backfill, NoBackfill
  <2> QED
    BY <2>1, <2>2, <1>0, RestKeeps
<1> QED
  BY <1>1, <1>2, <1>3, <1>4, <1>5, <1>6 DEF StoreNext

(* What is known of changes, rows and bucket holds whatever requests come, *)
(* at whatever step each of them fails.                                    *)
THEOREM PicturesKept == StoreSpec => []PicturesInv
<1>1. StoreInit => PicturesInv
  BY InitPictures
<1>2. PicturesInv /\ [StoreNext]_storeVars => PicturesInv'
  BY PicturesStep
<1> QED
  BY <1>1, <1>2, PTL DEF StoreSpec

(* Rows and bucket agree, for any rows and any changes of them: what is    *)
(* named is stored, what is stored is named or accounted for, and colors   *)
(* belong to their logo.                                                   *)
THEOREM PicturesAgree == StoreSpec => []PicturesMatchRows
<1>1. PicturesInv => PicturesMatchRows
  BY DEF PicturesInv
<1> QED
  BY <1>1, PicturesKept, PTL

(* Images use the decode slots as the slots' own specification says.       *)
THEOREM ImagesUseSlots == StoreSpec => Spec
<1>1. StoreInit => Init
  BY DEF StoreInit
<1>2. [StoreNext]_storeVars => [Next]_vars
  BY SlotSteps
<1> QED
  BY <1>1, <1>2, PTL DEF StoreSpec, Spec

(* So however many requests store images, decodes stay within memory.      *)
THEOREM ImagesDecodeBounded == StoreSpec => []DecodesBounded
BY ImagesUseSlots, DecodesStayBounded, PTL
=============================================================================
