---------------------------- MODULE PlayerProofs ----------------------------
(***************************************************************************)
(* Theorems about Player and SharedPlayer, for every library, every set of *)
(* accounts, any number of controllers and sessions and every value of the *)
(* bounds.                                                                 *)
(*                                                                         *)
(* The inductive invariant PlayerInv joins the invariants of Player with   *)
(* what they need of the undo snapshot: an undo brings its queue and row   *)
(* back, so they must satisfy what the live queue and row satisfy.         *)
(*                                                                         *)
(* SharedPlayer is reduced to the two modules that it joins: its steps are *)
(* steps of Player, and steps of Jukebox, so the invariants of both hold   *)
(* of it.  NamedInv adds what neither module can say.                      *)
(***************************************************************************)
EXTENDS SharedPlayer, TLAPS

\* What a row owes to the queue it is stored with.
CurrentOK(s, q) ==
    IF q = <<>>
    THEN s.item = 0 /\ s.pb = 0 /\ s.status # "playing"
    ELSE s.index \in DOMAIN q /\ s.item = q[s.index].id

\* What a row owes to the playback ids handed out.
PlaybackOK(s, ids) ==
    /\ s.status = "playing" => s.pb # 0
    /\ s.pb # 0 => s.pb \in DOMAIN ids /\ ids[s.pb] = s.item

\* A queue whose ids are distinct and below the next id.
QueueOK(q, next) ==
    /\ q \in Seq(Item)
    /\ DistinctIds(q)
    /\ \A k \in DOMAIN q : q[k].id < next

\* A snapshot that can be restored.
SnapshotOK(saved, next) ==
    /\ saved \in UndoSnapshot
    /\ QueueOK(saved.queue, next)
    /\ IF saved.queue = <<>> THEN saved.status # "playing"
       ELSE saved.item \in Ids(saved.queue)

\* Two queues that name an item by the same id hold the same item.
Agree(q, r) ==
    \A j \in DOMAIN q, k \in DOMAIN r : q[j].id = r[k].id => q[j] = r[k]

\* A queue made out of another one and of new items.
MadeFrom(new, q, next) ==
    \A k \in DOMAIN new :
        new[k].id >= next \/ \E j \in DOMAIN q : new[k] = q[j]

PlayerInv ==
    /\ TypeOK
    /\ CurrentOK(state, queue)
    /\ PlaybackOK(state, issued)
    /\ QueueOK(queue, nextItem)
    /\ \A saved \in undo :
          SnapshotOK(saved, nextItem) /\ Agree(queue, saved.queue)

-----------------------------------------------------------------------------
(* Queues: what the list operations return.                                *)


\* Each list operation returns a queue of items whose entries come from its
\* arguments, and keeps distinct ids distinct.
LEMMA SpliceItems ==
    ASSUME NEW q \in Seq(Item), NEW new \in Seq(Item), NEW at \in 0..Len(q)
    PROVE  /\ Splice(q, at, new) \in Seq(Item)
           /\ Len(Splice(q, at, new)) = Len(q) + Len(new)
           /\ DOMAIN Splice(q, at, new) = 1..(Len(q) + Len(new))
           /\ \A k \in 1..(Len(q) + Len(new)) :
                Splice(q, at, new)[k] =
                    IF k <= at THEN q[k]
                    ELSE IF k <= at + Len(new) THEN new[k - at]
                    ELSE q[k - Len(new)]
<1>1. Len(q) \in Nat /\ Len(new) \in Nat /\ at \in Nat /\ at <= Len(q)
  OBVIOUS
<1>2. ASSUME NEW k \in 1..(Len(q) + Len(new))
      PROVE  (IF k <= at THEN q[k]
              ELSE IF k <= at + Len(new) THEN new[k - at]
              ELSE q[k - Len(new)]) \in Item
  BY <1>1
<1>3. QED
  BY <1>1, <1>2 DEF Splice

LEMMA RemoveItems ==
    ASSUME NEW q \in Seq(Item), NEW k \in 1..Len(q)
    PROVE  /\ RemoveAt(q, k) \in Seq(Item)
           /\ Len(RemoveAt(q, k)) = Len(q) - 1
           /\ DOMAIN RemoveAt(q, k) = 1..(Len(q) - 1)
           /\ \A j \in 1..(Len(q) - 1) :
                RemoveAt(q, k)[j] = IF j < k THEN q[j] ELSE q[j + 1]
<1>1. Len(q) \in Nat /\ Len(q) - 1 \in Nat
  OBVIOUS
<1>2. ASSUME NEW j \in 1..(Len(q) - 1)
      PROVE  (IF j < k THEN q[j] ELSE q[j + 1]) \in Item
  BY <1>1
<1>3. QED
  BY <1>1, <1>2 DEF RemoveAt

LEMMA ItemsOfQueue ==
    ASSUME NEW q \in Seq(Item), NEW k \in DOMAIN q
    PROVE  q[k] \in Item /\ q[k].id \in Nat \ {0} /\ q[k].track \in Tracks
<1>1. q[k] \in Item
  OBVIOUS
<1>2. QED
  BY <1>1 DEF Item

\* A queue may move on: QueueOK is monotone in the next id.
LEMMA QueueLater ==
    ASSUME NEW q, NEW next \in Nat, NEW later \in Nat, next <= later,
           QueueOK(q, next)
    PROVE  QueueOK(q, later)
<1>1. ASSUME NEW k \in DOMAIN q PROVE q[k].id \in Nat
  BY ItemsOfQueue DEF QueueOK
<1>2. QED
  BY <1>1 DEF QueueOK

\* A queue made from a good one agrees with it.
LEMMA MadeFromAgrees ==
    ASSUME NEW q, NEW next \in Nat, QueueOK(q, next), NEW new,
           MadeFrom(new, q, next)
    PROVE  Agree(new, q)
<1> SUFFICES ASSUME NEW j \in DOMAIN new, NEW k \in DOMAIN q,
                    new[j].id = q[k].id
             PROVE  new[j] = q[k]
  BY DEF Agree
<1>1. q[k].id \in Nat /\ q[k].id < next
  BY ItemsOfQueue DEF QueueOK
<1>2. PICK i \in DOMAIN q : new[j] = q[i]
  BY <1>1 DEF MadeFrom
<1>3. QED
  BY <1>2 DEF QueueOK, DistinctIds

LEMMA NewItemsFacts ==
    ASSUME nextItem \in Nat \ {0}, NEW tracks \in TrackLists
    PROVE  /\ Len(tracks) \in Nat
           /\ NewItems(tracks) \in Seq(Item)
           /\ Len(NewItems(tracks)) = Len(tracks)
           /\ DOMAIN NewItems(tracks) = 1..Len(tracks)
           /\ \A n \in 1..Len(tracks) :
                 NewItems(tracks)[n].id = nextItem + n - 1
<1>1. PICK n \in 0..MaxBatch : tracks \in [1..n -> Tracks]
  BY DEF TrackLists
<1>2. n \in Nat /\ Len(tracks) = n
  BY <1>1, PlayerAssumption
<1>3. ASSUME NEW k \in 1..n
      PROVE  [id |-> nextItem + k - 1, track |-> tracks[k]] \in Item
  BY <1>1, <1>2 DEF Item
<1>4. QED
  BY <1>2, <1>3 DEF NewItems

\* The three edits keep what QueueOK asks.
LEMMA SpliceKeeps ==
    ASSUME NEW q, NEW next \in Nat \ {0}, QueueOK(q, next),
           NEW new \in Seq(Item), NEW at \in 0..Len(q),
           \A n \in 1..Len(new) : new[n].id = next + n - 1
    PROVE  /\ QueueOK(Splice(q, at, new), next + Len(new))
           /\ MadeFrom(Splice(q, at, new), q, next)
           /\ \A k \in DOMAIN q :
                \E j \in DOMAIN Splice(q, at, new) : Splice(q, at, new)[j] = q[k]
<1> DEFINE r == Splice(q, at, new)
<1>1. q \in Seq(Item) /\ Len(q) \in Nat /\ Len(new) \in Nat
      /\ DOMAIN q = 1..Len(q)
  BY DEF QueueOK
<1>2. /\ r \in Seq(Item)
      /\ DOMAIN r = 1..(Len(q) + Len(new))
      /\ \A k \in 1..(Len(q) + Len(new)) :
            r[k] = IF k <= at THEN q[k]
                   ELSE IF k <= at + Len(new) THEN new[k - at]
                   ELSE q[k - Len(new)]
  BY <1>1, SpliceItems
<1> HIDE DEF r
<1>3. \A k \in 1..Len(q) : q[k].id \in Nat /\ q[k].id < next
  BY <1>1, ItemsOfQueue DEF QueueOK
<1>4. \A j, k \in 1..Len(q) : q[j].id = q[k].id => j = k
  BY <1>1 DEF QueueOK, DistinctIds
<1>5. ASSUME NEW k \in DOMAIN r
      PROVE  \/ k <= at /\ k \in 1..Len(q) /\ r[k] = q[k]
             \/ /\ k > at /\ k <= at + Len(new)
                /\ r[k].id = next + (k - at) - 1
             \/ /\ k > at + Len(new) /\ k - Len(new) \in 1..Len(q)
                /\ r[k] = q[k - Len(new)]
  <2>1. k \in Nat /\ at \in Nat /\ k >= 1 /\ k <= Len(q) + Len(new)
    BY <1>1, <1>2
  <2>2. CASE k <= at
    BY <1>1, <1>2, <2>1, <2>2
  <2>3. CASE k > at /\ k <= at + Len(new)
    <3>1. k - at \in 1..Len(new) /\ r[k] = new[k - at]
      BY <1>1, <1>2, <2>1, <2>3
    <3>2. QED
      BY <2>3, <3>1
  <2>4. CASE k > at + Len(new)
    <3>1. k - Len(new) \in 1..Len(q) /\ r[k] = q[k - Len(new)]
      BY <1>1, <1>2, <2>1, <2>4
    <3>2. QED
      BY <2>4, <3>1
  <2>5. QED
    BY <1>1, <2>1, <2>2, <2>3, <2>4
<1>6. ASSUME NEW k \in DOMAIN r
      PROVE  /\ r[k].id < next + Len(new)
             /\ r[k].id >= next \/ \E j \in DOMAIN q : r[k] = q[j]
  <2>1. at \in Nat /\ k \in Nat
    BY <1>1, <1>2
  <2>2. QED
    BY <1>1, <1>3, <1>5, <2>1
<1>9. DistinctIds(r)
  <2> SUFFICES ASSUME NEW j \in DOMAIN r, NEW k \in DOMAIN r, r[j].id = r[k].id
               PROVE  j = k
    BY DEF DistinctIds
  <2>1. at \in Nat /\ j \in Nat /\ k \in Nat
    BY <1>1, <1>2
  <2>2. CASE j <= at
    BY <1>1, <1>3, <1>4, <1>5, <2>1, <2>2
  <2>3. CASE j > at /\ j <= at + Len(new)
    <3>1. j - at \in 1..Len(new) /\ r[j] = new[j - at]
      BY <1>1, <1>2, <2>1, <2>3
    <3>2. r[j].id = next + (j - at) - 1
      BY <3>1
    <3>3. r[j].id >= next
      BY <2>1, <2>3, <3>2
    <3>4. ~(k <= at) /\ ~(k > at + Len(new))
      <4>1. ASSUME NEW i \in 1..Len(q), r[k] = q[i] PROVE FALSE
        <5>1. q[i].id \in Nat /\ q[i].id < next /\ q[i].id = r[j].id
          BY <1>3, <4>1
        <5>2. QED
          BY <3>3, <5>1
      <4>2. ~(k <= at /\ k \in 1..Len(q) /\ r[k] = q[k])
        BY <4>1
      <4>3. ~(k > at + Len(new) /\ k - Len(new) \in 1..Len(q) /\ r[k] = q[k - Len(new)])
        BY <4>1
      <4>4. QED
        BY <1>1, <1>5, <2>1, <4>2, <4>3
    <3>5. k - at \in 1..Len(new) /\ r[k] = new[k - at]
      BY <1>1, <1>2, <2>1, <3>4
    <3>6. r[k].id = next + (k - at) - 1
      BY <3>5
    <3>7. next + (j - at) - 1 = next + (k - at) - 1
      BY <3>2, <3>6
    <3>8. QED
      BY <2>1, <3>7
  <2>4. CASE j > at + Len(new)
    <3>1. j - Len(new) \in 1..Len(q) /\ r[j] = q[j - Len(new)]
      BY <1>1, <1>2, <2>1, <2>4
    <3>2. CASE k > at /\ k <= at + Len(new)
      <4>1. k - at \in 1..Len(new) /\ r[k] = new[k - at]
        BY <1>1, <1>2, <2>1, <3>2
      <4>2. r[k].id = next + (k - at) - 1
        BY <4>1
      <4>3. r[k].id >= next
        BY <2>1, <3>2, <4>2
      <4>4. QED
        BY <1>3, <3>1, <4>3
    <3>3. CASE k <= at
      BY <1>1, <1>4, <1>5, <2>1, <2>4, <3>1, <3>3
    <3>4. CASE k > at + Len(new)
      BY <1>1, <1>4, <1>5, <2>1, <2>4, <3>1, <3>4
    <3>5. QED
      BY <1>1, <2>1, <3>2, <3>3, <3>4
  <2>5. QED
    BY <1>1, <2>1, <2>2, <2>3, <2>4
<1>7. ASSUME NEW k \in DOMAIN q PROVE \E j \in DOMAIN r : r[j] = q[k]
  <2>1. CASE k <= at
    <3>1. k \in DOMAIN r /\ r[k] = q[k]
      BY <1>1, <1>2, <2>1
    <3>2. QED
      BY <3>1
  <2>2. CASE k > at
    <3>1. k + Len(new) \in DOMAIN r /\ r[k + Len(new)] = q[k]
      BY <1>1, <1>2, <2>2
    <3>2. QED
      BY <3>1
  <2>3. QED
    BY <1>1, <2>1, <2>2
<1>8. QED
  BY <1>2, <1>6, <1>7, <1>9 DEF r, QueueOK, MadeFrom

LEMMA RemoveKeeps ==
    ASSUME NEW q, NEW next \in Nat \ {0}, QueueOK(q, next), NEW k \in DOMAIN q
    PROVE  /\ QueueOK(RemoveAt(q, k), next)
           /\ MadeFrom(RemoveAt(q, k), q, next)
           /\ Len(RemoveAt(q, k)) = Len(q) - 1
           /\ \A i \in DOMAIN q : i # k =>
                \E j \in DOMAIN RemoveAt(q, k) : RemoveAt(q, k)[j] = q[i]
           /\ \A j \in DOMAIN RemoveAt(q, k) : RemoveAt(q, k)[j].id # q[k].id
<1> DEFINE r == RemoveAt(q, k)
<1>1. q \in Seq(Item) /\ Len(q) \in Nat /\ DOMAIN q = 1..Len(q)
  BY DEF QueueOK
<1>2. /\ r \in Seq(Item)
      /\ Len(r) = Len(q) - 1
      /\ DOMAIN r = 1..(Len(q) - 1)
      /\ \A j \in 1..(Len(q) - 1) : r[j] = IF j < k THEN q[j] ELSE q[j + 1]
  BY <1>1, RemoveItems
<1> HIDE DEF r
<1>3. \A j \in 1..Len(q) : q[j].id \in Nat /\ q[j].id < next
  BY <1>1, ItemsOfQueue DEF QueueOK
<1>4. \A i, j \in 1..Len(q) : q[i].id = q[j].id => i = j
  BY <1>1 DEF QueueOK, DistinctIds
<1>5. DistinctIds(r)
  BY <1>1, <1>2, <1>4 DEF DistinctIds
<1>6. ASSUME NEW j \in DOMAIN r
      PROVE  /\ r[j].id < next /\ r[j].id # q[k].id
             /\ \E i \in DOMAIN q : r[j] = q[i]
  <2>1. PICK i \in 1..Len(q) : r[j] = q[i] /\ i # k
    <3>1. CASE j < k
      BY <1>1, <1>2, <3>1
    <3>2. CASE j >= k
      BY <1>1, <1>2, <3>2
    <3>3. QED
      BY <1>1, <1>2, <3>1, <3>2
  <2>2. QED
    BY <1>1, <1>3, <1>4, <2>1
<1>7. ASSUME NEW i \in DOMAIN q, i # k PROVE \E j \in DOMAIN r : r[j] = q[i]
  <2>1. CASE i < k
    BY <1>1, <1>2, <2>1
  <2>2. CASE i > k
    <3>1. i - 1 \in DOMAIN r /\ r[i - 1] = q[i]
      BY <1>1, <1>2, <2>2
    <3>2. QED
      BY <3>1
  <2>3. QED
    BY <1>1, <1>7, <2>1, <2>2
<1>8. QED
  BY <1>2, <1>5, <1>6, <1>7 DEF r, QueueOK, MadeFrom

LEMMA MoveKeeps ==
    ASSUME NEW q, NEW next \in Nat \ {0}, QueueOK(q, next),
           NEW from \in DOMAIN q, NEW to \in DOMAIN q
    PROVE  /\ QueueOK(MoveTo(q, from, to), next)
           /\ MadeFrom(MoveTo(q, from, to), q, next)
           /\ \A k \in DOMAIN q :
                \E j \in DOMAIN MoveTo(q, from, to) :
                    MoveTo(q, from, to)[j] = q[k]
<1> DEFINE r == RemoveAt(q, from)
<1> DEFINE one == <<q[from]>>
<1> DEFINE m == Splice(r, to - 1, one)
<1>1. q \in Seq(Item) /\ Len(q) \in Nat /\ DOMAIN q = 1..Len(q)
  BY DEF QueueOK
<1>2. /\ r \in Seq(Item) /\ Len(r) = Len(q) - 1
      /\ DOMAIN r = 1..(Len(q) - 1)
      /\ \A j \in 1..(Len(q) - 1) : r[j] = IF j < from THEN q[j] ELSE q[j + 1]
  BY <1>1, RemoveItems
<1>3. one \in Seq(Item) /\ Len(one) = 1 /\ one[1] = q[from]
  BY <1>1
<1> HIDE DEF r, one
<1>4. to - 1 \in 0..Len(r)
  BY <1>1, <1>2
<1>5. /\ m \in Seq(Item)
      /\ DOMAIN m = 1..Len(q)
      /\ \A k \in 1..Len(q) :
            m[k] = IF k <= to - 1 THEN r[k]
                   ELSE IF k <= to THEN one[k - (to - 1)] ELSE r[k - 1]
  <2>1. /\ m \in Seq(Item)
        /\ DOMAIN m = 1..(Len(r) + Len(one))
        /\ \A k \in 1..(Len(r) + Len(one)) :
              m[k] = IF k <= to - 1 THEN r[k]
                     ELSE IF k <= to - 1 + Len(one) THEN one[k - (to - 1)]
                     ELSE r[k - Len(one)]
    BY <1>2, <1>3, <1>4, SpliceItems
  <2>2. QED
    BY <1>1, <1>2, <1>3, <2>1
<1> HIDE DEF m
<1>6. DEFINE src(k) == IF k = to THEN from
                       ELSE IF k < to THEN IF k < from THEN k ELSE k + 1
                       ELSE IF k - 1 < from THEN k - 1 ELSE k
<1>7. ASSUME NEW k \in 1..Len(q)
      PROVE  src(k) \in 1..Len(q) /\ m[k] = q[src(k)]
  BY <1>1, <1>2, <1>3, <1>5
<1>8. \A j, k \in 1..Len(q) : src(j) = src(k) => j = k
  BY <1>1
<1>9. ASSUME NEW k \in 1..Len(q) PROVE \E j \in 1..Len(q) : src(j) = k
  <2>1. DEFINE dst == IF k = from THEN to
                      ELSE IF k < from THEN IF k < to THEN k ELSE k + 1
                      ELSE IF k - 1 < to THEN k - 1 ELSE k
  <2>2. dst \in 1..Len(q) /\ src(dst) = k
    BY <1>1
  <2>3. QED
    BY <2>2
<1> HIDE DEF src
<1>10. \A j \in 1..Len(q) : q[j].id \in Nat /\ q[j].id < next
  BY <1>1, ItemsOfQueue DEF QueueOK
<1>11. \A i, j \in 1..Len(q) : q[i].id = q[j].id => i = j
  BY <1>1 DEF QueueOK, DistinctIds
<1>12. DistinctIds(m)
  <2> SUFFICES ASSUME NEW j \in 1..Len(q), NEW k \in 1..Len(q), m[j].id = m[k].id
               PROVE  j = k
    BY <1>5 DEF DistinctIds
  <2>1. q[src(j)].id = q[src(k)].id
    BY <1>7
  <2>2. src(j) = src(k)
    BY <1>7, <1>11, <2>1
  <2>3. QED
    BY <1>8, <2>2
<1>13. QueueOK(m, next)
  BY <1>5, <1>7, <1>10, <1>12 DEF QueueOK
<1>14. MadeFrom(m, q, next)
  BY <1>1, <1>5, <1>7 DEF MadeFrom
<1>15. ASSUME NEW k \in DOMAIN q PROVE \E j \in DOMAIN m : m[j] = q[k]
  BY <1>1, <1>5, <1>7, <1>9
<1>16. MoveTo(q, from, to) = m
  BY DEF MoveTo, m, r, one
<1>17. QED
  BY <1>13, <1>14, <1>15, <1>16

-----------------------------------------------------------------------------
(* Rows: what the current-item operators return.                           *)

\* The fields of a row that pointing it elsewhere leaves alone.
SameBut(s, t) ==
    /\ t.status = s.status /\ t.pos = s.pos /\ t.volume = s.volume
    /\ t.repeat = s.repeat /\ t.shuffle = s.shuffle /\ t.rev = s.rev
    /\ t.pb = s.pb /\ t.error = s.error /\ t.listener = s.listener

LEMMA SetCurrentFacts ==
    ASSUME NEW s \in PlayerRow, NEW q \in Seq(Item), NEW k \in Nat
    PROVE  /\ SetCurrent(s, q, k) \in PlayerRow
           /\ SameBut(s, SetCurrent(s, q, k))
           /\ SetCurrent(s, q, k).index = k
           /\ SetCurrent(s, q, k).item = IF k \in DOMAIN q THEN q[k].id ELSE 0
<1>1. (IF k \in DOMAIN q THEN q[k].id ELSE 0) \in Nat
  BY ItemsOfQueue
<1>2. QED
  BY <1>1 DEF SetCurrent, PlayerRow, SameBut

LEMMA SetNoneFacts ==
    ASSUME NEW s \in PlayerRow, NEW q \in Seq(Item)
    PROVE  SetCurrent(s, q, 0) \in PlayerRow /\ SetCurrent(s, q, 0).item = 0
<1>1. 0 \notin DOMAIN q
  OBVIOUS
<1>2. /\ SetCurrent(s, q, 0) \in PlayerRow
      /\ SetCurrent(s, q, 0).item = IF 0 \in DOMAIN q THEN q[0].id ELSE 0
  BY SetCurrentFacts
<1>3. QED
  BY <1>1, <1>2

LEMMA PositionFacts ==
    ASSUME NEW q \in Seq(Item), NEW item
    PROVE  /\ PositionOf(q, item) \in Nat
           /\ IF item \in Ids(q)
              THEN PositionOf(q, item) \in DOMAIN q
                   /\ q[PositionOf(q, item)].id = item
              ELSE PositionOf(q, item) = 0
<1>1. CASE item \in Ids(q)
  <2>1. \E k \in DOMAIN q : q[k].id = item
    BY <1>1 DEF Ids
  <2>2. PositionOf(q, item) \in DOMAIN q /\ q[PositionOf(q, item)].id = item
    BY <1>1, <2>1 DEF PositionOf
  <2>3. QED
    BY <1>1, <2>2
<1>2. CASE item \notin Ids(q)
  BY <1>2 DEF PositionOf
<1>3. QED
  BY <1>1, <1>2

\* A normalised row of a queue that holds its item is at its item.
LEMMA NormalizeFacts ==
    ASSUME NEW s \in PlayerRow, NEW q \in Seq(Item)
    PROVE  /\ Normalize(s, q) \in PlayerRow
           /\ SameBut(s, Normalize(s, q))
           /\ s.item \in Ids(q) =>
                 /\ Normalize(s, q).item = s.item
                 /\ Normalize(s, q).index \in DOMAIN q
                 /\ q[Normalize(s, q).index].id = s.item
           /\ q = <<>> => Normalize(s, q).item = 0
<1> DEFINE k == IF s.item \in Ids(q) THEN PositionOf(q, s.item)
                ELSE IF s.index \in DOMAIN q THEN s.index ELSE 0
<1>1. /\ k \in Nat
      /\ s.item \in Ids(q) => k \in DOMAIN q /\ q[k].id = s.item
      /\ q = <<>> => k \notin DOMAIN q
  <2>1. s.index \in Nat
    BY DEF PlayerRow
  <2>2. QED
    BY <2>1, PositionFacts
<1>2. Normalize(s, q) = SetCurrent(s, q, k)
  BY DEF Normalize
<1> HIDE DEF k
<1>3. QED
  BY <1>1, <1>2, SetCurrentFacts

\* The row that a transaction reads is the stored one.
LEMMA RowFacts ==
    ASSUME PlayerInv
    PROVE  /\ row \in PlayerRow
           /\ SameBut(state, row)
           /\ row.item = state.item
           /\ CurrentOK(row, queue)
           /\ PlaybackOK(row, issued)
           /\ queue # <<>> => row.item \in Ids(queue) /\ row.item # 0
           /\ queue = <<>> => row.item = 0
<1>1. state \in PlayerRow /\ queue \in Seq(Item)
  BY DEF PlayerInv, TypeOK
<1>2. CASE queue = <<>>
  <2>1. row \in PlayerRow /\ SameBut(state, row) /\ row.item = 0
    BY <1>1, <1>2, NormalizeFacts DEF row
  <2>2. state.item = 0 /\ state.pb = 0 /\ state.status # "playing"
    BY <1>2 DEF PlayerInv, CurrentOK
  <2>3. CurrentOK(row, queue) /\ PlaybackOK(row, issued)
    BY <1>2, <2>1, <2>2 DEF CurrentOK, PlaybackOK, SameBut
  <2>4. QED
    BY <1>2, <2>1, <2>2, <2>3
<1>3. CASE queue # <<>>
  <2>1. state.index \in DOMAIN queue /\ state.item = queue[state.index].id
    BY <1>3 DEF PlayerInv, CurrentOK
  <2>2. state.item \in Ids(queue) /\ state.item # 0
    BY <1>1, <2>1, ItemsOfQueue DEF Ids
  <2>3. /\ row \in PlayerRow /\ SameBut(state, row) /\ row.item = state.item
        /\ row.index \in DOMAIN queue /\ queue[row.index].id = state.item
    BY <1>1, <2>2, NormalizeFacts DEF row
  <2>4. CurrentOK(row, queue) /\ PlaybackOK(row, issued)
    BY <1>3, <2>3 DEF PlayerInv, CurrentOK, PlaybackOK, SameBut
  <2>5. QED
    BY <1>3, <2>2, <2>3, <2>4
<1>4. QED
  BY <1>2, <1>3

LEMMA SelectNextFacts ==
    ASSUME NEW s \in PlayerRow, NEW q \in Seq(Item), NEW natural,
           NEW k \in SelectNext(s, q, natural)
    PROVE  k \in DOMAIN q
<1> DEFINE known == IF s.item \in Ids(q) THEN PositionOf(q, s.item)
                    ELSE IF s.index = 0 THEN 1 ELSE s.index
<1> DEFINE current == IF known > Len(q) THEN Len(q) ELSE known
<1> DEFINE others == DOMAIN q \ {current}
<1>1. q # <<>>
  BY DEF SelectNext
<1>2. Len(q) \in Nat /\ Len(q) >= 1 /\ DOMAIN q = 1..Len(q)
  BY <1>1
<1>3. known \in Nat /\ known >= 1
  <2>1. CASE s.item \in Ids(q)
    BY <1>2, <2>1, PositionFacts
  <2>2. CASE s.item \notin Ids(q)
    <3>1. s.index \in Nat
      BY DEF PlayerRow
    <3>2. QED
      BY <2>2, <3>1
  <2>3. QED
    BY <2>1, <2>2
<1>4. current \in DOMAIN q
  BY <1>2, <1>3
<1>5. k \in {current} \/ k \in others \/ (current < Len(q) /\ k = current + 1)
      \/ k = 1
  BY <1>1 DEF SelectNext
<1> HIDE DEF known, current
<1>6. QED
  BY <1>2, <1>4, <1>5

-----------------------------------------------------------------------------
(* The two ways a transaction ends, and what every theorem needs of them.  *)

\* The tables after a transaction that stores queue q.
TablesOK(q) ==
    /\ nextItem' \in Nat \ {0}
    /\ QueueOK(q, nextItem')
    /\ \A saved \in undo' : SnapshotOK(saved, nextItem') /\ Agree(q, saved.queue)
    /\ listens' \in Seq(Nat)
    /\ MadeFrom(q, queue, nextItem) \/ \E saved \in undo : q = saved.queue

\* A step that no command takes.
OnlyReport == Report /\ ~Commanded

\* What a transaction that starts nothing does to the playback, and what it
\* tells the output.
Quiet(s, d) ==
    \/ d.op = "pause" /\ s.status = "paused" /\ s.pb \in {state.pb, 0}
    \/ d.op = "stop" /\ s.status = "stopped" /\ s.pb = 0
    \/ /\ d.op \in {"none", "volume"} /\ s.status = state.status
       /\ s.pb = state.pb \/ (state.status # "playing" /\ s.pb = 0)
    \/ /\ OnlyReport
       /\ d.op = "none" /\ state.pb # 0
       /\ s.pb = state.pb \/ (s.status = "stopped" /\ s.pb = 0)

Settled(s, q, d) ==
    /\ Settle(s, q, d)
    /\ s \in PlayerRow /\ d \in Directive
    /\ CurrentOK(s, q)
    /\ PlaybackOK(s, issued)
    /\ Quiet(s, d)

Started(s, q, pos) ==
    /\ Start(s, q, pos)
    /\ s \in PlayerRow /\ pos \in Nat
    /\ s.index \in DOMAIN q /\ s.item = q[s.index].id

\* A transaction of the player.
Transaction ==
    /\ TablesOK(queue')
    /\ \/ \E s, q, d : Settled(s, q, d)
       \/ \E s, q, pos : Started(s, q, pos)

LEMMA SettledTransaction ==
    ASSUME NEW s, NEW q, NEW d, Settled(s, q, d), TablesOK(q)
    PROVE  Transaction
<1>1. queue' = q
  BY DEF Settled, Settle
<1>2. QED
  BY <1>1 DEF Transaction

LEMMA StartedTransaction ==
    ASSUME NEW s, NEW q, NEW pos, Started(s, q, pos), TablesOK(q)
    PROVE  Transaction
<1>1. queue' = q
  BY DEF Started, Start
<1>2. QED
  BY <1>1 DEF Transaction

LEMMA RevisionFacts ==
    ASSUME NEW s \in PlayerRow, NEW n \in Nat
    PROVE  /\ [s EXCEPT !.rev = n] \in PlayerRow
           /\ [s EXCEPT !.rev = n].rev = n
           /\ [s EXCEPT !.rev = n].status = s.status
           /\ [s EXCEPT !.rev = n].pb = s.pb
           /\ [s EXCEPT !.rev = n].pos = s.pos
           /\ [s EXCEPT !.rev = n].item = s.item
           /\ [s EXCEPT !.rev = n].index = s.index
BY DEF PlayerRow

LEMMA BeginFacts ==
    ASSUME NEW s \in PlayerRow, NEW pos \in Nat, issued \in Seq(Nat)
    PROVE  /\ BeginPlayback(s, pos) \in PlayerRow
           /\ BeginPlayback(s, pos).status = "playing"
           /\ BeginPlayback(s, pos).pb = Len(issued) + 1
           /\ BeginPlayback(s, pos).pos = pos
           /\ BeginPlayback(s, pos).item = s.item
           /\ BeginPlayback(s, pos).index = s.index
<1>1. Len(issued) + 1 \in Nat
  OBVIOUS
<1>2. QED
  BY <1>1 DEF BeginPlayback, PlayerRow, Statuses

LEMMA SettledInv ==
    ASSUME PlayerInv, NEW s, NEW q, NEW d, Settled(s, q, d), TablesOK(q)
    PROVE  PlayerInv'
<1>1. /\ queue' = q /\ issued' = issued /\ directive' = d
      /\ state' = [s EXCEPT !.rev = state.rev + 1]
  BY DEF Settled, Settle, Save
<1>2. s \in PlayerRow /\ state.rev + 1 \in Nat /\ issued \in Seq(Nat)
  BY DEF Settled, PlayerInv, TypeOK, PlayerRow
<1>3. /\ state' \in PlayerRow
      /\ state'.status = s.status /\ state'.pb = s.pb
      /\ state'.item = s.item /\ state'.index = s.index
  BY <1>1, <1>2, RevisionFacts, Zenon
<1>4. undo' \in SUBSET UndoSnapshot
  BY DEF TablesOK, SnapshotOK
<1>5. TypeOK'
  BY <1>1, <1>2, <1>3, <1>4 DEF TypeOK, TablesOK, QueueOK, Settled
<1>6. CurrentOK(state, queue)' /\ PlaybackOK(state, issued)'
  BY <1>1, <1>3 DEF Settled, CurrentOK, PlaybackOK
<1>7. QED
  BY <1>1, <1>5, <1>6 DEF PlayerInv, TablesOK

\* What a started playback is: its directive, and the item it was issued for.
LEMMA StartFacts ==
    ASSUME PlayerInv, NEW s, NEW q, NEW pos, Started(s, q, pos), QueueOK(q, nextItem')
    PROVE  /\ queue' = q
           /\ issued' = Append(issued, s.item)
           /\ state' \in PlayerRow
           /\ state'.status = "playing" /\ state'.pb = Len(issued) + 1
           /\ state'.rev = state.rev + 1
           /\ state'.index = s.index /\ state'.item = s.item /\ state'.pos = pos
           /\ directive' \in Directive
           /\ directive'.op = "load" /\ directive'.pb = state'.pb
           /\ directive'.item = state'.item /\ directive'.pos = state'.pos
           /\ directive'.track = q[s.index].track
<1> DEFINE t == BeginPlayback(s, pos)
<1>1. /\ queue' = q /\ issued' = Append(issued, s.item)
      /\ directive' = LoadDirective(t, q)
      /\ state' = [t EXCEPT !.rev = state.rev + 1]
  BY DEF Started, Start, Save
<1>2. /\ s \in PlayerRow /\ pos \in Nat /\ state.rev + 1 \in Nat
      /\ issued \in Seq(Nat) /\ Len(issued) \in Nat
      /\ q \in Seq(Item) /\ s.index \in DOMAIN q /\ s.item = q[s.index].id
  BY DEF Started, PlayerInv, TypeOK, PlayerRow, QueueOK
<1>3. /\ t \in PlayerRow
      /\ t.status = "playing" /\ t.pb = Len(issued) + 1 /\ t.pos = pos
      /\ t.index = s.index /\ t.item = s.item
  BY <1>2, BeginFacts
<1> HIDE DEF t
<1>4. /\ state' \in PlayerRow
      /\ state'.status = t.status /\ state'.pb = t.pb
      /\ state'.index = t.index /\ state'.item = t.item /\ state'.pos = t.pos
      /\ state'.rev = state.rev + 1
  BY <1>1, <1>2, <1>3, RevisionFacts, Zenon
<1>5. s.item \in Ids(q) /\ PositionOf(q, s.item) = s.index
  <2>1. s.item \in Ids(q)
    BY <1>2 DEF Ids
  <2>2. PositionOf(q, s.item) \in DOMAIN q /\ q[PositionOf(q, s.item)].id = s.item
    BY <1>2, <2>1, PositionFacts
  <2>3. QED
    BY <1>2, <2>1, <2>2 DEF QueueOK, DistinctIds
<1>6. directive' = [op |-> "load", item |-> s.item, pb |-> t.pb, pos |-> pos,
                    track |-> q[s.index].track]
  BY <1>1, <1>2, <1>3, <1>5 DEF LoadDirective
<1>7. q[s.index].track \in Tracks /\ s.item \in Nat /\ t.pb \in Nat
  BY <1>2, <1>3, ItemsOfQueue
<1>8. directive' \in Directive
  BY <1>2, <1>6, <1>7 DEF Directive
<1>9. QED
  BY <1>1, <1>3, <1>4, <1>6, <1>8

LEMMA StartedInv ==
    ASSUME PlayerInv, NEW s, NEW q, NEW pos, Started(s, q, pos), TablesOK(q)
    PROVE  PlayerInv'
<1>1. QueueOK(q, nextItem') /\ q \in Seq(Item)
  BY DEF TablesOK, QueueOK
<1>2. /\ queue' = q /\ issued' = Append(issued, s.item)
      /\ state' \in PlayerRow
      /\ state'.status = "playing" /\ state'.pb = Len(issued) + 1
      /\ state'.index = s.index /\ state'.item = s.item
      /\ directive' \in Directive
  BY <1>1, StartFacts
<1>3. s.item \in Nat /\ s.index \in DOMAIN q /\ s.item = q[s.index].id
  BY DEF Started, PlayerRow
<1>4. issued \in Seq(Nat) /\ Len(issued) \in Nat
  BY DEF PlayerInv, TypeOK
<1>5. /\ issued' \in Seq(Nat)
      /\ Len(issued) + 1 \in DOMAIN issued'
      /\ issued'[Len(issued) + 1] = s.item
  BY <1>2, <1>3, <1>4
<1>6. undo' \in SUBSET UndoSnapshot
  BY DEF TablesOK, SnapshotOK
<1>7. TypeOK'
  BY <1>1, <1>2, <1>5, <1>6 DEF TypeOK, TablesOK
<1>8. CurrentOK(state, queue)'
  BY <1>1, <1>2, <1>3 DEF CurrentOK
<1>9. PlaybackOK(state, issued)'
  BY <1>2, <1>4, <1>5 DEF PlaybackOK
<1>10. QED
  BY <1>2, <1>7, <1>8, <1>9 DEF PlayerInv, TablesOK

LEMMA TransactionInv ==
    ASSUME PlayerInv, Transaction
    PROVE  PlayerInv'
<1>1. CASE \E s, q, d : Settled(s, q, d)
  <2>1. PICK s, q, d : Settled(s, q, d)
    BY <1>1
  <2>2. queue' = q
    BY <2>1 DEF Settled, Settle
  <2>3. QED
    BY <2>1, <2>2, SettledInv DEF Transaction
<1>2. CASE \E s, q, pos : Started(s, q, pos)
  <2>1. PICK s, q, pos : Started(s, q, pos)
    BY <1>2
  <2>2. queue' = q
    BY <2>1 DEF Started, Start
  <2>3. QED
    BY <2>1, <2>2, StartedInv DEF Transaction
<1>3. QED
  BY <1>1, <1>2 DEF Transaction

-----------------------------------------------------------------------------
(* Queue edits.                                                            *)

LEMMA SnapshotFacts ==
    ASSUME PlayerInv
    PROVE  Snapshot \in UndoSnapshot /\ SnapshotOK(Snapshot, nextItem)
<1>1. /\ row \in PlayerRow /\ CurrentOK(row, queue)
      /\ queue # <<>> => row.item \in Ids(queue)
  BY RowFacts
<1>2. queue \in Seq(Item) /\ QueueOK(queue, nextItem)
  BY DEF PlayerInv, TypeOK
<1>3. Snapshot \in UndoSnapshot /\ Snapshot.queue = queue
      /\ Snapshot.status = row.status /\ Snapshot.item = row.item
  BY <1>1, <1>2 DEF Snapshot, UndoSnapshot, PlayerRow
<1>4. QED
  BY <1>1, <1>2, <1>3 DEF SnapshotOK, CurrentOK

LEMMA EditTables ==
    ASSUME PlayerInv, SaveUndo, NEW q, QueueOK(q, nextItem'),
           MadeFrom(q, queue, nextItem),
           nextItem' \in Nat \ {0}, nextItem <= nextItem', listens' \in Seq(Nat)
    PROVE  TablesOK(q)
<1>1. nextItem \in Nat /\ QueueOK(queue, nextItem)
  BY DEF PlayerInv, TypeOK
<1>2. Snapshot \in UndoSnapshot /\ SnapshotOK(Snapshot, nextItem)
      /\ Snapshot.queue = queue
  BY SnapshotFacts DEF Snapshot
<1>3. QueueOK(queue, nextItem')
  BY <1>1, QueueLater
<1>4. SnapshotOK(Snapshot, nextItem')
  BY <1>2, <1>3 DEF SnapshotOK
<1>5. Agree(q, Snapshot.queue)
  BY <1>1, <1>2, MadeFromAgrees
<1>6. QED
  BY <1>4, <1>5 DEF TablesOK, SaveUndo

\* A transaction that leaves the queue and its snapshot alone.
LEMMA KeepTables ==
    ASSUME PlayerInv, UNCHANGED <<undo, nextItem>>, listens' \in Seq(Nat)
    PROVE  TablesOK(queue)
<1>1. /\ nextItem \in Nat \ {0} /\ QueueOK(queue, nextItem)
      /\ \A saved \in undo :
            SnapshotOK(saved, nextItem) /\ Agree(queue, saved.queue)
  BY DEF PlayerInv, TypeOK
<1>2. MadeFrom(queue, queue, nextItem)
  BY DEF MadeFrom
<1>3. QED
  BY <1>1, <1>2 DEF TablesOK

LEMMA NoDirectiveFacts ==
    /\ NoDirective \in Directive /\ NoDirective.op = "none"
    /\ PauseDirective \in Directive /\ PauseDirective.op = "pause"
    /\ StopDirective \in Directive /\ StopDirective.op = "stop"
BY DEF NoDirective, PauseDirective, StopDirective, Directive

\* A row that follows its item into a changed queue settles.
LEMMA FollowSettled ==
    ASSUME PlayerInv, NEW q \in Seq(Item), row.item \in Ids(q),
           Settle(Normalize(row, q), q, NoDirective)
    PROVE  Settled(Normalize(row, q), q, NoDirective)
<1>1. row \in PlayerRow /\ SameBut(state, row) /\ PlaybackOK(row, issued)
  BY RowFacts
<1>2. /\ Normalize(row, q) \in PlayerRow
      /\ SameBut(row, Normalize(row, q))
      /\ Normalize(row, q).item = row.item
      /\ Normalize(row, q).index \in DOMAIN q
      /\ q[Normalize(row, q).index].id = row.item
  BY <1>1, NormalizeFacts
<1>3. q # <<>>
  BY <1>2
<1>4. CurrentOK(Normalize(row, q), q)
  BY <1>2, <1>3 DEF CurrentOK
<1>5. PlaybackOK(Normalize(row, q), issued)
  BY <1>1, <1>2 DEF PlaybackOK, SameBut
<1>6. Quiet(Normalize(row, q), NoDirective)
  BY <1>1, <1>2, NoDirectiveFacts DEF Quiet, SameBut
<1>7. QED
  BY <1>2, <1>4, <1>5, <1>6, NoDirectiveFacts DEF Settled

\* The first tracks of an empty queue become current without being played.
LEMMA FirstSettled ==
    ASSUME PlayerInv, queue = <<>>, NEW q \in Seq(Item),
           Settle(AtFirst(q), q, NoDirective)
    PROVE  Settled(AtFirst(q), q, NoDirective)
<1>1. /\ row \in PlayerRow /\ SameBut(state, row)
      /\ row.pb = 0 /\ row.status # "playing"
  BY RowFacts DEF CurrentOK
<1>2. /\ SetCurrent(row, q, 1) \in PlayerRow
      /\ SameBut(row, SetCurrent(row, q, 1))
      /\ SetCurrent(row, q, 1).index = 1
      /\ SetCurrent(row, q, 1).item = IF 1 \in DOMAIN q THEN q[1].id ELSE 0
  BY <1>1, SetCurrentFacts
<1>3. /\ AtFirst(q) \in PlayerRow
      /\ AtFirst(q).index = 1
      /\ AtFirst(q).item = IF 1 \in DOMAIN q THEN q[1].id ELSE 0
      /\ AtFirst(q).pb = 0 /\ AtFirst(q).status = state.status
      /\ AtFirst(q).status # "playing"
  BY <1>1, <1>2 DEF AtFirst, PlayerRow, SameBut
<1>4. CurrentOK(AtFirst(q), q)
  <2>1. CASE q = <<>>
    BY <1>3, <2>1 DEF CurrentOK
  <2>2. CASE q # <<>>
    <3>1. 1 \in DOMAIN q
      BY <2>2
    <3>2. QED
      BY <1>3, <2>2, <3>1 DEF CurrentOK
  <2>3. QED
    BY <2>1, <2>2
<1>5. PlaybackOK(AtFirst(q), issued)
  BY <1>3 DEF PlaybackOK
<1>6. state.pb = 0
  BY <1>1 DEF SameBut
<1>7. Quiet(AtFirst(q), NoDirective)
  BY <1>3, <1>6, NoDirectiveFacts DEF Quiet
<1>8. QED
  BY <1>3, <1>4, <1>5, <1>7, NoDirectiveFacts DEF Settled

LEMMA ItemStays ==
    ASSUME NEW q, NEW new, NEW item \in Ids(q),
           \A k \in DOMAIN q : \E j \in DOMAIN new : new[j] = q[k]
    PROVE  item \in Ids(new)
BY DEF Ids

\* The tables after new tracks are spliced into the queue.
LEMMA InsertTables ==
    ASSUME PlayerInv, SaveUndo, NEW tracks \in TrackLists, InsertRows(tracks),
           UNCHANGED listens, NEW at \in 0..Len(queue)
    PROVE  /\ TablesOK(Splice(queue, at, NewItems(tracks)))
           /\ Splice(queue, at, NewItems(tracks)) \in Seq(Item)
           /\ \A item \in Ids(queue) :
                 item \in Ids(Splice(queue, at, NewItems(tracks)))
<1> DEFINE new == NewItems(tracks)
<1> DEFINE q == Splice(queue, at, new)
<1>1. /\ nextItem \in Nat \ {0} /\ QueueOK(queue, nextItem)
      /\ listens' \in Seq(Nat)
  BY DEF PlayerInv, TypeOK
<1>2. /\ Len(tracks) \in Nat /\ new \in Seq(Item) /\ Len(new) = Len(tracks)
      /\ \A n \in 1..Len(new) : new[n].id = nextItem + n - 1
  BY <1>1, NewItemsFacts
<1>3. /\ nextItem' = nextItem + Len(new)
      /\ nextItem' \in Nat \ {0} /\ nextItem <= nextItem'
  BY <1>1, <1>2 DEF InsertRows
<1> HIDE DEF new
<1>4. /\ QueueOK(q, nextItem + Len(new))
      /\ MadeFrom(q, queue, nextItem)
      /\ \A k \in DOMAIN queue : \E j \in DOMAIN q : q[j] = queue[k]
  BY <1>1, <1>2, SpliceKeeps
<1> HIDE DEF q
<1>5. TablesOK(q)
  BY <1>1, <1>3, <1>4, EditTables
<1>6. \A item \in Ids(queue) : item \in Ids(q)
  BY <1>4, ItemStays
<1>7. q \in Seq(Item)
  BY <1>4 DEF QueueOK
<1>8. QED
  BY <1>5, <1>6, <1>7 DEF q, new

LEMMA EnqueueStep ==
    ASSUME PlayerInv, NEW tracks \in TrackLists, NEW at \in 0..Len(queue),
           Enqueue(tracks, at)
    PROVE  Transaction
<1> DEFINE q == Splice(queue, at, NewItems(tracks))
<1>1. TablesOK(q) /\ q \in Seq(Item)
      /\ \A item \in Ids(queue) : item \in Ids(q)
  BY InsertTables DEF Enqueue
<1>2. Settle(IF queue = <<>> THEN AtFirst(q) ELSE Normalize(row, q),
             q, NoDirective)
  BY DEF Enqueue
<1> HIDE DEF q
<1>3. CASE queue = <<>>
  BY <1>1, <1>2, <1>3, FirstSettled, SettledTransaction
<1>4. CASE queue # <<>>
  <2>1. row.item \in Ids(q)
    BY <1>1, <1>4, RowFacts
  <2>2. QED
    BY <1>1, <1>2, <1>4, <2>1, FollowSettled, SettledTransaction
<1>5. QED
  BY <1>3, <1>4

LEMMA EnqueueNextStep ==
    ASSUME PlayerInv, NEW tracks \in TrackLists, EnqueueNext(tracks)
    PROVE  Transaction
<1> DEFINE at == PositionOf(queue, row.item)
<1> DEFINE q == Splice(queue, at, NewItems(tracks))
<1>1. at \in 0..Len(queue)
  <2>1. queue \in Seq(Item)
    BY DEF PlayerInv, TypeOK
  <2>2. at \in Nat /\ (at \in DOMAIN queue \/ at = 0)
    BY <2>1, PositionFacts
  <2>3. QED
    BY <2>1, <2>2
<1>2. TablesOK(q) /\ q \in Seq(Item)
      /\ \A item \in Ids(queue) : item \in Ids(q)
  BY <1>1, InsertTables DEF EnqueueNext
<1>3. Settle(IF row.item = 0 THEN AtFirst(q) ELSE Normalize(row, q),
             q, NoDirective)
  BY DEF EnqueueNext
<1> HIDE DEF q
<1>4. CASE queue = <<>>
  BY <1>2, <1>3, <1>4, RowFacts, FirstSettled, SettledTransaction
<1>5. CASE queue # <<>>
  <2>1. row.item \in Ids(q) /\ row.item # 0
    BY <1>2, <1>5, RowFacts
  <2>2. QED
    BY <1>2, <1>3, <2>1, FollowSettled, SettledTransaction
<1>6. QED
  BY <1>4, <1>5

\* A row at an item of the queue, or at none of an empty queue.
PointsInto(s, q) ==
    IF q = <<>> THEN s.item = 0
    ELSE s.index \in DOMAIN q /\ s.item = q[s.index].id

LEMMA HaltedFacts ==
    ASSUME PlayerInv, NEW s \in PlayerRow, NEW q, PointsInto(s, q)
    PROVE  /\ Halted(s) \in PlayerRow
           /\ Halted(s).status = "stopped" /\ Halted(s).pb = 0
           /\ CurrentOK(Halted(s), q)
           /\ PlaybackOK(Halted(s), issued)
<1>1. /\ Halted(s) \in PlayerRow
      /\ Halted(s).status = "stopped" /\ Halted(s).pb = 0
      /\ Halted(s).item = s.item /\ Halted(s).index = s.index
  BY DEF Halted, PlayerRow, Statuses
<1>2. QED
  BY <1>1 DEF CurrentOK, PlaybackOK, PointsInto

LEMMA RemoveStep ==
    ASSUME PlayerInv, NEW k \in DOMAIN queue, Remove(k)
    PROVE  Transaction
<1> DEFINE q == RemoveAt(queue, k)
<1> DEFINE m == IF k > Len(q) THEN Len(q) ELSE k
<1> DEFINE s == [SetCurrent(row, q, m) EXCEPT !.pos = 0, !.pb = 0]
<1>1. /\ nextItem \in Nat \ {0} /\ QueueOK(queue, nextItem)
      /\ queue \in Seq(Item) /\ k \in 1..Len(queue) /\ Len(queue) \in Nat
      /\ listens \in Seq(Nat)
  BY DEF PlayerInv, TypeOK
<1>2. /\ QueueOK(q, nextItem)
      /\ MadeFrom(q, queue, nextItem)
      /\ Len(q) = Len(queue) - 1
      /\ \A i \in DOMAIN queue : i # k => \E j \in DOMAIN q : q[j] = queue[i]
  BY <1>1, RemoveKeeps
<1>3. SaveUndo /\ UNCHANGED <<nextItem, listens>>
  BY DEF Remove
<1>4. /\ \/ /\ q = <<>>
            /\ Settle(Halted(SetCurrent(row, q, 0)), q, StopDirective)
         \/ /\ q # <<>> /\ row.item # queue[k].id
            /\ Settle(Normalize(row, q), q, NoDirective)
         \/ /\ q # <<>> /\ row.item = queue[k].id /\ row.status # "playing"
            /\ Settle(s, q, NoDirective)
         \/ /\ q # <<>> /\ row.item = queue[k].id /\ row.status = "playing"
            /\ Start(s, q, 0)
  BY DEF Remove, RemoveQueueItem
<1>5. q \in Seq(Item)
  BY <1>2 DEF QueueOK
<1>6. TablesOK(q)
  BY <1>1, <1>2, <1>3, EditTables
<1> HIDE DEF q
<1>7. row \in PlayerRow /\ SameBut(state, row)
  BY RowFacts
<1>8. CASE /\ q = <<>>
           /\ Settle(Halted(SetCurrent(row, q, 0)), q, StopDirective)
  <2>1. SetCurrent(row, q, 0) \in PlayerRow /\ PointsInto(SetCurrent(row, q, 0), q)
    BY <1>5, <1>7, <1>8, SetNoneFacts DEF PointsInto
  <2>2. Settled(Halted(SetCurrent(row, q, 0)), q, StopDirective)
    BY <1>8, <2>1, HaltedFacts, NoDirectiveFacts DEF Settled, Quiet
  <2>3. QED
    BY <1>6, <2>2, SettledTransaction
<1>9. CASE /\ q # <<>> /\ row.item # queue[k].id
           /\ Settle(Normalize(row, q), q, NoDirective)
  <2>1. row.item \in Ids(queue)
    BY RowFacts
  <2>2. row.item \in Ids(q)
    <3>1. PICK i \in DOMAIN queue : queue[i].id = row.item
      BY <2>1 DEF Ids
    <3>2. PICK j \in DOMAIN q : q[j] = queue[i]
      BY <1>2, <1>9, <3>1
    <3>3. QED
      BY <3>1, <3>2 DEF Ids
  <2>3. QED
    BY <1>5, <1>6, <1>9, <2>2, FollowSettled, SettledTransaction
<1>10. ASSUME q # <<>>
       PROVE  /\ s \in PlayerRow /\ s.pb = 0 /\ s.status = state.status
              /\ s.index \in DOMAIN q /\ s.item = q[s.index].id
  <2>1. m \in DOMAIN q /\ m \in Nat
    BY <1>1, <1>2, <1>5, <1>10
  <2> HIDE DEF m
  <2>2. /\ SetCurrent(row, q, m) \in PlayerRow
        /\ SameBut(row, SetCurrent(row, q, m))
        /\ SetCurrent(row, q, m).index = m
        /\ SetCurrent(row, q, m).item = q[m].id
    BY <1>5, <1>7, <2>1, SetCurrentFacts
  <2>3. QED
    BY <1>7, <2>1, <2>2 DEF PlayerRow, SameBut
<1> HIDE DEF s
<1>11. CASE /\ q # <<>> /\ row.item = queue[k].id /\ row.status # "playing"
            /\ Settle(s, q, NoDirective)
  <2>1. state.status # "playing"
    BY <1>7, <1>11 DEF SameBut
  <2>2. CurrentOK(s, q) /\ PlaybackOK(s, issued) /\ Quiet(s, NoDirective)
    BY <1>10, <1>11, <2>1, NoDirectiveFacts DEF CurrentOK, PlaybackOK, Quiet
  <2>3. Settled(s, q, NoDirective)
    BY <1>10, <1>11, <2>2, NoDirectiveFacts DEF Settled
  <2>4. QED
    BY <1>6, <2>3, SettledTransaction
<1>12. CASE /\ q # <<>> /\ row.item = queue[k].id /\ row.status = "playing"
            /\ Start(s, q, 0)
  <2>1. Started(s, q, 0)
    BY <1>10, <1>12 DEF Started
  <2>2. QED
    BY <1>6, <2>1, StartedTransaction
<1>13. QED
  BY <1>4, <1>8, <1>9, <1>11, <1>12

LEMMA RearrangeStep ==
    ASSUME PlayerInv, NEW from \in DOMAIN queue, NEW to \in DOMAIN queue,
           Rearrange(MoveTo(queue, from, to))
    PROVE  Transaction
<1> DEFINE q == MoveTo(queue, from, to)
<1>1. /\ nextItem \in Nat \ {0} /\ QueueOK(queue, nextItem)
      /\ listens \in Seq(Nat)
  BY DEF PlayerInv, TypeOK
<1>2. /\ QueueOK(q, nextItem)
      /\ MadeFrom(q, queue, nextItem)
      /\ \A k \in DOMAIN queue : \E j \in DOMAIN q : q[j] = queue[k]
  BY <1>1, MoveKeeps
<1>3. SaveUndo /\ UNCHANGED <<nextItem, listens>>
      /\ Settle(Normalize(row, q), q, NoDirective)
  BY DEF Rearrange
<1> HIDE DEF q
<1>4. q \in Seq(Item)
  BY <1>2 DEF QueueOK
<1>5. TablesOK(q)
  BY <1>1, <1>2, <1>3, EditTables
<1>6. row.item \in Ids(queue)
  BY RowFacts
<1>7. row.item \in Ids(q)
  BY <1>2, <1>6, ItemStays
<1>8. QED
  BY <1>3, <1>4, <1>5, <1>7, FollowSettled, SettledTransaction

LEMMA MoveItemStep ==
    ASSUME PlayerInv, NEW from \in DOMAIN queue, NEW before \in 1..(Len(queue) + 1),
           MoveItem(from, before)
    PROVE  Transaction
<1> DEFINE to == IF before > from THEN before - 1 ELSE before
<1>1. queue \in Seq(Item)
  BY DEF PlayerInv, TypeOK
<1>2. Len(queue) \in Nat /\ from \in 1..Len(queue) /\ before # from
  BY <1>1 DEF MoveItem
<1>3. to \in DOMAIN queue
  BY <1>1, <1>2
<1>4. Rearrange(MoveTo(queue, from, to))
  BY DEF MoveItem
<1> HIDE DEF to
<1>5. QED
  BY <1>3, <1>4, RearrangeStep

LEMMA ClearStep ==
    ASSUME PlayerInv, Clear
    PROVE  Transaction
<1> DEFINE c == SetCurrent(row, <<>>, 0)
<1> DEFINE s == [Halted(c) EXCEPT !.error = FALSE]
<1>1. /\ nextItem \in Nat \ {0} /\ listens \in Seq(Nat)
      /\ row \in PlayerRow
  BY RowFacts DEF PlayerInv, TypeOK
<1>2. /\ SaveUndo /\ UNCHANGED <<nextItem, listens>>
      /\ Settle(s, <<>>, StopDirective)
  BY DEF Clear
<1>3. QueueOK(<<>>, nextItem) /\ MadeFrom(<<>>, queue, nextItem)
  BY DEF QueueOK, MadeFrom, DistinctIds
<1>4. TablesOK(<<>>)
  BY <1>1, <1>2, <1>3, EditTables
<1>5. c \in PlayerRow /\ c.item = 0
  <2>1. <<>> \in Seq(Item)
    OBVIOUS
  <2>2. QED
    BY <1>1, <2>1, SetNoneFacts
<1> HIDE DEF c
<1>6. Halted(c) \in PlayerRow /\ Halted(c).status = "stopped"
      /\ Halted(c).pb = 0 /\ Halted(c).item = 0
  BY <1>5 DEF Halted, PlayerRow, Statuses
<1>7. s \in PlayerRow /\ s.status = "stopped" /\ s.pb = 0 /\ s.item = 0
  BY <1>6 DEF PlayerRow
<1> HIDE DEF s
<1>8. Settled(s, <<>>, StopDirective)
  BY <1>2, <1>7, NoDirectiveFacts DEF Settled, CurrentOK, PlaybackOK, Quiet
<1>9. QED
  BY <1>4, <1>8, SettledTransaction

\* Playing item k of a queue under listener l.
LEMMA StartAt ==
    ASSUME PlayerInv, NEW q \in Seq(Item), NEW k \in DOMAIN q,
           NEW l \in Listeners, NEW pos \in Nat
    PROVE  /\ Start(SetCurrent(row, q, k), q, pos) =>
                 Started(SetCurrent(row, q, k), q, pos)
           /\ Start([SetCurrent(row, q, k) EXCEPT !.listener = l], q, pos) =>
                 Started([SetCurrent(row, q, k) EXCEPT !.listener = l], q, pos)
<1> DEFINE c == SetCurrent(row, q, k)
<1>1. c \in PlayerRow /\ c.index = k /\ c.item = q[k].id
  BY RowFacts, SetCurrentFacts
<1> HIDE DEF c
<1>2. /\ [c EXCEPT !.listener = l] \in PlayerRow
      /\ [c EXCEPT !.listener = l].index = k
      /\ [c EXCEPT !.listener = l].item = q[k].id
  BY <1>1 DEF PlayerRow
<1>3. /\ Start(c, q, pos) => Started(c, q, pos)
      /\ Start([c EXCEPT !.listener = l], q, pos) =>
            Started([c EXCEPT !.listener = l], q, pos)
  BY <1>1, <1>2 DEF Started
<1>4. QED
  BY <1>3 DEF c

LEMMA ReplaceStep ==
    ASSUME PlayerInv, NEW tracks \in TrackLists, NEW k, NEW pos \in Nat,
           NEW l \in Listeners, ReplaceAndPlay(tracks, k, pos, l)
    PROVE  Transaction
<1> DEFINE q == NewItems(tracks)
<1>1. /\ nextItem \in Nat \ {0} /\ listens \in Seq(Nat)
  BY DEF PlayerInv, TypeOK
<1>2. /\ Len(tracks) \in Nat /\ q \in Seq(Item)
      /\ DOMAIN q = 1..Len(tracks)
      /\ \A n \in 1..Len(tracks) : q[n].id = nextItem + n - 1
  BY <1>1, NewItemsFacts
<1>3. /\ SaveUndo /\ UNCHANGED listens
      /\ nextItem' = nextItem + Len(tracks)
      /\ k \in DOMAIN tracks
      /\ Start([SetCurrent(row, q, k) EXCEPT !.listener = l], q, pos)
  BY DEF ReplaceAndPlay
<1> HIDE DEF q
<1>4. k \in DOMAIN q
  <2>1. PICK n \in 0..MaxBatch : tracks \in [1..n -> Tracks]
    BY DEF TrackLists
  <2>2. n \in Nat
    BY <2>1, PlayerAssumption
  <2>3. DOMAIN tracks = 1..Len(tracks)
    BY <2>1, <2>2
  <2>4. QED
    BY <1>2, <1>3, <2>3
<1>5. nextItem' \in Nat \ {0} /\ nextItem <= nextItem'
  BY <1>1, <1>2, <1>3
<1>6. QueueOK(q, nextItem')
  <2>1. \A n \in DOMAIN q : q[n].id < nextItem'
    BY <1>1, <1>2, <1>3
  <2>2. DistinctIds(q)
    BY <1>1, <1>2 DEF DistinctIds
  <2>3. QED
    BY <1>2, <2>1, <2>2 DEF QueueOK
<1>7. MadeFrom(q, queue, nextItem)
  BY <1>1, <1>2 DEF MadeFrom
<1>8. TablesOK(q)
  BY <1>1, <1>3, <1>5, <1>6, <1>7, EditTables
<1>9. QED
  BY <1>2, <1>3, <1>4, <1>8, StartAt, StartedTransaction

-----------------------------------------------------------------------------
(* Transport, settings and undo.                                           *)

LEMMA UneditedTables ==
    ASSUME PlayerInv, Unedited
    PROVE  TablesOK(queue)
<1>1. UNCHANGED <<undo, nextItem>> /\ listens' \in Seq(Nat)
  BY DEF Unedited, PlayerInv, TypeOK
<1>2. QED
  BY <1>1, KeepTables

LEMMA PlayAtStep ==
    ASSUME PlayerInv, NEW k, NEW pos \in Nat, NEW l \in Listeners,
           PlayAt(k, pos, l)
    PROVE  Transaction
<1>1. queue \in Seq(Item) /\ k \in DOMAIN queue /\ Unedited
      /\ Start([SetCurrent(row, queue, k) EXCEPT !.listener = l], queue, pos)
  BY DEF PlayAt, PlayerInv, TypeOK
<1>2. TablesOK(queue)
  BY <1>1, UneditedTables
<1>3. QED
  BY <1>1, <1>2, StartAt, StartedTransaction

\* A row at the current item, silent or not, settles over the same queue.
LEMMA SameQueueSettled ==
    ASSUME PlayerInv, TablesOK(queue), NEW s \in PlayerRow, NEW d \in Directive,
           s.index = row.index, s.item = row.item,
           PlaybackOK(s, issued), queue = <<>> => s.pb = 0,
           Quiet(s, d), Settle(s, queue, d)
    PROVE  Transaction
<1>1. CurrentOK(row, queue)
  BY RowFacts
<1>2. CurrentOK(s, queue)
  BY <1>1 DEF CurrentOK, PlaybackOK
<1>3. Settled(s, queue, d)
  BY <1>2 DEF Settled
<1>4. QED
  BY <1>3, SettledTransaction

\* An empty queue has no playback.
LEMMA EmptyIsSilent ==
    ASSUME PlayerInv
    PROVE  /\ row.pb = state.pb /\ row.status = state.status
           /\ queue = <<>> => row.pb = 0 /\ row.status # "playing"
           /\ row.status = "playing" => row.pb # 0
BY RowFacts DEF CurrentOK, PlaybackOK, SameBut

LEMMA PauseStep ==
    ASSUME PlayerInv, Pause
    PROVE  Transaction
<1> DEFINE s == [row EXCEPT !.status = "paused", !.error = FALSE]
<1>1. Settle(s, queue, PauseDirective) /\ Unedited
  BY DEF Pause
<1>2. row \in PlayerRow /\ PlaybackOK(row, issued)
  BY RowFacts
<1>3. s \in PlayerRow /\ s.index = row.index /\ s.item = row.item
      /\ s.pb = row.pb /\ s.status = "paused"
  BY <1>2 DEF PlayerRow, Statuses
<1> HIDE DEF s
<1>4. PlaybackOK(s, issued) /\ (queue = <<>> => s.pb = 0)
  BY <1>2, <1>3, EmptyIsSilent DEF PlaybackOK
<1>5. Quiet(s, PauseDirective)
  BY <1>3, EmptyIsSilent, NoDirectiveFacts DEF Quiet
<1>6. QED
  BY <1>1, <1>3, <1>4, <1>5, UneditedTables, NoDirectiveFacts, SameQueueSettled

LEMMA SkipNextStep ==
    ASSUME PlayerInv, NEW l \in Listeners, SkipNext(l)
    PROVE  Transaction
<1>1. queue \in Seq(Item) /\ Unedited /\ row \in PlayerRow
  BY RowFacts DEF SkipNext, PlayerInv, TypeOK
<1>2. TablesOK(queue)
  BY <1>1, UneditedTables
<1>3. ASSUME NEW k \in SelectNext(row, queue, FALSE),
             Start([SetCurrent(row, queue, k) EXCEPT !.listener = l], queue, 0)
      PROVE  Transaction
  <2>1. k \in DOMAIN queue
    BY <1>1, SelectNextFacts
  <2>2. QED
    BY <1>1, <1>2, <1>3, <2>1, StartAt, StartedTransaction
<1>4. ASSUME Settle(Halted(row), queue, StopDirective)
      PROVE  Transaction
  <2>1. PointsInto(row, queue)
    BY RowFacts DEF PointsInto, CurrentOK
  <2>2. Settled(Halted(row), queue, StopDirective)
    BY <1>1, <1>4, <2>1, HaltedFacts, NoDirectiveFacts DEF Settled, Quiet
  <2>3. QED
    BY <1>2, <2>2, SettledTransaction
<1>5. QED
  BY <1>3, <1>4 DEF SkipNext

LEMMA SeekStep ==
    ASSUME PlayerInv, NEW pos \in Nat, Seek(pos)
    PROVE  Transaction
<1>1. row.item # 0 /\ Start(row, queue, pos) /\ Unedited
  BY DEF Seek
<1>2. row \in PlayerRow /\ row.index \in DOMAIN queue
      /\ row.item = queue[row.index].id
  BY <1>1, RowFacts DEF CurrentOK
<1>3. Started(row, queue, pos)
  BY <1>1, <1>2 DEF Started
<1>4. QED
  BY <1>1, <1>3, UneditedTables, StartedTransaction

\* A transaction that leaves the playback of the row as it is.
LEMMA SettingStep ==
    ASSUME PlayerInv, NEW s \in PlayerRow, NEW d \in Directive,
           d.op \in {"none", "volume"}, Unedited,
           s.index = row.index, s.item = row.item, s.pb = row.pb,
           s.status = row.status, Settle(s, queue, d)
    PROVE  Transaction
<1>1. PlaybackOK(s, issued) /\ (queue = <<>> => s.pb = 0)
  BY RowFacts, EmptyIsSilent DEF PlaybackOK
<1>2. Quiet(s, d)
  BY EmptyIsSilent DEF Quiet
<1>3. QED
  BY <1>1, <1>2, UneditedTables, SameQueueSettled

LEMMA SettingsStep ==
    ASSUME PlayerInv, Setting
    PROVE  Transaction
<1>1. row \in PlayerRow
  BY RowFacts
<1>2. ASSUME NEW v \in Volumes, SetVolume(v) PROVE Transaction
  <2>1. v \in 0..100
    BY PlayerAssumption
  <2>2. VolumeDirective(v) \in Directive /\ VolumeDirective(v).op = "volume"
    BY <2>1 DEF VolumeDirective, Directive
  <2> DEFINE s == [row EXCEPT !.volume = v]
  <2>3. s \in PlayerRow /\ s.index = row.index /\ s.item = row.item
        /\ s.pb = row.pb /\ s.status = row.status
    BY <1>1, <2>1 DEF PlayerRow
  <2>4. Settle(s, queue, VolumeDirective(v)) /\ Unedited
    BY <1>2 DEF SetVolume
  <2> HIDE DEF s
  <2>5. QED
    BY <2>2, <2>3, <2>4, SettingStep
<1>3. ASSUME NEW mode \in Repeats, SetRepeat(mode) PROVE Transaction
  <2>1. mode \in RepeatModes
    BY PlayerAssumption DEF RepeatModes
  <2> DEFINE s == [row EXCEPT !.repeat = mode]
  <2>2. s \in PlayerRow /\ s.index = row.index /\ s.item = row.item
        /\ s.pb = row.pb /\ s.status = row.status
    BY <1>1, <2>1 DEF PlayerRow
  <2>3. Settle(s, queue, NoDirective) /\ Unedited
    BY <1>3 DEF SetRepeat
  <2> HIDE DEF s
  <2>4. QED
    BY <2>2, <2>3, NoDirectiveFacts, SettingStep
<1>4. ASSUME NEW on \in Shuffles, SetShuffle(on) PROVE Transaction
  <2>1. on \in BOOLEAN
    BY PlayerAssumption
  <2> DEFINE s == [row EXCEPT !.shuffle = on]
  <2>2. s \in PlayerRow /\ s.index = row.index /\ s.item = row.item
        /\ s.pb = row.pb /\ s.status = row.status
    BY <1>1, <2>1 DEF PlayerRow
  <2>3. Settle(s, queue, NoDirective) /\ Unedited
    BY <1>4 DEF SetShuffle
  <2> HIDE DEF s
  <2>4. QED
    BY <2>2, <2>3, NoDirectiveFacts, SettingStep
<1>5. QED
  BY <1>2, <1>3, <1>4 DEF Setting

\* What a snapshot restores.
LEMMA RestoredFacts ==
    ASSUME PlayerInv, NEW saved \in undo
    PROVE  /\ Restored(saved) \in PlayerRow
           /\ Restored(saved).status = saved.status
           /\ PointsInto(Restored(saved), saved.queue)
           /\ saved.status = "playing" => Restored(saved).item # 0
           /\ Restored(saved).item # 0 => saved.queue # <<>>
<1> DEFINE t == [row EXCEPT !.status = saved.status, !.index = 0,
                            !.item = saved.item, !.pos = saved.pos,
                            !.pb = saved.pb, !.error = saved.error,
                            !.listener = saved.listener]
<1>1. /\ saved \in UndoSnapshot /\ SnapshotOK(saved, nextItem)
      /\ saved.queue \in Seq(Item)
  BY DEF PlayerInv, SnapshotOK, QueueOK
<1>2. row \in PlayerRow
  BY RowFacts
<1>3. t \in PlayerRow /\ t.status = saved.status /\ t.item = saved.item
  BY <1>1, <1>2 DEF PlayerRow, UndoSnapshot
<1>4. Restored(saved) = Normalize(t, saved.queue)
  BY DEF Restored
<1> HIDE DEF t
<1>5. /\ Restored(saved) \in PlayerRow
      /\ Restored(saved).status = saved.status
      /\ saved.item \in Ids(saved.queue) =>
            /\ Restored(saved).item = saved.item
            /\ Restored(saved).index \in DOMAIN saved.queue
            /\ saved.queue[Restored(saved).index].id = saved.item
      /\ saved.queue = <<>> => Restored(saved).item = 0
  BY <1>1, <1>3, <1>4, NormalizeFacts DEF SameBut
<1>6. CASE saved.queue = <<>>
  BY <1>1, <1>5, <1>6 DEF PointsInto, SnapshotOK
<1>7. CASE saved.queue # <<>>
  <2>1. saved.item \in Ids(saved.queue)
    BY <1>1, <1>7 DEF SnapshotOK
  <2>2. saved.item # 0
    BY <1>1, <2>1, ItemsOfQueue DEF Ids
  <2>3. QED
    BY <1>5, <1>7, <2>1, <2>2 DEF PointsInto
<1>8. QED
  BY <1>6, <1>7

LEMMA UndoStep ==
    ASSUME PlayerInv, Undo
    PROVE  Transaction
<1>1. PICK saved \in undo :
        LET s == Restored(saved)
            plays == s.status = "playing" /\ s.item # 0
        IN  /\ undo' = {}
            /\ \/ plays /\ Start(s, saved.queue, s.pos)
               \/ ~plays /\ Settle([s EXCEPT !.pb = 0], saved.queue,
                                   UndoDirective(s.status))
            /\ UNCHANGED <<nextItem, listens>>
  BY DEF Undo
<1> DEFINE s == Restored(saved)
<1> DEFINE q == saved.queue
<1>2. /\ s \in PlayerRow /\ s.status = saved.status /\ PointsInto(s, q)
      /\ saved.status = "playing" => s.item # 0
      /\ s.item # 0 => q # <<>>
  BY RestoredFacts
<1>3. TablesOK(q)
  <2>1. nextItem \in Nat \ {0} /\ QueueOK(q, nextItem) /\ listens \in Seq(Nat)
    BY DEF PlayerInv, TypeOK, SnapshotOK
  <2>2. undo' = {} /\ nextItem' = nextItem /\ listens' = listens
    BY <1>1
  <2>3. QED
    BY <2>1, <2>2 DEF TablesOK
<1>4. \/ /\ s.status = "playing" /\ s.item # 0
         /\ Start(s, q, s.pos)
      \/ /\ ~(s.status = "playing" /\ s.item # 0)
         /\ Settle([s EXCEPT !.pb = 0], q, UndoDirective(s.status))
  BY <1>1
<1> HIDE DEF s, q
<1>5. CASE /\ s.status = "playing" /\ s.item # 0
           /\ Start(s, q, s.pos)
  <2>1. s.pos \in Nat /\ s.index \in DOMAIN q /\ s.item = q[s.index].id
    BY <1>2, <1>5 DEF PointsInto, PlayerRow
  <2>2. Started(s, q, s.pos)
    BY <1>2, <1>5, <2>1 DEF Started
  <2>3. QED
    BY <1>3, <2>2, StartedTransaction
<1>6. CASE /\ ~(s.status = "playing" /\ s.item # 0)
           /\ Settle([s EXCEPT !.pb = 0], q, UndoDirective(s.status))
  <2> DEFINE r == [s EXCEPT !.pb = 0]
  <2>1. s.status \in {"stopped", "paused"}
    BY <1>2, <1>6 DEF PlayerRow, Statuses
  <2>2. r \in PlayerRow /\ r.pb = 0 /\ r.status = s.status
        /\ r.index = s.index /\ r.item = s.item
    BY <1>2 DEF PlayerRow
  <2> HIDE DEF r
  <2>3. /\ UndoDirective(s.status) \in Directive
        /\ UndoDirective(s.status).op =
              IF s.status = "paused" THEN "pause" ELSE "stop"
    BY <2>1, NoDirectiveFacts DEF UndoDirective
  <2>4. CurrentOK(r, q) /\ PlaybackOK(r, issued)
    BY <1>2, <2>1, <2>2 DEF CurrentOK, PlaybackOK, PointsInto
  <2>5. Quiet(r, UndoDirective(s.status))
    BY <2>1, <2>2, <2>3 DEF Quiet
  <2>6. Settled(r, q, UndoDirective(s.status))
    BY <1>6, <2>2, <2>3, <2>4, <2>5 DEF Settled, r
  <2>7. QED
    BY <1>3, <2>6, SettledTransaction
<1>7. QED
  BY <1>4, <1>5, <1>6

-----------------------------------------------------------------------------
(* Reports.                                                                *)

LEMMA MatchesFacts ==
    ASSUME PlayerInv, NEW pb, NEW item, Matches(pb, item)
    PROVE  state.pb # 0 /\ row.pb # 0 /\ queue # <<>>
BY EmptyIsSilent DEF Matches

LEMMA CompletedStep ==
    ASSUME PlayerInv, OnlyReport, NEW pb \in DOMAIN issued, NEW item, Completed(pb, item)
    PROVE  Transaction
<1>1. /\ queue \in Seq(Item) /\ row \in PlayerRow /\ listens \in Seq(Nat)
      /\ pb \in Nat
  <2>1. queue \in Seq(Item) /\ listens \in Seq(Nat) /\ issued \in Seq(Nat)
    BY DEF PlayerInv, TypeOK
  <2>2. pb \in Nat
    BY <2>1
  <2>3. QED
    BY <2>1, <2>2, RowFacts
<1>2. Matches(pb, item) /\ RecordListen(pb) /\ UNCHANGED <<undo, nextItem>>
  BY DEF Completed
<1>3. listens' \in Seq(Nat)
  <2>1. Append(listens, pb) \in Seq(Nat)
    BY <1>1
  <2>2. QED
    BY <1>1, <1>2, <2>1, Zenon DEF RecordListen
<1>4. TablesOK(queue)
  BY <1>2, <1>3, KeepTables
<1>5. ASSUME NEW k \in SelectNext(row, queue, TRUE),
             Start(SetCurrent(row, queue, k), queue, 0)
      PROVE  Transaction
  <2>1. k \in DOMAIN queue
    BY <1>1, SelectNextFacts
  <2>2. NoListener \in Listeners
    BY DEF Listeners
  <2>3. QED
    BY <1>1, <1>4, <1>5, <2>1, <2>2, StartAt, StartedTransaction
<1>6. ASSUME Settle(Halted(row), queue, NoDirective)
      PROVE  Transaction
  <2>1. PointsInto(row, queue)
    BY RowFacts DEF PointsInto, CurrentOK
  <2>2. state.pb # 0
    BY <1>2, MatchesFacts
  <2>3. Settled(Halted(row), queue, NoDirective)
    BY <1>1, <1>6, <2>1, <2>2, HaltedFacts, NoDirectiveFacts DEF Settled, Quiet
  <2>4. QED
    BY <1>4, <2>3, SettledTransaction
<1>7. QED
  BY <1>5, <1>6 DEF Completed

LEMMA FailedStep ==
    ASSUME PlayerInv, OnlyReport, NEW pb, NEW item, Failed(pb, item)
    PROVE  Transaction
<1> DEFINE s == [row EXCEPT !.status = "stopped", !.pb = 0, !.error = TRUE]
<1>1. Settle(s, queue, NoDirective) /\ Unedited
  BY DEF Failed
<1>2. state.pb # 0
  BY MatchesFacts DEF Failed
<1>3. s \in PlayerRow /\ s.index = row.index /\ s.item = row.item
      /\ s.pb = 0 /\ s.status = "stopped"
  BY RowFacts DEF PlayerRow, Statuses
<1> HIDE DEF s
<1>4. PlaybackOK(s, issued) /\ Quiet(s, NoDirective)
  BY <1>2, <1>3, NoDirectiveFacts DEF PlaybackOK, Quiet
<1>5. QED
  BY <1>1, <1>3, <1>4, UneditedTables, NoDirectiveFacts, SameQueueSettled

\* A report of a status keeps the playback id, or gives it up when stopped.
LEMMA ObservedStep ==
    ASSUME PlayerInv, OnlyReport, NEW pb, NEW item, Matches(pb, item), Unedited,
           NEW s \in PlayerRow, s.index = row.index, s.item = row.item,
           s.pb = row.pb \/ (s.status = "stopped" /\ s.pb = 0),
           Settle(s, queue, NoDirective)
    PROVE  Transaction
<1>1. state.pb # 0 /\ row.pb = state.pb /\ queue # <<>>
  BY MatchesFacts, EmptyIsSilent
<1>2. PlaybackOK(s, issued)
  BY <1>1, RowFacts DEF PlaybackOK
<1>3. Quiet(s, NoDirective)
  BY <1>1, NoDirectiveFacts DEF Quiet
<1>4. QED
  BY <1>1, <1>2, <1>3, UneditedTables, NoDirectiveFacts, SameQueueSettled

LEMMA ReportStep ==
    ASSUME PlayerInv, OnlyReport
    PROVE  Transaction
<1>1. row \in PlayerRow
  BY RowFacts
<1>2. PICK pb \in DOMAIN issued, item \in 1..(nextItem - 1) :
        \/ Completed(pb, item)
        \/ Failed(pb, item)
        \/ \E status \in Statuses, pos \in Positions :
              \/ Observed(pb, item, status, pos)
              \/ NodeState(pb, item, status, pos)
  BY DEF OnlyReport, Report
<1>3. CASE Completed(pb, item)
  BY <1>3, CompletedStep
<1>4. CASE Failed(pb, item)
  BY <1>4, FailedStep
<1>5. ASSUME NEW status \in Statuses, NEW pos \in Positions,
             Observed(pb, item, status, pos)
      PROVE  Transaction
  <2> DEFINE s == [row EXCEPT !.status = status, !.pos = pos, !.error = FALSE]
  <2>1. pos \in Nat
    BY PlayerAssumption
  <2>2. s \in PlayerRow /\ s.index = row.index /\ s.item = row.item
        /\ s.pb = row.pb
    BY <1>1, <2>1 DEF PlayerRow
  <2>3. /\ Matches(pb, item) /\ Unedited /\ Settle(s, queue, NoDirective)
    BY <1>5 DEF Observed
  <2> HIDE DEF s
  <2>4. QED
    BY <2>2, <2>3, ObservedStep
<1>6. ASSUME NEW status \in Statuses, NEW pos \in Positions,
             NodeState(pb, item, status, pos)
      PROVE  Transaction
  <2> DEFINE s == [row EXCEPT !.status = status, !.pos = pos,
                       !.pb = IF status = "stopped" THEN 0 ELSE @,
                       !.error = IF status = "playing" THEN FALSE ELSE @]
  <2>1. pos \in Nat
    BY PlayerAssumption
  <2>2. (IF status = "stopped" THEN 0 ELSE row.pb) \in Nat
    BY <1>1 DEF PlayerRow
  <2>3. (IF status = "playing" THEN FALSE ELSE row.error) \in BOOLEAN
    BY <1>1 DEF PlayerRow
  <2>4. s \in PlayerRow /\ s.index = row.index /\ s.item = row.item
        /\ s.status = status
        /\ s.pb = IF status = "stopped" THEN 0 ELSE row.pb
    BY <1>1, <2>1, <2>2, <2>3 DEF PlayerRow
  <2>5. /\ Matches(pb, item) /\ Unedited /\ Settle(s, queue, NoDirective)
    BY <1>6 DEF NodeState
  <2> HIDE DEF s
  <2>6. QED
    BY <2>4, <2>5, ObservedStep
<1>7. QED
  BY <1>2, <1>3, <1>4, <1>5, <1>6

-----------------------------------------------------------------------------
(* Every step is a transaction, and what follows from it.                  *)

LEMMA NextIsTransaction ==
    ASSUME PlayerInv, Next
    PROVE  Transaction
<1>1. CASE QueueEdit
  <2>1. ASSUME NEW tracks \in TrackLists, NEW at \in 0..Len(queue),
               Enqueue(tracks, at)
        PROVE  Transaction
    BY <2>1, EnqueueStep
  <2>2. ASSUME NEW tracks \in TrackLists, EnqueueNext(tracks) PROVE Transaction
    BY <2>2, EnqueueNextStep
  <2>3. ASSUME NEW k \in DOMAIN queue, Remove(k) PROVE Transaction
    BY <2>3, RemoveStep
  <2>4. ASSUME NEW from \in DOMAIN queue, NEW to \in DOMAIN queue,
               Reorder(from, to)
        PROVE  Transaction
    BY <2>4, RearrangeStep DEF Reorder
  <2>5. ASSUME NEW from \in DOMAIN queue, NEW before \in 1..(Len(queue) + 1),
               MoveItem(from, before)
        PROVE  Transaction
    BY <2>5, MoveItemStep
  <2>6. ASSUME Clear PROVE Transaction
    BY <2>6, ClearStep
  <2>7. QED
    BY <1>1, <2>1, <2>2, <2>3, <2>4, <2>5, <2>6 DEF QueueEdit
<1>2. CASE Replace
  <2>1. \A pos \in Positions : pos \in Nat
    BY PlayerAssumption
  <2>2. QED
    BY <1>2, <2>1, ReplaceStep DEF Replace
<1>3. CASE Transport
  <2>1. row \in PlayerRow /\ row.pos \in Nat
    BY RowFacts DEF PlayerRow
  <2>2. ASSUME NEW l \in Listeners, Play(l) PROVE Transaction
    <3>1. (IF row.status = "paused" THEN row.pos ELSE 0) \in Nat
      BY <2>1
    <3>2. QED
      BY <2>2, <3>1, PlayAtStep DEF Play
  <2>3. ASSUME NEW l \in Listeners, Previous(l) PROVE Transaction
    BY <2>3, PlayAtStep DEF Previous
  <2>4. ASSUME NEW k \in DOMAIN queue, NEW l \in Listeners, PlayRequested(k, l)
        PROVE  Transaction
    BY <2>4, PlayAtStep DEF PlayRequested
  <2>5. ASSUME NEW pos \in Positions, Seek(pos) PROVE Transaction
    <3>1. pos \in Nat
      BY PlayerAssumption
    <3>2. QED
      BY <2>5, <3>1, SeekStep
  <2>6. QED
    BY <1>3, <2>2, <2>3, <2>4, <2>5, SkipNextStep, PauseStep DEF Transport
<1>4. QED
  BY <1>1, <1>2, <1>3, SettingsStep, UndoStep, ReportStep
     DEF Next, Commanded, OnlyReport

LEMMA InvInit ==
    ASSUME Init
    PROVE  PlayerInv
<1>1. /\ queue = <<>> /\ issued = <<>> /\ listens = <<>> /\ undo = {}
      /\ nextItem = 1 /\ directive = NoDirective
  BY DEF Init
<1>2. /\ state \in PlayerRow
      /\ state.item = 0 /\ state.pb = 0 /\ state.status = "stopped"
  BY DEF Init, PlayerRow, Statuses, RepeatModes, Listeners
<1>3. TypeOK
  BY <1>1, <1>2, NoDirectiveFacts DEF TypeOK
<1>4. CurrentOK(state, queue) /\ PlaybackOK(state, issued)
  BY <1>1, <1>2 DEF CurrentOK, PlaybackOK
<1>5. QueueOK(queue, nextItem)
  BY <1>1 DEF QueueOK, DistinctIds
<1>6. QED
  BY <1>1, <1>3, <1>4, <1>5 DEF PlayerInv

LEMMA InvStep ==
    ASSUME PlayerInv, [Next]_playerVars
    PROVE  PlayerInv'
<1>1. CASE Next
  BY <1>1, NextIsTransaction, TransactionInv
<1>2. CASE UNCHANGED playerVars
  BY <1>2 DEF playerVars, PlayerInv, TypeOK, CurrentOK, PlaybackOK, QueueOK,
              SnapshotOK, Agree, DistinctIds
<1>3. QED
  BY <1>1, <1>2

\* The strengthened invariant holds initially and is kept by every step.
THEOREM Invariance == Spec => []PlayerInv
<1>1. Init => PlayerInv
  BY InvInit
<1>2. PlayerInv /\ [Next]_playerVars => PlayerInv'
  BY InvStep
<1>3. QED
  BY <1>1, <1>2, PTL DEF Spec

\* Every variable keeps the shape of its table or message.
THEOREM TypeCorrect == Spec => []TypeOK
<1>1. PlayerInv => TypeOK
  BY DEF PlayerInv
<1>2. QED
  BY <1>1, Invariance, PTL

\* A queue that holds anything has a current item at the stored index, through
\* every edit, undo, skip and report.
THEOREM CurrentItemHolds == Spec => []CurrentItem
<1>1. PlayerInv => CurrentItem
  BY DEF PlayerInv, CurrentOK, CurrentItem
<1>2. QED
  BY <1>1, Invariance, PTL

\* A playback id in the row was issued for the item that is current now.
THEOREM PlaybackHolds == Spec => []PlaybackOfCurrentItem
<1>1. PlayerInv => PlaybackOfCurrentItem
  BY DEF PlayerInv, PlaybackOK, PlaybackOfCurrentItem
<1>2. QED
  BY <1>1, Invariance, PTL

\* Item ids are unique, and a snapshot agrees with the queue on them.
THEOREM ItemIdentityHolds == Spec => []ItemIdentity
<1>1. PlayerInv => ItemIdentity
  BY DEF PlayerInv, QueueOK, SnapshotOK, Agree, ItemIdentity
<1>2. QED
  BY <1>1, Invariance, PTL

-----------------------------------------------------------------------------
(* What a step does to the playback and to the output.                     *)

LEMMA StepFacts ==
    ASSUME PlayerInv, Next
    PROVE  /\ state'.rev = state.rev + 1
           /\ \/ /\ state'.status = "playing"
                 /\ state'.pb = Len(issued) + 1
                 /\ Len(issued) < MaxPlaybacks
                 /\ Len(issued') = Len(issued) + 1
                 /\ directive'.op = "load" /\ directive'.pb = state'.pb
                 /\ directive'.item = state'.item /\ directive'.pos = state'.pos
                 /\ directive'.track = queue'[state'.index].track
              \/ /\ issued' = issued
                 /\ Quiet(state', directive')
<1>1. Transaction
  BY NextIsTransaction
<1>2. ASSUME NEW s, NEW q, NEW d, Settled(s, q, d)
      PROVE  /\ state'.rev = state.rev + 1
             /\ issued' = issued /\ Quiet(state', directive')
  <2>1. /\ s \in PlayerRow /\ state.rev + 1 \in Nat
        /\ state' = [s EXCEPT !.rev = state.rev + 1]
        /\ issued' = issued /\ directive' = d /\ Quiet(s, d)
    BY <1>2 DEF Settled, Settle, Save, PlayerInv, TypeOK, PlayerRow
  <2>2. /\ state'.rev = state.rev + 1
        /\ state'.status = s.status /\ state'.pb = s.pb
    BY <2>1, RevisionFacts, Zenon
  <2>3. Quiet(state', directive')
    BY <2>1, <2>2 DEF Quiet
  <2>4. QED
    BY <2>1, <2>2, <2>3
<1>3. ASSUME NEW s, NEW q, NEW pos, Started(s, q, pos)
      PROVE  /\ state'.rev = state.rev + 1
             /\ state'.status = "playing" /\ state'.pb = Len(issued) + 1
             /\ Len(issued) < MaxPlaybacks
             /\ Len(issued') = Len(issued) + 1
             /\ directive'.op = "load" /\ directive'.pb = state'.pb
             /\ directive'.item = state'.item /\ directive'.pos = state'.pos
             /\ directive'.track = queue'[state'.index].track
  <2>1. queue' = q /\ QueueOK(q, nextItem')
    BY <1>1, <1>3 DEF Transaction, TablesOK, Started, Start
  <2>2. /\ issued' = Append(issued, s.item)
        /\ state'.index = s.index
        /\ state'.rev = state.rev + 1
        /\ state'.status = "playing" /\ state'.pb = Len(issued) + 1
        /\ directive'.op = "load" /\ directive'.pb = state'.pb
        /\ directive'.item = state'.item /\ directive'.pos = state'.pos
        /\ directive'.track = q[s.index].track
    BY <1>3, <2>1, StartFacts
  <2>3. issued \in Seq(Nat) /\ s.item \in Nat
    BY <1>3 DEF PlayerInv, TypeOK, Started, PlayerRow
  <2>4. Len(issued') = Len(issued) + 1
    BY <2>2, <2>3
  <2>5. Len(issued) < MaxPlaybacks
    BY <1>3 DEF Started, Start
  <2>6. QED
    BY <2>1, <2>2, <2>4, <2>5
<1>4. QED
  BY <1>1, <1>2, <1>3 DEF Transaction

\* A playback id that has left the row never returns to it, not even by undo.
THEOREM PlaybackIdsFreshHolds == Spec => PlaybackIdsFresh
<1>1. PlayerInv /\ [Next]_playerVars
        => [state'.pb \in {0, state.pb, Len(issued) + 1}]_playerVars
  <2> SUFFICES ASSUME PlayerInv, Next
               PROVE  state'.pb \in {0, state.pb, Len(issued) + 1}
    OBVIOUS
  <2>1. QED
    BY StepFacts DEF Quiet
<1>2. QED
  BY <1>1, Invariance, PTL DEF Spec, PlaybackIdsFresh

\* Every playback the row starts is sent to the output as it is stored.
THEOREM StartsAreLoadedHolds == Spec => StartsAreLoaded
<1> DEFINE Loaded ==
        state'.pb \notin {0, state.pb} =>
          /\ directive'.op = "load"
          /\ directive'.pb = state'.pb /\ directive'.item = state'.item
          /\ directive'.pos = state'.pos
          /\ directive'.track = queue'[state'.index].track
<1>1. PlayerInv /\ [Next]_playerVars => [Loaded]_playerVars
  <2> SUFFICES ASSUME PlayerInv, Next PROVE Loaded
    OBVIOUS
  <2>1. QED
    BY StepFacts DEF Quiet
<1> HIDE DEF Loaded
<1>2. Spec => [][Loaded]_playerVars
  BY <1>1, Invariance, PTL DEF Spec
<1>3. QED
  BY <1>2 DEF StartsAreLoaded, Loaded

\* Only the output's own report ends playing without the output being told.
THEOREM StopsAreSentHolds == Spec => StopsAreSent
<1> DEFINE Sent ==
        (/\ state.status = "playing" /\ state'.status # "playing"
         /\ directive'.op \notin {"pause", "stop"})
        => Report
<1>1. PlayerInv /\ [Next]_playerVars => [Sent]_playerVars
  <2> SUFFICES ASSUME PlayerInv, Next PROVE Sent
    OBVIOUS
  <2>1. QED
    BY StepFacts DEF Quiet, OnlyReport
<1> HIDE DEF Sent
<1>2. Spec => [][Sent]_playerVars
  BY <1>1, Invariance, PTL DEF Spec
<1>3. QED
  BY <1>2 DEF StopsAreSent, Sent

\* The player implements its contract: initial states map to initial states,
\* and every transaction to one step of the contract.
THEOREM Refinement == Spec => KeepsContract
<1>1. Init => Contract!Init
  BY DEF Init, Contract!Init, NoDirective
<1>2. PlayerInv /\ [Next]_playerVars => [Contract!Next]_(Contract!contractVars)
  <2>1. ASSUME PlayerInv, Next PROVE Contract!Next
    <3>1. CASE /\ state'.status = "playing"
               /\ state'.pb = Len(issued) + 1
               /\ Len(issued') = Len(issued) + 1
               /\ directive'.op = "load"
      BY <2>1, <3>1, StepFacts
         DEF Contract!Next, Contract!StartPlayback, Contract!Commit
    <3>2. CASE issued' = issued /\ Quiet(state', directive')
      <4>1. state'.rev = state.rev + 1
        BY <2>1, StepFacts
      <4>2. state'.status \in Statuses
        <5>1. PlayerInv'
          BY <2>1, NextIsTransaction, TransactionInv
        <5>2. QED
          BY <5>1 DEF PlayerInv, TypeOK, PlayerRow
      <4>3. CASE /\ directive'.op = "pause" /\ state'.status = "paused"
                 /\ state'.pb \in {state.pb, 0}
        BY <3>2, <4>1, <4>3
           DEF Contract!Next, Contract!PausePlayback, Contract!Commit
      <4>4. CASE /\ directive'.op = "stop" /\ state'.status = "stopped"
                 /\ state'.pb = 0
        BY <3>2, <4>1, <4>4
           DEF Contract!Next, Contract!StopPlayback, Contract!Commit
      <4>5. CASE /\ directive'.op \in {"none", "volume"}
                 /\ state'.status = state.status
                 /\ state'.pb = state.pb
                    \/ (state.status # "playing" /\ state'.pb = 0)
        BY <3>2, <4>1, <4>5
           DEF Contract!Next, Contract!Adjust, Contract!Commit
      <4>6. CASE /\ directive'.op = "none" /\ state.pb # 0
                 /\ state'.pb = state.pb
                    \/ (state'.status = "stopped" /\ state'.pb = 0)
        BY <3>2, <4>1, <4>2, <4>6
           DEF Contract!Next, Contract!Observe, Contract!EndPlayback,
               Contract!Commit, Statuses
      <4>7. QED
        BY <3>2, <4>3, <4>4, <4>5, <4>6 DEF Quiet
    <3>3. QED
      BY <2>1, <3>1, <3>2, StepFacts
  <2>2. CASE UNCHANGED playerVars
    BY <2>2 DEF playerVars, Contract!contractVars
  <2>3. QED
    BY <2>1, <2>2
<1>3. QED
  BY <1>1, <1>2, Invariance, PTL DEF Spec, KeepsContract, Contract!Spec

\* An item enters the queue with an id never used before or out of the undo
\* snapshot.
THEOREM ItemIdsFreshHolds == Spec => ItemIdsFresh
<1> DEFINE Fresh ==
        \A item \in Ids(queue') :
          \/ item \in Ids(queue) \/ item >= nextItem
          \/ \E saved \in undo : item \in Ids(saved.queue)
<1>1. PlayerInv /\ [Next]_playerVars => [Fresh]_playerVars
  <2> SUFFICES ASSUME PlayerInv, Next, NEW item \in Ids(queue')
               PROVE  \/ item \in Ids(queue) \/ item >= nextItem
                      \/ \E saved \in undo : item \in Ids(saved.queue)
    OBVIOUS
  <2>1. \/ MadeFrom(queue', queue, nextItem)
        \/ \E saved \in undo : queue' = saved.queue
    BY NextIsTransaction DEF Transaction, TablesOK
  <2>2. CASE MadeFrom(queue', queue, nextItem)
    BY <2>2 DEF MadeFrom, Ids
  <2>3. QED
    BY <2>1, <2>2
<1> HIDE DEF Fresh
<1>2. Spec => [][Fresh]_playerVars
  BY <1>1, Invariance, PTL DEF Spec
<1>3. QED
  BY <1>2 DEF ItemIdsFresh, Fresh

-----------------------------------------------------------------------------
(* Edits around the current item.                                          *)

LEMMA QueueChangesByEdit ==
    ASSUME Next, queue' # queue, undo' # {}
    PROVE  QueueEdit \/ Replace
<1>1. Transport => queue' = queue
  BY DEF Transport, Play, PlayAt, PlayRequested, Pause, SkipNext, Previous, Seek,
         Start, Settle
<1>2. Setting => queue' = queue
  BY DEF Setting, SetVolume, SetRepeat, SetShuffle, Settle
<1>3. Undo => undo' = {}
  BY DEF Undo
<1>4. Report => queue' = queue
  <2>1. ASSUME NEW pb, NEW item, Completed(pb, item) PROVE queue' = queue
    BY <2>1 DEF Completed, Start, Settle
  <2>2. ASSUME NEW pb, NEW item, Failed(pb, item) PROVE queue' = queue
    BY <2>2 DEF Failed, Settle
  <2>3. ASSUME NEW pb, NEW item, NEW status, NEW pos,
               Observed(pb, item, status, pos) \/ NodeState(pb, item, status, pos)
        PROVE  queue' = queue
    BY <2>3 DEF Observed, NodeState, Settle
  <2>4. QED
    BY <2>1, <2>2, <2>3 DEF Report
<1>5. QED
  BY <1>1, <1>2, <1>3, <1>4 DEF Next

\* The current item is still queued after the step.
CurrentSurvives == state.item \in Ids(queue')

PlaybackUntouched ==
    /\ state'.item = state.item /\ state'.pb = state.pb
    /\ state'.status = state.status /\ state'.pos = state.pos

\* An item that survives was there before: the player is at it.
LEMMA SurvivorIsCurrent ==
    ASSUME PlayerInv, Next, CurrentSurvives
    PROVE  queue # <<>> /\ row.item = state.item /\ row.item # 0
<1>1. queue' \in Seq(Item)
  BY NextIsTransaction, TransactionInv DEF PlayerInv, TypeOK
<1>2. state.item # 0
  BY <1>1, ItemsOfQueue DEF CurrentSurvives, Ids
<1>3. QED
  BY <1>2, RowFacts

\* A row that follows its item carries its playback along.
LEMMA FollowUntouched ==
    ASSUME PlayerInv, NEW q \in Seq(Item), row.item \in Ids(q), NEW d,
           Settle(Normalize(row, q), q, d)
    PROVE  PlaybackUntouched
<1> DEFINE s == Normalize(row, q)
<1>1. /\ row \in PlayerRow /\ SameBut(state, row) /\ row.item = state.item
      /\ state.rev + 1 \in Nat
  BY RowFacts DEF PlayerInv, TypeOK, PlayerRow
<1>2. s \in PlayerRow /\ SameBut(row, s) /\ s.item = row.item
  BY <1>1, NormalizeFacts
<1>3. state' = [s EXCEPT !.rev = state.rev + 1]
  BY DEF Settle, Save
<1> HIDE DEF s
<1>4. /\ state'.item = s.item /\ state'.pb = s.pb
      /\ state'.status = s.status /\ state'.pos = s.pos
  BY <1>1, <1>2, <1>3, RevisionFacts, Zenon
<1>5. QED
  BY <1>1, <1>2, <1>4 DEF PlaybackUntouched, SameBut

LEMMA RemoveUntouched ==
    ASSUME PlayerInv, Next, NEW k \in DOMAIN queue, Remove(k), CurrentSurvives
    PROVE  PlaybackUntouched
<1> DEFINE q == RemoveAt(queue, k)
<1>1. nextItem \in Nat \ {0} /\ QueueOK(queue, nextItem)
  BY DEF PlayerInv, TypeOK
<1>2. QueueOK(q, nextItem) /\ \A j \in DOMAIN q : q[j].id # queue[k].id
  BY <1>1, RemoveKeeps
<1>3. queue' = q
  BY DEF Remove, RemoveQueueItem, Settle, Start
<1>4. row.item = state.item /\ row.item \in Ids(q)
  BY <1>3, SurvivorIsCurrent DEF CurrentSurvives
<1>5. row.item # queue[k].id /\ q # <<>> /\ q \in Seq(Item)
  BY <1>2, <1>4 DEF Ids, QueueOK
<1>6. Settle(Normalize(row, q), q, NoDirective)
  BY <1>5 DEF Remove, RemoveQueueItem
<1>7. QED
  BY <1>4, <1>5, <1>6, FollowUntouched

LEMMA RearrangeUntouched ==
    ASSUME PlayerInv, Next, NEW q, Rearrange(q), CurrentSurvives
    PROVE  PlaybackUntouched
<1>1. queue' = q /\ Settle(Normalize(row, q), q, NoDirective)
  BY DEF Rearrange, Settle
<1>2. q \in Seq(Item)
  BY <1>1, NextIsTransaction, TransactionInv DEF PlayerInv, TypeOK
<1>3. row.item \in Ids(q)
  BY <1>1, SurvivorIsCurrent DEF CurrentSurvives
<1>4. QED
  BY <1>1, <1>2, <1>3, FollowUntouched

LEMMA InsertUntouched ==
    ASSUME PlayerInv, Next, CurrentSurvives, NEW q,
           Settle(Normalize(row, q), q, NoDirective)
    PROVE  PlaybackUntouched
<1>1. queue' = q
  BY DEF Settle
<1>2. q \in Seq(Item)
  BY <1>1, NextIsTransaction, TransactionInv DEF PlayerInv, TypeOK
<1>3. row.item \in Ids(q)
  BY <1>1, SurvivorIsCurrent DEF CurrentSurvives
<1>4. QED
  BY <1>1, <1>2, <1>3, FollowUntouched

\* A replaced queue holds new items only.
LEMMA ReplaceDropsCurrent ==
    ASSUME PlayerInv, NEW tracks \in TrackLists, NEW k, NEW pos, NEW l,
           ReplaceAndPlay(tracks, k, pos, l)
    PROVE  ~CurrentSurvives
<1> DEFINE q == NewItems(tracks)
<1>1. nextItem \in Nat \ {0} /\ QueueOK(queue, nextItem)
  BY DEF PlayerInv, TypeOK
<1>2. /\ Len(tracks) \in Nat /\ DOMAIN q = 1..Len(tracks)
      /\ \A n \in 1..Len(tracks) : q[n].id = nextItem + n - 1
  BY <1>1, NewItemsFacts
<1>3. queue' = q
  BY DEF ReplaceAndPlay, Start
<1> HIDE DEF q
<1>4. state.item < nextItem
  <2>1. CASE queue = <<>>
    BY <1>1, <2>1 DEF PlayerInv, CurrentOK
  <2>2. CASE queue # <<>>
    BY <1>1, <2>2 DEF PlayerInv, CurrentOK, QueueOK
  <2>3. QED
    BY <2>1, <2>2
<1>5. state.item \in Nat
  BY DEF PlayerInv, TypeOK, PlayerRow
<1>6. ASSUME NEW n \in DOMAIN q PROVE q[n].id # state.item
  BY <1>1, <1>2, <1>4, <1>5
<1>7. QED
  BY <1>3, <1>6 DEF CurrentSurvives, Ids

LEMMA EditUntouched ==
    ASSUME PlayerInv, Next, QueueEdit, CurrentSurvives
    PROVE  PlaybackUntouched
<1>1. queue # <<>> /\ row.item # 0
  BY SurvivorIsCurrent
<1>2. ASSUME NEW tracks, NEW at, Enqueue(tracks, at)
      PROVE  PlaybackUntouched
  <2> DEFINE q == Splice(queue, at, NewItems(tracks))
  <2>1. Settle(Normalize(row, q), q, NoDirective)
    BY <1>1, <1>2 DEF Enqueue
  <2> HIDE DEF q
  <2>2. QED
    BY <2>1, InsertUntouched
<1>3. ASSUME NEW tracks, EnqueueNext(tracks)
      PROVE  PlaybackUntouched
  <2> DEFINE q == Splice(queue, PositionOf(queue, row.item), NewItems(tracks))
  <2>1. Settle(Normalize(row, q), q, NoDirective)
    BY <1>1, <1>3 DEF EnqueueNext
  <2> HIDE DEF q
  <2>2. QED
    BY <2>1, InsertUntouched
<1>4. ASSUME NEW k \in DOMAIN queue, Remove(k) PROVE PlaybackUntouched
  BY <1>4, RemoveUntouched
<1>5. ASSUME NEW from, NEW to, Reorder(from, to) PROVE PlaybackUntouched
  BY <1>5, RearrangeUntouched DEF Reorder
<1>6. ASSUME NEW from, NEW before, MoveItem(from, before)
      PROVE  PlaybackUntouched
  BY <1>6, RearrangeUntouched DEF MoveItem
<1>7. ~Clear
  BY DEF Clear, Settle, CurrentSurvives, Ids
<1>8. QED
  BY <1>2, <1>3, <1>4, <1>5, <1>6, <1>7 DEF QueueEdit

\* An edit of the queue that keeps the current item does not touch the
\* playback: the same item, playback id, status and position go on.
THEOREM EditsDoNotInterruptHolds == Spec => EditsDoNotInterrupt
<1> DEFINE Undisturbed ==
        queue' # queue /\ undo' # {} /\ state.item \in Ids(queue') =>
          /\ state'.item = state.item /\ state'.pb = state.pb
          /\ state'.status = state.status /\ state'.pos = state.pos
<1>1. PlayerInv /\ [Next]_playerVars => [Undisturbed]_playerVars
  <2> SUFFICES ASSUME PlayerInv, Next, queue' # queue, undo' # {}, CurrentSurvives
               PROVE  PlaybackUntouched
    BY DEF CurrentSurvives, PlaybackUntouched
  <2>1. CASE QueueEdit
    BY <2>1, EditUntouched
  <2>2. CASE Replace
    BY <2>2, ReplaceDropsCurrent DEF Replace
  <2>3. QED
    BY <2>1, <2>2, QueueChangesByEdit
<1> HIDE DEF Undisturbed
<1>2. Spec => [][Undisturbed]_playerVars
  BY <1>1, Invariance, PTL DEF Spec
<1>3. QED
  BY <1>2 DEF EditsDoNotInterrupt, Undisturbed

-----------------------------------------------------------------------------
(* Listens.                                                                *)

\* The playback in the row has not been listened to yet, and no listen is for
\* a playback that is still to come.
ListenInv ==
    /\ ListenOnce
    /\ \A j \in DOMAIN listens :
          listens[j] # state.pb /\ listens[j] \in 1..Len(issued)

LEMMA ListensOnlyOfCompleted ==
    ASSUME Next
    PROVE  \/ UNCHANGED listens
           \/ \E pb \in DOMAIN issued : \E item : Completed(pb, item)
<1>1. QueueEdit => UNCHANGED listens
  BY DEF QueueEdit, Enqueue, EnqueueNext, Remove, Reorder, MoveItem, Rearrange,
         Clear
<1>2. Replace => UNCHANGED listens
  BY DEF Replace, ReplaceAndPlay
<1>3. Transport => UNCHANGED listens
  BY DEF Transport, Play, PlayAt, PlayRequested, Pause, SkipNext, Previous, Seek,
         Unedited
<1>4. Setting => UNCHANGED listens
  BY DEF Setting, SetVolume, SetRepeat, SetShuffle, Unedited
<1>5. Undo => UNCHANGED listens
  BY DEF Undo
<1>6. Report => \/ UNCHANGED listens
                \/ \E pb \in DOMAIN issued : \E item : Completed(pb, item)
  BY DEF Report, Failed, Observed, NodeState, Unedited
<1>7. QED
  BY <1>1, <1>2, <1>3, <1>4, <1>5, <1>6 DEF Next

\* A completed playback leaves the row.
LEMMA CompletedEnds ==
    ASSUME PlayerInv, NEW pb \in DOMAIN issued, NEW item, Completed(pb, item)
    PROVE  /\ pb = state.pb
           /\ state'.pb \in {0, Len(issued) + 1}
           /\ listens' = listens \/ listens' = Append(listens, pb)
<1>1. /\ row \in PlayerRow /\ row.pb = state.pb /\ state.rev + 1 \in Nat
      /\ queue \in Seq(Item) /\ issued \in Seq(Nat)
  <2>1. row \in PlayerRow /\ row.pb = state.pb
    BY RowFacts DEF SameBut
  <2>2. state \in PlayerRow /\ queue \in Seq(Item) /\ issued \in Seq(Nat)
    BY DEF PlayerInv, TypeOK
  <2>3. state.rev + 1 \in Nat
    BY <2>2 DEF PlayerRow
  <2>4. QED
    BY <2>1, <2>2, <2>3
<1>2. pb = state.pb /\ (listens' = listens \/ listens' = Append(listens, pb))
  BY <1>1 DEF Completed, Matches, RecordListen
<1>3. ASSUME NEW k \in SelectNext(row, queue, TRUE),
             Start(SetCurrent(row, queue, k), queue, 0)
      PROVE  state'.pb = Len(issued) + 1
  <2> DEFINE s == SetCurrent(row, queue, k)
  <2>1. s \in PlayerRow
    <3>1. k \in DOMAIN queue
      BY <1>1, SelectNextFacts
    <3>2. k \in Nat
      BY <1>1, <3>1
    <3>3. QED
      BY <1>1, <3>2, SetCurrentFacts
  <2> HIDE DEF s
  <2>2. state' = [BeginPlayback(s, 0) EXCEPT !.rev = state.rev + 1]
    BY <1>3 DEF Start, Save, s
  <2>3. BeginPlayback(s, 0) \in PlayerRow
        /\ BeginPlayback(s, 0).pb = Len(issued) + 1
    BY <1>1, <2>1, BeginFacts
  <2>4. QED
    BY <1>1, <2>2, <2>3, RevisionFacts, Zenon
<1>4. ASSUME Settle(Halted(row), queue, NoDirective)
      PROVE  state'.pb = 0
  <2>1. state' = [Halted(row) EXCEPT !.rev = state.rev + 1]
    BY <1>4 DEF Settle, Save
  <2>2. Halted(row) \in PlayerRow /\ Halted(row).pb = 0
    BY <1>1 DEF Halted, PlayerRow, Statuses
  <2>3. QED
    BY <1>1, <2>1, <2>2, RevisionFacts, Zenon
<1>5. state'.pb \in {0, Len(issued) + 1}
  BY <1>3, <1>4 DEF Completed
<1>6. QED
  BY <1>2, <1>5

\* A playback is listened to at most once, however often its completion is
\* reported and whatever is undone in between.
THEOREM ListenOnceHolds == Spec => []ListenOnce
<1>1. Init => ListenInv
  BY DEF Init, ListenInv, ListenOnce
<1>2. PlayerInv /\ ListenInv /\ [Next]_playerVars => ListenInv'
  <2> SUFFICES ASSUME PlayerInv, ListenInv, [Next]_playerVars PROVE ListenInv'
    OBVIOUS
  <2>1. /\ listens \in Seq(Nat) /\ issued \in Seq(Nat)
        /\ Len(issued) \in Nat /\ Len(listens) \in Nat /\ state.pb \in Nat
    BY DEF PlayerInv, TypeOK, PlayerRow
  <2>2. CASE Next
    <3>1. /\ state'.pb \in {0, state.pb, Len(issued) + 1}
          /\ Len(issued') \in Nat /\ Len(issued) <= Len(issued')
      BY <2>1, <2>2, StepFacts DEF Quiet
    <3>2. CASE UNCHANGED listens
      <4>1. ASSUME NEW j \in DOMAIN listens
            PROVE  listens[j] # state'.pb /\ listens[j] \in 1..Len(issued')
        <5>1. listens[j] # state.pb /\ listens[j] \in 1..Len(issued)
          BY DEF ListenInv
        <5>2. QED
          BY <2>1, <3>1, <5>1
      <4>2. QED
        BY <3>2, <4>1 DEF ListenInv, ListenOnce
    <3>3. ASSUME NEW pb \in DOMAIN issued, NEW item, Completed(pb, item)
          PROVE  ListenInv'
      <4>1. /\ pb = state.pb /\ pb \in 1..Len(issued)
            /\ state'.pb \in {0, Len(issued) + 1}
            /\ listens' = listens \/ listens' = Append(listens, pb)
        BY <2>1, <3>3, CompletedEnds
      <4>2. CASE listens' = listens
        BY <3>2, <4>2
      <4>3. CASE listens' = Append(listens, pb)
        <5>1. /\ DOMAIN listens' = 1..(Len(listens) + 1)
              /\ listens'[Len(listens) + 1] = pb
              /\ \A j \in 1..Len(listens) : listens'[j] = listens[j]
          BY <2>1, <4>1, <4>3
        <5>2. \A j \in 1..Len(listens) :
                listens[j] # pb /\ listens[j] \in 1..Len(issued)
          BY <2>1, <4>1 DEF ListenInv
        <5>3. ASSUME NEW j \in DOMAIN listens'
              PROVE  listens'[j] # state'.pb /\ listens'[j] \in 1..Len(issued')
          <6>1. listens'[j] \in 1..Len(issued)
            BY <2>1, <4>1, <5>1, <5>2
          <6>2. QED
            BY <2>1, <3>1, <4>1, <6>1
        <5>4. \A i, j \in 1..Len(listens) : listens[i] = listens[j] => i = j
          BY <2>1 DEF ListenInv, ListenOnce
        <5>5. ListenOnce'
          <6> SUFFICES ASSUME NEW i \in DOMAIN listens', NEW j \in DOMAIN listens',
                              listens'[i] = listens'[j]
                       PROVE  i = j
            BY DEF ListenOnce
          <6>1. /\ i \in 1..Len(listens) \/ i = Len(listens) + 1
                /\ j \in 1..Len(listens) \/ j = Len(listens) + 1
            BY <2>1, <5>1
          <6>2. CASE i \in 1..Len(listens) /\ j \in 1..Len(listens)
            <7>1. listens[i] = listens[j]
              BY <5>1, <6>2
            <7>2. QED
              BY <5>4, <6>2, <7>1
          <6>3. CASE i \in 1..Len(listens) /\ j = Len(listens) + 1
            <7>1. listens'[i] # pb /\ listens'[j] = pb
              BY <5>1, <5>2, <6>3
            <7>2. QED
              BY <7>1
          <6>4. CASE i = Len(listens) + 1 /\ j \in 1..Len(listens)
            <7>1. listens'[j] # pb /\ listens'[i] = pb
              BY <5>1, <5>2, <6>4
            <7>2. QED
              BY <7>1
          <6>5. QED
            BY <6>1, <6>2, <6>3, <6>4
        <5>6. QED
          BY <5>3, <5>5 DEF ListenInv
      <4>4. QED
        BY <4>1, <4>2, <4>3
    <3>4. QED
      BY <2>2, <3>2, <3>3, ListensOnlyOfCompleted
  <2>3. CASE UNCHANGED playerVars
    BY <2>3 DEF playerVars, ListenInv, ListenOnce
  <2>4. QED
    BY <2>2, <2>3
<1>3. ListenInv => ListenOnce
  BY DEF ListenInv
<1>4. QED
  BY <1>1, <1>2, <1>3, Invariance, PTL DEF Spec

-----------------------------------------------------------------------------
(* The player behind the handlers and the hub: SharedPlayer.               *)

\* A row's move that Jukebox leaves to a command.
CommandMove ==
    \/ Len(issued) < MaxPlaybacks /\ Box!Row!StartPlayback
    \/ Box!Row!PausePlayback
    \/ Box!Row!StopPlayback
    \/ Box!Row!Adjust

\* Whatever a command does to queue and row is one of the moves of Jukebox.
LEMMA CommandMoves ==
    ASSUME PlayerInv, Commanded
    PROVE  Next /\ CommandMove
<1>1. Next /\ ~OnlyReport
  BY DEF Next, Commanded, OnlyReport
<1>2. state'.rev = state.rev + 1
  BY <1>1, StepFacts
<1>3. CASE /\ state'.status = "playing"
           /\ state'.pb = Len(issued) + 1
           /\ Len(issued) < MaxPlaybacks
           /\ Len(issued') = Len(issued) + 1
           /\ directive'.op = "load"
  BY <1>1, <1>2, <1>3 DEF CommandMove, Box!Row!StartPlayback, Box!Row!Commit
<1>4. CASE issued' = issued /\ Quiet(state', directive')
  <2>1. CASE /\ directive'.op = "pause" /\ state'.status = "paused"
             /\ state'.pb \in {state.pb, 0}
    BY <1>1, <1>2, <1>4, <2>1
       DEF CommandMove, Box!Row!PausePlayback, Box!Row!Commit
  <2>2. CASE directive'.op = "stop" /\ state'.status = "stopped" /\ state'.pb = 0
    BY <1>1, <1>2, <1>4, <2>2
       DEF CommandMove, Box!Row!StopPlayback, Box!Row!Commit
  <2>3. CASE /\ directive'.op \in {"none", "volume"} /\ state'.status = state.status
             /\ state'.pb = state.pb \/ (state.status # "playing" /\ state'.pb = 0)
    BY <1>1, <1>2, <1>4, <2>3
       DEF CommandMove, Box!Row!Adjust, Box!Row!Commit
  <2>4. QED
    BY <1>1, <1>4, <2>1, <2>2, <2>3 DEF Quiet
<1>5. QED
  BY <1>1, <1>3, <1>4, StepFacts

-----------------------------------------------------------------------------
(* Reports.  Jukebox compares playback ids only.                           *)

\* It may: the playback id of the row belongs to the row's item.
LEMMA IdsSuffice ==
    ASSUME PlayerInv, NEW r
    PROVE  ReportMatches(r) <=> Box!Matches(r)
<1>1. row.pb = state.pb /\ row.item = state.item
  BY RowFacts DEF SameBut
<1>2. state.pb # 0 => issued[state.pb] = state.item
  BY DEF PlayerInv, PlaybackOK
<1>3. QED
  BY <1>1, <1>2 DEF ReportMatches, Matches, Box!Matches

LEMMA ReportMoves ==
    ASSUME PlayerInv, NEW r, Reported(r)
    PROVE  Report /\ Box!Matches(r) /\ Box!Follow(r)
<1>1. /\ row \in PlayerRow /\ row.pb = state.pb /\ state.pb \in Nat
      /\ state.rev \in Nat /\ state.rev + 1 \in Nat
      /\ issued \in Seq(Nat)
  BY RowFacts DEF SameBut, PlayerInv, TypeOK, PlayerRow
<1>2. ReportMatches(r)
  BY DEF Reported, ReportMatches, Completed, Failed, NodeState
<1>3. /\ Box!Matches(r) /\ r.pb # 0 /\ r.pb = state.pb
  BY <1>2, IdsSuffice DEF Box!Matches
<1>4. r.pb \in DOMAIN issued /\ issued[r.pb] = state.item
  BY <1>3 DEF PlayerInv, PlaybackOK
<1>5. issued[r.pb] \in 1..(nextItem - 1)
  <2>1. queue # <<>>
    BY <1>3 DEF PlayerInv, CurrentOK
  <2>2. state.index \in DOMAIN queue /\ state.item = queue[state.index].id
    BY <2>1 DEF PlayerInv, CurrentOK
  <2>3. queue[state.index].id \in Nat \ {0} /\ queue[state.index].id < nextItem
    BY <2>2, ItemsOfQueue DEF PlayerInv, QueueOK
  <2>4. nextItem \in Nat
    BY DEF PlayerInv, TypeOK
  <2>5. QED
    BY <1>4, <2>2, <2>3, <2>4
<1>6. Report
  BY <1>4, <1>5 DEF Reported, Report
<1>7. CASE r.event = "completed" /\ Completed(r.pb, issued[r.pb])
  <2>1. ASSUME Settle(Halted(row), queue, NoDirective) PROVE Box!Row!EndPlayback
    <3>1. /\ state' = [Halted(row) EXCEPT !.rev = state.rev + 1]
          /\ issued' = issued /\ directive' = NoDirective
      BY <2>1 DEF Settle, Save
    <3>2. Halted(row) \in PlayerRow /\ Halted(row).pb = 0 /\ Halted(row).status = "stopped"
      BY <1>1 DEF Halted, PlayerRow, Statuses
    <3>3. state'.rev = state.rev + 1 /\ state'.pb = 0 /\ state'.status = "stopped"
      BY <1>1, <3>1, <3>2, RevisionFacts, Zenon
    <3>4. QED
      BY <1>3, <3>1, <3>3, NoDirectiveFacts DEF Box!Row!EndPlayback, Box!Row!Commit
  <2>2. ASSUME NEW k \in SelectNext(row, queue, TRUE),
               Start(SetCurrent(row, queue, k), queue, 0)
        PROVE  Len(issued) < MaxPlaybacks /\ Box!Row!StartPlayback
    <3>1. Len(issued) < MaxPlaybacks /\ Len(issued') # Len(issued)
      BY <1>1, <2>2 DEF Start
    <3>2. Next
      BY <1>6 DEF Next
    <3>3. /\ state'.status = "playing" /\ state'.pb = Len(issued) + 1
          /\ state'.rev = state.rev + 1
          /\ Len(issued') = Len(issued) + 1 /\ directive'.op = "load"
      BY <3>1, <3>2, StepFacts
    <3>4. QED
      BY <3>1, <3>3 DEF Box!Row!StartPlayback, Box!Row!Commit
  <2>3. Box!Follow(r)
    BY <1>7, <2>1, <2>2 DEF Completed, Box!Follow
  <2>4. QED
    BY <1>3, <1>6, <2>3
<1>8. CASE r.event = "failed" /\ Failed(r.pb, issued[r.pb])
  <2> DEFINE s == [row EXCEPT !.status = "stopped", !.pb = 0, !.error = TRUE]
  <2>1. /\ state' = [s EXCEPT !.rev = state.rev + 1]
        /\ issued' = issued /\ directive' = NoDirective
    BY <1>8 DEF Failed, Settle, Save
  <2>2. s \in PlayerRow /\ s.pb = 0 /\ s.status = "stopped"
    BY <1>1 DEF PlayerRow, Statuses
  <2> HIDE DEF s
  <2>3. state'.rev = state.rev + 1 /\ state'.pb = 0 /\ state'.status = "stopped"
    BY <1>1, <2>1, <2>2, RevisionFacts, Zenon
  <2>4. Box!Row!EndPlayback
    BY <1>3, <2>1, <2>3, NoDirectiveFacts DEF Box!Row!EndPlayback, Box!Row!Commit
  <2>5. QED
    BY <1>3, <1>6, <1>8, <2>4 DEF Box!Follow
<1>9. ASSUME r.event \in Statuses, NEW pos \in Positions,
             NodeState(r.pb, issued[r.pb], r.event, pos)
      PROVE  Box!Follow(r)
  <2> DEFINE s == [row EXCEPT !.status = r.event, !.pos = pos,
                       !.pb = IF r.event = "stopped" THEN 0 ELSE @,
                       !.error = IF r.event = "playing" THEN FALSE ELSE @]
  <2>1. /\ state' = [s EXCEPT !.rev = state.rev + 1]
        /\ issued' = issued /\ directive' = NoDirective
    BY <1>9 DEF NodeState, Settle, Save
  <2>2. pos \in Nat
    BY PlayerAssumption
  <2>3. (IF r.event = "stopped" THEN 0 ELSE row.pb) \in Nat
    BY <1>1 DEF PlayerRow
  <2>4. (IF r.event = "playing" THEN FALSE ELSE row.error) \in BOOLEAN
    BY <1>1 DEF PlayerRow
  <2>5. /\ s \in PlayerRow /\ s.status = r.event
        /\ s.pb = IF r.event = "stopped" THEN 0 ELSE row.pb
    BY <1>1, <1>9, <2>2, <2>3, <2>4 DEF PlayerRow
  <2> HIDE DEF s
  <2>6. /\ state'.rev = state.rev + 1 /\ state'.status = r.event
        /\ state'.pb = IF r.event = "stopped" THEN 0 ELSE state.pb
    BY <1>1, <2>1, <2>5, RevisionFacts, Zenon
  <2>7. CASE r.event = "stopped"
    BY <1>3, <2>1, <2>6, <2>7, NoDirectiveFacts
       DEF Box!Follow, Box!Row!EndPlayback, Box!Row!Commit
  <2>8. CASE r.event \in {"playing", "paused"}
    BY <1>3, <2>1, <2>6, <2>8, NoDirectiveFacts
       DEF Box!Follow, Box!Row!Observe, Box!Row!Commit
  <2>9. QED
    BY <1>9, <2>7, <2>8 DEF Statuses
<1>10. QED
  BY <1>3, <1>6, <1>7, <1>8, <1>9 DEF Reported

-----------------------------------------------------------------------------
(* Each step of the shared player is one of the player, and one of the     *)
(* protocol.                                                               *)

\* A playing row has something to load.
LEMMA PlayingLoads ==
    ASSUME PlayerInv, state.status = "playing"
    PROVE  /\ queue # <<>> /\ state.index \in DOMAIN queue /\ state.pb # 0
           /\ LoadDirective(state, queue) =
                [op |-> "load", item |-> state.item, pb |-> state.pb,
                 pos |-> state.pos, track |-> queue[state.index].track]
<1>1. state.pb # 0
  BY DEF PlayerInv, PlaybackOK
<1>2. /\ queue # <<>> /\ state.index \in DOMAIN queue
      /\ state.item = queue[state.index].id
  BY DEF PlayerInv, CurrentOK
<1>3. queue \in Seq(Item) /\ DistinctIds(queue)
  BY DEF PlayerInv, QueueOK
<1>4. state.item \in Ids(queue)
  BY <1>2 DEF Ids
<1>5. /\ PositionOf(queue, state.item) \in DOMAIN queue
      /\ queue[PositionOf(queue, state.item)].id = state.item
  BY <1>3, <1>4, PositionFacts
<1>6. PositionOf(queue, state.item) = state.index
  BY <1>2, <1>3, <1>5 DEF DistinctIds
<1>7. QED
  BY <1>1, <1>2, <1>4, <1>6 DEF LoadDirective

LEMMA ControlStep ==
    ASSUME PlayerInv, NEW h, Control(h)
    PROVE  Next /\ Box!Command(h)
<1>1. /\ pending[h] = Box!Nothing /\ state.rev < MaxCommands /\ Commanded
      /\ pending' = [pending EXCEPT ![h] = Box!Committed]
      /\ UNCHANGED <<published, loaded, listeners, linkVars, node, disturbed>>
  BY DEF Control
<1>2. Next /\ CommandMove
  BY <1>1, CommandMoves
<1>3. QED
  BY <1>1, <1>2 DEF Box!Command, CommandMove, linkVars, Box!linkVars

LEMMA ReceiveStep ==
    ASSUME PlayerInv, NEW s, Receive(s)
    PROVE  /\ Next \/ UNCHANGED playerVars
           /\ Box!Receive(s)
<1> DEFINE r == Head(up[s])
<1>1. /\ step[s] = "ready" /\ pending[s] = Box!Nothing /\ up[s] # <<>>
      /\ up' = [up EXCEPT ![s] = Tail(@)]
      /\ step' = [step EXCEPT ![s] = "attach"]
      /\ UNCHANGED <<loaded, listeners, session, down, node>>
  BY DEF Receive
<1> HIDE DEF r
<1>2. CASE /\ ~ReportMatches(r)
           /\ UNCHANGED <<playerVars, pending, published, disturbed, named>>
  <2>1. ~Box!Matches(r)
    BY <1>2, IdsSuffice
  <2>2. UNCHANGED Box!rowVars
    BY <1>2 DEF playerVars, Box!rowVars
  <2>3. QED
    BY <1>1, <1>2, <2>1, <2>2 DEF Box!Receive, r
<1>3. CASE /\ Reported(r)
           /\ pending' = [pending EXCEPT ![s] = Box!Committed]
           /\ published' = IF directive'.op = "none" THEN state'.rev ELSE published
           /\ UNCHANGED disturbed
  <2>1. Report /\ Box!Matches(r) /\ Box!Follow(r)
    BY <1>3, ReportMoves
  <2>2. Next
    BY <2>1 DEF Next
  <2>3. Box!Committed = Box!Nothing <=> directive'.op = "none"
    BY DEF Box!Committed, Box!Nothing
  <2>4. published' = IF Box!Committed = Box!Nothing THEN state'.rev ELSE published
    BY <1>3, <2>3
  <2>5. QED
    BY <1>1, <1>3, <2>1, <2>2, <2>4 DEF Box!Receive, r
<1>4. CASE ReportMatches(r) /\ UNCHANGED <<playerVars, named>> /\ Box!Dropped(s, r)
  <2>1. Box!Matches(r)
    BY <1>4, IdsSuffice
  <2>2. QED
    BY <1>1, <1>4, <2>1 DEF Box!Receive, r
<1>5. QED
  BY <1>2, <1>3, <1>4 DEF Receive, r

LEMMA ReconcileStep ==
    ASSUME PlayerInv, NEW s, Reconcile(s)
    PROVE  UNCHANGED playerVars /\ Box!Reconcile(s)
<1> DEFINE load == IF state.status = "playing" THEN LoadDirective(state, queue)
                   ELSE NoDirective
<1>1. load = NoDirective <=> state.status # "playing"
  BY PlayingLoads, NoDirectiveFacts DEF NoDirective
<1>2. /\ step[s] = "reconcile" /\ step' = [step EXCEPT ![s] = "ready"]
      /\ pending' = [pending EXCEPT ![s] =
                 [op |-> IF load = NoDirective THEN "volume" ELSE "load",
                  pb |-> state.pb, rev |-> state.rev, live |-> FALSE]]
      /\ UNCHANGED <<playerVars, published, loaded, listeners, session, down, up,
                     node, disturbed>>
  BY DEF Reconcile
<1> HIDE DEF load
<1>3. (IF load = NoDirective THEN "volume" ELSE "load")
        = IF state.status = "playing" THEN "load" ELSE "volume"
  BY <1>1
<1>4. UNCHANGED Box!rowVars
  BY <1>2 DEF playerVars, Box!rowVars
<1>5. QED
  BY <1>2, <1>3, <1>4 DEF Box!Reconcile

LEMMA ElsewhereStep ==
    ASSUME Elsewhere
    PROVE  UNCHANGED playerVars /\ Box!Next
BY DEF Elsewhere, Box!Next, Box!Core

LEMMA SharedStep ==
    ASSUME PlayerInv, [SharedNext]_sharedVars
    PROVE  [Next]_playerVars /\ [Box!Next]_(Box!vars)
<1>1. CASE UNCHANGED sharedVars
  <2>1. UNCHANGED <<playerVars, hubVars, linkVars, node, disturbed>>
    BY <1>1 DEF sharedVars
  <2>2. UNCHANGED Box!rowVars
    BY <2>1 DEF playerVars, Box!rowVars
  <2>3. UNCHANGED <<Box!hubVars, Box!linkVars, node, disturbed>>
    BY <2>1 DEF hubVars, linkVars, Box!hubVars, Box!linkVars
  <2>4. QED
    BY <2>1, <2>2, <2>3 DEF Box!vars
<1>2. ASSUME NEW h \in Controllers, Control(h) PROVE Next /\ Box!Next
  BY <1>2, ControlStep DEF Box!Next
<1>3. ASSUME NEW s \in Box!Sessions, Receive(s)
      PROVE  [Next]_playerVars /\ Box!Next
  BY <1>3, ReceiveStep DEF Box!Next, Box!Core
<1>4. ASSUME NEW s \in Box!Sessions, Reconcile(s)
      PROVE  UNCHANGED playerVars /\ Box!Next
  BY <1>4, ReconcileStep DEF Box!Next, Box!Core
<1>5. QED
  BY <1>1, <1>2, <1>3, <1>4, ElsewhereStep DEF SharedNext

\* The player behind the hub is the player: everything that is proved of Player
\* holds of it too.
THEOREM SharedIsPlayer == SharedSpec => Spec
<1>1. SharedInit => PlayerInv /\ Init
  BY InvInit DEF SharedInit
<1>2. PlayerInv /\ [Next]_playerVars => PlayerInv'
  BY InvStep
<1>3. PlayerInv /\ [SharedNext]_sharedVars => [Next]_playerVars
  BY SharedStep
<1>4. QED
  BY <1>1, <1>2, <1>3, PTL DEF SharedSpec, Spec

\* The row, its queue and its undo behave as Jukebox takes a row to behave.
THEOREM ProtocolKept == SharedSpec => KeepsProtocol
<1>1. SharedInit => Box!Init
  BY DEF SharedInit
<1>2. PlayerInv /\ [SharedNext]_sharedVars => [Box!Next]_(Box!vars)
  BY SharedStep
<1>3. QED
  BY <1>1, <1>2, SharedIsPlayer, Invariance, PTL DEF SharedSpec, KeepsProtocol

-----------------------------------------------------------------------------
(* What JukeboxProofs proves of the protocol holds of the shared player.   *)

BoxP == INSTANCE JukeboxProofs
          WITH status <- state.status, token <- state.pb, tokens <- Len(issued),
               rev <- state.rev, sent <- directive.op, MaxRevision <- MaxCommands

\* The two instances of Jukebox have the same steps: their definitions are the
\* same once they are expanded.
USE DEF Box!Handlers, BoxP!Handlers, Box!Sessions, BoxP!Sessions,
        Box!Nothing, BoxP!Nothing, Box!Offline, BoxP!Offline,
        Box!rowVars, BoxP!rowVars, Box!hubVars, BoxP!hubVars,
        Box!linkVars, BoxP!linkVars, Box!Committed, BoxP!Committed,
        Box!Report, BoxP!Report, Box!Send, BoxP!Send, Box!LateAfter, BoxP!LateAfter,
        Box!Matches, BoxP!Matches, Box!Dropped, BoxP!Dropped, Box!Forget, BoxP!Forget,
        Box!Row!Commit, BoxP!Row!Commit

LEMMA SameInit == Box!Init => BoxP!Init
BY DEF Box!Init, BoxP!Init, Box!Row!Init, BoxP!Row!Init

LEMMA SameRow ==
    /\ Box!Row!StartPlayback <=> BoxP!Row!StartPlayback
    /\ Box!Row!PausePlayback <=> BoxP!Row!PausePlayback
    /\ Box!Row!StopPlayback <=> BoxP!Row!StopPlayback
    /\ Box!Row!EndPlayback <=> BoxP!Row!EndPlayback
    /\ Box!Row!Observe <=> BoxP!Row!Observe
    /\ Box!Row!Adjust <=> BoxP!Row!Adjust
BY DEF Box!Row!StartPlayback, BoxP!Row!StartPlayback,
       Box!Row!PausePlayback, BoxP!Row!PausePlayback,
       Box!Row!StopPlayback, BoxP!Row!StopPlayback,
       Box!Row!EndPlayback, BoxP!Row!EndPlayback,
       Box!Row!Observe, BoxP!Row!Observe, Box!Row!Adjust, BoxP!Row!Adjust

LEMMA SameCommand == ASSUME NEW h, Box!Command(h) PROVE BoxP!Command(h)
BY SameRow DEF Box!Command, BoxP!Command

LEMMA SamePublish == ASSUME NEW h, Box!Publish(h) PROVE BoxP!Publish(h)
BY DEF Box!Publish, BoxP!Publish

LEMMA SameReceive == ASSUME NEW s, Box!Receive(s) PROVE BoxP!Receive(s)
<1>1. Box!Follow(Head(up[s])) <=> BoxP!Follow(Head(up[s]))
  BY SameRow DEF Box!Follow, BoxP!Follow
<1>2. QED
  BY <1>1 DEF Box!Receive, BoxP!Receive

LEMMA SameSession ==
    ASSUME NEW s
    PROVE  /\ Box!Attach(s) => BoxP!Attach(s)
           /\ Box!Reconcile(s) => BoxP!Reconcile(s)
           /\ Box!Close(s) => BoxP!Close(s)
           /\ Box!CloseOnError(s) => BoxP!CloseOnError(s)
           /\ Box!Connect(s) => BoxP!Connect(s)
           /\ Box!LateReport(s) => BoxP!LateReport(s)
<1>1. Box!Attach(s) => BoxP!Attach(s)
  BY DEF Box!Attach, BoxP!Attach
<1>2. Box!Reconcile(s) => BoxP!Reconcile(s)
  BY DEF Box!Reconcile, BoxP!Reconcile
<1>3. Box!Close(s) => BoxP!Close(s)
  BY DEF Box!Close, BoxP!Close
<1>4. Box!CloseOnError(s) => BoxP!CloseOnError(s)
  BY DEF Box!CloseOnError, BoxP!CloseOnError
<1>5. Box!Connect(s) => BoxP!Connect(s)
  BY DEF Box!Connect, BoxP!Connect
<1>6. Box!LateReport(s) => BoxP!LateReport(s)
  BY DEF Box!LateReport, BoxP!LateReport
<1>7. QED
  BY <1>1, <1>2, <1>3, <1>4, <1>5, <1>6

LEMMA SameNode ==
    /\ Box!Obey => BoxP!Obey
    /\ Box!Progress => BoxP!Progress
    /\ Box!Finish => BoxP!Finish
    /\ Box!Fail => BoxP!Fail
    /\ Box!Cut => BoxP!Cut
    /\ Box!Restart => BoxP!Restart
<1>1. Box!Obey => BoxP!Obey
  BY DEF Box!Obey, BoxP!Obey
<1>2. Box!Progress => BoxP!Progress
  BY DEF Box!Progress, BoxP!Progress
<1>3. Box!Finish => BoxP!Finish
  BY DEF Box!Finish, BoxP!Finish
<1>4. Box!Fail => BoxP!Fail
  BY DEF Box!Fail, BoxP!Fail
<1>5. Box!Cut => BoxP!Cut
  BY DEF Box!Cut, BoxP!Cut
<1>6. Box!Restart => BoxP!Restart
  BY DEF Box!Restart, BoxP!Restart
<1>7. QED
  BY <1>1, <1>2, <1>3, <1>4, <1>5, <1>6

LEMMA SameNext == Box!Next => BoxP!Next
<1> SUFFICES ASSUME Box!Next PROVE BoxP!Next
  OBVIOUS
<1>1. ASSUME NEW h \in Controllers, Box!Command(h) PROVE BoxP!Next
  BY <1>1, SameCommand DEF BoxP!Next
<1>2. ASSUME NEW h \in Box!Handlers, Box!Publish(h) PROVE BoxP!Next
  BY <1>2, SamePublish DEF BoxP!Next
<1>3. ASSUME NEW s \in Box!Sessions, Box!Core(s) \/ Box!Close(s) \/ Box!CloseOnError(s)
      PROVE  BoxP!Next
  BY <1>3, SameReceive, SameSession DEF BoxP!Next, Box!Core, BoxP!Core
<1>4. ASSUME Box!Satellite PROVE BoxP!Next
  BY <1>4, SameNode, SameSession DEF BoxP!Next, Box!Satellite, BoxP!Satellite
<1>5. ASSUME Box!Restart PROVE BoxP!Next
  BY <1>5, SameNode DEF BoxP!Next
<1>6. QED
  BY <1>1, <1>2, <1>3, <1>4, <1>5 DEF Box!Next

LEMMA SameStep == [Box!Next]_(Box!vars) => [BoxP!Next]_(BoxP!vars)
<1>1. UNCHANGED Box!vars => UNCHANGED BoxP!vars
  BY DEF Box!vars, BoxP!vars
<1>2. QED
  BY <1>1, SameNext

LEMMA SameRest ==
    /\ Box!Quiet => BoxP!Quiet
    /\ BoxP!TypeOK => Box!TypeOK
<1>1. Box!Quiet => BoxP!Quiet
  BY DEF Box!Quiet, BoxP!Quiet
<1>2. BoxP!TypeOK => Box!TypeOK
  BY DEF Box!TypeOK, BoxP!TypeOK, Box!DirectiveType, BoxP!DirectiveType, Box!Op, BoxP!Op,
         Box!ReportType, BoxP!ReportType, Box!Disturbances, BoxP!Disturbances
<1>3. QED
  BY <1>1, <1>2

HIDE DEF Box!Handlers, BoxP!Handlers, Box!Sessions, BoxP!Sessions,
         Box!Nothing, BoxP!Nothing, Box!Offline, BoxP!Offline,
         Box!rowVars, BoxP!rowVars, Box!hubVars, BoxP!hubVars,
         Box!linkVars, BoxP!linkVars, Box!Committed, BoxP!Committed,
         Box!Report, BoxP!Report, Box!Send, BoxP!Send, Box!LateAfter, BoxP!LateAfter,
         Box!Matches, BoxP!Matches, Box!Dropped, BoxP!Dropped, Box!Forget, BoxP!Forget,
         Box!Row!Commit, BoxP!Row!Commit

\* The row, the hub, the sessions and the satellite satisfy the invariant of
\* JukeboxProofs when the row is that of Player.
THEOREM HubInvariance == SharedSpec => []BoxP!JukeboxInv
<1>1. BoxP!Init /\ [][BoxP!Next]_(BoxP!vars) => []BoxP!JukeboxInv
  BY BoxP!Invariance, PlayerAssumption, SharedAssumption DEF PlayerAssumption, SharedAssumption
<1>2. QED
  BY <1>1, SameInit, SameStep, ProtocolKept, PTL DEF KeepsProtocol

-----------------------------------------------------------------------------
(* What the loads of a playback named.                                     *)

\* The playback of the row, with the item and the track that are current.
CurrentName ==
    [pb |-> state.pb, item |-> queue[state.index].id,
     track |-> queue[state.index].track]

\* All loads of the row's playback named what is current now, through every
\* edit, undo and reconnection since; and one was sent.
NamedInv ==
    /\ named \subseteq [pb : Nat, item : Nat, track : Tracks]
    /\ \A n \in named :
          n.pb \in DOMAIN issued /\ (n.pb = state.pb => n = CurrentName)
    /\ state.pb # 0 => CurrentName \in named

\* A playback that stays in the row stays with its item, and the item with its
\* track.
LEMMA NameStays ==
    ASSUME PlayerInv, Next, issued' = issued, state'.pb = state.pb, state.pb # 0
    PROVE  CurrentName' = CurrentName
<1>1. PlayerInv'
  BY NextIsTransaction, TransactionInv
<1>2. state'.item = state.item
  BY <1>1 DEF PlayerInv, PlaybackOK
<1>3. /\ state.index \in DOMAIN queue /\ queue[state.index].id = state.item
      /\ queue[state.index].id < nextItem /\ nextItem \in Nat
      /\ DistinctIds(queue) /\ queue \in Seq(Item)
  BY DEF PlayerInv, CurrentOK, QueueOK, TypeOK
<1>4. state'.index \in DOMAIN queue' /\ queue'[state'.index].id = state.item
  BY <1>1, <1>2 DEF PlayerInv, CurrentOK
<1>5. \/ MadeFrom(queue', queue, nextItem)
      \/ \E saved \in undo : queue' = saved.queue
  BY NextIsTransaction DEF Transaction, TablesOK
<1>6. CASE MadeFrom(queue', queue, nextItem)
  <2>1. queue[state.index].id \in Nat
    BY <1>3, ItemsOfQueue
  <2>2. ~(queue'[state'.index].id >= nextItem)
    BY <1>3, <1>4, <2>1
  <2>3. PICK j \in DOMAIN queue : queue'[state'.index] = queue[j]
    BY <1>4, <1>6, <2>2 DEF MadeFrom
  <2>4. j = state.index
    BY <1>3, <1>4, <2>3 DEF DistinctIds
  <2>5. QED
    BY <2>3, <2>4 DEF CurrentName
<1>7. CASE \E saved \in undo : queue' = saved.queue
  <2>1. PICK saved \in undo : queue' = saved.queue
    BY <1>7
  <2>2. Agree(queue, saved.queue)
    BY DEF PlayerInv
  <2>3. queue[state.index] = queue'[state'.index]
    BY <1>3, <1>4, <2>1, <2>2 DEF Agree
  <2>4. QED
    BY <2>3 DEF CurrentName
<1>8. QED
  BY <1>5, <1>6, <1>7

LEMMA NextNames ==
    ASSUME PlayerInv, NamedInv, Next, Name(directive')
    PROVE  NamedInv'
<1>1. PlayerInv'
  BY NextIsTransaction, TransactionInv
<1>2. issued \in Seq(Nat) /\ Len(issued) \in Nat
  BY DEF PlayerInv, TypeOK
<1>3. CASE /\ state'.pb = Len(issued) + 1
           /\ Len(issued') = Len(issued) + 1
           /\ directive'.op = "load" /\ directive'.pb = state'.pb
           /\ directive'.item = state'.item
           /\ directive'.track = queue'[state'.index].track
  <2>1. /\ queue'[state'.index].id = state'.item
    BY <1>1, <1>2, <1>3 DEF PlayerInv, CurrentOK
  <2>2. named' = named \cup {CurrentName'}
    BY <1>3, <2>1 DEF Name, CurrentName
  <2>3. CurrentName' \in [pb : Nat, item : Nat, track : Tracks]
    <3>1. directive' \in Directive
      BY <1>1 DEF PlayerInv, TypeOK
    <3>2. directive'.track \in Tracks /\ directive'.item \in Nat /\ directive'.pb \in Nat
      BY <1>3, <3>1 DEF Directive
    <3>3. QED
      BY <1>3, <2>1, <3>2 DEF CurrentName
  <2>4. issued' \in Seq(Nat)
    BY <1>1 DEF PlayerInv, TypeOK
  <2>5. ASSUME NEW n \in named
        PROVE  n.pb \in DOMAIN issued' /\ n.pb # state'.pb
    <3>1. n.pb \in 1..Len(issued)
      BY <1>2 DEF NamedInv
    <3>2. QED
      BY <1>2, <1>3, <2>4, <3>1
  <2>6. CurrentName'.pb = state'.pb /\ state'.pb \in DOMAIN issued'
    BY <1>2, <1>3, <2>4 DEF CurrentName
  <2>7. QED
    BY <2>2, <2>3, <2>5, <2>6 DEF NamedInv
<1>4. CASE issued' = issued /\ Quiet(state', directive')
  <2>1. named' = named
    BY <1>4 DEF Quiet, Name
  <2>2. state'.pb \in {state.pb, 0}
    BY <1>4 DEF Quiet
  <2>3. CASE state'.pb = 0
    <3>1. \A n \in named : n.pb # 0
      BY <1>2 DEF NamedInv
    <3>2. QED
      BY <1>4, <2>1, <2>3, <3>1 DEF NamedInv
  <2>4. CASE state'.pb = state.pb /\ state.pb # 0
    <3>1. CurrentName' = CurrentName
      BY <1>4, <2>4, NameStays
    <3>2. QED
      BY <1>4, <2>1, <2>4, <3>1 DEF NamedInv
  <2>5. QED
    BY <2>2, <2>3, <2>4
<1>5. QED
  BY <1>3, <1>4, StepFacts

LEMMA SameNames ==
    ASSUME NamedInv, UNCHANGED <<playerVars, named>>
    PROVE  NamedInv'
BY DEF NamedInv, CurrentName, playerVars

LEMMA ReconcileNames ==
    ASSUME PlayerInv, NamedInv, NEW s, Reconcile(s)
    PROVE  NamedInv'
<1>1. /\ UNCHANGED playerVars
      /\ Name(IF state.status = "playing" THEN LoadDirective(state, queue)
              ELSE NoDirective)
  BY DEF Reconcile
<1>2. named' = named
  <2>1. CASE state.status = "playing"
    <3>1. /\ queue # <<>> /\ state.pb # 0
          /\ LoadDirective(state, queue) =
                [op |-> "load", item |-> state.item, pb |-> state.pb,
                 pos |-> state.pos, track |-> queue[state.index].track]
      BY <2>1, PlayingLoads
    <3>2. state.item = queue[state.index].id
      BY <3>1 DEF PlayerInv, CurrentOK
    <3>3. named' = named \cup {CurrentName}
      BY <1>1, <2>1, <3>1, <3>2 DEF Name, CurrentName
    <3>4. CurrentName \in named
      BY <3>1 DEF NamedInv
    <3>5. QED
      BY <3>3, <3>4
  <2>2. CASE state.status # "playing"
    BY <1>1, <2>2, NoDirectiveFacts DEF Name, NoDirective
  <2>3. QED
    BY <2>1, <2>2
<1>3. QED
  BY <1>1, <1>2, SameNames

LEMMA NamesStep ==
    ASSUME PlayerInv, NamedInv, [SharedNext]_sharedVars
    PROVE  NamedInv'
<1>1. CASE UNCHANGED sharedVars
  BY <1>1, SameNames DEF sharedVars
<1>2. ASSUME NEW h \in Controllers, Control(h) PROVE NamedInv'
  <2>1. Next /\ Name(directive')
    BY <1>2, ControlStep DEF Control
  <2>2. QED
    BY <2>1, NextNames
<1>3. ASSUME NEW s \in Box!Sessions, Receive(s) PROVE NamedInv'
  <2> DEFINE r == Head(up[s])
  <2>1. \/ UNCHANGED <<playerVars, named>>
        \/ Reported(r) /\ Name(directive')
    BY <1>3 DEF Receive
  <2> HIDE DEF r
  <2>2. CASE Reported(r) /\ Name(directive')
    <3>1. Report
      BY <2>2, ReportMoves
    <3>2. QED
      BY <2>2, <3>1, NextNames DEF Next
  <2>3. QED
    BY <2>1, <2>2, SameNames
<1>4. ASSUME NEW s \in Box!Sessions, Reconcile(s) PROVE NamedInv'
  BY <1>4, ReconcileNames
<1>5. ASSUME Elsewhere PROVE NamedInv'
  BY <1>5, SameNames DEF Elsewhere
<1>6. QED
  BY <1>1, <1>2, <1>3, <1>4, <1>5 DEF SharedNext

\* Everything that the shared player keeps.
SharedInv == PlayerInv /\ BoxP!JukeboxInv /\ NamedInv

\* The queue's invariant, the protocol's, and what joins them.
THEOREM SharedInvariance == SharedSpec => []SharedInv
<1>1. SharedInit => NamedInv
  BY DEF SharedInit, Init, NamedInv
<1>2. PlayerInv /\ NamedInv /\ [SharedNext]_sharedVars => NamedInv'
  BY NamesStep
<1>3. PlayerInv /\ BoxP!JukeboxInv /\ NamedInv => SharedInv
  BY DEF SharedInv
<1>4. QED
  BY <1>1, <1>2, <1>3, SharedIsPlayer, Invariance, HubInvariance, PTL DEF SharedSpec

\* Every session and message has its shape, and a load names an item.
THEOREM SharedTypes == SharedSpec => []SharedTypeOK
<1>1. SharedInv => SharedTypeOK
  <2> SUFFICES ASSUME SharedInv PROVE SharedTypeOK
    OBVIOUS
  <2>1. TypeOK
    BY DEF SharedInv, PlayerInv
  <2>2. BoxP!TypeOK
    BY DEF SharedInv, BoxP!JukeboxInv, BoxP!TypeInv
  <2>3. named \subseteq [pb : Nat, item : Nat, track : Tracks]
    BY DEF SharedInv, NamedInv
  <2>4. QED
    BY <2>1, <2>2, <2>3, SameRest DEF SharedTypeOK
<1>2. QED
  BY <1>1, SharedInvariance, PTL

\* Once nothing is on its way, and nothing went wrong that Jukebox names, what
\* sounds is the current item of the queue (publish_player_transition,
\* reconcile_player_output, record_node_report).
THEOREM SatellitePlaysCurrentHolds == SharedSpec => []SatellitePlaysCurrent
<1>1. SharedInv => SatellitePlaysCurrent
  <2> SUFFICES ASSUME SharedInv, Box!Quiet, disturbed = {}
               PROVE  IF state.status = "playing"
                      THEN /\ node.sounding
                           /\ {n \in named : n.pb = node.media} =
                                 {[pb |-> node.media, item |-> queue[state.index].id,
                                   track |-> queue[state.index].track]}
                      ELSE ~node.sounding
    BY DEF SatellitePlaysCurrent
  <2>1. PlayerInv /\ BoxP!JukeboxInv /\ NamedInv
    BY DEF SharedInv
  <2>2. BoxP!Agree
    BY <2>1, SameRest, BoxP!RestAgrees, PlayerAssumption, SharedAssumption
       DEF PlayerAssumption, SharedAssumption
  <2>3. CASE state.status # "playing"
    BY <2>2, <2>3 DEF BoxP!Agree
  <2>4. CASE state.status = "playing"
    <3>1. node.sounding /\ node.media = state.pb
      BY <2>2, <2>4 DEF BoxP!Agree
    <3>2. state.pb # 0
      BY <2>1, <2>4, PlayingLoads
    <3>3. {n \in named : n.pb = state.pb} = {CurrentName}
      BY <2>1, <3>2 DEF NamedInv, CurrentName
    <3>4. QED
      BY <2>4, <3>1, <3>3 DEF CurrentName
  <2>5. QED
    BY <2>3, <2>4
<1>2. QED
  BY <1>1, SharedInvariance, PTL
=============================================================================
