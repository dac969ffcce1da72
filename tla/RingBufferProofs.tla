-------------------------- MODULE RingBufferProofs --------------------------
(* Proofs about RingBuffer, for every number of buffers and every set of *)
(* threads: type correctness, exclusive ownership of the frames, their   *)
(* conservation, that a push never waits, that no viewer gets a frame    *)
(* without a picture, that no signal is lost, and that the whole is the  *)
(* channel of FrameChannel.                                              *)
(*                                                                       *)
(* IInv is inductive. Beyond the properties themselves it says where the *)
(* tail of a queue is, which makes the position a push writes one that   *)
(* holds no queued frame, and that a thread holds a frame exactly in the *)
(* stages between its pop and its push. FilledInv adds what the frames   *)
(* show, SleepInv that nobody sleeps for room.                           *)
EXTENDS RingBuffer, FiniteSetTheorems, SequenceTheorems, TLAPS

(* The tail is "count" positions behind the head. *)
TailInv == \A q \in Queues :
  tail[q] = IF head[q] + count[q] < MaxBuffers
            THEN head[q] + count[q] ELSE head[q] + count[q] - MaxBuffers

(* A thread holds a frame from its pop to its push. *)
HoldInv == \A t \in Threads : frame[t] = NoFrame <=> Popping(t)

(* Queued positions hold frames. *)
QueuedInv == \A q \in Queues, i \in Index : Occupied(q, i) => items[q][i] \in Frames

IInv == /\ TypeOK
        /\ TailInv
        /\ HoldInv
        /\ QueuedInv
        /\ ExclusiveOwnership
        /\ Conservation
-----------------------------------------------------------------------------
(* The circular array: arithmetic of positions.                            *)

(* How a position moves on. *)
Succ(i) == IF i + 1 = MaxBuffers THEN 0 ELSE i + 1

(* How far position i is behind head h. *)
Dist(h, i) == IF i >= h THEN i - h ELSE i + MaxBuffers - h

(* The modulo of the code is a wrap to 0 at the last position. *)
LEMMA SuccIsModulo ==
  ASSUME NEW i \in Index
  PROVE  (i + 1) % MaxBuffers = Succ(i) /\ Succ(i) \in Index
BY SizeAssumption, Z3 DEF Succ, Index

(* Advancing the head frees exactly the position it leaves. *)
LEMMA DistAfterPop ==
  ASSUME NEW h \in Index, NEW i \in Index, NEW c \in 1 .. MaxBuffers
  PROVE  Dist(Succ(h), i) < c - 1 <=> Dist(h, i) < c /\ i # h
BY SizeAssumption DEF Dist, Succ, Index

(* Counting one more occupies exactly the position of the tail, which was *)
(* free before.                                                            *)
LEMMA DistAfterPush ==
  ASSUME NEW h \in Index, NEW i \in Index, NEW c \in 0 .. MaxBuffers - 1,
         NEW tl, tl = IF h + c < MaxBuffers THEN h + c ELSE h + c - MaxBuffers
  PROVE  /\ tl \in Index
         /\ Dist(h, i) < c + 1 <=> Dist(h, i) < c \/ i = tl
         /\ ~(Dist(h, tl) < c)
BY SizeAssumption DEF Dist, Index
(* The tail stays "count" behind a head that moves on while count shrinks, *)
(* and moves with a count that grows.                                      *)
LEMMA TailAfterMove ==
  ASSUME NEW h \in Index, NEW c \in 0 .. MaxBuffers,
         NEW tl, tl = IF h + c < MaxBuffers THEN h + c ELSE h + c - MaxBuffers
  PROVE  /\ c > 0 => tl = IF Succ(h) + (c - 1) < MaxBuffers
                          THEN Succ(h) + (c - 1)
                          ELSE Succ(h) + (c - 1) - MaxBuffers
         /\ c < MaxBuffers => Succ(tl) = IF h + (c + 1) < MaxBuffers
                                         THEN h + (c + 1)
                                         ELSE h + (c + 1) - MaxBuffers
BY SizeAssumption DEF Succ, Index
-----------------------------------------------------------------------------
(* The parts of the invariant, one action at a time.                       *)

LEMMA InitInv == Init => IInv
<1> SUFFICES ASSUME Init PROVE IInv
  OBVIOUS
<1> USE DEF Init
<1>1. TypeOK
  BY SizeAssumption, ValueAssumption
  DEF TypeOK, Queues, Index, Frames, Threads, Consumers, Stages
<1>2. TailInv
  BY SizeAssumption DEF TailInv, Queues
<1>3. HoldInv
  BY DEF HoldInv, Popping
<1>4. \A q \in Queues, i \in Index : Occupied(q, i) <=> q = "free"
  BY SizeAssumption DEF Occupied, Offset, Queues, Index
<1>5. QueuedInv
  BY <1>4, SizeAssumption DEF QueuedInv, Queues, Index, Frames
<1>6. ExclusiveOwnership
  BY <1>4, SizeAssumption, ValueAssumption
  DEF ExclusiveOwnership, Queues, Index, Frames
<1>7. Conservation
  <2>1. Holders = {}
    BY DEF Holders
  <2>2. Cardinality(Holders) = 0 /\ Cardinality(leaked) = 0
    BY <2>1, FS_EmptySet
  <2> QED
    BY <2>2, SizeAssumption DEF Conservation, Queues
<1> QED
  BY <1>1, <1>2, <1>3, <1>5, <1>6, <1>7 DEF IInv

(* Signals, waits and wakeups touch the wait sets only. *)
LEMMA WaitSetType ==
  ASSUME TypeOK, NEW q \in Queues,
         \/ CondSignal(q)
         \/ \E t \in Threads : waiting' = [waiting EXCEPT ![q] = @ \cup {t}]
         \/ \E t \in Threads : waiting' = [waiting EXCEPT ![q] = @ \ {t}]
  PROVE  waiting' \in [Queues -> SUBSET Threads]
BY DEF TypeOK, CondSignal

(* The holders change by the acting thread, and Cardinality with them. *)
LEMMA HoldersGrow ==
  ASSUME TypeOK, NEW t \in Threads, frame[t] = NoFrame,
         NEW f, f # NoFrame, frame' = [frame EXCEPT ![t] = f]
  PROVE  /\ Cardinality(Holders') = Cardinality(Holders) + 1
         /\ Cardinality(Holders) \in Nat
<1>1. IsFiniteSet(Holders)
  BY ThreadAssumption, FS_Subset DEF Holders
<1>2. Holders' = Holders \cup {t} /\ t \notin Holders
  BY DEF TypeOK, Holders
<1> QED
  BY <1>1, <1>2, FS_AddElement, FS_CardinalityType

LEMMA HoldersShrink ==
  ASSUME TypeOK, NEW t \in Threads, frame[t] # NoFrame,
         frame' = [frame EXCEPT ![t] = NoFrame]
  PROVE  /\ Cardinality(Holders') = Cardinality(Holders) - 1
         /\ Cardinality(Holders) \in Nat \ {0}
<1>1. IsFiniteSet(Holders)
  BY ThreadAssumption, FS_Subset DEF Holders
<1>2. Holders' = Holders \ {t} /\ t \in Holders
  BY DEF TypeOK, Holders
<1>3. Cardinality(Holders') = Cardinality(Holders) - 1
  BY <1>1, <1>2, FS_RemoveElement
<1>4. Cardinality(Holders) \in Nat /\ Cardinality(Holders') \in Nat
  BY <1>1, <1>2, FS_CardinalityType, FS_RemoveElement
<1> QED
  BY <1>3, <1>4

LEMMA LeakedFinite ==
  ASSUME TypeOK
  PROVE  IsFiniteSet(leaked) /\ Cardinality(leaked) \in Nat
<1>1. IsFiniteSet(Frames)
  BY FS_Interval, SizeAssumption DEF Frames
<1>2. IsFiniteSet(leaked)
  BY <1>1, FS_Subset DEF TypeOK
<1> QED
  BY <1>2, FS_CardinalityType

(* Whoever pushes holds a frame, so the queue it pushes to is not full. *)
LEMMA RoomToPush ==
  ASSUME IInv
  PROVE  PushNeverBlocks
<1> SUFFICES ASSUME NEW t \in Threads, Pushing(t)
             PROVE  count[QueueOf(t)] < MaxBuffers
  BY DEF PushNeverBlocks
<1>1. IsFiniteSet(Holders) /\ IsFiniteSet(leaked)
  BY ThreadAssumption, FS_Subset, LeakedFinite DEF Holders, IInv
<1>2. t \in Holders
  BY DEF IInv, HoldInv, Holders, Pushing, Popping
<1>3. /\ Cardinality(Holders) \in Nat \ {0}
      /\ Cardinality(leaked) \in Nat
  BY <1>1, <1>2, FS_CardinalityType, FS_EmptySet
<1>4. /\ count["free"] \in 0 .. MaxBuffers
      /\ count["used"] \in 0 .. MaxBuffers
  BY DEF IInv, TypeOK, Queues
<1> QED
  BY <1>3, <1>4, SizeAssumption DEF IInv, Conservation, QueueOf
-----------------------------------------------------------------------------
(* queue_pop returns: position head[q] gives its frame f to the thread,    *)
(* and only that position stops being occupied.                            *)
LEMMA PopEffect ==
  ASSUME IInv, NEW t \in Threads, Pop(t),
         NEW q \in Queues, q = QueueOf(t),
         NEW f, f = items[q][head[q]]
  PROVE  /\ head[q] \in Index /\ Succ(head[q]) \in Index
         /\ count[q] \in 1 .. MaxBuffers /\ count[q] - 1 \in 0 .. MaxBuffers
         /\ head' = [head EXCEPT ![q] = Succ(head[q])]
         /\ count' = [count EXCEPT ![q] = count[q] - 1]
         /\ items' = items /\ tail' = tail /\ CondSignal(q)
         /\ frame' = [frame EXCEPT ![t] = f]
         /\ leaked' = leaked /\ picture' = picture
         /\ pc' = [pc EXCEPT ![t] = IF @ = "popFree" THEN "fill" ELSE "read"]
         /\ \A q2 \in Queues, i \in Index :
              Occupied(q2, i)' <=> Occupied(q2, i) /\ ~(q2 = q /\ i = head[q])
         /\ Occupied(q, head[q])
         /\ f \in Frames /\ f # NoFrame /\ frame[t] = NoFrame
<1>1. /\ head[q] \in Index
      /\ count[q] \in 0 .. MaxBuffers
      /\ head \in [Queues -> Index]
      /\ count \in [Queues -> 0 .. MaxBuffers]
  BY DEF IInv, TypeOK
<1>0. count[q] \in 1 .. MaxBuffers /\ count[q] - 1 \in 0 .. MaxBuffers
  <2>1. count[q] # 0
    BY DEF Pop
  <2> QED
    BY <1>1, <2>1, SizeAssumption
<1>2. /\ head' = [head EXCEPT ![q] = Succ(head[q])]
      /\ count' = [count EXCEPT ![q] = count[q] - 1]
      /\ items' = items /\ tail' = tail /\ CondSignal(q)
      /\ frame' = [frame EXCEPT ![t] = f]
      /\ leaked' = leaked /\ picture' = picture
      /\ pc' = [pc EXCEPT ![t] = IF @ = "popFree" THEN "fill" ELSE "read"]
  BY <1>1, SuccIsModulo DEF Pop, Dequeue
<1>3. Succ(head[q]) \in Index
  BY <1>1, SuccIsModulo
<1>4. \A q2 \in Queues, i \in Index :
        Occupied(q2, i)' <=> Occupied(q2, i) /\ ~(q2 = q /\ i = head[q])
  <2> SUFFICES ASSUME NEW q2 \in Queues, NEW i \in Index
               PROVE  Occupied(q2, i)' <=>
                        Occupied(q2, i) /\ ~(q2 = q /\ i = head[q])
    OBVIOUS
  <2>1. CASE q2 = q
    <3>1. Occupied(q, i) <=> Dist(head[q], i) < count[q]
      BY DEF Occupied, Offset, Dist
    <3>2. head'[q] = Succ(head[q]) /\ count'[q] = count[q] - 1
      BY <1>1, <1>2
    <3>3. Occupied(q, i)' <=> Dist(Succ(head[q]), i) < count[q] - 1
      BY <3>2 DEF Occupied, Offset, Dist
    <3>4. Dist(Succ(head[q]), i) < count[q] - 1
            <=> Dist(head[q], i) < count[q] /\ i # head[q]
      BY <1>0, <1>1, DistAfterPop
    <3> QED
      BY <2>1, <3>1, <3>3, <3>4
  <2>2. CASE q2 # q
    BY <2>2, <1>1, <1>2 DEF Occupied, Offset
  <2> QED
    BY <2>1, <2>2
<1>5. Occupied(q, head[q])
  BY <1>0, <1>1 DEF Occupied, Offset, Index
<1>6. f \in Frames /\ f # NoFrame
  BY <1>1, <1>5, ValueAssumption DEF IInv, QueuedInv
<1>7. frame[t] = NoFrame
  BY DEF IInv, HoldInv, Pop
<1> QED
  BY <1>0, <1>1, <1>2, <1>3, <1>4, <1>5, <1>6, <1>7

(* The invariant, conjunct by conjunct. *)
LEMMA PopFrom ==
  ASSUME IInv, NEW t \in Threads, Pop(t),
         NEW q \in Queues, q = QueueOf(t),
         NEW f, f = items[q][head[q]]
  PROVE  IInv'
<1>1. /\ head[q] \in Index
      /\ count[q] \in 0 .. MaxBuffers
      /\ head \in [Queues -> Index]
      /\ count \in [Queues -> 0 .. MaxBuffers]
  BY DEF IInv, TypeOK
<1>0. count[q] \in 1 .. MaxBuffers /\ count[q] - 1 \in 0 .. MaxBuffers
  BY PopEffect
<1>2. /\ head' = [head EXCEPT ![q] = Succ(head[q])]
      /\ count' = [count EXCEPT ![q] = count[q] - 1]
      /\ items' = items /\ tail' = tail /\ CondSignal(q)
      /\ frame' = [frame EXCEPT ![t] = f]
      /\ leaked' = leaked /\ picture' = picture
      /\ pc' = [pc EXCEPT ![t] = IF @ = "popFree" THEN "fill" ELSE "read"]
  BY PopEffect
<1>3. Succ(head[q]) \in Index
  BY PopEffect
<1>4. \A q2 \in Queues, i \in Index :
        Occupied(q2, i)' <=> Occupied(q2, i) /\ ~(q2 = q /\ i = head[q])
  BY PopEffect
<1>5. Occupied(q, head[q])
  BY PopEffect
<1>6. f \in Frames /\ f # NoFrame
  BY PopEffect
<1>7. frame[t] = NoFrame
  BY PopEffect
<1>8. TypeOK'
  <2>1. waiting' \in [Queues -> SUBSET Threads]
    BY <1>2, WaitSetType DEF IInv
  <2> QED
    BY <2>1, <1>0, <1>1, <1>2, <1>3, <1>6 DEF IInv, TypeOK, Stages
<1>9. TailInv'
  <2> SUFFICES ASSUME NEW q2 \in Queues
               PROVE  tail'[q2] = IF head'[q2] + count'[q2] < MaxBuffers
                                  THEN head'[q2] + count'[q2]
                                  ELSE head'[q2] + count'[q2] - MaxBuffers
    BY DEF TailInv
  <2>1. tail[q2] = IF head[q2] + count[q2] < MaxBuffers
                   THEN head[q2] + count[q2]
                   ELSE head[q2] + count[q2] - MaxBuffers
    BY DEF IInv, TailInv
  <2>2. CASE q2 = q
    <3>1. head'[q2] = Succ(head[q]) /\ count'[q2] = count[q] - 1
      BY <2>2, <1>2 DEF IInv, TypeOK
    <3>2. tail[q] \in Index
      BY DEF IInv, TypeOK
    <3> QED
      BY <2>1, <2>2, <3>1, <3>2, <1>0, <1>1, <1>2, TailAfterMove
  <2>3. CASE q2 # q
    BY <2>1, <2>3, <1>2 DEF IInv, TypeOK
  <2> QED
    BY <2>2, <2>3
<1>10. HoldInv'
  BY <1>2, <1>6 DEF IInv, TypeOK, HoldInv, Popping, Pop
<1>11. QueuedInv'
  BY <1>2, <1>4 DEF IInv, QueuedInv
<1>12. ExclusiveOwnership'
  <2>1. \A t2 \in Threads : frame[t2] # f
    BY <1>1, <1>5 DEF IInv, ExclusiveOwnership
  <2>2. f \notin leaked
    BY <1>1, <1>5 DEF IInv, ExclusiveOwnership, InQueue
  <2>3. \A q2 \in Queues, i \in Index : Occupied(q2, i)' => items'[q2][i] # f
    BY <1>1, <1>2, <1>4, <1>5 DEF IInv, ExclusiveOwnership
  <2>4. \A t2 \in Threads : frame'[t2] = IF t2 = t THEN f ELSE frame[t2]
    BY <1>2 DEF IInv, TypeOK
  <2>5. \A q1, q2 \in Queues : \A i1, i2 \in Index :
          /\ Occupied(q1, i1)' /\ Occupied(q2, i2)'
          /\ items'[q1][i1] = items'[q2][i2]
          => q1 = q2 /\ i1 = i2
    BY <1>2, <1>4 DEF IInv, ExclusiveOwnership
  <2>6. \A t1, t2 \in Threads :
          frame'[t1] # NoFrame /\ frame'[t1] = frame'[t2] => t1 = t2
    BY <2>1, <2>4 DEF IInv, ExclusiveOwnership
  <2>7. \A t2 \in Threads, q2 \in Queues, i \in Index :
          Occupied(q2, i)' => items'[q2][i] # frame'[t2]
    BY <2>3, <2>4, <1>2, <1>4 DEF IInv, ExclusiveOwnership
  <2>8. \A g \in leaked :
          /\ \A t2 \in Threads : frame'[t2] # g
          /\ \A q2 \in Queues, i \in Index :
               ~(Occupied(q2, i)' /\ items'[q2][i] = g)
    BY <2>2, <2>4, <1>2, <1>4 DEF IInv, ExclusiveOwnership, HeldBy, InQueue
  <2> QED
    BY <2>5, <2>6, <2>7, <2>8, <1>2 DEF ExclusiveOwnership, HeldBy, InQueue
<1>13. Conservation'
  <2>1. /\ Cardinality(Holders') = Cardinality(Holders) + 1
        /\ Cardinality(Holders) \in Nat
    BY <1>2, <1>6, <1>7, HoldersGrow DEF IInv
  <2>2. count'["free"] + count'["used"] = count["free"] + count["used"] - 1
    BY <1>0, <1>1, <1>2 DEF Queues
  <2>3. Cardinality(leaked) \in Nat
    BY LeakedFinite DEF IInv
  <2>4. count["free"] \in Nat /\ count["used"] \in Nat
    BY DEF IInv, TypeOK, Queues
  <2> QED
    BY <2>1, <2>2, <2>3, <2>4, <1>2, SizeAssumption DEF IInv, Conservation,
       TypeOK, Queues
<1> QED
  BY <1>8, <1>9, <1>10, <1>11, <1>12, <1>13 DEF IInv

LEMMA PopInv ==
  ASSUME IInv, NEW t \in Threads, Pop(t)
  PROVE  IInv'
<1>1. QueueOf(t) \in Queues
  BY DEF QueueOf, Queues
<1> QED
  BY <1>1, PopFrom

(* queue_push stores: the thread gives its frame f to the tail's position, *)
(* that was free, and only that position becomes occupied.                 *)
LEMMA PushEffect ==
  ASSUME IInv, NEW t \in Threads, Push(t),
         NEW q \in Queues, q = QueueOf(t),
         NEW f, f = frame[t],
         NEW tl, tl = tail[q]
  PROVE  /\ head[q] \in Index /\ tl \in Index /\ Succ(tl) \in Index
         /\ count[q] \in 0 .. MaxBuffers - 1 /\ count[q] + 1 \in 0 .. MaxBuffers
         /\ tl = IF head[q] + count[q] < MaxBuffers
                 THEN head[q] + count[q] ELSE head[q] + count[q] - MaxBuffers
         /\ items' = [items EXCEPT ![q][tl] = f]
         /\ tail' = [tail EXCEPT ![q] = Succ(tl)]
         /\ count' = [count EXCEPT ![q] = count[q] + 1]
         /\ head' = head /\ CondSignal(q)
         /\ frame' = [frame EXCEPT ![t] = NoFrame]
         /\ leaked' = leaked /\ picture' = picture
         /\ pc' = [pc EXCEPT ![t] =
                      IF @ = "pushUsed" THEN "popFree" ELSE "popUsed"]
         /\ \A q2 \in Queues, i \in Index :
              Occupied(q2, i)' <=> Occupied(q2, i) \/ (q2 = q /\ i = tl)
         /\ ~Occupied(q, tl)
         /\ frame[t] = f /\ f # NoFrame /\ f \in Frames
         /\ \A t2 \in Threads : t2 # t => frame[t2] # f
         /\ \A q2 \in Queues, i \in Index : Occupied(q2, i) => items[q2][i] # f
         /\ f \notin leaked
         /\ \A q2 \in Queues, i \in Index :
              items'[q2][i] = IF q2 = q /\ i = tl THEN f ELSE items[q2][i]
<1>1. /\ head[q] \in Index
      /\ tl \in Index
      /\ count[q] \in 0 .. MaxBuffers - 1
      /\ count[q] + 1 \in 0 .. MaxBuffers
      /\ head \in [Queues -> Index]
      /\ tail \in [Queues -> Index]
      /\ count \in [Queues -> 0 .. MaxBuffers]
      /\ items \in [Queues -> [Index -> Frames \cup {NoFrame}]]
  BY SizeAssumption DEF IInv, TypeOK, Push
<1>2. /\ items' = [items EXCEPT ![q][tl] = f]
      /\ tail' = [tail EXCEPT ![q] = Succ(tl)]
      /\ count' = [count EXCEPT ![q] = count[q] + 1]
      /\ head' = head /\ CondSignal(q)
      /\ frame' = [frame EXCEPT ![t] = NoFrame]
      /\ leaked' = leaked /\ picture' = picture
      /\ pc' = [pc EXCEPT ![t] =
                   IF @ = "pushUsed" THEN "popFree" ELSE "popUsed"]
  BY <1>1, SuccIsModulo DEF Push, Enqueue
<1>3. Succ(tl) \in Index
  BY <1>1, SuccIsModulo
<1>4. tl = IF head[q] + count[q] < MaxBuffers
           THEN head[q] + count[q] ELSE head[q] + count[q] - MaxBuffers
  BY DEF IInv, TailInv
<1>5. \A q2 \in Queues, i \in Index :
        Occupied(q2, i)' <=> Occupied(q2, i) \/ (q2 = q /\ i = tl)
  <2> SUFFICES ASSUME NEW q2 \in Queues, NEW i \in Index
               PROVE  Occupied(q2, i)' <=>
                        Occupied(q2, i) \/ (q2 = q /\ i = tl)
    OBVIOUS
  <2>1. CASE q2 = q
    <3>1. Occupied(q, i) <=> Dist(head[q], i) < count[q]
      BY DEF Occupied, Offset, Dist
    <3>2. head'[q] = head[q] /\ count'[q] = count[q] + 1
      BY <1>1, <1>2
    <3>3. Occupied(q, i)' <=> Dist(head[q], i) < count[q] + 1
      BY <3>2 DEF Occupied, Offset, Dist
    <3>4. Dist(head[q], i) < count[q] + 1
            <=> Dist(head[q], i) < count[q] \/ i = tl
      BY <1>1, <1>4, DistAfterPush
    <3> QED
      BY <2>1, <3>1, <3>3, <3>4
  <2>2. CASE q2 # q
    BY <2>2, <1>1, <1>2 DEF Occupied, Offset
  <2> QED
    BY <2>1, <2>2
<1>6. ~Occupied(q, tl)
  <2>1. Occupied(q, tl) <=> Dist(head[q], tl) < count[q]
    BY DEF Occupied, Offset, Dist
  <2> QED
    BY <2>1, <1>1, <1>4, DistAfterPush
<1>7. /\ frame[t] = f /\ f # NoFrame /\ f \in Frames
      /\ \A t2 \in Threads : t2 # t => frame[t2] # f
      /\ \A q2 \in Queues, i \in Index : Occupied(q2, i) => items[q2][i] # f
      /\ f \notin leaked
  BY DEF IInv, TypeOK, HoldInv, Push, Pushing, Popping, ExclusiveOwnership,
         HeldBy
<1>8. \A q2 \in Queues, i \in Index :
        items'[q2][i] = IF q2 = q /\ i = tl THEN f ELSE items[q2][i]
  BY <1>1, <1>2
<1> QED
  BY <1>1, <1>2, <1>3, <1>4, <1>5, <1>6, <1>7, <1>8

(* The invariant, conjunct by conjunct. *)
LEMMA PushInto ==
  ASSUME IInv, NEW t \in Threads, Push(t),
         NEW q \in Queues, q = QueueOf(t),
         NEW f, f = frame[t],
         NEW tl, tl = tail[q]
  PROVE  IInv'
<1>1. /\ head[q] \in Index
      /\ tl \in Index
      /\ count[q] \in 0 .. MaxBuffers - 1
      /\ count[q] + 1 \in 0 .. MaxBuffers
      /\ head \in [Queues -> Index]
      /\ tail \in [Queues -> Index]
      /\ count \in [Queues -> 0 .. MaxBuffers]
      /\ items \in [Queues -> [Index -> Frames \cup {NoFrame}]]
  BY SizeAssumption DEF IInv, TypeOK, Push
<1>2. /\ items' = [items EXCEPT ![q][tl] = f]
      /\ tail' = [tail EXCEPT ![q] = Succ(tl)]
      /\ count' = [count EXCEPT ![q] = count[q] + 1]
      /\ head' = head /\ CondSignal(q)
      /\ frame' = [frame EXCEPT ![t] = NoFrame]
      /\ leaked' = leaked /\ picture' = picture
      /\ pc' = [pc EXCEPT ![t] =
                   IF @ = "pushUsed" THEN "popFree" ELSE "popUsed"]
  BY PushEffect
<1>3. Succ(tl) \in Index
  BY PushEffect
<1>4. tl = IF head[q] + count[q] < MaxBuffers
           THEN head[q] + count[q] ELSE head[q] + count[q] - MaxBuffers
  BY PushEffect
<1>5. \A q2 \in Queues, i \in Index :
        Occupied(q2, i)' <=> Occupied(q2, i) \/ (q2 = q /\ i = tl)
  BY PushEffect
<1>6. ~Occupied(q, tl)
  BY PushEffect
<1>7. /\ frame[t] = f /\ f # NoFrame /\ f \in Frames
      /\ \A t2 \in Threads : t2 # t => frame[t2] # f
      /\ \A q2 \in Queues, i \in Index : Occupied(q2, i) => items[q2][i] # f
      /\ f \notin leaked
  BY PushEffect
<1>8. \A q2 \in Queues, i \in Index :
        items'[q2][i] = IF q2 = q /\ i = tl THEN f ELSE items[q2][i]
  BY PushEffect
<1>9. TypeOK'
  <2>1. waiting' \in [Queues -> SUBSET Threads]
    BY <1>2, WaitSetType DEF IInv
  <2>2. items' \in [Queues -> [Index -> Frames \cup {NoFrame}]]
    BY <1>1, <1>2, <1>7
  <2> QED
    BY <2>1, <2>2, <1>1, <1>2, <1>3 DEF IInv, TypeOK, Stages
<1>10. TailInv'
  <2> SUFFICES ASSUME NEW q2 \in Queues
               PROVE  tail'[q2] = IF head'[q2] + count'[q2] < MaxBuffers
                                  THEN head'[q2] + count'[q2]
                                  ELSE head'[q2] + count'[q2] - MaxBuffers
    BY DEF TailInv
  <2>1. CASE q2 = q
    <3>1. /\ head'[q2] = head[q] /\ count'[q2] = count[q] + 1
          /\ tail'[q2] = Succ(tl)
      BY <2>1, <1>1, <1>2
    <3>2. count[q] \in 0 .. MaxBuffers /\ count[q] < MaxBuffers
      BY <1>1, SizeAssumption
    <3> QED
      BY <3>1, <3>2, <1>1, <1>4, TailAfterMove
  <2>2. CASE q2 # q
    BY <2>2, <1>1, <1>2 DEF IInv, TailInv
  <2> QED
    BY <2>1, <2>2
<1>11. HoldInv'
  <2> SUFFICES ASSUME NEW t2 \in Threads
               PROVE  frame'[t2] = NoFrame
                        <=> pc'[t2] \in {"popFree", "popUsed"}
    BY DEF HoldInv, Popping
  <2> QED
    BY <1>2 DEF IInv, TypeOK, HoldInv, Popping
<1>12. QueuedInv'
  BY <1>5, <1>7, <1>8 DEF IInv, QueuedInv
<1>13. ExclusiveOwnership'
  <2>1. \A t2 \in Threads : frame'[t2] = IF t2 = t THEN NoFrame ELSE frame[t2]
    BY <1>2 DEF IInv, TypeOK
  <2>2. \A q1, q2 \in Queues : \A i1, i2 \in Index :
          /\ Occupied(q1, i1)' /\ Occupied(q2, i2)'
          /\ items'[q1][i1] = items'[q2][i2]
          => q1 = q2 /\ i1 = i2
    BY <1>5, <1>6, <1>7, <1>8 DEF IInv, ExclusiveOwnership
  <2>3. \A t1, t2 \in Threads :
          frame'[t1] # NoFrame /\ frame'[t1] = frame'[t2] => t1 = t2
    BY <2>1 DEF IInv, ExclusiveOwnership
  <2>4. \A t2 \in Threads, q2 \in Queues, i \in Index :
          Occupied(q2, i)' => items'[q2][i] # frame'[t2]
    <3>1. \A q2 \in Queues, i \in Index :
            Occupied(q2, i)' => items'[q2][i] # NoFrame
      BY <1>12, ValueAssumption DEF QueuedInv
    <3> QED
      BY <3>1, <2>1, <1>5, <1>7, <1>8 DEF IInv, ExclusiveOwnership
  <2>5. \A g \in leaked :
          /\ \A t2 \in Threads : frame'[t2] # g
          /\ \A q2 \in Queues, i \in Index :
               ~(Occupied(q2, i)' /\ items'[q2][i] = g)
    <3>1. \A g \in leaked : g # NoFrame
      BY ValueAssumption DEF IInv, TypeOK
    <3> QED
      BY <3>1, <2>1, <1>5, <1>7, <1>8
      DEF IInv, ExclusiveOwnership, HeldBy, InQueue
  <2> QED
    BY <2>2, <2>3, <2>4, <2>5, <1>2 DEF ExclusiveOwnership, HeldBy, InQueue
<1>14. Conservation'
  <2>1. /\ Cardinality(Holders') = Cardinality(Holders) - 1
        /\ Cardinality(Holders) \in Nat \ {0}
    BY <1>2, <1>7, HoldersShrink DEF IInv
  <2>2. count'["free"] + count'["used"] = count["free"] + count["used"] + 1
    BY <1>1, <1>2 DEF Queues
  <2>3. Cardinality(leaked) \in Nat
    BY LeakedFinite DEF IInv
  <2>4. count["free"] \in Nat /\ count["used"] \in Nat
    BY DEF IInv, TypeOK, Queues
  <2>5. count["free"] + count["used"] + Cardinality(Holders)
          + Cardinality(leaked) = MaxBuffers
    BY DEF IInv, Conservation
  <2>6. Cardinality(leaked') = Cardinality(leaked)
    BY <1>2
  <2>7. count'["free"] + count'["used"] + Cardinality(Holders')
          + Cardinality(leaked') = MaxBuffers
    BY <2>1, <2>2, <2>3, <2>4, <2>5, <2>6, SizeAssumption
  <2> QED
    BY <2>7 DEF Conservation
<1> QED
  BY <1>9, <1>10, <1>11, <1>12, <1>13, <1>14 DEF IInv

LEMMA PushInv ==
  ASSUME IInv, NEW t \in Threads, Push(t)
  PROVE  IInv'
<1>1. QueueOf(t) \in Queues
  BY DEF QueueOf, Queues
<1> QED
  BY <1>1, PushInto

(* Sleeping, waking, copying and reading move no frame. *)
LEMMA QuietInv ==
  ASSUME IInv,
         UNCHANGED <<items, head, tail, count, frame, leaked>>,
         waiting' \in [Queues -> SUBSET Threads],
         pc' \in [Threads -> Stages],
         picture' \in [Frames -> Pictures \cup {NoPicture}],
         \A t \in Threads : Popping(t)' <=> Popping(t)
  PROVE  IInv'
<1>1. TypeOK'
  BY DEF IInv, TypeOK
<1>2. TailInv' /\ QueuedInv'
  BY DEF IInv, TailInv, QueuedInv, Occupied, Offset
<1>3. HoldInv'
  BY DEF IInv, HoldInv
<1>4. ExclusiveOwnership'
  BY DEF IInv, ExclusiveOwnership, HeldBy, InQueue, Occupied, Offset
<1>5. Conservation'
  BY DEF IInv, Conservation, Holders
<1> QED
  BY <1>1, <1>2, <1>3, <1>4, <1>5 DEF IInv

(* A failed send takes the frame away from everybody. *)
LEMMA SendFailsInv ==
  ASSUME IInv, NEW t \in Threads, SendFails(t)
  PROVE  IInv'
<1>1. /\ frame[t] \in Frames /\ frame[t] # NoFrame
      /\ frame[t] \notin leaked
      /\ frame' = [frame EXCEPT ![t] = NoFrame]
      /\ leaked' = leaked \cup {frame[t]}
      /\ UNCHANGED <<items, head, tail, count, waiting, picture>>
      /\ pc' = [pc EXCEPT ![t] = "popUsed"]
  BY DEF IInv, TypeOK, HoldInv, Popping, SendFails, ExclusiveOwnership, HeldBy
<1>2. \A t2 \in Threads : frame'[t2] = IF t2 = t THEN NoFrame ELSE frame[t2]
  BY <1>1 DEF IInv, TypeOK
<1>3. TypeOK'
  BY <1>1 DEF IInv, TypeOK, Stages
<1>4. TailInv' /\ QueuedInv'
  BY <1>1 DEF IInv, TailInv, QueuedInv, Occupied, Offset
<1>5. HoldInv'
  BY <1>1 DEF IInv, TypeOK, HoldInv, Popping
<1>6. ExclusiveOwnership'
  <2>1. \A q \in Queues, i \in Index : Occupied(q, i) => items[q][i] # NoFrame
    BY ValueAssumption DEF IInv, QueuedInv
  <2>2. \A g \in leaked : g # NoFrame
    BY ValueAssumption DEF IInv, TypeOK
  <2>3. \A q \in Queues, i \in Index : Occupied(q, i)' <=> Occupied(q, i)
    BY <1>1 DEF Occupied, Offset
  <2>4. \A t1, t2 \in Threads :
          frame'[t1] # NoFrame /\ frame'[t1] = frame'[t2] => t1 = t2
    BY <1>2 DEF IInv, ExclusiveOwnership
  <2>5. \A g \in leaked' :
          /\ \A t2 \in Threads : frame'[t2] # g
          /\ \A q \in Queues, i \in Index : ~(Occupied(q, i) /\ items[q][i] = g)
    BY <1>1, <1>2, <2>2 DEF IInv, ExclusiveOwnership, HeldBy, InQueue
  <2>6. \A t2 \in Threads, q \in Queues, i \in Index :
          Occupied(q, i) => items[q][i] # frame'[t2]
    BY <1>2, <2>1 DEF IInv, ExclusiveOwnership
  <2>7. \A q1, q2 \in Queues : \A i1, i2 \in Index :
          /\ Occupied(q1, i1) /\ Occupied(q2, i2)
          /\ items[q1][i1] = items[q2][i2]
          => q1 = q2 /\ i1 = i2
    BY DEF IInv, ExclusiveOwnership
  <2> QED
    BY <1>1, <2>3, <2>4, <2>5, <2>6, <2>7
    DEF ExclusiveOwnership, HeldBy, InQueue
<1>7. Conservation'
  <2>1. /\ Cardinality(Holders') = Cardinality(Holders) - 1
        /\ Cardinality(Holders) \in Nat \ {0}
    BY <1>1, HoldersShrink DEF IInv
  <2>2. Cardinality(leaked') = Cardinality(leaked) + 1
    BY <1>1, LeakedFinite, FS_AddElement DEF IInv
  <2>3. Cardinality(leaked) \in Nat
    BY LeakedFinite DEF IInv
  <2>4. count["free"] \in Nat /\ count["used"] \in Nat
    BY DEF IInv, TypeOK, Queues
  <2> QED
    BY <2>1, <2>2, <2>3, <2>4, <1>1, SizeAssumption DEF IInv, Conservation
<1> QED
  BY <1>3, <1>4, <1>5, <1>6, <1>7 DEF IInv

LEMMA NextInv == IInv /\ [Next]_vars => IInv'
<1> SUFFICES ASSUME IInv, [Next]_vars PROVE IInv'
  OBVIOUS
<1> USE DEF Popping
<1>1. ASSUME NEW t \in Threads, Wait(t) PROVE IInv'
  <2>1. QueueOf(t) \in Queues
    BY DEF QueueOf, Queues
  <2>2. waiting' \in [Queues -> SUBSET Threads]
    BY <1>1, <2>1, WaitSetType DEF Wait, CondWait, IInv
  <2> QED
    BY <1>1, <2>2, QuietInv DEF Wait, CondWait, IInv, TypeOK
<1>2. ASSUME NEW t \in Threads, NEW p \in Pictures, Fill(t, p) PROVE IInv'
  <2>1. /\ pc' \in [Threads -> Stages]
        /\ picture' \in [Frames -> Pictures \cup {NoPicture}]
    BY <1>2 DEF Fill, IInv, TypeOK, Stages
  <2>2. \A t2 \in Threads : Popping(t2)' <=> Popping(t2)
    BY <1>2 DEF Fill, IInv, TypeOK
  <2> QED
    BY <1>2, <2>1, <2>2, QuietInv DEF Fill, IInv, TypeOK
<1>3. ASSUME NEW t \in Threads, FinishRead(t) PROVE IInv'
  <2>1. pc' \in [Threads -> Stages]
    BY <1>3 DEF FinishRead, IInv, TypeOK, Stages
  <2>2. \A t2 \in Threads : Popping(t2)' <=> Popping(t2)
    BY <1>3 DEF FinishRead, IInv, TypeOK
  <2> QED
    BY <1>3, <2>1, <2>2, QuietInv DEF FinishRead, IInv, TypeOK
<1>4. ASSUME NEW t \in Threads, NEW q \in Queues, SpuriousWakeup(t, q)
      PROVE IInv'
  <2>1. waiting' \in [Queues -> SUBSET Threads]
    BY <1>4, WaitSetType DEF SpuriousWakeup, IInv
  <2> QED
    BY <1>4, <2>1, QuietInv DEF SpuriousWakeup, IInv, TypeOK
<1>5. CASE UNCHANGED vars
  BY <1>5, QuietInv DEF vars, IInv, TypeOK
<1> QED
  BY <1>1, <1>2, <1>3, <1>4, <1>5, PopInv, PushInv, SendFailsInv DEF Next

LEMMA Invariance == Spec => []IInv
<1> QED
  BY InitInv, NextInv, PTL DEF Spec

(***************************************************************************)
(* The variables keep their types; among others, head and tail stay inside *)
(* the array and count stays within its size, however pushes and pops      *)
(* interleave.                                                             *)
(***************************************************************************)
THEOREM TypeCorrectness == Spec => []TypeOK
<1>1. IInv => TypeOK
  BY DEF IInv
<1> QED
  BY <1>1, Invariance, PTL

(***************************************************************************)
(* No frame is ever in two hands, or in a hand and in a queue: the capture *)
(* thread never overwrites a frame a viewer is reading.                    *)
(***************************************************************************)
THEOREM Exclusion == Spec => []ExclusiveOwnership
<1>1. IInv => ExclusiveOwnership
  BY DEF IInv
<1> QED
  BY <1>1, Invariance, PTL

(* Only a failed send loses a frame. *)
THEOREM FramesConserved == Spec => []Conservation
<1>1. IInv => Conservation
  BY DEF IInv
<1> QED
  BY <1>1, Invariance, PTL

(* The wait for room in queue_push is dead code: no push ever blocks. *)
THEOREM PushNeverWaits == Spec => []PushNeverBlocks
<1> QED
  BY RoomToPush, Invariance, PTL
-----------------------------------------------------------------------------
(* What the frames show, and who sleeps where.                             *)

(* A thread stays in the loop of its side. *)
StageInv ==
  /\ \A t \in Producers : pc[t] \in {"popFree", "fill", "pushUsed"}
  /\ \A t \in Consumers : pc[t] \in {"popUsed", "read", "pushFree"}

(* From the copy of ringbuffer_push to the end of the reader's look at it  *)
(* a frame shows a picture, in a hand and in the used queue alike.         *)
FilledInv ==
  /\ \A i \in Index : Occupied("used", i) => picture[items["used"][i]] \in Pictures
  /\ \A t \in Threads : pc[t] \in {"pushUsed", "read"} => picture[frame[t]] \in Pictures

(* Nobody sleeps for room: all that wait on the condition variable of a    *)
(* queue are about to pop from that queue.                                 *)
WaitersPop ==
  \A q \in Queues : \A t \in waiting[q] : Popping(t) /\ QueueOf(t) = q

FrameInv == IInv /\ StageInv /\ FilledInv
SleepInv == IInv /\ StageInv /\ WaitersPop /\ NoLostWakeup

LEMMA StageStep ==
  ASSUME IInv, StageInv, [Next]_vars
  PROVE  StageInv'
<1>1. \A t \in Threads :
        \/ pc'[t] = pc[t]
        \/ Pop(t) \/ Push(t) \/ FinishRead(t) \/ SendFails(t)
        \/ \E p \in Pictures : Fill(t, p)
  BY DEF Next, vars, Wait, CondWait, Pop, Push, Fill, FinishRead, SendFails,
         SpuriousWakeup, IInv, TypeOK
<1>2. \A t \in Threads :
        \/ pc'[t] = pc[t]
        \/ pc[t] = "popFree" /\ pc'[t] = "fill"
        \/ pc[t] = "fill" /\ pc'[t] = "pushUsed"
        \/ pc[t] = "pushUsed" /\ pc'[t] = "popFree"
        \/ pc[t] = "popUsed" /\ pc'[t] = "read"
        \/ pc[t] = "read" /\ pc'[t] \in {"pushFree", "popUsed"}
        \/ pc[t] = "pushFree" /\ pc'[t] = "popUsed"
  BY <1>1 DEF Pop, Push, Fill, FinishRead, SendFails, Popping, Pushing, IInv, TypeOK
<1> QED
  BY <1>2 DEF StageInv, Threads

(* The picture of a frame in a hand changes by its holder only. *)
LEMMA FilledStep ==
  ASSUME FrameInv, [Next]_vars
  PROVE  FilledInv'
<1> USE DEF FrameInv
<1>1. ASSUME NEW t \in Threads, Pop(t) PROVE FilledInv'
  <2> DEFINE q == QueueOf(t)
             f == items[q][head[q]]
  <2>1. q \in Queues
    BY DEF QueueOf, Queues
  <2>2. /\ frame' = [frame EXCEPT ![t] = f]
        /\ pc' = [pc EXCEPT ![t] = IF @ = "popFree" THEN "fill" ELSE "read"]
        /\ items' = items /\ picture' = picture
        /\ \A q2 \in Queues, i \in Index : Occupied(q2, i)' => Occupied(q2, i)
        /\ Occupied(q, head[q]) /\ head[q] \in Index
    BY <1>1, <2>1, PopEffect
  <2>3. pc'[t] = "read" => q = "used"
    BY <1>1, <2>2 DEF QueueOf, Pop, Popping, IInv, TypeOK
  <2>4. pc'[t] = "read" => picture[f] \in Pictures
    BY <2>2, <2>3 DEF FilledInv
  <2>5. pc'[t] # "pushUsed"
    BY <2>2 DEF IInv, TypeOK
  <2> HIDE DEF q, f
  <2>6. \A t2 \in Threads : pc'[t2] \in {"pushUsed", "read"} =>
          picture'[frame'[t2]] \in Pictures
    BY <2>2, <2>4, <2>5 DEF FilledInv, IInv, TypeOK
  <2>7. \A i \in Index : Occupied("used", i)' =>
          picture'[items'["used"][i]] \in Pictures
    BY <2>2 DEF FilledInv, Queues
  <2> QED
    BY <2>6, <2>7 DEF FilledInv
<1>2. ASSUME NEW t \in Threads, Push(t) PROVE FilledInv'
  <2> DEFINE q == QueueOf(t)
             f == frame[t]
  <2>1. q \in Queues /\ (q = "used" => pc[t] = "pushUsed")
    BY <1>2 DEF QueueOf, Queues, Push, Pushing
  <2>2. /\ frame' = [frame EXCEPT ![t] = NoFrame] /\ picture' = picture
        /\ pc' = [pc EXCEPT ![t] = IF @ = "pushUsed" THEN "popFree" ELSE "popUsed"]
        /\ \A q2 \in Queues, i \in Index :
             Occupied(q2, i)' <=> Occupied(q2, i) \/ (q2 = q /\ i = tail[q])
        /\ \A q2 \in Queues, i \in Index :
             items'[q2][i] = IF q2 = q /\ i = tail[q] THEN f ELSE items[q2][i]
    BY <1>2, <2>1, PushEffect
  <2>3. q = "used" => picture[f] \in Pictures
    BY <2>1 DEF FilledInv
  <2> HIDE DEF q, f
  <2>4. \A t2 \in Threads : pc'[t2] \in {"pushUsed", "read"} =>
          picture'[frame'[t2]] \in Pictures
    BY <2>2 DEF FilledInv, IInv, TypeOK
  <2>5. \A i \in Index : Occupied("used", i)' =>
          picture'[items'["used"][i]] \in Pictures
    BY <2>2, <2>3 DEF FilledInv, Queues
  <2> QED
    BY <2>4, <2>5 DEF FilledInv
<1>3. ASSUME NEW t \in Threads, NEW p \in Pictures, Fill(t, p) PROVE FilledInv'
  <2>1. /\ UNCHANGED <<items, head, count, frame>>
        /\ picture' = [picture EXCEPT ![frame[t]] = p]
        /\ pc' = [pc EXCEPT ![t] = "pushUsed"]
        /\ frame[t] \in Frames /\ frame[t] # NoFrame
    BY <1>3 DEF Fill, IInv, HoldInv, TypeOK, Popping
  <2>2. \A f \in Frames : picture'[f] = IF f = frame[t] THEN p ELSE picture[f]
    BY <2>1 DEF IInv, TypeOK
  <2>3. \A i \in Index : Occupied("used", i)' <=> Occupied("used", i)
    BY <2>1 DEF Occupied, Offset
  <2>4. \A i \in Index : Occupied("used", i) => /\ items["used"][i] \in Frames
                                                /\ items["used"][i] # frame[t]
    BY DEF IInv, QueuedInv, ExclusiveOwnership, Queues
  <2>5. \A t2 \in Threads : pc'[t2] \in {"pushUsed", "read"} =>
          /\ frame[t2] \in Frames
          /\ t2 = t \/ pc[t2] \in {"pushUsed", "read"}
    BY <2>1 DEF IInv, HoldInv, TypeOK, Popping
  <2> QED
    BY <2>1, <2>2, <2>3, <2>4, <2>5 DEF FilledInv
<1>4. ASSUME NEW t \in Threads, FinishRead(t) \/ SendFails(t) PROVE FilledInv'
  BY <1>4 DEF FinishRead, SendFails, FilledInv, Occupied, Offset, IInv, TypeOK
<1>5. ASSUME UNCHANGED <<items, head, count, pc, frame, picture>> PROVE FilledInv'
  BY <1>5 DEF FilledInv, Occupied, Offset
<1> QED
  BY <1>1, <1>2, <1>3, <1>4, <1>5
  DEF Next, vars, Wait, CondWait, SpuriousWakeup

LEMMA FrameInvariance == Spec => []FrameInv
<1>1. Init => FrameInv
  <2>1. ASSUME Init PROVE StageInv
    BY <2>1, ThreadAssumption DEF Init, StageInv, Threads
  <2>2. ASSUME Init PROVE FilledInv
    BY <2>2, SizeAssumption
    DEF Init, FilledInv, Occupied, Offset, Queues, Index
  <2> QED
    BY <2>1, <2>2, InitInv DEF FrameInv
<1>2. FrameInv /\ [Next]_vars => FrameInv'
  BY NextInv, StageStep, FilledStep DEF FrameInv
<1> QED
  BY <1>1, <1>2, PTL DEF Spec

(***************************************************************************)
(* need_data and stream_video only ever look at frames that ringbuffer_push*)
(* has copied a picture into, never at what malloc returned.               *)
(***************************************************************************)
THEOREM NeverBlank == Spec => []NoBlankPicture
<1>1. FrameInv => NoBlankPicture
  BY ValueAssumption DEF FrameInv, FilledInv, NoBlankPicture, Threads
<1> QED
  BY <1>1, FrameInvariance, PTL

(* pthread_cond_signal wakes a popper of the queue, if one sleeps on it. *)
LEMMA SignalWakes ==
  ASSUME IInv, WaitersPop, NEW q \in Queues, CondSignal(q)
  PROVE  /\ \A q2 \in Queues : waiting'[q2] \subseteq waiting[q2]
         /\ \A q2 \in Queues : q2 # q => waiting'[q2] = waiting[q2]
         /\ waiting[q] # {} =>
              \E s \in waiting[q] : \A q2 \in Queues : s \notin waiting'[q2]
<1>1. CASE waiting[q] = {} /\ UNCHANGED waiting
  BY <1>1
<1>2. ASSUME NEW s \in waiting[q], waiting' = [waiting EXCEPT ![q] = @ \ {s}]
      PROVE  /\ \A q2 \in Queues : waiting'[q2] \subseteq waiting[q2]
             /\ \A q2 \in Queues : q2 # q => waiting'[q2] = waiting[q2]
             /\ \A q2 \in Queues : s \notin waiting'[q2]
  <2>1. \A q2 \in Queues :
          waiting'[q2] = IF q2 = q THEN waiting[q] \ {s} ELSE waiting[q2]
    BY <1>2 DEF IInv, TypeOK
  <2>2. \A q2 \in Queues : q2 # q => s \notin waiting[q2]
    BY DEF WaitersPop
  <2> QED
    BY <2>1, <2>2
<1> QED
  BY <1>1, <1>2 DEF CondSignal

(* Whoever goes to sleep found nothing to pop. *)
LEMMA WaitEffect ==
  ASSUME IInv, NEW t \in Threads, Wait(t)
  PROVE  /\ QueueOf(t) \in Queues /\ Popping(t) /\ count[QueueOf(t)] = 0
         /\ waiting' = [waiting EXCEPT ![QueueOf(t)] = @ \cup {t}]
         /\ pc' = pc /\ count' = count
<1>1. QueueOf(t) \in Queues
  BY DEF QueueOf, Queues
<1>2. Pushing(t) => count[QueueOf(t)] < MaxBuffers
  BY RoomToPush DEF PushNeverBlocks
<1>3. count[QueueOf(t)] \in 0 .. MaxBuffers
  BY <1>1 DEF IInv, TypeOK
<1>4. Popping(t) /\ count[QueueOf(t)] = 0
  <2>1. MustWait(t)
    BY DEF Wait
  <2>2. ~(Pushing(t) /\ count[QueueOf(t)] >= MaxBuffers)
    BY <1>2, <1>3, SizeAssumption
  <2> QED
    BY <2>1, <2>2 DEF MustWait
<1> QED
  BY <1>1, <1>4 DEF Wait, CondWait

(* Only a thread that pops goes to sleep, and only awake threads move. *)
LEMMA WaitersStep ==
  ASSUME SleepInv, [Next]_vars
  PROVE  WaitersPop'
<1> USE DEF SleepInv
<1>1. ASSUME NEW t \in Threads, Wait(t) PROVE WaitersPop'
  <2> DEFINE q == QueueOf(t)
  <2>1. /\ q \in Queues /\ Popping(t) /\ pc' = pc
        /\ waiting' = [waiting EXCEPT ![q] = @ \cup {t}]
    BY <1>1, WaitEffect
  <2>2. \A q2 \in Queues :
          waiting'[q2] = IF q2 = q THEN waiting[q] \cup {t} ELSE waiting[q2]
    BY <2>1 DEF IInv, TypeOK
  <2> QED
    BY <2>1, <2>2 DEF WaitersPop, Popping, QueueOf
<1>2. ASSUME NEW t \in Threads, Awake(t) \/ ~Popping(t),
             \A t2 \in Threads : t2 # t => pc'[t2] = pc[t2],
             \A q \in Queues : waiting'[q] \subseteq waiting[q]
      PROVE  WaitersPop'
  <2>1. \A q \in Queues : t \notin waiting[q]
    BY <1>2 DEF WaitersPop, Awake
  <2>2. \A q \in Queues : \A t2 \in waiting'[q] :
          t2 \in Threads /\ t2 # t /\ t2 \in waiting[q]
    BY <1>2, <2>1 DEF IInv, TypeOK
  <2> QED
    BY <1>2, <2>2 DEF WaitersPop, Popping, QueueOf
<1>3. ASSUME NEW t \in Threads, Pop(t) \/ Push(t) PROVE WaitersPop'
  <2>1. QueueOf(t) \in Queues
    BY DEF QueueOf, Queues
  <2>2. /\ CondSignal(QueueOf(t)) /\ Awake(t)
        /\ \A t2 \in Threads : t2 # t => pc'[t2] = pc[t2]
    BY <1>3 DEF Pop, Push, Dequeue, Enqueue, IInv, TypeOK
  <2> QED
    BY <1>2, <2>1, <2>2, SignalWakes
<1>4. ASSUME NEW t \in Threads,
             FinishRead(t) \/ SendFails(t) \/ \E p \in Pictures : Fill(t, p)
      PROVE  WaitersPop'
  <2>1. /\ ~Popping(t) /\ waiting' = waiting
        /\ \A t2 \in Threads : t2 # t => pc'[t2] = pc[t2]
    BY <1>4 DEF FinishRead, SendFails, Fill, Popping, IInv, TypeOK
  <2> QED
    BY <1>2, <2>1
<1>5. ASSUME NEW t \in Threads, NEW q \in Queues, SpuriousWakeup(t, q)
      PROVE  WaitersPop'
  <2>1. /\ pc' = pc
        /\ \A q2 \in Queues : waiting'[q2] \subseteq waiting[q2]
    BY <1>5 DEF SpuriousWakeup, IInv, TypeOK
  <2> QED
    BY <2>1 DEF WaitersPop, Popping, QueueOf
<1>6. ASSUME UNCHANGED vars PROVE WaitersPop'
  BY <1>6 DEF vars, WaitersPop, Popping, QueueOf
<1> QED
  BY <1>1, <1>3, <1>4, <1>5, <1>6 DEF Next

(***************************************************************************)
(* A queue gains a frame, or a popper leaves it, only in a step that       *)
(* signals it: if anybody sleeps there, the woken thread is the popper.    *)
(***************************************************************************)
LEMMA WakeupStep ==
  ASSUME SleepInv, [Next]_vars
  PROVE  NoLostWakeup'
<1> USE DEF SleepInv
<1> SUFFICES ASSUME NEW q \in Queues, waiting'[q] # {}, count'[q] > 0
             PROVE  \E s \in Threads : Awake(s)' /\ Popping(s)' /\ (QueueOf(s))' = q
  BY DEF NoLostWakeup
<1> DEFINE Taker(s) == Awake(s) /\ Popping(s) /\ QueueOf(s) = q
<1>0. /\ waiting \in [Queues -> SUBSET Threads]
      /\ pc \in [Threads -> Stages]
  BY DEF IInv, TypeOK
<1>1. waiting[q] # {} /\ count[q] > 0 => \E s \in Threads : Taker(s)
  BY DEF NoLostWakeup
<1>2. ASSUME NEW t \in Threads, Wait(t) PROVE \E s \in Threads : Taker(s)'
  <2>1. /\ QueueOf(t) \in Queues /\ count[QueueOf(t)] = 0
        /\ waiting' = [waiting EXCEPT ![QueueOf(t)] = @ \cup {t}]
        /\ pc' = pc /\ count' = count
    BY <1>2, WaitEffect
  <2>2. QueueOf(t) # q /\ waiting[q] # {} /\ count[q] > 0
    BY <2>1, <1>0
  <2>3. PICK s \in Threads : Taker(s)
    BY <2>2, <1>1
  <2>4. s # t
    BY <2>2, <2>3
  <2> QED
    BY <2>1, <2>3, <2>4, <1>0 DEF Awake, Popping, QueueOf
<1>3. ASSUME NEW t \in Threads, Pop(t) \/ Push(t) PROVE \E s \in Threads : Taker(s)'
  <2>1. QueueOf(t) \in Queues
    BY DEF QueueOf, Queues
  <2>2. /\ CondSignal(QueueOf(t)) /\ Awake(t)
        /\ \A t2 \in Threads : t2 # t => pc'[t2] = pc[t2]
        /\ \A q2 \in Queues : q2 # QueueOf(t) => count'[q2] = count[q2]
    BY <1>3 DEF Pop, Push, Dequeue, Enqueue, IInv, TypeOK
  <2>3. /\ \A q2 \in Queues : waiting'[q2] \subseteq waiting[q2]
        /\ \A q2 \in Queues : q2 # QueueOf(t) => waiting'[q2] = waiting[q2]
        /\ waiting[QueueOf(t)] # {} =>
             \E s \in waiting[QueueOf(t)] : \A q2 \in Queues : s \notin waiting'[q2]
    BY <2>1, <2>2, SignalWakes
  <2>4. CASE q = QueueOf(t)
    <3>1. PICK s \in waiting[q] : \A q2 \in Queues : s \notin waiting'[q2]
      BY <2>3, <2>4
    <3>2. s \in Threads /\ s # t /\ Popping(s) /\ QueueOf(s) = q
      BY <2>2, <1>0 DEF WaitersPop, Awake
    <3> QED
      BY <2>2, <3>1, <3>2 DEF Awake, Popping, QueueOf
  <2>5. CASE q # QueueOf(t)
    <3>1. PICK s \in Threads : Taker(s)
      BY <1>1, <2>2, <2>3, <2>5
    <3>2. s # t
      BY <3>1, <2>5
    <3> QED
      BY <2>2, <2>3, <3>1, <3>2 DEF Awake, Popping, QueueOf
  <2> QED
    BY <2>4, <2>5
<1>4. ASSUME NEW t \in Threads,
             FinishRead(t) \/ SendFails(t) \/ \E p \in Pictures : Fill(t, p)
      PROVE  \E s \in Threads : Taker(s)'
  <2>1. /\ ~Popping(t) /\ waiting' = waiting /\ count' = count
        /\ \A t2 \in Threads : t2 # t => pc'[t2] = pc[t2]
    BY <1>4, <1>0 DEF FinishRead, SendFails, Fill, Popping
  <2>2. PICK s \in Threads : Taker(s)
    BY <1>1, <2>1
  <2> QED
    BY <2>1, <2>2 DEF Awake, Popping, QueueOf
<1>5. ASSUME NEW t \in Threads, NEW q2 \in Queues, SpuriousWakeup(t, q2)
      PROVE  \E s \in Threads : Taker(s)'
  <2>1. /\ pc' = pc /\ count' = count
        /\ \A q3 \in Queues : waiting'[q3] \subseteq waiting[q3]
    BY <1>5, <1>0 DEF SpuriousWakeup
  <2>2. PICK s \in Threads : Taker(s)
    BY <1>1, <2>1
  <2> QED
    BY <2>1, <2>2 DEF Awake, Popping, QueueOf
<1>6. ASSUME UNCHANGED vars PROVE \E s \in Threads : Taker(s)'
  BY <1>1, <1>6 DEF vars, Awake, Popping, QueueOf
<1> QED
  BY <1>2, <1>3, <1>4, <1>5, <1>6 DEF Next

LEMMA SleepInvariance == Spec => []SleepInv
<1>1. Init => SleepInv
  <2>1. ASSUME Init PROVE StageInv
    BY <2>1, ThreadAssumption DEF Init, StageInv, Threads
  <2>2. ASSUME Init PROVE WaitersPop /\ NoLostWakeup
    BY <2>2 DEF Init, WaitersPop, NoLostWakeup
  <2> QED
    BY <2>1, <2>2, InitInv DEF SleepInv
<1>2. SleepInv /\ [Next]_vars => SleepInv'
  BY NextInv, StageStep, WaitersStep, WakeupStep DEF SleepInv
<1> QED
  BY <1>1, <1>2, PTL DEF Spec

(***************************************************************************)
(* One condition variable per queue is enough: with any number of threads  *)
(* on either side, no signal of queue_push or queue_pop wakes a thread     *)
(* that cannot use it while a frame lies ready for one that sleeps.        *)
(***************************************************************************)
THEOREM SignalsSuffice == Spec => []NoLostWakeup
<1>1. SleepInv => NoLostWakeup
  BY DEF SleepInv
<1> QED
  BY <1>1, SleepInvariance, PTL
-----------------------------------------------------------------------------
(* The refinement: the used queue, read from its head, is the channel of   *)
(* FrameChannel.                                                           *)

ChannelBar == [n \in 1 .. count["used"] |->
                 picture[items["used"][(head["used"] + n - 1) % MaxBuffers]]]
ReadingBar == [t \in Consumers |->
                 IF pc[t] = "read" THEN picture[frame[t]] ELSE NoPicture]

(* Where the n-th frame behind head h is. *)
At(h, n) == IF h + n - 1 < MaxBuffers THEN h + n - 1 ELSE h + n - 1 - MaxBuffers

LEMMA AtIsModulo ==
  ASSUME NEW h \in Index, NEW n \in 1 .. MaxBuffers
  PROVE  (h + n - 1) % MaxBuffers = At(h, n) /\ At(h, n) \in Index
<1>1. h + n - 1 \in 0 .. MaxBuffers + MaxBuffers - 1
  BY SizeAssumption DEF Index
<1>2. \A m \in 0 .. MaxBuffers + MaxBuffers - 1 :
        m % MaxBuffers = IF m < MaxBuffers THEN m ELSE m - MaxBuffers
  BY SizeAssumption, Z3
<1> QED
  BY <1>1, <1>2, SizeAssumption DEF At, Index

(* The n-th frame is in the queue if there are n, and it comes one nearer  *)
(* to the head with every pop.                                             *)
LEMMA AtFacts ==
  ASSUME NEW h \in Index
  PROVE  /\ At(h, 1) = h
         /\ \A n \in 1 .. MaxBuffers : Dist(h, At(h, n)) = n - 1
         /\ \A n \in 1 .. MaxBuffers - 1 : At(Succ(h), n) = At(h, n + 1)
BY SizeAssumption DEF At, Dist, Succ, Index

LEMMA ChannelBarIs ==
  FrameInv => /\ ChannelBar \in Seq(Pictures)
              /\ Len(ChannelBar) = count["used"]
              /\ \A n \in 1 .. count["used"] :
                   /\ ChannelBar[n] = picture[items["used"][At(head["used"], n)]]
                   /\ At(head["used"], n) \in Index
                   /\ Occupied("used", At(head["used"], n))
<1> SUFFICES ASSUME FrameInv
             PROVE  /\ ChannelBar \in Seq(Pictures)
                    /\ Len(ChannelBar) = count["used"]
                    /\ \A n \in 1 .. count["used"] :
                         /\ ChannelBar[n] =
                              picture[items["used"][At(head["used"], n)]]
                         /\ At(head["used"], n) \in Index
                         /\ Occupied("used", At(head["used"], n))
  OBVIOUS
<1>1. head["used"] \in Index /\ count["used"] \in 0 .. MaxBuffers
  BY DEF FrameInv, IInv, TypeOK, Queues
<1>2. ASSUME NEW n \in 1 .. count["used"]
      PROVE  /\ (head["used"] + n - 1) % MaxBuffers = At(head["used"], n)
             /\ At(head["used"], n) \in Index
             /\ Occupied("used", At(head["used"], n))
  <2>1. n \in 1 .. MaxBuffers
    BY <1>1, SizeAssumption
  <2>2. /\ (head["used"] + n - 1) % MaxBuffers = At(head["used"], n)
        /\ At(head["used"], n) \in Index
        /\ Dist(head["used"], At(head["used"], n)) = n - 1
    BY <1>1, <2>1, AtIsModulo, AtFacts
  <2>3. n - 1 < count["used"]
    BY <1>1, <2>1, SizeAssumption
  <2> QED
    BY <2>2, <2>3 DEF Occupied, Offset, Dist
<1>3. \A n \in 1 .. count["used"] :
        ChannelBar[n] = picture[items["used"][At(head["used"], n)]]
  BY <1>2 DEF ChannelBar
<1>4. \A n \in 1 .. count["used"] : ChannelBar[n] \in Pictures
  BY <1>2, <1>3 DEF FrameInv, FilledInv
<1>5. ChannelBar \in [1 .. count["used"] -> Pictures]
  BY <1>4 DEF ChannelBar
<1>6. count["used"] \in Nat
  BY <1>1, SizeAssumption
<1> QED
  BY <1>2, <1>3, <1>5, <1>6

LEMMA ReadingBarIs ==
  ASSUME FrameInv, NEW t \in Consumers
  PROVE  /\ ReadingBar[t] = IF pc[t] = "read" THEN picture[frame[t]] ELSE NoPicture
         /\ ReadingBar[t] = NoPicture <=> pc[t] # "read"
BY ValueAssumption DEF ReadingBar, FrameInv, FilledInv, Threads

(* How the steps of the channel look through the mapping. *)
LEMMA MapsPublish ==
  ASSUME NEW p \in Pictures, Len(ChannelBar) < MaxBuffers,
         ChannelBar' = Append(ChannelBar, p), ReadingBar' = ReadingBar
  PROVE  Channel!Next
BY DEF Channel!Next, Channel!Publish, ChannelBar, ReadingBar

LEMMA MapsTake ==
  ASSUME NEW t \in Consumers, ReadingBar[t] = NoPicture, ChannelBar # <<>>,
         ReadingBar' = [ReadingBar EXCEPT ![t] = Head(ChannelBar)],
         ChannelBar' = Tail(ChannelBar)
  PROVE  Channel!Next
BY DEF Channel!Next, Channel!Take, ChannelBar, ReadingBar

LEMMA MapsDrop ==
  ASSUME NEW t \in Consumers, ReadingBar[t] # NoPicture,
         ReadingBar' = [ReadingBar EXCEPT ![t] = NoPicture],
         ChannelBar' = ChannelBar
  PROVE  Channel!Next
BY DEF Channel!Next, Channel!Drop, ChannelBar, ReadingBar

LEMMA MapsStutter ==
  ASSUME ChannelBar' = ChannelBar, ReadingBar' = ReadingBar
  PROVE  UNCHANGED Channel!vars
BY DEF Channel!vars, ChannelBar, ReadingBar

(* What a step of the ring buffer does to the channel it stands for; both  *)
(* states satisfy the invariant.                                           *)
LEMMA ChannelBarNext ==
  FrameInv' => /\ ChannelBar' \in Seq(Pictures)
               /\ Len(ChannelBar') = count'["used"]
               /\ \A n \in 1 .. count'["used"] :
                    ChannelBar'[n] =
                      picture'[items'["used"][At(head'["used"], n)]]
<1> DEFINE Is == /\ ChannelBar \in Seq(Pictures)
                 /\ Len(ChannelBar) = count["used"]
                 /\ \A n \in 1 .. count["used"] :
                      ChannelBar[n] = picture[items["used"][At(head["used"], n)]]
<1>1. FrameInv => Is
  BY ChannelBarIs
<1>2. FrameInv' => Is'
  BY <1>1, PTL
<1> QED
  BY <1>2 DEF At

LEMMA PopUsedMaps ==
  ASSUME FrameInv, FrameInv', NEW t \in Threads, Pop(t), pc[t] = "popUsed"
  PROVE  Channel!Next
<1> DEFINE h == head["used"]
           c == count["used"]
<1>1. "used" \in Queues /\ "used" = QueueOf(t)
  BY DEF Queues, QueueOf
<1>2. t \in Consumers
  BY DEF FrameInv, StageInv, Threads
<1>3. /\ h \in Index /\ c \in 1 .. MaxBuffers
      /\ head'["used"] = Succ(h) /\ count'["used"] = c - 1
      /\ items' = items /\ picture' = picture
      /\ frame' = [frame EXCEPT ![t] = items["used"][h]]
      /\ pc' = [pc EXCEPT ![t] = "read"]
  BY <1>1, PopEffect DEF FrameInv, IInv, TypeOK
<1>4. /\ ChannelBar \in Seq(Pictures) /\ Len(ChannelBar) = c
      /\ \A n \in 1 .. c : ChannelBar[n] = picture[items["used"][At(h, n)]]
  BY ChannelBarIs
<1>5. /\ ChannelBar' \in Seq(Pictures) /\ Len(ChannelBar') = c - 1
      /\ \A n \in 1 .. c - 1 :
           ChannelBar'[n] = picture[items["used"][At(Succ(h), n)]]
  BY <1>3, ChannelBarNext
<1> HIDE DEF h, c
<1>6. ChannelBar # <<>> /\ Head(ChannelBar) = picture[items["used"][h]]
  BY <1>3, <1>4, AtFacts, SizeAssumption
<1>7. ChannelBar' = Tail(ChannelBar)
  <2>1. /\ Tail(ChannelBar) \in Seq(Pictures) /\ Len(Tail(ChannelBar)) = c - 1
        /\ \A n \in 1 .. c - 1 : Tail(ChannelBar)[n] = ChannelBar[n + 1]
    BY <1>3, <1>4, <1>6, HeadTailProperties
  <2>2. \A n \in 1 .. c - 1 : /\ n + 1 \in 1 .. c
                              /\ At(Succ(h), n) = At(h, n + 1)
    BY <1>3, AtFacts, SizeAssumption
  <2>3. \A n \in 1 .. c - 1 : ChannelBar'[n] = Tail(ChannelBar)[n]
    BY <1>4, <1>5, <2>1, <2>2
  <2> QED
    BY <1>5, <2>1, <2>3, SeqEqual
<1>8. ReadingBar' = [ReadingBar EXCEPT ![t] = Head(ChannelBar)]
  BY <1>2, <1>3, <1>6 DEF ReadingBar, FrameInv, IInv, TypeOK, Threads
<1>9. ReadingBar[t] = NoPicture
  BY <1>2, ReadingBarIs
<1> QED
  BY <1>2, <1>6, <1>7, <1>8, <1>9, MapsTake

LEMMA PushUsedMaps ==
  ASSUME FrameInv, FrameInv', NEW t \in Threads, Push(t), pc[t] = "pushUsed"
  PROVE  Channel!Next
<1> DEFINE h == head["used"]
           c == count["used"]
           p == picture[frame[t]]
<1>1. "used" \in Queues /\ "used" = QueueOf(t)
  BY DEF Queues, QueueOf
<1>2. t \notin Consumers
  BY DEF FrameInv, StageInv
<1>3. /\ h \in Index /\ c \in 0 .. MaxBuffers - 1
      /\ tail["used"] = At(h, c + 1)
      /\ head'["used"] = h /\ count'["used"] = c + 1
      /\ \A i \in Index : items'["used"][i] =
           IF i = tail["used"] THEN frame[t] ELSE items["used"][i]
      /\ picture' = picture
      /\ frame' = [frame EXCEPT ![t] = NoFrame]
      /\ pc' = [pc EXCEPT ![t] = "popFree"]
      /\ ~Occupied("used", tail["used"]) /\ tail["used"] \in Index
  <2>1. /\ h \in Index /\ c \in 0 .. MaxBuffers - 1
        /\ tail["used"] = IF h + c < MaxBuffers THEN h + c ELSE h + c - MaxBuffers
        /\ head' = head /\ count' = [count EXCEPT !["used"] = c + 1]
        /\ \A i \in Index : items'["used"][i] =
             IF i = tail["used"] THEN frame[t] ELSE items["used"][i]
        /\ picture' = picture
        /\ frame' = [frame EXCEPT ![t] = NoFrame]
        /\ pc' = [pc EXCEPT ![t] = "popFree"]
        /\ ~Occupied("used", tail["used"]) /\ tail["used"] \in Index
    BY <1>1, PushEffect DEF FrameInv, IInv, TypeOK
  <2>2. count'["used"] = c + 1
    BY <1>1, <2>1 DEF FrameInv, IInv, TypeOK
  <2>3. tail["used"] = At(h, c + 1)
    BY <2>1, SizeAssumption DEF At, Index
  <2> QED
    BY <2>1, <2>2, <2>3
<1>4. /\ ChannelBar \in Seq(Pictures) /\ Len(ChannelBar) = c
      /\ \A n \in 1 .. c : /\ ChannelBar[n] = picture[items["used"][At(h, n)]]
                           /\ At(h, n) \in Index /\ Occupied("used", At(h, n))
  BY ChannelBarIs
<1>5. /\ ChannelBar' \in Seq(Pictures) /\ Len(ChannelBar') = c + 1
      /\ \A n \in 1 .. c + 1 : ChannelBar'[n] = picture[items'["used"][At(h, n)]]
  BY <1>3, ChannelBarNext
<1>6. p \in Pictures
  BY DEF FrameInv, FilledInv
<1> HIDE DEF h, c, p
<1>7. ChannelBar' = Append(ChannelBar, p)
  <2>1. \A n \in 1 .. c : ChannelBar'[n] = ChannelBar[n]
    <3> SUFFICES ASSUME NEW n \in 1 .. c PROVE ChannelBar'[n] = ChannelBar[n]
      OBVIOUS
    <3>1. n \in 1 .. c + 1
      BY <1>3, SizeAssumption
    <3>2. At(h, n) \in Index /\ At(h, n) # tail["used"]
      BY <1>3, <1>4
    <3> QED
      BY <1>3, <1>4, <1>5, <3>1, <3>2
  <2>2. ChannelBar'[c + 1] = p
    <3>1. c + 1 \in 1 .. c + 1
      BY <1>3, SizeAssumption
    <3>2. items'["used"][At(h, c + 1)] = frame[t]
      BY <1>3
    <3> QED
      BY <1>5, <3>1, <3>2 DEF p
  <2>3. c \in Nat
    BY <1>3, SizeAssumption
  <2>4. /\ Append(ChannelBar, p) \in Seq(Pictures)
        /\ Len(Append(ChannelBar, p)) = c + 1
        /\ \A n \in 1 .. c : Append(ChannelBar, p)[n] = ChannelBar[n]
        /\ Append(ChannelBar, p)[c + 1] = p
    BY <1>4, <1>6, <2>3
  <2>5. \A n \in 1 .. c + 1 : n \in 1 .. c \/ n = c + 1
    BY <2>3
  <2>6. \A n \in 1 .. c + 1 : ChannelBar'[n] = Append(ChannelBar, p)[n]
    BY <2>1, <2>2, <2>4, <2>5
  <2> QED
    BY <1>5, <2>4, <2>6, SeqEqual
<1>8. ReadingBar' = ReadingBar
  BY <1>2, <1>3 DEF ReadingBar, FrameInv, IInv, TypeOK, Threads
<1>9. Len(ChannelBar) < MaxBuffers
  BY <1>3, <1>4, SizeAssumption
<1> QED
  BY <1>6, <1>7, <1>8, <1>9, MapsPublish

(* The free queue is no part of the channel. *)
LEMMA FreeQueueMaps ==
  ASSUME FrameInv, NEW t \in Threads, Pop(t) \/ Push(t), QueueOf(t) = "free"
  PROVE  UNCHANGED Channel!vars
<1>1. /\ head'["used"] = head["used"] /\ count'["used"] = count["used"]
      /\ items'["used"] = items["used"] /\ picture' = picture
  BY DEF Pop, Push, Dequeue, Enqueue, FrameInv, IInv, TypeOK, Queues
<1>2. \A t2 \in Consumers : /\ pc'[t2] = "read" <=> pc[t2] = "read"
                            /\ pc[t2] = "read" => frame'[t2] = frame[t2]
  BY DEF Pop, Push, Popping, Pushing, QueueOf, FrameInv, StageInv, IInv, TypeOK,
         Threads
<1>3. ChannelBar' = ChannelBar
  BY <1>1 DEF ChannelBar
<1>4. ReadingBar' = ReadingBar
  BY <1>1, <1>2 DEF ReadingBar
<1> QED
  BY <1>3, <1>4, MapsStutter

(* The copy paints a frame that is in no queue and before no reader. *)
LEMMA FillMaps ==
  ASSUME FrameInv, NEW t \in Threads, NEW p \in Pictures, Fill(t, p)
  PROVE  UNCHANGED Channel!vars
<1>1. /\ UNCHANGED <<items, head, count, frame>>
      /\ frame[t] \in Frames /\ frame[t] # NoFrame
      /\ picture' = [picture EXCEPT ![frame[t]] = p]
      /\ pc' = [pc EXCEPT ![t] = "pushUsed"] /\ pc[t] = "fill"
  BY DEF Fill, FrameInv, IInv, HoldInv, TypeOK, Popping
<1>2. \A f \in Frames : f # frame[t] => picture'[f] = picture[f]
  BY <1>1 DEF FrameInv, IInv, TypeOK
<1>3. \A n \in 1 .. count["used"] :
        /\ (head["used"] + n - 1) % MaxBuffers = At(head["used"], n)
        /\ items["used"][At(head["used"], n)] \in Frames
        /\ items["used"][At(head["used"], n)] # frame[t]
  <2> SUFFICES ASSUME NEW n \in 1 .. count["used"]
               PROVE  /\ (head["used"] + n - 1) % MaxBuffers = At(head["used"], n)
                      /\ items["used"][At(head["used"], n)] \in Frames
                      /\ items["used"][At(head["used"], n)] # frame[t]
    OBVIOUS
  <2>1. head["used"] \in Index /\ count["used"] \in 0 .. MaxBuffers
    BY DEF FrameInv, IInv, TypeOK, Queues
  <2>2. n \in 1 .. MaxBuffers
    BY <2>1, SizeAssumption
  <2>3. /\ At(head["used"], n) \in Index
        /\ Occupied("used", At(head["used"], n))
    BY ChannelBarIs
  <2> QED
    BY <2>1, <2>2, <2>3, AtIsModulo
    DEF FrameInv, IInv, QueuedInv, ExclusiveOwnership, Queues
<1>4. ChannelBar' = ChannelBar
  BY <1>1, <1>2, <1>3 DEF ChannelBar
<1>5. \A t2 \in Consumers :
        pc[t2] = "read" => frame[t2] \in Frames /\ frame[t2] # frame[t]
  BY <1>1 DEF FrameInv, StageInv, IInv, HoldInv, TypeOK, ExclusiveOwnership,
             Threads, Popping
<1>6. \A t2 \in Consumers : pc'[t2] = "read" <=> pc[t2] = "read"
  BY <1>1 DEF FrameInv, IInv, TypeOK, Threads
<1>7. ReadingBar' = ReadingBar
  BY <1>1, <1>2, <1>5, <1>6 DEF ReadingBar
<1> QED
  BY <1>4, <1>7, MapsStutter

(* A reader is done with its picture, whether send() fails or not. *)
LEMMA ReadEndsMaps ==
  ASSUME FrameInv, NEW t \in Threads, FinishRead(t) \/ SendFails(t)
  PROVE  Channel!Next
<1>1. /\ UNCHANGED <<items, head, count, picture>>
      /\ pc[t] = "read" /\ t \in Consumers
      /\ \A t2 \in Threads : t2 # t => pc'[t2] = pc[t2] /\ frame'[t2] = frame[t2]
      /\ pc'[t] # "read"
  BY DEF FinishRead, SendFails, FrameInv, StageInv, IInv, TypeOK, Threads
<1>2. ChannelBar' = ChannelBar
  BY <1>1 DEF ChannelBar
<1>3. ReadingBar' = [ReadingBar EXCEPT ![t] = NoPicture]
  BY <1>1 DEF ReadingBar, Threads
<1>4. ReadingBar[t] # NoPicture
  BY <1>1, ReadingBarIs
<1> QED
  BY <1>1, <1>2, <1>3, <1>4, MapsDrop

LEMMA InitMaps == Init => Channel!Init
<1> SUFFICES ASSUME Init PROVE Channel!Init
  OBVIOUS
<1>1. count["used"] = 0
  BY DEF Init, Queues
<1>2. ChannelBar = <<>>
  BY <1>1 DEF ChannelBar
<1>3. ReadingBar = [t \in Consumers |-> NoPicture]
  BY ThreadAssumption DEF ReadingBar, Init, Threads
<1> QED
  BY <1>2, <1>3 DEF Channel!Init, ChannelBar, ReadingBar

LEMMA StepMaps ==
  ASSUME FrameInv, FrameInv', [Next]_vars
  PROVE  [Channel!Next]_(Channel!vars)
<1>1. ASSUME NEW t \in Threads, Pop(t) \/ Push(t)
      PROVE  Channel!Next \/ UNCHANGED Channel!vars
  <2>1. CASE QueueOf(t) = "free"
    BY <1>1, <2>1, FreeQueueMaps
  <2>2. CASE QueueOf(t) # "free"
    BY <1>1, <2>2, PopUsedMaps, PushUsedMaps
    DEF QueueOf, Pop, Push, Popping, Pushing
  <2> QED
    BY <2>1, <2>2
<1>2. ASSUME UNCHANGED <<items, head, count, pc, frame, picture>>
      PROVE  UNCHANGED Channel!vars
  <2>1. ChannelBar' = ChannelBar /\ ReadingBar' = ReadingBar
    BY <1>2 DEF ChannelBar, ReadingBar
  <2> QED
    BY <2>1, MapsStutter
<1>3. \/ UNCHANGED <<items, head, count, pc, frame, picture>>
      \/ \E t \in Threads : \/ Pop(t) \/ Push(t) \/ FinishRead(t) \/ SendFails(t)
                            \/ \E p \in Pictures : Fill(t, p)
  BY DEF Next, vars, Wait, CondWait, SpuriousWakeup
<1> QED
  BY <1>1, <1>2, <1>3, FillMaps, ReadEndsMaps

(***************************************************************************)
(* The ring buffer implements the channel: with any number of frames and   *)
(* threads, pictures reach the readers in the order of ringbuffer_push,    *)
(* each once, and stay what they are while a reader looks.  It rests on    *)
(* ownership (no copy into a frame that is queued or read) and on the      *)
(* frames of the used queue being filled.                                  *)
(***************************************************************************)
THEOREM Implementation == Spec => ImplementsChannel
<1>1. FrameInv /\ FrameInv' /\ [Next]_vars => [Channel!Next]_(Channel!vars)
  BY StepMaps
<1> QED
  BY <1>1, InitMaps, FrameInvariance, PTL DEF Spec, ImplementsChannel, Channel!Spec
=============================================================================
