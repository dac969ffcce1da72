----------------------------- MODULE RingBuffer -----------------------------
(***************************************************************************)
(* The frame buffers between the camera and its viewers                    *)
(* (project/SmartCam/app/ringbuffer.c): MAX_BUFFERS frames that travel     *)
(* between two queues, free_queue and used_queue, each a circular array    *)
(* under a mutex with ONE condition variable on which both those that find *)
(* the queue full and those that find it empty wait.                       *)
(*                                                                         *)
(* The threads: a capture thread (the V4L2 loop calling alg_process) runs  *)
(* ringbuffer_push; the GStreamer streaming thread runs need_data; a TCP   *)
(* client thread runs stream_video.  Everything a thread does between      *)
(* pthread_mutex_lock and the unlock, or the wait that unlocks, touches    *)
(* only that queue, so it is one step.                                     *)
(***************************************************************************)
EXTENDS Naturals, FiniteSets

CONSTANTS
  MaxBuffers,   \* MAX_BUFFERS
  Producers,    \* threads that call ringbuffer_push
  GstReaders,   \* threads that call need_data
  TcpReaders,   \* threads that run stream_video
  Pictures,     \* what the camera can deliver
  NoPicture,    \* a buffer fresh from malloc, not filled yet
  NoFrame       \* the NULL frame pointer

Consumers == GstReaders \cup TcpReaders
Threads   == Producers \cup Consumers
Frames    == 1 .. MaxBuffers      \* the array "buffers"
Index     == 0 .. MaxBuffers - 1  \* positions of queue_t.items
Queues    == {"free", "used"}

ASSUME SizeAssumption == MaxBuffers \in Nat \ {0}

ASSUME ThreadAssumption ==
  /\ Producers \cap Consumers = {}
  /\ GstReaders \cap TcpReaders = {}
  /\ IsFiniteSet(Threads)

ASSUME ValueAssumption == NoPicture \notin Pictures /\ NoFrame \notin Frames

VARIABLES
  items,    \* items[q][i]: the frame in position i of queue q
  head, tail, count,
  waiting,  \* waiting[q]: the threads blocked on the condition variable of q
  pc,       \* where each thread is
  frame,    \* the frame pointer each thread holds
  picture,  \* what each frame buffer shows
  leaked    \* frames no thread and no queue refers to any more

queueVars == <<items, head, tail, count>>
vars == <<items, head, tail, count, waiting, pc, frame, picture, leaked>>

(***************************************************************************)
(* The program counters: "popFree", "fill" and "pushUsed" are the three    *)
(* stages of ringbuffer_push; "popUsed", "read" and "pushFree" those of a  *)
(* reader, that releases its frame in the last one.                        *)
(***************************************************************************)
Stages == {"popFree", "fill", "pushUsed", "popUsed", "read", "pushFree"}

Popping(t) == pc[t] \in {"popFree", "popUsed"}
Pushing(t) == pc[t] \in {"pushFree", "pushUsed"}

(* The queue a thread that stands at a queue operation works on. *)
QueueOf(t) == IF pc[t] \in {"popFree", "pushFree"} THEN "free" ELSE "used"

(* After ringbuffer_init: every buffer was pushed on the free queue, which *)
(* brought its tail round to 0.                                            *)
Init ==
  /\ items = [q \in Queues |-> [i \in Index |->
                                  IF q = "free" THEN i + 1 ELSE NoFrame]]
  /\ head = [q \in Queues |-> 0]
  /\ tail = [q \in Queues |-> 0]
  /\ count = [q \in Queues |-> IF q = "free" THEN MaxBuffers ELSE 0]
  /\ waiting = [q \in Queues |-> {}]
  /\ pc = [t \in Threads |-> IF t \in Producers THEN "popFree" ELSE "popUsed"]
  /\ frame = [t \in Threads |-> NoFrame]
  /\ picture = [f \in Frames |-> NoPicture]
  /\ leaked = {}

(* Thread t has the processor: it does not sleep on a condition variable. *)
Awake(t) == \A q \in Queues : t \notin waiting[q]

(* pthread_cond_wait: the mutex is given up and the thread sleeps. *)
CondWait(t, q) ==
  /\ waiting' = [waiting EXCEPT ![q] = @ \cup {t}]
  /\ UNCHANGED <<items, head, tail, count, pc, frame, picture, leaked>>

(* pthread_cond_signal: one of the sleepers, if any, wakes up. *)
CondSignal(q) ==
  \/ waiting[q] = {} /\ UNCHANGED waiting
  \/ \E s \in waiting[q] : waiting' = [waiting EXCEPT ![q] = @ \ {s}]

(* A wait may also end without a signal; the while loop is there for that. *)
SpuriousWakeup(t, q) ==
  /\ t \in waiting[q]
  /\ waiting' = [waiting EXCEPT ![q] = @ \ {t}]
  /\ UNCHANGED <<items, head, tail, count, pc, frame, picture, leaked>>

(* Mutant of Enqueue: no signal. *)
EnqueueSilently(q, f) ==
  /\ items' = [items EXCEPT ![q][tail[q]] = f]
  /\ tail' = [tail EXCEPT ![q] = (@ + 1) % MaxBuffers]
  /\ count' = [count EXCEPT ![q] = @ + 1]
  /\ UNCHANGED <<head, waiting>>

(* The tail of queue_push: store, advance, count, signal, unlock. *)
Enqueue(q, f) ==
  /\ items' = [items EXCEPT ![q][tail[q]] = f]
  /\ tail' = [tail EXCEPT ![q] = (@ + 1) % MaxBuffers]
  /\ count' = [count EXCEPT ![q] = @ + 1]
  /\ CondSignal(q)
  /\ UNCHANGED head

(* Mutant of Dequeue: the head stays where it was. *)
DequeueWithoutAdvance(q) ==
  /\ count' = [count EXCEPT ![q] = @ - 1]
  /\ CondSignal(q)
  /\ UNCHANGED <<items, head, tail>>

(* The tail of queue_pop; the popped frame is items[q][head[q]]. *)
Dequeue(q) ==
  /\ head' = [head EXCEPT ![q] = (@ + 1) % MaxBuffers]
  /\ count' = [count EXCEPT ![q] = @ - 1]
  /\ CondSignal(q)
  /\ UNCHANGED <<items, tail>>

(* The thread is about to push, or to pop, and the queue is full, or empty. *)
MustWait(t) ==
  \/ Popping(t) /\ count[QueueOf(t)] = 0
  \/ Pushing(t) /\ count[QueueOf(t)] >= MaxBuffers

(* The while loop of queue_push and queue_pop: sleep until the queue has   *)
(* room, or a frame.                                                       *)
Wait(t) == Awake(t) /\ MustWait(t) /\ CondWait(t, QueueOf(t))

(* queue_pop returns the oldest frame. *)
Pop(t) ==
  /\ Popping(t)
  /\ Awake(t)
  /\ LET q == QueueOf(t) IN
       /\ count[q] # 0
       /\ frame' = [frame EXCEPT ![t] = items[q][head[q]]]
       /\ Dequeue(q)
  /\ pc' = [pc EXCEPT ![t] = IF @ = "popFree" THEN "fill" ELSE "read"]
  /\ UNCHANGED <<picture, leaked>>

(* queue_push stores the frame; the pointer the thread keeps is dead. *)
Push(t) ==
  /\ Pushing(t)
  /\ Awake(t)
  /\ LET q == QueueOf(t) IN
       /\ count[q] < MaxBuffers
       /\ Enqueue(q, frame[t])
  /\ frame' = [frame EXCEPT ![t] = NoFrame]
  /\ pc' = [pc EXCEPT ![t] = IF @ = "pushUsed" THEN "popFree" ELSE "popUsed"]
  /\ UNCHANGED <<picture, leaked>>

(* Mutants of Fill: an early return that forgets the popped frame; a push  *)
(* that is not preceded by the copy.                                       *)
FillReturnsEarly(t, p) ==
  /\ pc[t] = "fill"
  /\ frame' = [frame EXCEPT ![t] = NoFrame]
  /\ pc' = [pc EXCEPT ![t] = "popFree"]
  /\ UNCHANGED <<items, head, tail, count, waiting, picture, leaked>>

FillSkipsCopy(t, p) ==
  /\ pc[t] = "fill"
  /\ pc' = [pc EXCEPT ![t] = "pushUsed"]
  /\ UNCHANGED <<items, head, tail, count, waiting, frame, picture, leaked>>

(* ringbuffer_push copies the camera's picture into the frame it popped. *)
Fill(t, p) ==
  /\ pc[t] = "fill"
  /\ picture' = [picture EXCEPT ![frame[t]] = p]
  /\ pc' = [pc EXCEPT ![t] = "pushUsed"]
  /\ UNCHANGED <<items, head, tail, count, waiting, frame, leaked>>

(* need_data, or a send() that succeeds in stream_video, has read the      *)
(* frame and goes on to ringbuffer_release.                                *)
FinishRead(t) ==
  /\ pc[t] = "read"
  /\ pc' = [pc EXCEPT ![t] = "pushFree"]
  /\ UNCHANGED <<items, head, tail, count, waiting, frame, picture, leaked>>

(* send() fails in stream_video: the loop breaks before                    *)
(* ringbuffer_release, and the next client starts with another frame.      *)
SendFails(t) ==
  /\ t \in TcpReaders
  /\ pc[t] = "read"
  /\ leaked' = leaked \cup {frame[t]}
  /\ frame' = [frame EXCEPT ![t] = NoFrame]
  /\ pc' = [pc EXCEPT ![t] = "popUsed"]
  /\ UNCHANGED <<items, head, tail, count, waiting, picture>>

Next ==
  \E t \in Threads :
    \/ Wait(t) \/ Pop(t) \/ Push(t)
    \/ \E p \in Pictures : Fill(t, p)
    \/ FinishRead(t) \/ SendFails(t)
    \/ \E q \in Queues : SpuriousWakeup(t, q)

Spec == Init /\ [][Next]_vars

(* Every thread that can run does run; nobody owes a spurious wakeup or a  *)
(* failing send.                                                           *)
Run(t) == \/ Wait(t) \/ Pop(t) \/ Push(t)
          \/ \E p \in Pictures : Fill(t, p)
          \/ FinishRead(t)

FairSpec == Spec /\ \A t \in Threads : WF_vars(Run(t))
-----------------------------------------------------------------------------
TypeOK ==
  /\ items \in [Queues -> [Index -> Frames \cup {NoFrame}]]
  /\ head \in [Queues -> Index]
  /\ tail \in [Queues -> Index]
  /\ count \in [Queues -> 0 .. MaxBuffers]
  /\ waiting \in [Queues -> SUBSET Threads]
  /\ pc \in [Threads -> Stages]
  /\ frame \in [Threads -> Frames \cup {NoFrame}]
  /\ picture \in [Frames -> Pictures \cup {NoPicture}]
  /\ leaked \in SUBSET Frames

(* Position i of queue q holds a queued frame: it is one of the "count"    *)
(* positions that start at "head".                                         *)
Offset(q, i)   == IF i >= head[q] THEN i - head[q] ELSE i + MaxBuffers - head[q]
Occupied(q, i) == Offset(q, i) < count[q]

(* Where a frame can be: a position of a queue, a thread, or nowhere. *)
InQueue(f, q, i) == Occupied(q, i) /\ items[q][i] = f
HeldBy(f, t)     == frame[t] = f

(***************************************************************************)
(* No frame is in two places: not twice in the queues, not in a queue      *)
(* while a thread works on it, not with two threads, and a leaked one is   *)
(* nowhere.  It is what keeps the capture thread from painting over a      *)
(* picture that a viewer is reading.                                       *)
(***************************************************************************)
ExclusiveOwnership ==
  /\ \A q1, q2 \in Queues : \A i1, i2 \in Index :
       /\ Occupied(q1, i1) /\ Occupied(q2, i2)
       /\ items[q1][i1] = items[q2][i2]
       => q1 = q2 /\ i1 = i2
  /\ \A t1, t2 \in Threads :
       frame[t1] # NoFrame /\ frame[t1] = frame[t2] => t1 = t2
  /\ \A t \in Threads, q \in Queues, i \in Index :
       Occupied(q, i) => items[q][i] # frame[t]
  /\ \A f \in leaked :
       /\ \A t \in Threads : ~HeldBy(f, t)
       /\ \A q \in Queues, i \in Index : ~InQueue(f, q, i)

(***************************************************************************)
(* No frame is lost: the two queues, the threads and the leak of           *)
(* stream_video account for all of them.                                   *)
(***************************************************************************)
Holders == {t \in Threads : frame[t] # NoFrame}

Conservation ==
  count["free"] + count["used"] + Cardinality(Holders) + Cardinality(leaked)
    = MaxBuffers

(***************************************************************************)
(* The wait for a full queue in queue_push never happens: whoever pushes   *)
(* holds a frame, so at most MAX_BUFFERS - 1 are queued.  It is why one    *)
(* condition variable per queue is enough, see NoLostWakeup.               *)
(***************************************************************************)
PushNeverBlocks ==
  \A t \in Threads :
    Pushing(t) => count[QueueOf(t)] < MaxBuffers

(***************************************************************************)
(* A signal is never spent on the wrong thread: when a queue has frames    *)
(* and threads sleep on it, another thread that is awake is on its way to  *)
(* take a frame from it (and its own signal then wakes the next one).      *)
(***************************************************************************)
NoLostWakeup ==
  \A q \in Queues :
    waiting[q] # {} /\ count[q] > 0 =>
      \E t \in Threads : Awake(t) /\ Popping(t) /\ QueueOf(t) = q

(* A viewer only ever sees a picture the camera delivered, never a buffer *)
(* nobody has filled.                                                      *)
NoBlankPicture ==
  \A t \in Consumers : pc[t] = "read" => picture[frame[t]] # NoPicture

(***************************************************************************)
(* The ring buffer is the bounded channel FrameChannel promises: the used  *)
(* queue read from its head is the channel, and a reader looks at the      *)
(* picture of the frame it popped.                                         *)
(***************************************************************************)
Channel == INSTANCE FrameChannel WITH
  Readers  <- Consumers,
  Capacity <- MaxBuffers,
  channel  <- [n \in 1 .. count["used"] |->
                 picture[items["used"][(head["used"] + n - 1) % MaxBuffers]]],
  reading  <- [t \in Consumers |->
                 IF pc[t] = "read" THEN picture[frame[t]] ELSE NoPicture]

ImplementsChannel == Channel!Spec

(* A published picture is taken: the used queue does not stay occupied by *)
(* the frame at its head for ever.                                         *)
PictureDelivered ==
  \A f \in Frames :
    InQueue(f, "used", head["used"]) ~> ~InQueue(f, "used", head["used"])
=============================================================================
