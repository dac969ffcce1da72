---------------------------- MODULE CameraProofs ----------------------------
(* Proofs about Camera, for every number of driver buffers, ring buffer  *)
(* frames, viewers and capture threads: no viewer sees a torn picture,   *)
(* and no capture thread is left when video_stop_stream has returned;    *)
(* and about SensorRegisters: the three modes read back.                 *)
(*                                                                       *)
(* The first rests on where buffers are: those DQBUF will return are the *)
(* driver's, and the one a capture thread copies from is not, so that    *)
(* the driver never writes to it. The second is about the one handle     *)
(* video_thread: as long as only the main thread starts the stream,      *)
(* every running thread is the one it names.                             *)
EXTENDS MCCamera, SequenceTheorems, TLAPS

(* The stages of a capture thread between DQBUF and QBUF. *)
Holding(t) == pc[t] \in {"popFree", "copy", "queue"}

TypeOK ==
  /\ main \in {"closed", "opened", "ready", "streaming", "leaving", "joining", "ended"}
  /\ place \in [Buffers -> {"unmapped", "driver", "user"}]
  /\ done \in Seq(Buffers)
  /\ handle \in Captures \cup {Nothing}
  /\ awaited \in Captures \cup {Nothing}
  /\ pc \in [Captures -> {"none", "check", "dequeue", "popFree", "copy", "queue",
                          "ended"}]
  /\ held \in [Captures -> Buffers \cup {Nothing}]
  /\ torn \in [Captures -> BOOLEAN]
  /\ channel \in Seq({"whole", "torn"})
  /\ reading \in [Viewers -> {"whole", "torn", Nothing}]

(* The buffers DQBUF will return are the driver's, each of them once. *)
DoneInv ==
  /\ \A i \in 1 .. Len(done) : place[done[i]] = "driver"
  /\ \A i, j \in 1 .. Len(done) : done[i] = done[j] => i = j

(* A thread holds a buffer from DQBUF to QBUF. *)
HeldInv == \A t \in Captures : held[t] # Nothing <=> Holding(t)

(* As long as nobody pulled the buffers, a held buffer is the program's,   *)
(* one thread's only, and nothing was written to it.                       *)
UserInv ==
  ~pulled => /\ \A t \in Captures : Holding(t) => place[held[t]] = "user"
             /\ \A t, u \in Captures :
                  Holding(t) /\ Holding(u) /\ held[t] = held[u] => t = u
             /\ \A t \in Captures : ~torn[t]

(* Without a second starter the only thread that may run is the one        *)
(* video_thread names, and none runs between the join and the next start.  *)
OneThread ==
  ~others =>
    /\ main \in {"closed", "opened", "ready"} => \A t \in Captures : ~Alive(t)
    /\ \A t \in Captures : Alive(t) /\ main # "ended" => t = handle
    /\ main = "joining" => awaited = handle

IInv == TypeOK /\ DoneInv /\ HeldInv /\ UserInv /\ NoTornPicture /\ OneThread
-----------------------------------------------------------------------------
LEMMA InitInv == Init => IInv
<1> SUFFICES ASSUME Init PROVE IInv
  OBVIOUS
<1> USE CameraAssumption DEF Init
<1>1. TypeOK
  BY DEF TypeOK, Channel!Init
<1>2. DoneInv /\ HeldInv
  BY DEF DoneInv, HeldInv, Holding
<1>3. UserInv
  BY DEF UserInv, Holding
<1>4. NoTornPicture
  BY DEF NoTornPicture, Channel!Init
<1>5. OneThread
  BY DEF OneThread, Alive
<1> QED
  BY <1>1, <1>2, <1>3, <1>4, <1>5 DEF IInv

(* The types, by whose step it is. *)
LEMMA TypeMain == ASSUME TypeOK, Main PROVE TypeOK'
<1> USE DEF TypeOK, device, thread, ring, past
<1>1. CASE Open \/ GiveUp \/ StartFails \/ StreamOffFails \/ EndLoop \/ Join \/ JoinNothing
  BY <1>1 DEF Open, GiveUp, StartFails, StreamOffFails, EndLoop, Join, JoinNothing
<1>2. ASSUME NEW b \in Buffers, InitBuffer(b) PROVE TypeOK'
  BY <1>2 DEF InitBuffer
<1>3. ASSUME NEW t \in Captures, Start(t) PROVE TypeOK'
  BY <1>3 DEF Start, StartStream
<1>4. CASE StreamOff
  <2>1. place' \in [Buffers -> {"unmapped", "driver", "user"}]
    BY <1>4 DEF StreamOff
  <2> QED
    BY <1>4, <2>1 DEF StreamOff
<1>5. CASE Deinit
  BY <1>5 DEF Deinit
<1> QED
  BY <1>1, <1>2, <1>3, <1>4, <1>5 DEF Main

LEMMA TypeCapture ==
  ASSUME TypeOK, NEW t \in Captures, TcpClient(t) \/ Capture(t) \/ Errors(t)
  PROVE  TypeOK'
<1> USE DEF TypeOK, device, thread, ring, past
<1>1. CASE TcpClient(t)
  BY <1>1 DEF TcpClient, StartStream
<1>2. CASE CheckLoop(t) \/ PopFree(t) \/ Queue(t) \/ Errors(t)
  BY <1>2 DEF CheckLoop, PopFree, Queue, Errors, DequeueFails, QueueFails, Goto
<1>3. CASE Dequeue(t)
  <2>1. Head(done) \in Buffers /\ Tail(done) \in Seq(Buffers)
    BY <1>3 DEF Dequeue
  <2> QED
    BY <1>3, <2>1 DEF Dequeue, Goto
<1>4. CASE Copy(t)
  <2>1. channel' \in Seq({"whole", "torn"})
    BY <1>4 DEF Copy, Channel!Publish
  <2> QED
    BY <1>4, <2>1 DEF Copy, Channel!Publish, Goto
<1> QED
  BY <1>1, <1>2, <1>3, <1>4 DEF Capture

LEMMA TypeRest ==
  ASSUME TypeOK,
         \/ \E b \in Buffers : Fill(b)
         \/ \E v \in Viewers : Take(v) \/ Drop(v)
         \/ StartPipe \/ StopPipe \/ UNCHANGED vars
  PROVE  TypeOK'
<1> USE DEF TypeOK, device, thread, ring, past
<1>1. ASSUME NEW b \in Buffers, Fill(b) PROVE TypeOK'
  <2>1. torn' \in [Captures -> BOOLEAN]
    BY <1>1 DEF Fill
  <2> QED
    BY <1>1, <2>1 DEF Fill
<1>2. ASSUME NEW v \in Viewers, Take(v) PROVE TypeOK'
  <2>1. Head(channel) \in {"whole", "torn"} /\ Tail(channel) \in Seq({"whole", "torn"})
    BY <1>2 DEF Take, Channel!Take
  <2> QED
    BY <1>2, <2>1 DEF Take, Channel!Take
<1>3. ASSUME NEW v \in Viewers, Drop(v) PROVE TypeOK'
  BY <1>3 DEF Drop, Channel!Drop
<1>4. CASE StartPipe \/ StopPipe \/ UNCHANGED vars
  BY <1>4 DEF StartPipe, StopPipe, vars
<1> QED
  BY <1>1, <1>2, <1>3, <1>4

LEMMA TypeStep == ASSUME TypeOK, [Next]_vars PROVE TypeOK'
BY TypeMain, TypeCapture, TypeRest DEF Next
-----------------------------------------------------------------------------
(* The queue of filled buffers. *)
LEMMA DoneStep ==
  ASSUME TypeOK, DoneInv, HeldInv, [Next]_vars
  PROVE  DoneInv'
<1> USE DEF TypeOK, device, thread, ring, past
<1>1. ASSUME UNCHANGED <<place, done>> PROVE DoneInv'
  BY <1>1 DEF DoneInv
<1>2. ASSUME done' = <<>> PROVE DoneInv'
  BY <1>2 DEF DoneInv
<1>3. ASSUME done' = done,
             \A b \in Buffers : place[b] = "driver" => place'[b] = "driver"
      PROVE  DoneInv'
  BY <1>3 DEF DoneInv
<1>4. ASSUME NEW t \in Captures, Dequeue(t) PROVE DoneInv'
  <2>1. /\ done # <<>> /\ done' = Tail(done)
        /\ place' = [place EXCEPT ![Head(done)] = "user"]
    BY <1>4 DEF Dequeue
  <2>2. /\ Head(done) = done[1] /\ Len(done) \in Nat \ {0}
        /\ Len(done') = Len(done) - 1
        /\ \A i \in 1 .. Len(done') : done'[i] = done[i + 1]
    BY <2>1, HeadTailProperties
  <2>3. \A i \in 1 .. Len(done') : /\ i + 1 \in 1 .. Len(done)
                                   /\ done[i + 1] # Head(done)
                                   /\ done[i + 1] \in Buffers
    BY <2>2 DEF DoneInv
  <2>4. \A i \in 1 .. Len(done') : place'[done'[i]] = "driver"
    BY <2>1, <2>2, <2>3 DEF DoneInv
  <2>5. \A i, j \in 1 .. Len(done') : done'[i] = done'[j] => i + 1 = j + 1
    BY <2>2, <2>3 DEF DoneInv
  <2>6. \A i, j \in 1 .. Len(done') : i + 1 = j + 1 => i = j
    BY <2>2
  <2> QED
    BY <2>4, <2>5, <2>6 DEF DoneInv
<1>5. ASSUME NEW b \in Buffers, Fill(b) PROVE DoneInv'
  <2>1. /\ done' = Append(done, b) /\ place' = place /\ place[b] = "driver"
        /\ \A i \in 1 .. Len(done) : done[i] # b
    BY <1>5 DEF Fill
  <2>2. /\ Len(done) \in Nat /\ Len(done') = Len(done) + 1
        /\ done'[Len(done) + 1] = b
        /\ \A i \in 1 .. Len(done) : done'[i] = done[i]
    BY <2>1
  <2>3. \A i \in 1 .. Len(done') : i \in 1 .. Len(done) \/ i = Len(done) + 1
    BY <2>2
  <2> QED
    BY <2>1, <2>2, <2>3 DEF DoneInv
<1>6. ASSUME NEW b \in Buffers, InitBuffer(b) PROVE DoneInv'
  BY <1>6, <1>3 DEF InitBuffer
<1>7. ASSUME NEW t \in Captures, Queue(t) PROVE DoneInv'
  BY <1>7, <1>3 DEF Queue
<1>8. CASE Main
  BY <1>1, <1>2, <1>6, <1>8
  DEF Main, Open, GiveUp, Start, StartStream, StartFails, StreamOff,
      StreamOffFails, EndLoop, Join, JoinNothing, Deinit
<1>9. ASSUME NEW t \in Captures, TcpClient(t) \/ Capture(t) \/ Errors(t)
      PROVE  DoneInv'
  BY <1>1, <1>4, <1>7, <1>9
  DEF TcpClient, Capture, CheckLoop, PopFree, Copy, Errors, DequeueFails, QueueFails
<1>10. ASSUME NEW v \in Viewers, Take(v) \/ Drop(v) PROVE DoneInv'
  BY <1>1, <1>10 DEF Take, Drop
<1>11. CASE StartPipe \/ StopPipe \/ UNCHANGED vars
  BY <1>1, <1>11 DEF StartPipe, StopPipe, vars
<1> QED
  BY <1>5, <1>8, <1>9, <1>10, <1>11 DEF Next

(* Between DQBUF and QBUF, and only there, a thread has a buffer. *)
LEMMA HeldStep ==
  ASSUME TypeOK, HeldInv, [Next]_vars
  PROVE  HeldInv'
<1> USE CameraAssumption DEF TypeOK, device, thread, ring, past, HeldInv, Holding
<1>1. ASSUME UNCHANGED <<pc, held>> PROVE HeldInv'
  BY <1>1
<1>2. ASSUME NEW t \in Captures, Start(t) \/ TcpClient(t) PROVE HeldInv'
  BY <1>2 DEF Start, TcpClient, StartStream
<1>3. ASSUME NEW t \in Captures, Dequeue(t) PROVE HeldInv'
  <2>1. Head(done) \in Buffers
    BY <1>3 DEF Dequeue
  <2> QED
    BY <1>3, <2>1 DEF Dequeue, Goto
<1>4. ASSUME NEW t \in Captures, CheckLoop(t) \/ PopFree(t) \/ Copy(t)
      PROVE  HeldInv'
  BY <1>4 DEF CheckLoop, PopFree, Copy, Goto
<1>5. ASSUME NEW t \in Captures, Queue(t) \/ Errors(t) PROVE HeldInv'
  BY <1>5 DEF Queue, Errors, DequeueFails, QueueFails, Goto
<1>6. CASE Main
  BY <1>1, <1>2, <1>6
  DEF Main, Open, InitBuffer, GiveUp, StartFails, StreamOff, StreamOffFails,
      EndLoop, Join, JoinNothing, Deinit
<1>7. ASSUME NEW b \in Buffers, Fill(b) PROVE HeldInv'
  BY <1>1, <1>7 DEF Fill
<1>8. ASSUME NEW v \in Viewers, Take(v) \/ Drop(v) PROVE HeldInv'
  BY <1>1, <1>8 DEF Take, Drop
<1>9. CASE StartPipe \/ StopPipe \/ UNCHANGED vars
  BY <1>1, <1>9 DEF StartPipe, StopPipe, vars
<1> QED
  BY <1>2, <1>3, <1>4, <1>5, <1>6, <1>7, <1>8, <1>9 DEF Next, Capture

(* The buffers in the hands of the capture threads. *)
LEMMA UserStep ==
  ASSUME TypeOK, DoneInv, HeldInv, UserInv, [Next]_vars
  PROVE  UserInv'
<1> USE DEF TypeOK, device, thread, ring, past
<1>0. \A t \in Captures : Holding(t) => held[t] \in Buffers
  BY CameraAssumption DEF HeldInv
(* Steps after which threads hold the buffers they held before, or fewer,  *)
(* and no held buffer has changed its place.                               *)
<1>1. ASSUME pulled' = pulled,
             \A t \in Captures : Holding(t)' => Holding(t) /\ held'[t] = held[t],
             \A b \in Buffers : place[b] = "user" => place'[b] = "user",
             \A t \in Captures : torn'[t] => torn[t]
      PROVE  UserInv'
  BY <1>0, <1>1 DEF UserInv
<1>2. ASSUME NEW b \in Buffers, InitBuffer(b) PROVE UserInv'
  BY <1>1, <1>2 DEF InitBuffer, Holding
<1>3. CASE StreamOff
  <2>1. \A b \in Buffers : place[b] = "user" => place'[b] = "user"
    BY <1>3 DEF StreamOff
  <2> QED
    BY <1>1, <1>3, <2>1 DEF StreamOff, Holding
<1>4. CASE Deinit
  <2>1. ~pulled' => ~pulled /\ \A t \in Captures : ~Holding(t)'
    BY <1>4 DEF Deinit, Alive, Holding
  <2> QED
    BY <1>4, <2>1 DEF Deinit, UserInv
<1>5. ASSUME NEW t \in Captures, Start(t) \/ TcpClient(t) PROVE UserInv'
  BY <1>1, <1>5 DEF Start, TcpClient, StartStream, Holding
<1>6. ASSUME NEW t \in Captures, Dequeue(t) PROVE UserInv'
  <2> DEFINE b == Head(done)
  <2>1. /\ b \in Buffers /\ place[b] = "driver"
        /\ held' = [held EXCEPT ![t] = b]
        /\ place' = [place EXCEPT ![b] = "user"]
        /\ pc' = [pc EXCEPT ![t] = "popFree"]
        /\ torn' = torn /\ pulled' = pulled /\ ~Holding(t)
    BY <1>6 DEF Dequeue, DoneInv, Goto, Holding
  <2> HIDE DEF b
  <2>2. \A u \in Captures : u # t =>
          /\ Holding(u)' <=> Holding(u)
          /\ held'[u] = held[u]
    BY <2>1 DEF Holding
  <2>3. ~pulled => \A u \in Captures : Holding(u) => held[u] # b
    BY <2>1 DEF UserInv
  <2>4. held'[t] = b /\ place'[b] = "user"
    BY <2>1
  <2>5. ~pulled => \A u \in Captures : Holding(u)' => place'[held'[u]] = "user"
    BY <2>1, <2>2, <2>4, <1>0 DEF UserInv
  <2>6. ~pulled => \A u, w \in Captures :
                     Holding(u)' /\ Holding(w)' /\ held'[u] = held'[w] => u = w
    BY <2>2, <2>3, <2>4 DEF UserInv
  <2> QED
    BY <2>1, <2>5, <2>6 DEF UserInv
<1>7. ASSUME NEW t \in Captures, CheckLoop(t) \/ Errors(t) PROVE UserInv'
  BY <1>1, <1>7 DEF CheckLoop, Errors, DequeueFails, QueueFails, Goto, Holding
<1>8. ASSUME NEW t \in Captures, PopFree(t) \/ Copy(t) PROVE UserInv'
  <2>1. /\ \A u \in Captures : Holding(u)' <=> Holding(u)
        /\ \A u \in Captures : torn'[u] => torn[u]
        /\ UNCHANGED <<held, place, pulled>>
    BY <1>8 DEF PopFree, Copy, Goto, Holding
  <2> QED
    BY <1>1, <2>1
<1>9. ASSUME NEW t \in Captures, Queue(t) PROVE UserInv'
  <2>1. /\ Holding(t) /\ held' = [held EXCEPT ![t] = Nothing]
        /\ place' = [place EXCEPT ![held[t]] = "driver"]
        /\ pc' = [pc EXCEPT ![t] = "check"]
        /\ torn' = torn /\ pulled' = pulled
    BY <1>9 DEF Queue, Goto, Holding
  <2>2. \A u \in Captures : Holding(u)' => u # t /\ Holding(u) /\ held'[u] = held[u]
    BY <2>1 DEF Holding
  <2>3. ~pulled => \A u \in Captures : u # t /\ Holding(u) =>
                     held[u] # held[t] /\ place'[held[u]] = place[held[u]]
    BY <2>1, <1>0 DEF UserInv
  <2> QED
    BY <2>1, <2>2, <2>3 DEF UserInv
<1>10. ASSUME NEW b \in Buffers, Fill(b) PROVE UserInv'
  <2>1. ~pulled => \A u \in Captures : Holding(u) => held[u] # b
    BY <1>10 DEF Fill, UserInv
  <2>2. ~pulled => \A u \in Captures : ~torn'[u]
    BY <1>10, <2>1 DEF Fill, UserInv, Holding
  <2> QED
    BY <1>10, <2>2 DEF Fill, UserInv, Holding
<1>11. ASSUME UNCHANGED <<place, pc, held, torn, pulled>> PROVE UserInv'
  BY <1>11 DEF UserInv, Holding
<1>12. CASE Main
  BY <1>2, <1>3, <1>4, <1>5, <1>11, <1>12
  DEF Main, Open, GiveUp, StartFails, StreamOffFails, EndLoop, Join, JoinNothing
<1>13. ASSUME NEW v \in Viewers, Take(v) \/ Drop(v) PROVE UserInv'
  BY <1>11, <1>13 DEF Take, Drop
<1>14. CASE StartPipe \/ StopPipe \/ UNCHANGED vars
  BY <1>11, <1>14 DEF StartPipe, StopPipe, vars
<1> QED
  BY <1>5, <1>6, <1>7, <1>8, <1>9, <1>10, <1>12, <1>13, <1>14 DEF Next, Capture

(* What the callback publishes and the viewers take. *)
LEMMA PictureStep ==
  ASSUME TypeOK, UserInv, NoTornPicture, [Next]_vars
  PROVE  NoTornPicture'
<1> USE DEF TypeOK, device, thread, ring, past
<1>1. ASSUME UNCHANGED <<channel, reading>>, pulled => pulled' PROVE NoTornPicture'
  BY <1>1 DEF NoTornPicture
<1>2. ASSUME NEW t \in Captures, Copy(t) PROVE NoTornPicture'
  <2>1. /\ channel' = Append(channel, IF torn[t] THEN "torn" ELSE "whole")
        /\ reading' = reading /\ pulled' = pulled
    BY <1>2 DEF Copy, Channel!Publish
  <2>2. ~pulled => channel' = Append(channel, "whole")
    BY <2>1 DEF UserInv
  <2>3. /\ Len(channel) \in Nat /\ Len(Append(channel, "whole")) = Len(channel) + 1
        /\ Append(channel, "whole")[Len(channel) + 1] = "whole"
        /\ \A i \in 1 .. Len(channel) : Append(channel, "whole")[i] = channel[i]
    OBVIOUS
  <2>4. \A i \in 1 .. Len(channel) + 1 : i \in 1 .. Len(channel) \/ i = Len(channel) + 1
    BY <2>3
  <2> QED
    BY <2>1, <2>2, <2>3, <2>4 DEF NoTornPicture
<1>3. ASSUME NEW v \in Viewers, Take(v) PROVE NoTornPicture'
  <2>1. /\ channel # <<>> /\ channel' = Tail(channel)
        /\ reading' = [reading EXCEPT ![v] = Head(channel)] /\ pulled' = pulled
    BY <1>3 DEF Take, Channel!Take
  <2>2. /\ Head(channel) = channel[1] /\ Len(channel) \in Nat \ {0}
        /\ Len(channel') = Len(channel) - 1
        /\ \A i \in 1 .. Len(channel') : channel'[i] = channel[i + 1]
    BY <2>1, HeadTailProperties
  <2>3. \A i \in 1 .. Len(channel') : i + 1 \in 1 .. Len(channel)
    BY <2>2
  <2> QED
    BY <2>1, <2>2, <2>3 DEF NoTornPicture
<1>4. ASSUME NEW v \in Viewers, Drop(v) PROVE NoTornPicture'
  BY <1>4, CameraAssumption DEF Drop, Channel!Drop, NoTornPicture
<1>5. CASE Main
  BY <1>1, <1>5
  DEF Main, Open, InitBuffer, GiveUp, Start, StartFails, StreamOff,
      StreamOffFails, EndLoop, Join, JoinNothing, Deinit
<1>6. ASSUME NEW t \in Captures,
             TcpClient(t) \/ CheckLoop(t) \/ Dequeue(t) \/ PopFree(t) \/ Queue(t)
             \/ Errors(t)
      PROVE  NoTornPicture'
  BY <1>1, <1>6
  DEF TcpClient, CheckLoop, Dequeue, PopFree, Queue, Errors, DequeueFails, QueueFails
<1>7. ASSUME NEW b \in Buffers, Fill(b) PROVE NoTornPicture'
  BY <1>1, <1>7 DEF Fill
<1>8. CASE StartPipe \/ StopPipe \/ UNCHANGED vars
  BY <1>1, <1>8 DEF StartPipe, StopPipe, vars
<1> QED
  BY <1>2, <1>3, <1>4, <1>5, <1>6, <1>7, <1>8 DEF Next, Capture

(* Who may run.  Only a start makes a thread run, and it names it. *)
LEMMA ThreadStep ==
  ASSUME TypeOK, OneThread, Next
  PROVE  OneThread'
<1> USE DEF TypeOK, device, thread, ring, past
<1>1. ASSUME UNCHANGED <<main, handle, awaited, others>>,
             \A t \in Captures : Alive(t)' => Alive(t)
      PROVE  OneThread'
  BY <1>1 DEF OneThread
<1>2. ASSUME UNCHANGED <<main, handle, awaited, others, pc>> PROVE OneThread'
  BY <1>2, <1>1 DEF Alive
<1>3. ASSUME NEW t \in Captures, Start(t) PROVE OneThread'
  BY <1>3 DEF Start, StartStream, OneThread, Alive
<1>4. CASE Open \/ GiveUp \/ StartFails \/ Deinit \/ \E b \in Buffers : InitBuffer(b)
  BY <1>4 DEF Open, GiveUp, StartFails, Deinit, InitBuffer, OneThread, Alive
<1>5. CASE StreamOff \/ StreamOffFails \/ EndLoop
  BY <1>5 DEF StreamOff, StreamOffFails, EndLoop, OneThread, Alive
<1>6. CASE Join
  BY <1>6 DEF Join, OneThread, Alive
<1>12. CASE JoinNothing
  <2>1. ~others => \A t \in Captures : ~Alive(t)
    BY <1>12, CameraAssumption DEF JoinNothing, OneThread
  <2> QED
    BY <1>12, <2>1 DEF JoinNothing, OneThread, Alive
<1>7. ASSUME NEW t \in Captures, TcpClient(t) PROVE OneThread'
  BY <1>7 DEF TcpClient, OneThread
<1>8. ASSUME NEW t \in Captures, Capture(t) \/ Errors(t) PROVE OneThread'
  <2>1. /\ UNCHANGED <<main, handle, awaited, others>>
        /\ Alive(t) /\ \A u \in Captures : u # t => pc'[u] = pc[u]
    BY <1>8 DEF Capture, CheckLoop, Dequeue, PopFree, Copy, Queue, Errors,
                DequeueFails, QueueFails, Goto, Alive
  <2> QED
    BY <1>1, <2>1 DEF Alive
<1>9. ASSUME NEW b \in Buffers, Fill(b) PROVE OneThread'
  BY <1>2, <1>9 DEF Fill
<1>10. ASSUME NEW v \in Viewers, Take(v) \/ Drop(v) PROVE OneThread'
  BY <1>2, <1>10 DEF Take, Drop
<1>11. CASE StartPipe \/ StopPipe
  BY <1>2, <1>11 DEF StartPipe, StopPipe
<1> QED
  BY <1>3, <1>4, <1>5, <1>6, <1>7, <1>8, <1>9, <1>10, <1>11, <1>12 DEF Next, Main
-----------------------------------------------------------------------------
LEMMA Invariance == Spec => []IInv
<1>1. IInv /\ [Next]_vars => IInv'
  <2>1. ASSUME OneThread, UNCHANGED vars PROVE OneThread'
    BY <2>1 DEF OneThread, Alive, vars, thread, past
  <2> QED
    BY <2>1, TypeStep, DoneStep, HeldStep, UserStep, PictureStep, ThreadStep
    DEF IInv
<1> QED
  BY <1>1, InitInv, PTL DEF Spec

(***************************************************************************)
(* A viewer never sees a picture put together from two, for any number of  *)
(* buffers and threads, starts, stops and errors: the buffer that          *)
(* alg_process copies from is not the driver's until QBUF.  The one        *)
(* exception is in the property: video_deinit under a running thread.      *)
(***************************************************************************)
THEOREM PicturesWhole == Spec => []NoTornPicture
<1>1. IInv => NoTornPicture
  BY DEF IInv
<1> QED
  BY <1>1, Invariance, PTL

(***************************************************************************)
(* After video_stop_stream the buffers may be unmapped: no capture thread  *)
(* runs, unless somebody else has started the stream too.                  *)
(***************************************************************************)
THEOREM StoppedMeansQuiet == Spec => []QuietAfterStop
<1>1. IInv => QuietAfterStop
  BY DEF IInv, OneThread, QuietAfterStop
<1> QED
  BY <1>1, Invariance, PTL

(***************************************************************************)
(* So a daemon whose own main thread is the only one to start the stream   *)
(* never pulls buffers from under a thread, and the exception above is     *)
(* none: every picture is whole.                                           *)
(***************************************************************************)
THEOREM AloneNeverTorn ==
  Spec => [](~others => ~pulled /\ \A v \in Viewers : reading[v] # "torn")
<1> DEFINE Unpulled == ~others => ~pulled
<1>1. Init => Unpulled
  BY DEF Init
<1>2. IInv /\ Unpulled /\ [Next]_vars => Unpulled'
  <2> SUFFICES ASSUME IInv, Unpulled, [Next]_vars PROVE Unpulled'
    OBVIOUS
  <2> USE DEF past
  <2>1. CASE Deinit
    BY <2>1 DEF Deinit, IInv, OneThread
  <2>2. CASE Main /\ ~Deinit
    BY <2>2 DEF Main, Open, InitBuffer, GiveUp, Start, StartFails, StreamOff,
                StreamOffFails, EndLoop, Join, JoinNothing
  <2>3. ASSUME NEW t \in Captures, TcpClient(t) \/ Capture(t) \/ Errors(t)
        PROVE  Unpulled'
    BY <2>3 DEF TcpClient, Capture, CheckLoop, Dequeue, PopFree, Copy, Queue,
                Errors, DequeueFails, QueueFails
  <2>4. CASE \/ \E b \in Buffers : Fill(b)
             \/ \E v \in Viewers : Take(v) \/ Drop(v)
             \/ StartPipe \/ StopPipe \/ UNCHANGED vars
    BY <2>4 DEF Fill, Take, Drop, StartPipe, StopPipe, vars
  <2> QED
    BY <2>1, <2>2, <2>3, <2>4 DEF Next
<1>3. IInv /\ Unpulled => (~others => ~pulled /\ \A v \in Viewers : reading[v] # "torn")
  BY DEF IInv, NoTornPicture
<1> QED
  BY <1>1, <1>2, <1>3, Invariance, PTL DEF Spec

-----------------------------------------------------------------------------
(* The registers of the sensor: the three settings that can be read back   *)
(* have a register to themselves.                                          *)
SensorInv ==
  /\ reg \in [Sensor!Registers -> Values \cup {0, 1, 2}]
  /\ asked \in [Settings -> Values \cup {Nothing, 1}]
  /\ Sensor!ReadsBack

LEMMA FlagRegisters ==
  /\ \A s \in Sensor!Flags : Sensor!Read[s] = Sensor!Written[s] /\ Sensor!Written[s] # "Trigger_Count"
  /\ \A s \in Sensor!Flags, r \in Settings :
       Sensor!Written[r] = Sensor!Written[s] => r = s
  /\ \A r \in Settings : Sensor!Written[r] \in Sensor!Registers
  /\ "Trigger_Count" \in Sensor!Registers
  BY SettingsAssumption DEF Sensor!Flags, Sensor!Read, Sensor!Written, Sensor!Registers

LEMMA FlagSet ==
  ASSUME NEW s \in Sensor!Flags, NEW v
  PROVE  Sensor!Decode(s, Sensor!Encode(s, v)) = IF v # 0 THEN 1 ELSE v
  BY DEF Sensor!Flags, Sensor!Decode, Sensor!Encode

LEMMA SensorStep == SensorInv /\ [Sensor!Next]_Sensor!vars => SensorInv'
<1> SUFFICES ASSUME SensorInv, [Sensor!Next]_Sensor!vars PROVE SensorInv'
  OBVIOUS
<1> USE DEF SensorInv, Sensor!ReadsBack, Sensor!Get
<1>0. \A s \in Sensor!Flags : Sensor!Read[s] = Sensor!Written[s]
  BY FlagRegisters
<1>1. ASSUME NEW s \in Settings PROVE Sensor!SetFails(s) => SensorInv'
  BY DEF Sensor!SetFails
<1>2. ASSUME NEW s \in Settings, NEW v \in Values, Sensor!Set(s, v) PROVE SensorInv'
  <2>1. Sensor!Encode(s, v) \in Values \cup {0, 1, 2}
    BY DEF Sensor!Encode
  <2>2. /\ reg' = [reg EXCEPT ![Sensor!Written[s]] = Sensor!Encode(s, v)]
        /\ Sensor!Written[s] \in Sensor!Registers
        /\ asked' = [asked EXCEPT ![s] = IF s \in Sensor!Flags /\ v # 0 THEN 1 ELSE v]
    BY <1>2, FlagRegisters DEF Sensor!Set, Sensor!Register
  <2>3. /\ reg' \in [Sensor!Registers -> Values \cup {0, 1, 2}]
        /\ asked' \in [Settings -> Values \cup {Nothing, 1}]
    BY <2>1, <2>2
  <2>4. ASSUME NEW f \in Settings \cap Sensor!Flags, asked'[f] # Nothing
        PROVE  Sensor!Decode(f, reg'[Sensor!Written[f]]) = asked'[f]
    <3>1. CASE f = s
      <4>1. reg'[Sensor!Written[f]] = Sensor!Encode(f, v)
        BY <2>2, <3>1
      <4>2. asked'[f] = IF v # 0 THEN 1 ELSE v
        BY <2>2, <2>4, <3>1
      <4> QED
        BY <4>1, <4>2, FlagSet
    <3>2. CASE f # s
      <4>1. Sensor!Written[s] # Sensor!Written[f] /\ Sensor!Written[f] \in Sensor!Registers
        BY <3>2, <2>4, FlagRegisters
      <4>2. reg'[Sensor!Written[f]] = reg[Sensor!Written[f]] /\ asked'[f] = asked[f]
        BY <2>2, <3>2, <4>1
      <4> QED
        BY <1>0, <2>4, <4>2
    <3> QED
      BY <3>1, <3>2
  <2> QED
    BY <1>0, <2>3, <2>4
<1>3. ASSUME NEW s \in Settings, NEW v \in Values,
             Sensor!WriteReg(Sensor!Register(s), v)
      PROVE  SensorInv'
  <2>1. /\ reg' = [reg EXCEPT ![Sensor!Written[s]] = v]
        /\ asked' = [r \in Settings |-> IF Sensor!Written[r] = Sensor!Written[s]
                                        THEN Nothing ELSE asked[r]]
        /\ Sensor!Written[s] \in Sensor!Registers
    BY <1>3, FlagRegisters DEF Sensor!WriteReg, Sensor!Register
  <2>2. ASSUME NEW f \in Settings \cap Sensor!Flags, asked'[f] # Nothing
        PROVE  Sensor!Decode(f, reg'[Sensor!Written[f]]) = asked'[f]
    <3>1. /\ Sensor!Written[s] # Sensor!Written[f] /\ asked'[f] = asked[f]
          /\ Sensor!Written[f] \in Sensor!Registers
      BY <2>1, <2>2, FlagRegisters
    <3>2. reg'[Sensor!Written[f]] = reg[Sensor!Written[f]]
      BY <2>1, <3>1
    <3> QED
      BY <1>0, <2>2, <3>1, <3>2
  <2> QED
    BY <1>0, <2>1, <2>2
<1>4. Sensor!Reboot => SensorInv'
  BY DEF Sensor!Reboot
<1>5. ASSUME Sensor!Trigger PROVE SensorInv'
  <2>1. /\ reg' \in [Sensor!Registers -> Values \cup {0, 1, 2}]
        /\ \A r \in Sensor!Registers : r # "Trigger_Count" => reg'[r] = reg[r]
        /\ asked' = asked
    BY <1>5, FlagRegisters DEF Sensor!Trigger
  <2>2. \A f \in Settings \cap Sensor!Flags :
          reg'[Sensor!Written[f]] = reg[Sensor!Written[f]]
    BY <2>1, FlagRegisters
  <2> QED
    BY <1>0, <2>1, <2>2
<1>6. CASE UNCHANGED Sensor!vars
  BY <1>6 DEF Sensor!vars
<1> QED
  BY <1>1, <1>2, <1>3, <1>4, <1>5, <1>6 DEF Sensor!Next

(* Whatever programs set, write, trigger and reboot, and whichever writes  *)
(* fail, the modes of exposure, gain and GPIO1 (and none of the others)    *)
(* read back as they were last set: they share no register with another    *)
(* setting.                                                                *)
THEOREM SettingsKept == Sensor!Spec => []ReadsBack
<1>1. Sensor!Init => SensorInv
  BY DEF Sensor!Init, SensorInv, Sensor!ReadsBack
<1>2. SensorInv => ReadsBack
  BY DEF SensorInv, ReadsBack
<1> QED
  BY <1>1, <1>2, SensorStep, PTL DEF Sensor!Spec
=============================================================================
