------------------------------- MODULE Camera -------------------------------
(* The camera of the SmartCam (project/SmartCam/app/video.c) as the daemon *)
(* uses it (video_daemon.c, tcp_server.c): the buffers that travel between *)
(* the V4L2 driver and the capture thread, and starting and stopping the   *)
(* stream.  The frames the callback fills are those of the ring buffer,    *)
(* here by what it promises: the FIFO channel of FrameChannel.             *)
EXTENDS Naturals, Sequences, FiniteSets

CONSTANTS
  Buffers,   \* the FRAME_BUFFER_COUNT buffers of the driver
  Frames,    \* MAX_BUFFERS of the ring buffer
  Viewers,   \* threads that run need_data
  Captures,  \* threads pthread_create can make
  Nothing    \* no buffer, no thread, no picture

ASSUME CameraAssumption ==
  /\ Frames \in Nat \ {0}
  /\ Nothing \notin Buffers \cup Captures \cup {"whole", "torn"}

VARIABLES
  main,       \* what the main thread has made of the device
  place,      \* where each buffer is
  done,       \* the filled buffers, in the order DQBUF returns them
  streaming,  \* between STREAMON and STREAMOFF
  loop,       \* the flag of the capture loop
  handle,     \* video_thread
  pc, held,   \* of each capture thread: where it is, and its buffer
  torn,       \* the driver wrote to that buffer while the thread copied it
  channel, reading, \* the ring buffer
  playing,    \* the pipeline asks for data
  awaited,    \* the thread video_stop_stream joins
  others,     \* somebody else than the main thread has started the stream
  pulled,     \* buffers were unmapped under a running thread
  stopped, failed  \* since the buffers were queued: STREAMOFF, a call of
                   \* the driver that failed

device == <<place, done, streaming>>
thread == <<pc, held, torn>>
ring   == <<channel, reading>>
past   == <<others, pulled, stopped, failed>>
vars   == <<main, device, loop, handle, awaited, thread, ring, playing, past>>

Channel == INSTANCE FrameChannel WITH
  Readers <- Viewers, Pictures <- {"whole", "torn"}, NoPicture <- Nothing,
  Capacity <- Frames

(* A created capture thread that has not returned. *)
Alive(t) == pc[t] \notin {"none", "ended"}
Copying(t) == pc[t] = "copy"

FreeFrames ==
  Frames - Len(channel) - Cardinality({v \in Viewers : reading[v] # Nothing})
         - Cardinality({t \in Captures : Copying(t)})

Init ==
  /\ main = "closed"
  /\ place = [b \in Buffers |-> "unmapped"] /\ done = <<>>
  /\ streaming = FALSE /\ loop = FALSE /\ handle = Nothing /\ awaited = Nothing
  /\ pc = [t \in Captures |-> "none"]
  /\ held = [t \in Captures |-> Nothing] /\ torn = [t \in Captures |-> FALSE]
  /\ Channel!Init
  /\ playing = FALSE
  /\ others = FALSE /\ pulled = FALSE /\ stopped = FALSE /\ failed = FALSE
-----------------------------------------------------------------------------
(* The main thread.  video_open and get_video_type.                        *)
Open ==
  /\ main = "closed"
  /\ main' = "opened"
  /\ UNCHANGED <<device, loop, handle, awaited, thread, ring, playing, past>>

(* video_init asks for the buffers, maps each and gives it to the driver;  *)
(* whether the format could be set is not looked at.                       *)
InitBuffer(b) ==
  /\ main = "opened" /\ place[b] = "unmapped"
  /\ place' = [place EXCEPT ![b] = "driver"]
  /\ main' = IF \A c \in Buffers \ {b} : place[c] # "unmapped" THEN "ready" ELSE main
  /\ stopped' = FALSE /\ failed' = FALSE
  /\ UNCHANGED <<done, streaming, loop, handle, awaited, thread, ring, playing,
                 others, pulled>>

(* An open or init that fails ends the daemon.                             *)
GiveUp ==
  /\ main \in {"closed", "opened"}
  /\ main' = "ended"
  /\ UNCHANGED <<device, loop, handle, awaited, thread, ring, playing, past>>

(* video_start_stream, by whoever calls it: STREAMON may fail; then loop   *)
(* is set, and video_thread overwritten with a new thread.                 *)
StartStream(t) ==
  /\ ~Alive(t) /\ handle # t
  /\ streaming' = TRUE /\ loop' = TRUE /\ handle' = t
  /\ pc' = [pc EXCEPT ![t] = "check"]
  /\ held' = [held EXCEPT ![t] = Nothing]
  /\ torn' = [torn EXCEPT ![t] = FALSE]

Start(t) ==
  /\ main = "ready"
  /\ StartStream(t)
  /\ main' = "streaming"
  /\ UNCHANGED <<place, done, awaited, ring, playing, past>>

(* stream_video of the TCP server: a start for every client.               *)
TcpClient(t) ==
  /\ main \in {"ready", "streaming", "leaving", "joining"}
  /\ StartStream(t)
  /\ others' = TRUE
  /\ UNCHANGED <<main, place, done, awaited, ring, playing, pulled, stopped, failed>>

StartFails ==
  /\ main = "ready"
  /\ main' = "streaming" /\ failed' = TRUE
  /\ UNCHANGED <<device, loop, handle, awaited, thread, ring, playing, others, pulled, stopped>>

(* video_stop_stream, also after a start that failed.  STREAMOFF takes     *)
(* every buffer from the driver; a thread that sleeps in DQBUF wakes up.   *)
StreamOff ==
  /\ main = "streaming"
  /\ streaming' = FALSE /\ done' = <<>>
  /\ place' = [b \in Buffers |-> IF place[b] = "driver" THEN "user" ELSE place[b]]
  /\ main' = "leaving" /\ stopped' = TRUE
  /\ UNCHANGED <<loop, handle, awaited, thread, ring, playing, others, pulled, failed>>

StreamOffFails ==
  /\ main = "streaming"
  /\ failed' = TRUE
  /\ UNCHANGED <<main, device, loop, handle, awaited, thread, ring, playing, others, pulled, stopped>>

(* Mutant of EndLoop: the caller goes on without the join.                 *)
EndLoopOnly ==
  /\ main = "leaving"
  /\ loop' = FALSE /\ main' = "ready" /\ handle' = Nothing
  /\ UNCHANGED <<device, awaited, thread, ring, playing, past>>

EndLoop ==
  /\ main = "leaving"
  /\ loop' = FALSE /\ main' = "joining" /\ awaited' = handle
  /\ UNCHANGED <<device, handle, thread, ring, playing, past>>

Join ==
  /\ main = "joining" /\ awaited # Nothing /\ ~Alive(awaited)
  /\ main' = "ready" /\ awaited' = Nothing
  /\ handle' = IF handle = awaited THEN Nothing ELSE handle
  /\ UNCHANGED <<device, loop, thread, ring, playing, past>>

(* After a start that failed video_thread names no thread, or one that has *)
(* been joined.  The behaviour of pthread_join is undefined then: it finds *)
(* nothing to wait for, or ends the process.                               *)
JoinNothing ==
  /\ main = "joining" /\ awaited = Nothing
  /\ main' \in {"ready", "ended"}
  /\ UNCHANGED <<device, loop, handle, awaited, thread, ring, playing, past>>

(* video_deinit: the buffers are unmapped and the device is closed.        *)
Deinit ==
  /\ main = "ready"
  /\ main' = "closed" /\ streaming' = FALSE /\ done' = <<>>
  /\ place' = [b \in Buffers |-> "unmapped"]
  /\ pulled' = (pulled \/ \E t \in Captures : Alive(t))
  /\ UNCHANGED <<loop, handle, awaited, thread, ring, playing, others, stopped, failed>>
-----------------------------------------------------------------------------
(* The capture loop of thread t.                                           *)
Goto(t, l) == pc' = [pc EXCEPT ![t] = l]

CheckLoop(t) ==
  /\ pc[t] = "check"
  /\ Goto(t, IF loop THEN "dequeue" ELSE "ended")
  /\ UNCHANGED <<main, device, loop, handle, awaited, held, torn, ring, playing, past>>

(* Mutant of Dequeue: the buffer stays with the driver while it is read.   *)
DequeueShared(t) ==
  /\ pc[t] = "dequeue" /\ streaming /\ done # <<>>
  /\ held' = [held EXCEPT ![t] = Head(done)]
  /\ done' = Tail(done)
  /\ Goto(t, "popFree")
  /\ UNCHANGED <<main, place, streaming, loop, handle, awaited, torn, ring, playing, past>>
Dequeue(t) ==
  /\ pc[t] = "dequeue" /\ streaming /\ done # <<>>
  /\ held' = [held EXCEPT ![t] = Head(done)]
  /\ place' = [place EXCEPT ![Head(done)] = "user"]
  /\ done' = Tail(done)
  /\ Goto(t, "popFree")
  /\ UNCHANGED <<main, streaming, loop, handle, awaited, torn, ring, playing, past>>

(* Mutant of DequeueFails: try again.                                      *)
DequeueAgain(t) ==
  /\ pc[t] = "dequeue" /\ UNCHANGED vars

(* Without a stream DQBUF fails at once; it may fail at any time, and the  *)
(* thread ends then, whatever loop says.                                   *)
DequeueFails(t) ==
  /\ pc[t] = "dequeue"
  /\ failed' = (failed \/ streaming)
  /\ Goto(t, "ended")
  /\ UNCHANGED <<main, device, loop, handle, awaited, held, torn, ring, playing,
                 others, pulled, stopped>>

(* The callback, alg_process: ringbuffer_push waits for a free frame,      *)
(* copies the picture and passes it on.                                    *)
PopFree(t) ==
  /\ pc[t] = "popFree" /\ FreeFrames > 0
  /\ torn' = [torn EXCEPT ![t] = FALSE]
  /\ Goto(t, "copy")
  /\ UNCHANGED <<main, device, loop, handle, awaited, held, ring, playing, past>>

Copy(t) ==
  /\ pc[t] = "copy"
  /\ Channel!Publish(IF torn[t] THEN "torn" ELSE "whole")
  /\ torn' = [torn EXCEPT ![t] = FALSE]
  /\ Goto(t, "queue")
  /\ UNCHANGED <<main, device, loop, handle, awaited, held, playing, past>>

(* Mutant of Queue: the buffer does not go back.                           *)
QueueNothing(t) ==
  /\ pc[t] = "queue" /\ place[held[t]] = "user"
  /\ held' = [held EXCEPT ![t] = Nothing]
  /\ Goto(t, "check")
  /\ UNCHANGED <<main, device, loop, handle, awaited, torn, ring, playing, past>>

(* QBUF.  The index is all the driver is told.                             *)
Queue(t) ==
  /\ pc[t] = "queue" /\ place[held[t]] = "user"
  /\ place' = [place EXCEPT ![held[t]] = "driver"]
  /\ held' = [held EXCEPT ![t] = Nothing]
  /\ Goto(t, "check")
  /\ UNCHANGED <<main, done, streaming, loop, handle, awaited, torn, ring, playing, past>>

QueueFails(t) ==
  /\ pc[t] = "queue"
  /\ failed' = TRUE
  /\ held' = [held EXCEPT ![t] = Nothing]
  /\ Goto(t, "ended")
  /\ UNCHANGED <<main, device, loop, handle, awaited, torn, ring, playing, others, pulled, stopped>>
-----------------------------------------------------------------------------
(* The driver fills one of its buffers with the next picture, whoever      *)
(* reads it.                                                               *)
Fill(b) ==
  /\ streaming /\ place[b] = "driver" /\ \A i \in 1 .. Len(done) : done[i] # b
  /\ done' = Append(done, b)
  /\ torn' = [t \in Captures |-> torn[t] \/ (pc[t] = "copy" /\ held[t] = b)]
  /\ UNCHANGED <<main, place, streaming, loop, handle, awaited, pc, held, ring, playing, past>>

(* need_data, as long as the pipeline plays; gstreamer_start_pipe and      *)
(* gstreamer_stop_pipe switch that.                                        *)
Take(v) ==
  /\ playing /\ Channel!Take(v)
  /\ UNCHANGED <<main, device, loop, handle, awaited, thread, playing, past>>
Drop(v) ==
  /\ Channel!Drop(v)
  /\ UNCHANGED <<main, device, loop, handle, awaited, thread, playing, past>>
StartPipe ==
  /\ ~playing /\ playing' = TRUE
  /\ UNCHANGED <<main, device, loop, handle, awaited, thread, ring, past>>
StopPipe ==
  /\ playing /\ playing' = FALSE
  /\ UNCHANGED <<main, device, loop, handle, awaited, thread, ring, past>>

Main == \/ Open \/ (\E b \in Buffers : InitBuffer(b)) \/ GiveUp
        \/ (\E t \in Captures : Start(t)) \/ StartFails
        \/ StreamOff \/ StreamOffFails \/ EndLoop \/ Join \/ JoinNothing \/ Deinit

Capture(t) == \/ CheckLoop(t) \/ Dequeue(t) \/ PopFree(t) \/ Copy(t) \/ Queue(t)
Errors(t)  == DequeueFails(t) \/ QueueFails(t)

Next ==
  /\ main # "ended"
  /\ \/ Main
     \/ \E t \in Captures : TcpClient(t) \/ Capture(t) \/ Errors(t)
     \/ \E b \in Buffers : Fill(b)
     \/ \E v \in Viewers : Take(v) \/ Drop(v)
     \/ StartPipe \/ StopPipe

Spec == Init /\ [][Next]_vars

(* Threads are scheduled, the camera sees pictures, viewers take what they *)
(* ask for, and a thread in DQBUF is woken by STREAMOFF.                   *)
Fairness ==
  /\ \A t \in Captures : /\ WF_vars(main # "ended" /\ Capture(t))
                         /\ WF_vars(main # "ended" /\ ~streaming /\ DequeueFails(t))
  /\ WF_vars(main # "ended" /\ (EndLoop \/ Join \/ JoinNothing))
  /\ WF_vars(main # "ended" /\ \E b \in Buffers : Fill(b))
  /\ \A v \in Viewers : WF_vars(main # "ended" /\ Take(v)) /\ WF_vars(main # "ended" /\ Drop(v))

FairSpec == Spec /\ Fairness
-----------------------------------------------------------------------------
(* A viewer never sees a picture put together from two: the driver does    *)
(* not write to a buffer the callback reads, with any number of capture    *)
(* threads, stops and restarts, as long as nobody unmaps buffers that are  *)
(* in use.                                                                 *)
NoTornPicture ==
  ~pulled => /\ \A i \in 1 .. Len(channel) : channel[i] = "whole"
             /\ \A v \in Viewers : reading[v] # "torn"

(* When video_stop_stream has returned no capture thread runs, so that the *)
(* buffers may be unmapped; a TCP client that started the stream too has   *)
(* overwritten video_thread, and one thread is never waited for.           *)
QuietAfterStop ==
  ~others /\ main \in {"ready", "closed", "opened"} => \A t \in Captures : ~Alive(t)

(* The join of video_stop_stream returns if viewers go on asking for data: *)
(* a paused pipeline, or a second start that sets loop again, is all that  *)
(* can keep it waiting.                                                    *)
StopReturns == main = "joining" ~> (main # "joining" \/ ~playing \/ others)

(* A stream that was never stopped since its buffers were queued delivers  *)
(* pictures for ever, unless a call of the driver fails or the viewers     *)
(* stop: every buffer comes back to the driver.  After STREAMOFF none but  *)
(* the one in use does.                                                    *)
KeepsDelivering ==
  <>[](main = "streaming" /\ ~stopped /\ ~failed /\ playing) => []<>(channel # <<>>)
=============================================================================
