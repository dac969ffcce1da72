---------------------------- MODULE FrameChannel ----------------------------
(***************************************************************************)
(* What the frame buffers of the SmartCam video daemon promise to the      *)
(* threads on either side of them: a bounded first-in first-out channel of *)
(* pictures.  A picture the capture side has published is handed to one    *)
(* reader, in the order of publication, and stays the same picture for as  *)
(* long as that reader looks at it.  RingBuffer implements this module.    *)
(***************************************************************************)
EXTENDS Naturals, Sequences

CONSTANTS
  Readers,   \* the threads that take pictures out of the channel
  Pictures,  \* what a frame buffer can show
  NoPicture, \* a reader that looks at nothing
  Capacity   \* how many pictures can be published and not yet taken

VARIABLES
  channel,   \* the published pictures, oldest first
  reading    \* the picture each reader is looking at

vars == <<channel, reading>>

Init == /\ channel = <<>>
        /\ reading = [r \in Readers |-> NoPicture]

(* One picture more, behind all the others. *)
Publish(p) == /\ Len(channel) < Capacity
              /\ channel' = Append(channel, p)
              /\ UNCHANGED reading

(* An idle reader takes the oldest picture. *)
Take(r) == /\ reading[r] = NoPicture
           /\ channel # <<>>
           /\ reading' = [reading EXCEPT ![r] = Head(channel)]
           /\ channel' = Tail(channel)

(* The reader is done with its picture. *)
Drop(r) == /\ reading[r] # NoPicture
           /\ reading' = [reading EXCEPT ![r] = NoPicture]
           /\ UNCHANGED channel

Next == \/ \E p \in Pictures : Publish(p)
        \/ \E r \in Readers : Take(r) \/ Drop(r)

Spec == Init /\ [][Next]_vars
=============================================================================
