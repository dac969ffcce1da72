-------------------------- MODULE SdMonitorProofs ---------------------------
(* The SD card monitor mounts what is there, for any number of partitions, *)
(* of cards put in and taken out, of nodes of strangers that share a       *)
(* number with a partition, and of deaths of the monitor.                  *)
(*                                                                         *)
(* Mounts and nodes disagree all the time while events are on their way.   *)
(* The invariant says of each partition what in the queue, or in the       *)
(* monitor's hands, will put it right.                                     *)
EXTENDS SdMonitor, SequenceTheorems, TLAPS

Event == [op : {"create", "delete"}, name : Names]

Deletes(e, n) == e.op = "delete" /\ Number[e.name] = Number[n]
Creates(e, n) == e.op = "create" /\ e.name = n

DeleteIn(q, n) == \E i \in 1 .. Len(q) : Deletes(q[i], n)
CreateIn(q, n) == \E i \in 1 .. Len(q) : Creates(q[i], n)
(* A creation that no deletion comes after.                                *)
BackIn(q, n) ==
  \E i \in 1 .. Len(q) : Creates(q[i], n) /\ \A j \in i .. Len(q) : ~Deletes(q[j], n)

Busy(n, labels) == pc \in labels /\ name = n

Shape ==
  /\ TypeOK
  /\ \A n \in waiting : node[n] = None /\ card # None
  /\ (~watching => events = <<>>) /\ (watching <=> pc # "down")
  /\ pc \in {"scan probe", "scan mount", "probe", "free", "mount"} => name \in SdNames
  /\ pc \notin {"scan", "scan probe", "scan mount"} => todo = {}
  /\ pc = "mount" => ~InUse(name)

(* A mounted partition whose node is gone has a deletion in the queue.     *)
Gone(n) == node[n] = None => ~InUse(n) \/ DeleteIn(events, n)
(* A deletion in the queue that is out of date has a creation behind it.   *)
Order(n) == node[n] # None => ~DeleteIn(events, n) \/ BackIn(events, n)
(* What else is mounted in the place of a partition will be unmounted.     *)
Fresh(n) ==
  node[n] = card /\ card # None =>
    \/ mounted[Number[n]] \in {None, node[n]} \/ DeleteIn(events, n)
    \/ n \in readable \cap ready /\ (CreateIn(events, n) \/ Busy(n, {"probe", "free"}))
(* A partition that is not mounted is still to be looked at.               *)
Due(n) ==
  node[n] = card /\ card # None /\ n \in readable =>
    \/ mounted[Number[n]] = node[n] \/ BackIn(events, n)
    \/ Busy(n, {"scan probe", "scan mount", "probe", "free", "mount"})
    \/ n \in todo \/ pc = "down"

Good(n) == Gone(n) /\ Order(n) /\ Fresh(n) /\ Due(n)

MountInv == Shape /\ \A n \in SdNames : Promised(n) => Good(n)

-----------------------------------------------------------------------------
(* The queue of events: what is put in at its end, and taken from its      *)
(* head.                                                                   *)
LEMMA Appended ==
  ASSUME NEW q \in Seq(Event), NEW e \in Event, NEW n \in SdNames
  PROVE  /\ Append(q, e) \in Seq(Event)
         /\ Deletes(e, n) \/ DeleteIn(q, n) <=> DeleteIn(Append(q, e), n)
         /\ ~Deletes(e, n) /\ BackIn(q, n) => BackIn(Append(q, e), n)
         /\ Creates(e, n) => BackIn(Append(q, e), n)
         /\ Creates(e, n) \/ CreateIn(q, n) <=> CreateIn(Append(q, e), n)
<1> DEFINE r == Append(q, e)
<1>1. /\ r \in Seq(Event) /\ Len(r) = Len(q) + 1 /\ r[Len(q) + 1] = e /\ Len(q) \in Nat
      /\ \A i \in 1 .. Len(q) : r[i] = q[i]
  BY AppendProperties
<1> HIDE DEF r
<1>2. Deletes(e, n) \/ DeleteIn(q, n) <=> DeleteIn(r, n)
  BY <1>1 DEF DeleteIn
<1>3. ~Deletes(e, n) /\ BackIn(q, n) => BackIn(r, n)
  BY <1>1 DEF BackIn
<1>4. Creates(e, n) => BackIn(r, n)
  BY <1>1 DEF BackIn, Creates, Deletes
<1>5. Creates(e, n) \/ CreateIn(q, n) <=> CreateIn(r, n)
  BY <1>1 DEF CreateIn
<1> QED
  BY <1>1, <1>2, <1>3, <1>4, <1>5 DEF r

LEMMA Taken ==
  ASSUME NEW q \in Seq(Event), q # <<>>, NEW n \in SdNames
  PROVE  /\ Tail(q) \in Seq(Event) /\ Head(q) \in Event
         /\ Deletes(Head(q), n) \/ DeleteIn(Tail(q), n) <=> DeleteIn(q, n)
         /\ ~Creates(Head(q), n) /\ BackIn(q, n) => BackIn(Tail(q), n)
         /\ BackIn(q, n) => BackIn(Tail(q), n) \/ ~DeleteIn(Tail(q), n)
         /\ Creates(Head(q), n) \/ CreateIn(Tail(q), n) <=> CreateIn(q, n)
<1> DEFINE r == Tail(q)
<1>1. /\ r \in Seq(Event) /\ Len(r) = Len(q) - 1 /\ Len(q) \in Nat \ {0}
      /\ \A i \in 1 .. Len(r) : r[i] = q[i + 1]
      /\ Head(q) = q[1] /\ q[1] \in Event
  BY EmptySeq, HeadTailProperties
<1> HIDE DEF r
<1>2. \A i \in 2 .. Len(q) : i - 1 \in 1 .. Len(r) /\ r[i - 1] = q[i]
  BY <1>1
<1>3. Deletes(q[1], n) \/ DeleteIn(r, n) <=> DeleteIn(q, n)
  BY <1>1, <1>2 DEF DeleteIn
<1>4. Creates(q[1], n) \/ CreateIn(r, n) <=> CreateIn(q, n)
  BY <1>1, <1>2 DEF CreateIn
<1>5. ASSUME NEW i \in 2 .. Len(q), Creates(q[i], n),
             \A j \in i .. Len(q) : ~Deletes(q[j], n)
      PROVE  BackIn(r, n)
  <2>1. \A j \in i - 1 .. Len(r) : ~Deletes(r[j], n)
    BY <1>1, <1>5
  <2> QED
    BY <1>2, <1>5, <2>1 DEF BackIn
<1>6. BackIn(q, n) =>
        BackIn(r, n) \/ (Creates(q[1], n) /\ \A j \in 1 .. Len(q) : ~Deletes(q[j], n))
  BY <1>1, <1>5 DEF BackIn
<1>7. (\A j \in 1 .. Len(q) : ~Deletes(q[j], n)) => ~DeleteIn(r, n)
  BY <1>3 DEF DeleteIn
<1> QED
  BY <1>1, <1>3, <1>4, <1>6, <1>7 DEF r

LEMMA Uncontested ==
  ASSUME NEW q \in Seq(Event), NEW n, CreateIn(q, n), ~DeleteIn(q, n)
  PROVE  BackIn(q, n)
<1>1. PICK i \in 1 .. Len(q) : Creates(q[i], n)
  BY DEF CreateIn
<1>2. Len(q) \in Nat
  BY LenProperties
<1>3. \A j \in i .. Len(q) : j \in 1 .. Len(q)
  BY <1>2
<1> QED
  BY <1>1, <1>3 DEF DeleteIn, BackIn

-----------------------------------------------------------------------------
(* What the invariant says besides the promises.                           *)
LEMMA NotifyKeeps ==
  ASSUME Shape, NEW op \in {"create", "delete"}, NEW m \in Names, Notify(op, m)
  PROVE  /\ events' \in Seq(Event) /\ excused' \subseteq MountPoints
         /\ ~watching => events' = <<>>
<1>1. [op |-> op, name |-> m] \in Event /\ events \in Seq(Event)
  BY DEF Shape, TypeOK, Event
<1>2. Append(events, [op |-> op, name |-> m]) \in Seq(Event)
  BY <1>1, AppendProperties
<1>3. \A n \in Names : Number[n] \in MountPoints
  BY DEF MountPoints
<1>4. excused \subseteq MountPoints
  BY DEF Shape, TypeOK
<1>5. CASE watching
  BY <1>2, <1>3, <1>4, <1>5 DEF Notify
<1>6. CASE ~watching
  BY <1>1, <1>4, <1>6 DEF Notify, Shape
<1> QED
  BY <1>5, <1>6

LEMMA KernelShape == Shape /\ Kernel => Shape'
<1> SUFFICES ASSUME Shape, Kernel PROVE Shape'
  OBVIOUS
<1> USE NumberAssumption, BoundAssumption
<1>n. SdNames \subseteq Names /\ Strangers \subseteq Names /\ \A n \in Names : Number[n] \in MountPoints
  BY DEF Names, MountPoints
<1>1. CASE CardIn
  <2>a. used \in 0 .. MaxCards /\ used < MaxCards /\ used' = used + 1 /\ card' = used + 1
    BY <1>1 DEF CardIn, Shape, TypeOK
  <2>b. waiting' \subseteq SdNames /\ readable' \subseteq SdNames
    BY <1>1 DEF CardIn
  <2>1. /\ used' \in 0 .. MaxCards /\ card' \in Cards /\ card' # None
        /\ waiting' \subseteq SdNames /\ readable' \subseteq SdNames
    BY <2>a, <2>b DEF Cards, None
  <2>2. \A n \in waiting' : node'[n] = None
    BY <1>1, <2>1 DEF CardIn
  <2>3. TypeOK'
    BY <1>1, <2>1 DEF CardIn, Shape, TypeOK
  <2> QED
    BY <1>1, <2>1, <2>2, <2>3 DEF CardIn, Shape, InUse
<1>2. CASE CardOut
  BY <1>2 DEF CardOut, Shape, TypeOK, InUse, Cards, None
<1>3. ASSUME NEW n \in SdNames, NodeAppears(n) PROVE Shape'
  <2>1. events' \in Seq(Event) /\ excused' \subseteq MountPoints /\ (~watching => events' = <<>>)
    BY <1>n, <1>3, NotifyKeeps DEF NodeAppears
  <2> QED
    BY <1>n, <1>3, <2>1 DEF NodeAppears, Shape, TypeOK, InUse, Event
<1>4. ASSUME NEW n \in SdNames, DeviceReady(n) PROVE Shape'
  BY <1>4 DEF DeviceReady, Shape, TypeOK, InUse
<1>5. ASSUME NEW n \in SdNames, NodeVanishes(n) PROVE Shape'
  <2>1. events' \in Seq(Event) /\ excused' \subseteq MountPoints /\ (~watching => events' = <<>>)
    <3>1. CASE watching
      BY <1>n, <1>5, <3>1, NotifyKeeps DEF NodeVanishes
    <3>2. CASE ~watching
      BY <1>n, <1>5, <3>2 DEF NodeVanishes, Shape, TypeOK, Event
    <3> QED
      BY <3>1, <3>2
  <2> QED
    BY <1>n, <1>5, <2>1 DEF NodeVanishes, Shape, TypeOK, InUse, Event
<1>6. ASSUME NEW n \in Strangers, StrangerChanges(n) PROVE Shape'
  <2>1. events' \in Seq(Event) /\ excused' \subseteq MountPoints /\ (~watching => events' = <<>>)
    BY <1>n, <1>6, NotifyKeeps DEF StrangerChanges
  <2>2. n \notin SdNames
    OBVIOUS
  <2>3. /\ node' \in [Names -> Cards \cup {None}] /\ strange' \in 0 .. MaxStrange
        /\ \A m \in SdNames : node'[m] = node[m]
    <3>a. MaxCards \in Nat \ {0} /\ MaxStrange \in Nat
      OBVIOUS
    <3>b. 1 \in Cards
      BY <3>a DEF Cards
    <3>1. 1 \in Cards /\ n \in Names /\ node \in [Names -> Cards \cup {None}]
      BY <1>n, <3>b DEF Shape, TypeOK
    <3>2. node' \in [Names -> Cards \cup {None}] /\ \A m \in SdNames : node'[m] = node[m]
      BY <1>n, <1>6, <2>2, <3>1 DEF StrangerChanges
    <3>3. strange' \in 0 .. MaxStrange
      <4>1. strange \in 0 .. MaxStrange
        BY DEF Shape, TypeOK
      <4>2. strange < MaxStrange /\ strange' = strange + 1
        BY <1>6 DEF StrangerChanges
      <4> QED
        BY <3>a, <4>1, <4>2
    <3> QED
      BY <3>2, <3>3
  <2>4. TypeOK'
    BY <1>6, <2>1, <2>3 DEF StrangerChanges, Shape, TypeOK, Event
  <2> QED
    BY <1>6, <2>1, <2>3, <2>4 DEF StrangerChanges, Shape, TypeOK, InUse
<1> QED
  BY <1>1, <1>2, <1>3, <1>4, <1>5, <1>6 DEF Kernel

LEMMA MonitorShape == Shape /\ (Monitor \/ CommandFails \/ Killed) => Shape'
<1> SUFFICES ASSUME Shape, Monitor \/ CommandFails \/ Killed PROVE Shape'
  OBVIOUS
<1> USE NumberAssumption, BoundAssumption DEF kernel, GoTo
<1>n. SdNames \subseteq Names /\ \A n \in Names : Number[n] \in MountPoints
  BY DEF Names, MountPoints
<1>h. events # <<>> /\ events' = Tail(events) =>
        events' \in Seq(Event) /\ Head(events) \in Event
  <2>1. events \in Seq(Event)
    BY DEF Shape, TypeOK, Event
  <2> QED
    BY <2>1, HeadTailProperties
<1>1. CASE Start
  BY <1>1 DEF Start, Shape, TypeOK, InUse
<1>2. CASE EndScan
  BY <1>2 DEF EndScan, Shape, TypeOK, InUse
<1>3. ASSUME NEW n \in SdNames, ScanEntry(n) PROVE Shape'
  BY <1>n, <1>3 DEF ScanEntry, Shape, TypeOK, InUse
<1>4. ASSUME NEW from \in {"scan probe", "probe"}, NEW found, NEW notFound,
             Probe(from, found, notFound),
             from = "probe" => found = "free" /\ notFound = "events",
             from = "scan probe" => found = "scan mount" /\ notFound = "scan"
      PROVE  Shape'
  BY <1>n, <1>4 DEF Probe, Shape, TypeOK, InUse
<1>5. ASSUME NEW from, NEW next, MountPartition(from, next),
             \/ from = "scan mount" /\ next = "scan"
             \/ from = "mount" /\ next = "events"
      PROVE  Shape'
  BY <1>n, <1>5 DEF MountPartition, Shape, TypeOK, InUse, Answers
<1>6. CASE HandleDelete
  BY <1>n, <1>6, <1>h DEF HandleDelete, Unmounted, Shape, TypeOK, InUse, Event, None
<1>7. CASE HandleCreate
  BY <1>n, <1>7, <1>h DEF HandleCreate, Shape, TypeOK, InUse, Event
<1>8. CASE FreeMountPoint
  BY <1>n, <1>8 DEF FreeMountPoint, Unmounted, Shape, TypeOK, InUse, None
<1>9. CASE CommandFails
  BY <1>n, <1>9 DEF CommandFails, Shape, TypeOK, InUse
<1>10. CASE Killed
  <2>1. excused' \subseteq MountPoints
    BY <1>n, <1>10 DEF Killed, Shape, TypeOK
  <2>2. kills' \in 0 .. MaxKills /\ events' \in Seq(Event)
    <3>1. kills \in 0 .. MaxKills /\ MaxKills \in Nat
      BY DEF Shape, TypeOK
    <3>2. kills < MaxKills /\ kills' = kills + 1 /\ events' = <<>>
      BY <1>10 DEF Killed
    <3>3. kills' \in 0 .. MaxKills
      BY <3>1, <3>2
    <3> QED
      BY <3>2, <3>3, EmptySeq
  <2> QED
    BY <1>10, <2>1, <2>2 DEF Killed, Shape, TypeOK, InUse, Event
<1> QED
  BY <1>1, <1>2, <1>3, <1>4, <1>5, <1>6, <1>7, <1>8, <1>9, <1>10 DEF Monitor

-----------------------------------------------------------------------------
(* What the kernel does to a partition.                                    *)
LEMMA Queue == Shape => events \in Seq(Event)
  BY DEF Shape, TypeOK, Event

(* A step that leaves the monitor, the nodes, the queue and the mounts     *)
(* alone, and lets no device down.                                         *)
LEMMA CardMoves ==
  ASSUME NEW n \in SdNames, Good(n), UNCHANGED <<node, events, pc, todo, name, mounted>>,
         \/ card' = card /\ readable' = readable /\ ready \subseteq ready'
         \/ card' = None \/ node[n] = None
  PROVE  Good(n)'
  BY DEF Good, Gone, Order, Fresh, Due, Busy, InUse

LEMMA NodeComes ==
  ASSUME Shape, NEW m \in SdNames, NodeAppears(m), NEW n \in SdNames,
         Promised(n) => Good(n), Promised(n)'
  PROVE  Good(n)'
<1> USE NumberAssumption
<1> DEFINE e == [op |-> "create", name |-> m]
<1>1. /\ node \in [Names -> Cards \cup {None}] /\ SdNames \subseteq Names
      /\ node[m] = None /\ card # None /\ node'[m] = card
      /\ m # n => node'[n] = node[n]
  BY DEF NodeAppears, Shape, TypeOK, Names
<1>2. e \in Event /\ ~Deletes(e, n) /\ (m = n => Creates(e, n))
  BY <1>1 DEF Event, Deletes, Creates
<1> HIDE DEF e
<1>3. CASE watching
  <2>1. events' = Append(events, e)
    BY <1>3 DEF NodeAppears, Notify, e
  <2>2. /\ DeleteIn(events, n) <=> DeleteIn(events', n)
        /\ BackIn(events, n) => BackIn(events', n)
        /\ CreateIn(events, n) => CreateIn(events', n)
        /\ m = n => BackIn(events', n) /\ CreateIn(events', n)
    BY <1>2, <2>1, Queue, Appended
  <2>3. CASE m # n
    <3>1. Promised(n)
      BY <1>3, <2>3 DEF Promised, NodeAppears, Notify
    <3> QED
      BY <1>1, <2>2, <2>3, <3>1 DEF NodeAppears, Good, Gone, Order, Fresh, Due, Busy, InUse
  <2>4. CASE m = n
    <3>1. Gone(n)' /\ Order(n)' /\ Due(n)'
      BY <1>1, <2>2, <2>4 DEF Gone, Order, Due
    <3>2. Promised(n) \/ n \in readable' \cap ready'
      BY <1>3, <2>4 DEF Promised, NodeAppears, Notify
    <3>3. Promised(n) => ~InUse(n) \/ DeleteIn(events, n)
      BY <1>1, <2>4 DEF Good, Gone
    <3>4. UNCHANGED mounted
      BY DEF NodeAppears
    <3>5. Fresh(n)'
      BY <1>1, <2>2, <2>4, <3>2, <3>3, <3>4 DEF Fresh, InUse
    <3> QED
      BY <3>1, <3>5 DEF Good
  <2> QED
    BY <2>3, <2>4
<1>4. CASE ~watching
  <2>1. UNCHANGED <<events, excused>> /\ events = <<>> /\ pc = "down"
    BY <1>4 DEF NodeAppears, Notify, Shape
  <2>2. Good(n)
    BY <2>1 DEF Promised
  <2>3. ~DeleteIn(events, n)
    BY <2>1 DEF DeleteIn
  <2> QED
    BY <1>1, <2>1, <2>2, <2>3 DEF NodeAppears, Good, Gone, Order, Fresh, Due, Busy, InUse
<1> QED
  BY <1>3, <1>4

LEMMA NodeGoes ==
  ASSUME Shape, NEW m \in SdNames, NodeVanishes(m), NEW n \in SdNames,
         Promised(n) => Good(n), Promised(n)'
  PROVE  Good(n)'
<1> USE NumberAssumption
<1> DEFINE e == [op |-> "delete", name |-> m]
<1>1. /\ node \in [Names -> Cards \cup {None}] /\ SdNames \subseteq Names
      /\ node'[m] = None /\ card = None /\ card' = None
      /\ m # n => node'[n] = node[n] /\ Number[m] # Number[n]
  BY DEF NodeVanishes, Shape, TypeOK, Names
<1>2. e \in Event /\ (m = n <=> Deletes(e, n))
  BY <1>1 DEF Event, Deletes
<1> HIDE DEF e
<1>3. CASE watching
  <2>1. events' = Append(events, e)
    BY <1>3 DEF NodeVanishes, Notify, e
  <2>2. CASE m # n
    <3>1. Promised(n)
      BY <1>1, <1>3, <2>2 DEF Promised, NodeVanishes, Notify
    <3>2. /\ DeleteIn(events, n) <=> DeleteIn(events', n)
          /\ BackIn(events, n) => BackIn(events', n)
      BY <1>2, <2>1, <2>2, Queue, Appended
    <3> QED
      BY <1>1, <2>2, <3>1, <3>2 DEF NodeVanishes, Good, Gone, Order, Fresh, Due, InUse
  <2>3. CASE m = n
    <3>1. DeleteIn(events', n)
      BY <1>2, <2>1, <2>3, Queue, Appended
    <3> QED
      BY <1>1, <2>3, <3>1 DEF Good, Gone, Order, Fresh, Due
  <2> QED
    BY <2>2, <2>3
<1>4. CASE ~watching
  <2>1. UNCHANGED <<events, mounted>> /\ (m = n => ~InUse(n)) /\ Promised(n)
    BY <1>4 DEF NodeVanishes, Promised, InUse
  <2> QED
    BY <1>1, <2>1 DEF Good, Gone, Order, Fresh, Due, InUse
<1> QED
  BY <1>3, <1>4

(* A deletion that takes the mount point out of the promise, or a creation *)
(* the monitor pays no heed to.                                            *)
LEMMA StrangerMoves ==
  ASSUME Shape, NEW m \in Strangers, StrangerChanges(m), NEW n \in SdNames,
         Promised(n) => Good(n), Promised(n)'
  PROVE  Good(n)'
<1> USE NumberAssumption
<1>1. /\ node \in [Names -> Cards \cup {None}] /\ m # n /\ n \in Names /\ m \in Names
      /\ m \notin SdNames /\ node'[n] = node[n]
  BY DEF StrangerChanges, Shape, TypeOK, Names
<1>2. CASE watching
  <2> DEFINE e == [op |-> IF node[m] = None THEN "create" ELSE "delete", name |-> m]
  <2>1. events' = Append(events, e) /\ e \in Event
    BY <1>1, <1>2 DEF StrangerChanges, Notify, Event
  <2>2. Promised(n) /\ ~Deletes(e, n)
    BY <1>1, <1>2 DEF StrangerChanges, Notify, Promised, Deletes
  <2> HIDE DEF e
  <2>3. /\ DeleteIn(events, n) <=> DeleteIn(events', n)
        /\ BackIn(events, n) => BackIn(events', n)
        /\ CreateIn(events, n) => CreateIn(events', n)
    BY <2>1, <2>2, Queue, Appended
  <2> QED
    BY <1>1, <2>2, <2>3 DEF StrangerChanges, Good, Gone, Order, Fresh, Due, Busy, InUse
<1>3. CASE ~watching
  BY <1>1, <1>3 DEF StrangerChanges, Notify, Promised, Good, Gone, Order, Fresh, Due, Busy, InUse
<1> QED
  BY <1>2, <1>3

LEMMA KernelGood ==
  ASSUME Shape, Kernel, NEW n \in SdNames, Promised(n) => Good(n), Promised(n)'
  PROVE  Good(n)'
<1>1. CASE CardIn \/ CardOut
  BY <1>1, CardMoves DEF CardIn, CardOut, Promised
<1>2. ASSUME NEW m \in SdNames, DeviceReady(m) PROVE Good(n)'
  BY <1>2, CardMoves DEF DeviceReady, Promised
<1> QED
  BY <1>1, <1>2, NodeComes, NodeGoes, StrangerMoves DEF Kernel

-----------------------------------------------------------------------------
(* What the monitor does to a partition.                                   *)
LEMMA ProbeGood ==
  ASSUME Shape, NEW from, NEW found, NEW notFound, Probe(from, found, notFound),
         \/ from = "scan probe" /\ found = "scan mount" /\ notFound = "scan"
         \/ from = "probe" /\ found = "free" /\ notFound = "events",
         NEW n \in SdNames, Promised(n) => Good(n), Promised(n)'
  PROVE  Good(n)'
<1> USE DEF kernel
<1>1. Promised(n) /\ (name = n => ~GivenUp(n))
  BY DEF Probe, Promised
<1>2. /\ UNCHANGED <<kernel, events, name, mounted, todo>> /\ pc = from /\ from # "down"
      /\ pc' = IF Answers(name) THEN found ELSE notFound
  BY DEF Probe, GoTo
<1>3. name = n /\ node[n] = card /\ card # None /\ n \in readable => Answers(name)
  BY <1>1 DEF GivenUp, Answers
<1>4. name = n /\ node[n] = card /\ card # None /\ n \in readable => pc' = found
  BY <1>2, <1>3
<1>5. Gone(n)' /\ Order(n)'
  BY <1>1, <1>2 DEF Good, Gone, Order, InUse
<1>6. Fresh(n)'
  BY <1>1, <1>2, <1>4 DEF Good, Fresh, Busy
<1>7. Due(n)'
  BY <1>1, <1>2, <1>4 DEF Good, Due, Busy
<1> QED
  BY <1>5, <1>6, <1>7 DEF Good

(* During the scan the mount point may be in use: then by the partition    *)
(* itself, or by something an event in the queue is about.                 *)
LEMMA MountGood ==
  ASSUME Shape, NEW from, NEW next, MountPartition(from, next),
         \/ from = "scan mount" /\ next = "scan"
         \/ from = "mount" /\ next = "events",
         NEW n \in SdNames, Promised(n) => Good(n), Promised(n)'
  PROVE  Good(n)'
<1> USE NumberAssumption DEF kernel
<1>1. Promised(n) /\ (name = n => InUse(n) \/ ~GivenUp(n))
  BY DEF MountPartition, Promised
<1>2. /\ UNCHANGED <<kernel, events, name, todo>> /\ pc = from /\ pc' = next
      /\ mounted \in [MountPoints -> Cards \cup {None}]
      /\ name \in SdNames /\ Number[name] \in MountPoints /\ Number[n] \in MountPoints
  BY DEF MountPartition, GoTo, Shape, TypeOK, MountPoints, Names
<1>3. mounted' = IF ~InUse(name) /\ Answers(name)
                 THEN [mounted EXCEPT ![Number[name]] = node[name]] ELSE mounted
  BY DEF MountPartition
<1>4. CASE name # n
  <2>1. mounted'[Number[n]] = mounted[Number[n]]
    BY <1>2, <1>3, <1>4
  <2> QED
    BY <1>1, <1>2, <1>4, <2>1 DEF Good, Gone, Order, Fresh, Due, Busy, InUse
<1>5. CASE name = n /\ ~InUse(n) /\ Answers(n)
  <2>1. mounted'[Number[n]] = node[n] /\ node[n] # None
    BY <1>2, <1>3, <1>5 DEF Answers
  <2> QED
    BY <1>1, <1>2, <2>1 DEF Good, Gone, Order, Fresh, Due, InUse
<1>6. CASE name = n /\ ~InUse(n) /\ ~Answers(n)
  <2>1. mounted' = mounted /\ ~(node[n] = card /\ card # None /\ n \in readable)
    BY <1>1, <1>3, <1>6 DEF Answers, GivenUp
  <2> QED
    BY <1>1, <1>2, <1>6, <2>1 DEF Good, Gone, Order, Fresh, Due, InUse
<1>7. CASE name = n /\ InUse(n)
  <2>1. mounted' = mounted /\ from = "scan mount"
    BY <1>2, <1>3, <1>7 DEF Shape
  <2>2. Gone(n)' /\ Order(n)'
    BY <1>1, <1>2, <2>1 DEF Good, Gone, Order, InUse
  <2>3. Fresh(n)'
    BY <1>1, <1>2, <2>1 DEF Good, Fresh, Busy
  <2>4. CASE node[n] = card /\ card # None /\ n \in readable
    <3>1. mounted[Number[n]] = node[n] \/ DeleteIn(events, n) \/ CreateIn(events, n)
      BY <1>1, <1>2, <1>7, <2>1, <2>4 DEF Good, Fresh, Busy, InUse
    <3>2. CreateIn(events, n) => DeleteIn(events, n) \/ BackIn(events, n)
      BY Queue, Uncontested
    <3>3. DeleteIn(events, n) => BackIn(events, n)
      BY <1>1, <2>4 DEF Good, Order
    <3>4. mounted[Number[n]] = node[n] \/ BackIn(events, n)
      BY <3>1, <3>2, <3>3
    <3> QED
      BY <1>2, <2>1, <2>2, <2>3, <3>4 DEF Good, Due
  <2>5. CASE ~(node[n] = card /\ card # None /\ n \in readable)
    BY <1>2, <2>2, <2>3, <2>5 DEF Good, Due
  <2> QED
    BY <2>4, <2>5
<1> QED
  BY <1>4, <1>5, <1>6, <1>7

(* A deletion in the queue is out of date when the node is there: then     *)
(* there is a creation behind it.                                          *)
LEMMA DeleteGood ==
  ASSUME Shape, HandleDelete, NEW n \in SdNames, Promised(n) => Good(n), Promised(n)'
  PROVE  Good(n)'
<1> USE NumberAssumption DEF kernel
<1> DEFINE e == Head(events)
<1>1. /\ events \in Seq(Event) /\ events # <<>> /\ events' = Tail(events)
      /\ e.op = "delete" /\ pc = "events" /\ todo = {} /\ UNCHANGED <<kernel, pc, todo>>
      /\ mounted' = [mounted EXCEPT ![Number[e.name]] = None] /\ Promised(n) /\ Good(n)
  BY Queue DEF HandleDelete, Unmounted, Shape, Promised
<1>2. /\ Deletes(e, n) \/ DeleteIn(events', n) <=> DeleteIn(events, n)
      /\ BackIn(events, n) => BackIn(events', n)
      /\ CreateIn(events, n) => CreateIn(events', n)
      /\ e.name \in Names
  <2>1. ~Creates(e, n)
    BY <1>1 DEF Creates
  <2>2. e \in Event
    BY <1>1, Taken
  <2>3. e.name \in Names
    BY <2>2 DEF Event
  <2> QED
    BY <1>1, <2>1, <2>3, Taken
<1>3. /\ mounted \in [MountPoints -> Cards \cup {None}]
      /\ Number[n] \in MountPoints /\ Number[e.name] \in MountPoints
  BY <1>2 DEF Shape, TypeOK, MountPoints, Names
<1> HIDE DEF e
<1>4. CASE Deletes(e, n)
  <2>1. mounted'[Number[n]] = None
    BY <1>1, <1>3, <1>4 DEF Deletes
  <2>2. node[n] # None => BackIn(events', n)
    BY <1>1, <1>2, <1>4 DEF Good, Order
  <2> QED
    BY <1>1, <2>1, <2>2 DEF Good, Gone, Order, Fresh, Due, InUse
<1>5. CASE ~Deletes(e, n)
  <2>1. mounted'[Number[n]] = mounted[Number[n]]
    BY <1>1, <1>3, <1>5 DEF Deletes
  <2> QED
    BY <1>1, <1>2, <1>5, <2>1 DEF Good, Gone, Order, Fresh, Due, Busy, InUse
<1> QED
  BY <1>4, <1>5

LEMMA CreateGood ==
  ASSUME Shape, HandleCreate, NEW n \in SdNames, Promised(n) => Good(n), Promised(n)'
  PROVE  Good(n)'
<1> USE DEF kernel
<1> DEFINE e == Head(events)
<1>1. /\ events \in Seq(Event) /\ events # <<>> /\ events' = Tail(events)
      /\ e.op = "create" /\ pc = "events" /\ todo = {} /\ UNCHANGED <<kernel, mounted, todo>>
      /\ name' = e.name /\ Promised(n) /\ Good(n)
      /\ pc' = IF e.name \in SdNames /\ node[e.name] # None THEN "probe" ELSE "events"
  BY Queue DEF HandleCreate, GoTo, Shape, Promised
<1>2. /\ DeleteIn(events', n) <=> DeleteIn(events, n)
      /\ BackIn(events, n) => BackIn(events', n) \/ ~DeleteIn(events', n)
      /\ e.name # n /\ BackIn(events, n) => BackIn(events', n)
      /\ e.name # n /\ CreateIn(events, n) => CreateIn(events', n)
  <2>1. ~Deletes(e, n)
    BY <1>1 DEF Deletes
  <2>2. Creates(e, n) => e.name = n
    BY DEF Creates
  <2> HIDE DEF e
  <2> QED
    BY <1>1, <2>1, <2>2, Taken DEF e
<1> HIDE DEF e
<1>3. Gone(n)' /\ Order(n)'
  BY <1>1, <1>2 DEF Good, Gone, Order, InUse
<1>4. e.name = n /\ node[n] # None => Busy(n, {"probe"})'
  BY <1>1 DEF Busy
<1>5. Fresh(n)'
  BY <1>1, <1>2, <1>4 DEF Good, Fresh, Busy
<1>6. Due(n)'
  BY <1>1, <1>2, <1>4 DEF Good, Due, Busy
<1> QED
  BY <1>3, <1>5, <1>6 DEF Good

LEMMA FreeGood ==
  ASSUME Shape, FreeMountPoint, NEW n \in SdNames, Promised(n) => Good(n), Promised(n)'
  PROVE  Good(n)'
<1> USE NumberAssumption DEF kernel
<1>1. /\ UNCHANGED <<kernel, events, name, todo>> /\ pc = "free" /\ pc' = "mount"
      /\ mounted' = [mounted EXCEPT ![Number[name]] = None] /\ Promised(n) /\ Good(n)
      /\ mounted \in [MountPoints -> Cards \cup {None}]
      /\ name \in SdNames /\ Number[name] \in MountPoints /\ Number[n] \in MountPoints
  BY DEF FreeMountPoint, Unmounted, GoTo, Promised, Shape, TypeOK, MountPoints, Names
<1>2. CASE name = n
  BY <1>1, <1>2 DEF Good, Gone, Order, Fresh, Due, Busy, InUse
<1>3. CASE name # n
  <2>1. mounted'[Number[n]] = mounted[Number[n]]
    BY <1>1, <1>3
  <2> QED
    BY <1>1, <1>3, <2>1 DEF Good, Gone, Order, Fresh, Due, Busy, InUse
<1> QED
  BY <1>2, <1>3

LEMMA MonitorGood ==
  ASSUME Shape, Monitor, NEW n \in SdNames, Promised(n) => Good(n), Promised(n)'
  PROVE  Good(n)'
<1>1. CASE Start
  <2>1. Promised(n) /\ events = <<>> /\ UNCHANGED <<kernel, events, mounted>>
    BY <1>1 DEF Start, Shape, Promised
  <2>2. ~DeleteIn(events, n) /\ ~CreateIn(events, n)
    BY <2>1 DEF DeleteIn, CreateIn
  <2>3. n \in todo'
    BY <1>1 DEF Start
  <2>4. ~Busy(n, {"probe", "free"})
    BY <1>1 DEF Start, Busy
  <2> QED
    BY <2>1, <2>2, <2>3, <2>4 DEF kernel, Good, Gone, Order, Fresh, Due, InUse
<1>2. CASE EndScan
  BY <1>2 DEF EndScan, GoTo, kernel, Promised, Good, Gone, Order, Fresh, Due, Busy, InUse
<1>3. ASSUME NEW m \in SdNames, ScanEntry(m) PROVE Good(n)'
  <2>1. Promised(n) /\ UNCHANGED <<kernel, events, mounted>> /\ pc = "scan"
    BY <1>3 DEF ScanEntry, Promised
  <2>2. m # n /\ n \in todo => n \in todo'
    BY <1>3 DEF ScanEntry
  <2>3. m = n /\ node[n] # None => Busy(n, {"scan probe"})'
    BY <1>3 DEF ScanEntry, Busy
  <2> QED
    BY <2>1, <2>2, <2>3 DEF kernel, Good, Gone, Order, Fresh, Due, Busy, InUse
<1> QED
  BY <1>1, <1>2, <1>3, ProbeGood, MountGood, DeleteGood, CreateGood, FreeGood DEF Monitor

(* What goes wrong, or dies, gives back the promises it leaves unkept.     *)
LEMMA FailureGood ==
  ASSUME Shape, CommandFails \/ Killed, NEW n \in SdNames,
         Promised(n) => Good(n), Promised(n)'
  PROVE  Good(n)'
<1>1. CASE CommandFails
  <2>1. /\ Promised(n) /\ name # n /\ UNCHANGED <<kernel, events, mounted, name, todo>>
        /\ pc # "down"
    BY <1>1 DEF CommandFails, GoTo, Promised
  <2> QED
    BY <2>1 DEF kernel, Good, Gone, Order, Fresh, Due, Busy, InUse
<1>2. CASE Killed
  <2>1. /\ Promised(n) /\ (InUse(n) => mounted[Number[n]] = node[n])
        /\ UNCHANGED <<kernel, mounted>> /\ events' = <<>> /\ pc' = "down"
    BY <1>2 DEF Killed, Promised
  <2>2. ~DeleteIn(events', n)
    BY <2>1 DEF DeleteIn
  <2> QED
    BY <2>1, <2>2 DEF kernel, Good, Gone, Order, Fresh, Due, InUse
<1> QED
  BY <1>1, <1>2

-----------------------------------------------------------------------------
LEMMA Begins == Init => MountInv
<1> SUFFICES ASSUME Init PROVE MountInv
  OBVIOUS
<1>1. TypeOK
  <2>1. events \in Seq([op : {"create", "delete"}, name : Names])
    BY EmptySeq DEF Init
  <2>2. card \in Cards \cup {None} /\ used \in 0 .. MaxCards
    BY BoundAssumption DEF Init, Cards, None
  <2>3. strange \in 0 .. MaxStrange /\ kills \in 0 .. MaxKills
    BY BoundAssumption DEF Init
  <2> QED
    BY <2>1, <2>2, <2>3 DEF Init, TypeOK
<1>2. Shape
  <2>1. \A n \in waiting : node[n] = None /\ card # None
    BY DEF Init, Names
  <2> QED
    BY <1>1, <2>1 DEF Init, Shape
<1>3. ASSUME NEW n \in SdNames PROVE Good(n)
  BY NumberAssumption DEF Init, Good, Gone, Order, Fresh, Due, InUse, DeleteIn, Names, MountPoints
<1> QED
  BY <1>2, <1>3 DEF MountInv

LEMMA Preserved == MountInv /\ [Next]_vars => MountInv'
<1> SUFFICES ASSUME MountInv, [Next]_vars PROVE MountInv'
  OBVIOUS
<1>1. CASE UNCHANGED vars
  BY <1>1 DEF vars, MountInv, Shape, TypeOK, InUse, Promised, Good, Gone, Order, Fresh, Due, Busy
<1>2. CASE Next
  <2>1. Shape'
    BY <1>2, KernelShape, MonitorShape DEF Next, MountInv
  <2>2. ASSUME NEW n \in SdNames, Promised(n)' PROVE Good(n)'
    BY <1>2, <2>2, KernelGood, MonitorGood, FailureGood DEF Next, MountInv
  <2> QED
    BY <2>1, <2>2 DEF MountInv
<1> QED
  BY <1>1, <1>2

(* Whatever the cards, the nodes and the monitor did on the way, when the  *)
(* monitor waits in read with nothing left to handle each mount point it   *)
(* can answer for holds exactly the partition that is there.               *)
THEOREM MountsRight == Spec => []MountsMatch
<1>1. MountInv => MountsMatch
  <2> SUFFICES ASSUME MountInv, AtRest, NEW n \in SdNames, Promised(n)
               PROVE  /\ Answers(n) => mounted[Number[n]] = node[n]
                      /\ mounted[Number[n]] \in {None, node[n]}
    BY DEF MountsMatch, CardMounted, NothingStale
  <2>1. Good(n) /\ pc = "events" /\ todo = {} /\ events = <<>>
    BY DEF MountInv, Shape, AtRest
  <2>2. ~DeleteIn(events, n) /\ ~CreateIn(events, n) /\ ~BackIn(events, n)
    BY <2>1 DEF DeleteIn, CreateIn, BackIn
  <2>3. node[n] # None => node[n] = card
    BY DEF AtRest, Settled
  <2> QED
    BY <2>1, <2>2, <2>3 DEF Good, Gone, Fresh, Due, Busy, InUse, Answers
<1> QED
  BY Begins, Preserved, <1>1, PTL DEF Spec

(* A partition that is mounted where it belongs is only unmounted with the *)
(* creation that mounts it again still to be handled: a deletion that is   *)
(* out of date does no lasting harm.                                       *)
THEOREM ComesBack == Spec => UnmountedIsRemounted
<1>1. MountInv /\ [Next]_vars =>
        [\A n \in SdNames :
           /\ InUse(n) /\ mounted[Number[n]] = node[n] /\ Promised(n)
           /\ mounted'[Number[n]] = None
           => CreatePending(n)']_vars
  <2> SUFFICES ASSUME MountInv, Next, NEW n \in SdNames, InUse(n),
                      mounted[Number[n]] = node[n], Promised(n),
                      mounted'[Number[n]] = None
               PROVE  CreatePending(n)'
    BY DEF InUse
  <2> USE NumberAssumption
  <2>1. /\ mounted[Number[n]] # mounted'[Number[n]] /\ node[n] # None /\ Shape /\ Good(n)
        /\ mounted \in [MountPoints -> Cards \cup {None}]
        /\ SdNames \subseteq Names /\ \A m \in Names : Number[m] \in MountPoints
    BY DEF InUse, MountInv, Shape, TypeOK, Names, MountPoints
  <2>2. mounted # mounted'
    BY <2>1
  <2>3. HandleDelete \/ FreeMountPoint \/ \E from, next : MountPartition(from, next)
    BY <2>2 DEF Next, Kernel, CardIn, CardOut, NodeAppears, DeviceReady, NodeVanishes,
       StrangerChanges, Monitor, Start, EndScan, ScanEntry, Probe, HandleCreate,
       CommandFails, Killed
  <2>4. CASE HandleDelete
    <3>1. /\ events \in Seq(Event) /\ events # <<>> /\ events' = Tail(events)
          /\ Head(events).op = "delete" /\ Head(events) \in Event
      BY <2>1, <2>4, Queue, Taken DEF HandleDelete
    <3>2. Deletes(Head(events), n)
      BY <2>1, <2>4, <3>1 DEF HandleDelete, Unmounted, Deletes, Event
    <3>3. DeleteIn(events, n) /\ ~Creates(Head(events), n)
      BY <3>1, <3>2, Taken DEF Creates
    <3>4. BackIn(events', n) /\ events' \in Seq(Event)
      BY <2>1, <3>1, <3>3, Taken DEF Good, Order
    <3>5. PICK i \in 1 .. Len(events') : Creates(events'[i], n)
      BY <3>4 DEF BackIn
    <3>6. events'[i] \in Event /\ i \in DOMAIN events'
      BY <3>4, LenProperties, ElementOfSeq
    <3>7. events'[i] = [op |-> "create", name |-> n]
      BY <3>5, <3>6 DEF Event, Creates
    <3> QED
      BY <3>6, <3>7 DEF CreatePending, Range
  <2>5. CASE FreeMountPoint
    <3>1. name \in SdNames /\ name' = name /\ pc' = "mount"
      BY <2>1, <2>5 DEF FreeMountPoint, GoTo, Shape
    <3>2. name = n
      BY <2>1, <2>5, <3>1 DEF FreeMountPoint, Unmounted
    <3> QED
      BY <3>1, <3>2 DEF CreatePending
  <2>6. ASSUME NEW from, NEW next, MountPartition(from, next) PROVE FALSE
    <3>1. CASE Number[name] = Number[n]
      BY <2>1, <2>6, <3>1 DEF MountPartition, InUse
    <3>2. CASE Number[name] # Number[n]
      BY <2>1, <2>6, <3>2 DEF MountPartition
    <3> QED
      BY <3>1, <3>2
  <2> QED
    BY <2>3, <2>4, <2>5, <2>6
<1> QED
  BY Begins, Preserved, <1>1, PTL DEF Spec, UnmountedIsRemounted
=============================================================================
