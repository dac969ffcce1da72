----------------------------- MODULE SdMonitor -----------------------------
(* The SD card monitor of the gateway (project/iot-gw/app/mount_sd.c): it  *)
(* watches /dev with inotify and keeps each partition of the card mounted  *)
(* at /mnt/sdcard (partition 1) or /mnt/sdcard_N.  The kernel creates and  *)
(* deletes device nodes at any moment, also between two steps of the       *)
(* monitor, which looks at the node again at each step and only knows its  *)
(* name: a node of a second card looks like the node of the first.         *)
EXTENDS Naturals, Sequences, SequencesExt

CONSTANTS
  SdNames,      \* device names is_sd_block_partition accepts (mmcblk1pN)
  Strangers,    \* other names in /dev that get_partition_number takes a number from
  Number,       \* get_partition_number: the digits after the last 'p' of a name
  MaxCards,     \* bound: how many times a card is put in
  MaxStrange,   \* bound: how many times a stranger's node comes or goes
  MaxKills,     \* bound: how many times the monitor dies
  SlowNodes,    \* whether a node can be seen before the device answers
  MayFail       \* whether blkid or mount may fail on a good partition

Names == SdNames \cup Strangers

ASSUME NumberAssumption ==
  /\ SdNames \cap Strangers = {}
  /\ Number \in [Names -> Nat \ {0}]
  /\ \A n1, n2 \in SdNames : Number[n1] = Number[n2] => n1 = n2

ASSUME BoundAssumption ==
  /\ MaxCards \in Nat \ {0} /\ MaxStrange \in Nat /\ MaxKills \in Nat
  /\ SlowNodes \in BOOLEAN /\ MayFail \in BOOLEAN

(* Mount points are named by the number in their path (get_mount_point).   *)
MountPoints == {Number[n] : n \in Names}
Cards == 1 .. MaxCards
None == 0

VARIABLES
  card,      \* the card in the slot: how many were put in before it, plus one; None
  used,      \* how many cards were put in
  waiting,   \* partitions of the card whose node the kernel has still to create
  readable,  \* partitions of the card that hold a file system
  node,      \* which card a device node stands for (strangers: 1), None if absent
  ready,     \* nodes whose device already answers
  strange,   \* how many times a stranger's node came or went
  events,    \* inotify events not yet handled, in the kernel's queue or in buffer[]
  watching,  \* whether inotify_add_watch was made by the running monitor
  pc,        \* where the monitor is
  todo,      \* entries of /dev the scan has not reached
  name,      \* the device the monitor is busy with
  mounted,   \* the card mounted at a mount point, None if it is free
  kills,     \* how many times the monitor died
  excused    \* history: mount points about which no promise can be kept now

kernel == <<card, used, waiting, readable, node, ready, strange>>
vars == <<card, used, waiting, readable, node, ready, strange, events, watching,
          pc, todo, name, mounted, kills, excused>>

TypeOK ==
  /\ card \in Cards \cup {None} /\ used \in 0 .. MaxCards
  /\ waiting \subseteq SdNames /\ readable \subseteq SdNames
  /\ node \in [Names -> Cards \cup {None}]
  /\ ready \subseteq SdNames
  /\ strange \in 0 .. MaxStrange
  /\ events \in Seq([op : {"create", "delete"}, name : Names])
  /\ watching \in BOOLEAN
  /\ pc \in {"down", "scan", "scan probe", "scan mount",
             "events", "probe", "free", "mount"}
  /\ todo \subseteq SdNames
  /\ name \in Names
  /\ mounted \in [MountPoints -> Cards \cup {None}]
  /\ kills \in 0 .. MaxKills
  /\ excused \subseteq MountPoints

(* The device may have come up with a card in its slot; nothing is mounted *)
(* and the monitor has still to start.                                     *)
Init ==
  /\ card \in {None, 1} /\ used = card
  /\ readable \in SUBSET SdNames
  /\ waiting = IF card = None THEN {} ELSE SdNames
  /\ node = [n \in Names |-> None]
  /\ ready = {}
  /\ strange = 0
  /\ events = << >>
  /\ watching = FALSE
  /\ pc = "down"
  /\ todo = {}
  /\ name \in Names
  /\ mounted = [m \in MountPoints |-> None]
  /\ kills = 0
  /\ excused = {}

-----------------------------------------------------------------------------
(* The kernel.                                                             *)

(* inotify queues an event for a node of /dev while it is watched.  An     *)
(* event that will put the mount point right whatever is mounted there (a  *)
(* deletion, or the creation of a partition that answers) puts it back     *)
(* under the promise; the deletion of a stranger's node takes the     *)
(* mount point with its number out of it.                                  *)
Notify(op, n) ==
  IF ~watching THEN UNCHANGED <<events, excused>>
  ELSE /\ events' = Append(events, [op |-> op, name |-> n])
       /\ excused' = IF n \in SdNames /\ (op = "delete" \/ n \in readable \cap ready')
                       THEN excused \ {Number[n]}
                     ELSE IF n \in Strangers /\ op = "delete"
                       THEN excused \cup {Number[n]}
                     ELSE excused

CardIn ==
  /\ card = None /\ used < MaxCards
  /\ \A n \in SdNames : node[n] = None
  /\ used' = used + 1 /\ card' = used + 1
  /\ waiting' \in SUBSET SdNames \ {{}}
  /\ readable' \in SUBSET waiting'
  /\ UNCHANGED <<node, ready, strange, events, watching, pc, todo, name,
                 mounted, kills, excused>>

NodeAppears(n) ==
  /\ n \in waiting
  /\ waiting' = waiting \ {n}
  /\ node' = [node EXCEPT ![n] = card]
  /\ ready' = IF SlowNodes THEN ready ELSE ready \cup {n}
  /\ Notify("create", n)
  /\ UNCHANGED <<card, used, readable, strange, watching, pc, todo, name,
                 mounted, kills>>

DeviceReady(n) ==
  /\ node[n] # None /\ n \notin ready
  /\ ready' = ready \cup {n}
  /\ UNCHANGED <<card, used, waiting, readable, node, strange, events,
                 watching, pc, todo, name, mounted, kills, excused>>

CardOut ==
  /\ card # None
  /\ card' = None /\ waiting' = {}
  /\ UNCHANGED <<used, readable, node, ready, strange, events, watching, pc,
                 todo, name, mounted, kills, excused>>

(* A deletion nobody watches leaves a mounted partition behind.            *)
NodeVanishes(n) ==
  /\ card = None /\ node[n] # None
  /\ node' = [node EXCEPT ![n] = None]
  /\ ready' = ready \ {n}
  /\ \/ watching /\ Notify("delete", n)
     \/ /\ ~watching
        /\ excused' = IF mounted[Number[n]] = None THEN excused
                      ELSE excused \cup {Number[n]}
        /\ UNCHANGED events
  /\ UNCHANGED <<card, used, waiting, readable, strange, watching, pc, todo,
                 name, mounted, kills>>

StrangerChanges(n) ==
  /\ strange < MaxStrange
  /\ strange' = strange + 1
  /\ node' = [node EXCEPT ![n] = IF @ = None THEN 1 ELSE None]
  /\ Notify(IF node[n] = None THEN "create" ELSE "delete", n)
  /\ UNCHANGED <<card, used, waiting, readable, ready, watching, pc, todo,
                 name, mounted, kills>>

Kernel ==
  \/ CardIn \/ CardOut
  \/ \E n \in SdNames : NodeAppears(n) \/ DeviceReady(n) \/ NodeVanishes(n)
  \/ \E n \in Strangers : StrangerChanges(n)

-----------------------------------------------------------------------------
(* The monitor.                                                            *)

(* Whether the device behind a name answers with a file system: what blkid *)
(* and mount find out, each at its own moment.                             *)
Answers(n) ==
  /\ n \in SdNames /\ n \in readable /\ n \in ready
  /\ node[n] # None /\ node[n] = card

InUse(n) == mounted[Number[n]] # None

GoTo(label) == pc' = label /\ UNCHANGED <<watching, todo, kills>>

(* The watch is made first, then /dev is scanned.                          *)
Start ==
  /\ pc = "down"
  /\ pc' = "scan" /\ watching' = TRUE /\ todo' = SdNames
  /\ UNCHANGED <<kernel, events, name, mounted, kills, excused>>

(* readdir returns the entries in any order, each as it finds it then.     *)
ScanEntry(n) ==
  /\ pc = "scan" /\ n \in todo
  /\ todo' = todo \ {n}
  /\ name' = n
  /\ pc' = IF node[n] # None THEN "scan probe" ELSE "scan"
  /\ UNCHANGED <<kernel, events, watching, mounted, kills, excused>>

EndScan ==
  /\ pc = "scan" /\ todo = {}
  /\ GoTo("events")
  /\ UNCHANGED <<kernel, events, name, mounted, excused>>

(* Mutant of Probe: a device that does not answer is asked again, without  *)
(* a limit.                                                                *)
ProbeAgain(from, found, notFound) ==
  /\ pc = from
  /\ GoTo(IF Answers(name) THEN found ELSE from)
  /\ UNCHANGED <<kernel, events, name, mounted, excused>>

(* A good partition whose device does not answer yet is given up:          *)
(* DEVICE_WAIT_TIMEOUT (mount_sd.c:13) is not used.                        *)
GivenUp(n) == n \in readable /\ n \notin ready /\ node[n] # None

(* get_filesystem_type: blkid on the node as it is now.                    *)
Probe(from, found, notFound) ==
  /\ pc = from
  /\ GoTo(IF Answers(name) THEN found ELSE notFound)
  /\ excused' = IF GivenUp(name) THEN excused \cup {Number[name]} ELSE excused
  /\ UNCHANGED <<kernel, events, name, mounted>>

(* mount_partition: does nothing when the mount point is in use; mount may *)
(* find another card than blkid did, or none.                              *)
MountPartition(from, next) ==
  /\ pc = from
  /\ mounted' = IF ~InUse(name) /\ Answers(name)
                THEN [mounted EXCEPT ![Number[name]] = node[name]] ELSE mounted
  /\ GoTo(next)
  /\ excused' = IF ~InUse(name) /\ GivenUp(name) THEN excused \cup {Number[name]} ELSE excused
  /\ UNCHANGED <<kernel, events, name>>

(* unmount_partition: umount, and when a file is open umount2 with         *)
(* MNT_DETACH: either way the mount point is free afterwards.              *)
Unmounted(n) == [mounted EXCEPT ![Number[n]] = None]

(* Mutant of HandleDelete: a deletion is taken for late, and ignored, when *)
(* the node is there again.                                                *)
HandleDeleteUnlessBack ==
  /\ pc = "events" /\ events # << >> /\ Head(events).op = "delete"
  /\ events' = Tail(events)
  /\ name' = Head(events).name
  /\ mounted' = IF node[Head(events).name] # None THEN mounted
                ELSE Unmounted(Head(events).name)
  /\ UNCHANGED <<kernel, watching, pc, todo, kills, excused>>

(* The loop of monitor_sdcard over the events read.  A deletion unmounts   *)
(* whatever has the number of the name; a creation goes on only when the   *)
(* node is (still) there and is a partition of the card.                   *)
HandleDelete ==
  /\ pc = "events" /\ events # << >> /\ Head(events).op = "delete"
  /\ events' = Tail(events)
  /\ name' = Head(events).name
  /\ mounted' = Unmounted(Head(events).name)
  /\ UNCHANGED <<kernel, watching, pc, todo, kills, excused>>

HandleCreate ==
  /\ pc = "events" /\ events # << >> /\ Head(events).op = "create"
  /\ events' = Tail(events)
  /\ name' = Head(events).name
  /\ GoTo(IF Head(events).name \in SdNames /\ node[Head(events).name] # None
          THEN "probe" ELSE "events")
  /\ UNCHANGED <<kernel, mounted, excused>>

(* Mutant of FreeMountPoint: it is freed and the mount forgotten.          *)
FreeOnly ==
  /\ pc = "free"
  /\ mounted' = Unmounted(name)
  /\ GoTo(IF InUse(name) THEN "events" ELSE "mount")
  /\ UNCHANGED <<kernel, events, name, excused>>

FreeMountPoint ==
  /\ pc = "free"
  /\ mounted' = Unmounted(name)
  /\ GoTo("mount")
  /\ UNCHANGED <<kernel, events, name, excused>>

Monitor ==
  \/ Start \/ EndScan \/ \E n \in SdNames : ScanEntry(n)
  \/ Probe("scan probe", "scan mount", "scan")
  \/ MountPartition("scan mount", "scan")
  \/ HandleDelete \/ HandleCreate
  \/ Probe("probe", "free", "events")
  \/ FreeMountPoint
  \/ MountPartition("mount", "events")

(* popen, blkid or mount fails although the partition is good: the monitor *)
(* goes on without it.                                                     *)
CommandFails ==
  /\ MayFail
  /\ pc \in {"scan probe", "scan mount", "probe", "mount"}
  /\ ~(pc \in {"scan mount", "mount"} /\ InUse(name))
  /\ GoTo(IF pc \in {"scan probe", "scan mount"} THEN "scan" ELSE "events")
  /\ excused' = excused \cup {Number[name]}
  /\ UNCHANGED <<kernel, events, name, mounted>>

(* The monitor dies: its queue goes with it, what it mounted stays.        *)
Killed ==
  /\ kills < MaxKills /\ pc # "down"
  /\ kills' = kills + 1
  /\ pc' = "down" /\ watching' = FALSE /\ events' = << >> /\ todo' = {}
  /\ excused' = excused \cup
       {Number[n] : n \in {x \in SdNames : InUse(x) /\ mounted[Number[x]] # node[x]}}
  /\ UNCHANGED <<kernel, name, mounted>>

Next == Kernel \/ Monitor \/ CommandFails \/ Killed

(* The kernel finishes what it has begun; the monitor is started, and runs *)
(* when it can: read returns as soon as there is an event.                 *)
Fairness ==
  /\ WF_vars(Monitor)
  /\ \A n \in SdNames :
       WF_vars(NodeAppears(n)) /\ WF_vars(NodeVanishes(n)) /\ WF_vars(DeviceReady(n))

Spec == Init /\ [][Next]_vars /\ Fairness
-----------------------------------------------------------------------------
(* The kernel has created or deleted every node it has to.                 *)
Settled ==
  /\ waiting = {}
  /\ \A n \in SdNames : node[n] # None => node[n] = card /\ n \in ready

(* The monitor waits in read with nothing left to handle.                  *)
AtRest == Settled /\ pc = "events" /\ events = << >>

Promised(n) == Number[n] \notin excused

(* Every partition of the card that holds a file system is mounted once    *)
(* the monitor is at rest.                                                 *)
CardMounted ==
  AtRest => \A n \in SdNames :
              Promised(n) /\ Answers(n) => mounted[Number[n]] = node[n]

(* No earlier card, and nothing else, is left mounted where no partition   *)
(* with a file system is (check_and_mount_existing_devices,                *)
(* monitor_sdcard).                                                        *)
NothingStale ==
  AtRest => \A n \in SdNames :
              Promised(n) => mounted[Number[n]] \in {None, node[n]}

(* Whatever happened on the way (a card swapped between blkid and mount,   *)
(* events handled long after the fact, a scan that races with events, a    *)
(* monitor started again), once the monitor is at rest each mount point    *)
(* holds exactly the partition that is there.                              *)
MountsMatch == CardMounted /\ NothingStale

CreatePending(n) ==
  \/ pc \in {"probe", "free", "mount"} /\ name = n
  \/ [op |-> "create", name |-> n] \in Range(events)

(* A late deletion event may unmount the card that has come since, but     *)
(* only while the creation event that mounts it again is still to be       *)
(* handled (the two branches of the loop in monitor_sdcard).               *)
UnmountedIsRemounted ==
  [][\A n \in SdNames :
       /\ InUse(n) /\ mounted[Number[n]] = node[n] /\ Promised(n)
       /\ mounted'[Number[n]] = None
       => CreatePending(n)']_vars

(* When the cards stop coming and going the monitor comes to rest with the *)
(* right mounts: it neither hangs on a device that does not answer nor     *)
(* runs in circles.                                                        *)
Settles == <>[]Settled => <>[](AtRest /\ MountsMatch)
=============================================================================
