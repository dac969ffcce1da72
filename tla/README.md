# A verification development for linux-comon

The repository holds the user-space software of four embedded Linux products
(`project/SmartCam`, `project/iot-gw`, `project/elec`, `project/iscanner100`),
the libraries they share (`common/utils`) and a copy of cJSON (`external`).
This directory holds TLA+ modules that model the parts of it whose behaviour is
hard to test, TLC configurations that check them, and proofs that TLAPS checks.

Every definition is a translation of the C code; `PROJECT.json` ("map") says of
which lines.  A comment above each definition says what it stands for.

## 1. Inventory

| part | source | state it keeps | operations | modules |
|---|---|---|---|---|
| frame ring buffer | `SmartCam/app/ringbuffer.c`, `alg.c` | two circular queues of frame pointers with a mutex and a condition variable each; the frames | `ringbuffer_init`, `_push`, `_pop`, `_release` | `FrameChannel`, `RingBuffer` |
| viewers | `SmartCam/app/gstreamer_pipe.c`, `tcp_server.c` | the frame a viewer holds; whether the pipeline plays | `need_data`, `stream_video`, start and stop of the pipeline | `RingBuffer`, `Camera` |
| camera | `SmartCam/app/video.c`, `video_daemon.c` | V4L2 buffers, the flag `loop`, one thread handle | open, init, start and stop of the stream, capture loop | `Camera` (on `FrameChannel`) |
| image sensor | `SmartCam/module/src/mvcam.c` | registers behind the I2C bus | setters, getters, a trigger, a reboot | `SensorRegisters` |
| command server | `SmartCam/app/command/*.c` | a listening socket, one client at a time | accept, receive, parse, answer, close | `CommandServer` |
| A/B update | `SmartCam/app/update_engine/{main,update,flash_image,do_patch,rktools}.c` | partitions of two slots, `<image>.done`, `<image>.<item>`, the table `update_cmd` | `MiscUpdate`, `RK_ota_start`, `flash_normal`, `block_write`, `do_patch_rkimg`, verification | `UpdatePlan`, `UpdateEngine` |
| A/B metadata | `SmartCam/app/update_engine/rkbootloader.c` | `AvbABData` in the misc partition | `setSlotSucceed`, `setSlotActivity`, read and write | `AbSlots` |
| recovery update | the same sources with slot -1 | the boot loader message in misc | update of recovery, message, reboot, update of the rest; `--misc=wipe_userdata` | `UpdatePlan`, `RecoveryUpdate` |
| SD card update | the same sources with `is_sdboot` | the files and the script `cmd4recovery` on the card | taking an image apart, a script for the next boot, the partition table | `SdCardUpdate` |
| custom command line | `rkbootloader.c` | an area of misc | read, write, clean | not modelled |
| image formats | `SmartCam/app/update_engine/{rkimage,rkboot,crc,md5*}.c` | none | parsing and checksums | not modelled |
| SD card monitor | `iot-gw/app/mount_sd.c` | the mount table, an inotify queue | scan, watch, probe, mount, unmount | `SdMonitor` |
| SD card log | `iot-gw/app/sd_log.c` | a log file behind a mutex | append, rotate | not modelled |
| gateway daemon | `iot-gw/app/iot_daemon.c`, `iot_client.c`, `board_srv.c` | two RS-485 test threads, a TCP connection | one request and one answer per command | not modelled: `main` returns at once |
| radio modem: AT requests | `common/utils/rf/*.c` | a serial port behind `g_rf_mutex`, the state of the modem | some twenty requests, each some commands and answers | `ModemRequests` |
| radio modem: power | `iot-gw/module/src/rf.c`, `iot-gw/app/rf_daemon.c` | the modem's supply, its device node, its network interface and route, the state of the monitor | reset, cleaning, dialling, the route test, `rf_monitor_thread` | `RadioPower` |
| ping | `common/utils/network/ping.c` | a raw socket, the number of the request | `ping`, `ping_intf`: send, wait, compare | `Ping` |
| network configuration | `common/utils/network/netip.c` | an interface (address, mask, flags), its routes, the alias `eth0:5` | setting address, mask and gateway, up and down, checks of an address | `NetConfig` |
| threads, GPIO, debug | `common/utils/{threads,gpio,...}` | none | wrappers of system calls | not modelled |
| metering chip, alarm limits | `elec/module/src/{im3332,ModParam}.c` | the RS-485 line behind `im3332_mutex`, chip registers, a copy of the limits | register access, factory mode, groups of limits, reset | `Meter` |
| MQTT | `elec/module/src/mqtt.c` | one client, `bConnect`, a mutex | start, stop, publish | `Mqtt` |
| board drivers | `*/module/src/{led,rtc,di,do,ai,rs485,ssi,i2c_rw,sys_rw,strfunc}.c` | device files | single ioctls, reads and writes | not modelled |
| tests, tools | `*/test`, `mv_tools_rockchip`, `build`, `external` | | | not modelled |

### How the parts interact

* `video_daemon.c` starts one capture thread (`video_start_stream`), the
  GStreamer main loop and the command server in one process.  The capture
  thread calls `alg_process` for every picture, which copies it into a free
  frame (`ringbuffer_push`); the appsrc callback `need_data`, and every client
  of `tcp_server.c` when that thread is started, pops a used frame, reads it and
  releases it.  The two queues are all they share.  The command server shares
  only the process: what ends it ends the cameras and viewers too.
* `updateEngine` is a program run by hand or by a service.  It shares the flash
  with itself (a run after a power loss finds what the one before left), the misc
  partition with the boot loader, and in recovery mode with a second system.
  The boot script of a slot calls `updateEngine --misc=now`.
* `mount_sd.c` talks to the kernel: device nodes come and go while it looks at
  them by name, and tell it by inotify events it reads later.
* Every operation of the modem library opens the serial port, writes commands
  and reads until it has an answer, or three seconds of silence.  A mutex keeps
  the threads of one process apart; it is not shared between processes.
* The device node the modem library opens is made by the kernel when the modem
  boots.  `rf_daemon.c`, the test programs and `4G_call.sh` all switch the modem,
  remove or write the node by its name, and set the default route.
* Every `ping` has a raw socket of its own, and each of these gets all ICMP
  packets of the machine.  The functions of `netip.c` share the interface and one
  alias with every other program that calls them, and lock nothing.
* The threads of the meter box share a line and one MQTT client, each with a mutex.

### What is hard, and what makes each part correct

* Ring buffer: one condition variable serves producers and consumers of a queue,
  woken by `pthread_cond_signal`.  No frame in two hands, none lost, no wakeup
  lost, pictures in order, and neither side starves.
* Command server: one client after the other, split requests, clients that
  leave early.  Each client gets one answer, to its own request, and nobody should
  end the daemon; one that leaves early does.
* A/B update: power losses, I/O errors and changes of the slot by hand between
  any two steps, metadata that reach the disk late.  There is always a slot that
  boots, the running slot is never written, success means written, and an update
  that was interrupted can be finished.
* Recovery update: three writers (normal system, recovery, user) and one message.
  In an update that includes recovery the boot loader always finds a complete system, no system writes what it runs
  from, and only the new recovery system is asked to go on.
* SD card update: a script that every run appends to, whatever became of the run
  before.  A run that reports success leaves a script that installs its image.
* SD card monitor: what the monitor knows is older than what the kernel did.
  At rest, exactly the card that is in is mounted.
* Modem: answers that come late, requests that fail half way, operations of two
  threads.  Each result belongs to the command it was asked for, 0 means done,
  and the radio is left on.
* Camera: a start by anybody, a stop by one, and a buffer the driver knows by its
  index alone.  No picture is read while it is written, the stream is quiet when
  the stop returns, and every buffer comes back.
* Modem power: several programs switch one line.  The modem is not left off, and
  comes back as long as the monitor lives.
* Ping and network configuration: packets of others, repeated or late; calls that
  overlap or fail half way.  What is counted was answered, and an undisturbed call
  leaves what it was asked for.
* Meter box: a mutex that some calls go round, one takes twice, and one
  initialises under its holder.  One thread on the line, a copy of the limits that
  agrees with the chip, calls that return, and a client that is used by one thread
  at a time and only while it is there.

`PROJECT.json` ("hazards") lists what can go wrong, line by line, with the
properties that would notice.

## 2. The models

### FrameChannel, RingBuffer, RingBufferProofs

`FrameChannel` is what the ring buffer promises: a bounded FIFO of pictures with
actions `Publish`, `Take` and `Done`.  `RingBuffer` is the code: `items`,
`head`, `tail` and `count` of `queue_t`, per queue the threads asleep on its
condition variable (`waiting`), per thread the place in its loop (`pc`) and the
frame it has (`frame`), per frame what it shows (`picture`).

A step is a critical section: the mutex of a queue is held from the check of
`count` to the signal, with nothing else inside, so that `Push`, `Pop` and `Wait`
are atomic.  `SpuriousWakeup` is the wakeup POSIX allows; `CondSignal` chooses
any sleeper.  The copy of a picture (`Fill`) and reading it (`FinishRead`) are
outside the mutexes.  `SendFails` is the branch of `stream_video` that leaves
without `ringbuffer_release`; `leaked` counts what it costs.

### UpdatePlan, AbSlots, UpdateEngine, UpdateEngineProofs

`UpdatePlan` is the arithmetic of masks and the table `update_cmd`: which
entries `RK_ota_set_partition` selects and which item of the image each takes.
`AbSlots` is `setSlotSucceed` and `setSlotActivity` on the metadata, and what
u-boot does with them.  `UpdateEngine` runs them: `flash` (old, new or torn, per
partition), `dst` and `done` (the two files beside the image), `misc` and
`miscDisk` (the metadata as programs see them and as a power loss leaves them),
`running`, and the place in `MiscUpdate` and `RK_ota_start` (`pc`, `todo`,
`source`, `ret`).  The steps are those at which a power loss makes a difference:
the open of a device for writing, the end of the write, the record in the done
file, the removal of `dst`, the verification, and each change of the metadata.

### RecoveryUpdate, RecoveryUpdateProofs

The branch of `MiscUpdate` for a device without slots.  The loop of
`RK_ota_start` is reduced to what matters here (a partition is torn from the
first write, and verified), `message` and `messageDisk` are the boot loader
message in the two senses above, `system` says which system runs.  A mask
without recovery (`ThroughRecovery` is FALSE) goes past the branch of `main.c:93`:
the normal system then writes all the mask has and leaves no message.  The
properties are about the other way and say so.  Recovery and
the boot loader are external: recovery runs `updateEngine` with the mask the
message names, clears the message when all is done, and the boot loader starts
recovery if there is a message.

### SdCardUpdate, WithoutSlots

`updateEngine --update=sdcard` runs in a system on an SD card.  `file` says what the
file of each entry of `update_cmd` holds, `script` is the list of `dd` commands as
entry and offset, `listed` what `flash_parameter` has read of the parameter file,
`pc` and `todo` the place in the two loops of `RK_ota_start`.  What recovery makes of
the script is external (`Leaves`: the last command for an offset wins).  `Break` is
an error, a power loss or a kill; it may leave half a command (`Cut`), which the next
one is appended to.  `CopyImage` puts another image on the card, whose layout may
differ.  `GptEntry`, `GptHeader` and `GptBackup` are the partition table, compared in
`MCRecoveryUpdate` with what makes a table right.

`WithoutSlots` puts the two updates of a device without slots side by side, for
`MCRecoveryUpdate` and `RecoveryUpdateProofs`, and says what a parameter file is
(`CardAssumption`): partitions of different names in different places, behind the
table and the loader, and one for each item of its image.

### CommandServer, CommandServerProofs

`server` is the place in `command_server`, `reply` what `handle_command` made of
what `recv` returned; `SensorReply`, `VideoReply` and `SystemReply` are the three
handlers, as functions from a request to an answer.  Per client: what it has
sent and the server not received (`inbox`), what the server has written and it
has not read (`outbox`), what it has read (`got`), and whether `recv` saw but a
part of its request (`cut`).  A request arrives whole or in two parts.  A line
says "unknown" only to a client whose request was cut, is no JSON, or lacks its
module or action.  `write` to a client that has left ends the process: SIGPIPE is
nowhere ignored.  A request longer than the buffer of 1023 bytes is one that
arrives in parts.

### SdMonitor, SdMonitorProofs

`card`, `node`, `ready`, `waiting` are the kernel's: which card is in, which
device nodes exist and for which card, which of them already answer.  `events`
is the inotify queue, `mounted` the mount table, `pc`, `todo` and `name` the
place in `monitor_sdcard`.  Between any two of the monitor's commands (`blkid`,
`umount`, `mount`, a `readdir`) the kernel may change nodes.  `excused` is a
history variable: the mount points about which no promise can be kept, because a
deletion was not watched, because the event of another device with the same
number was taken for the card's, because a command failed, because the monitor
died with a mount that was already stale, or because a device did not answer when
it was probed.

### ModemRequests, GatewayProofs

`Requests` is the table of all operations of `rf_common.c`: which commands each
sends and what it demands of the answer, for a Quectel and for a Lynq modem.  A
thread goes through `Lock`, `Open`, `Write`, `Flush`, `Read`, `Examine`; the modem
(external) takes commands from one end of the line and puts pieces of answers at
the other.  `Silence` is a second without input, after three of which a request
gives up.

### Camera, SensorRegisters, CameraProofs

`place` and `done` say which V4L2 buffers the driver has and which of those it has
filled; `main` is the place of the main thread in `video_open`, `video_init`,
`video_start_stream`, `video_stop_stream` and `video_deinit`; `loop` and `handle`
are the two static variables of `video.c`.  A capture thread is at `check`,
`dequeue`, `popFree`, `copy` or `queue`.  The ring buffer is taken by its
specification: `channel` and `reading` change by actions of `FrameChannel`, which
`ring_daemon` shows the code to implement.  `torn` is the hazard itself: the driver
filled the buffer a thread copies from.  `StartStream` has no guard but a thread to
be made, because `video_start_stream` has none: it is called by the daemon and for
every TCP client, and overwrites `video_thread`.  `video_stop_stream` looks at
nothing either: after a start that failed it joins no thread, or one joined before
(`JoinNothing`), which is undefined and is modelled as a return or the end of the
process.

`SensorRegisters` has the registers that a setting is written to (`Written`) and
read from (`Read`), and what the code makes of the value on both ways (`Encode`,
`Decode`).  The modes of exposure, gain and GPIO1 are the settings whose getter
gives back what was set.

### RadioPower

`power`, `modem`, `node`, `netif` and `route` are the machine.  `rf_reset` is the
sequence `off`, `gone`, `on`, `back`: each of its commands and each of its waits is
a step, because another program may be anywhere in the same sequence.  The two waits
end by what they wait for or by giving up.  `rf_dev_clean` looks twice before it
removes the name (`Clean`, `Look`, `Unlink`); `4G_call.sh` makes a regular file
when the node is gone (`Call`).  `excused` remembers a failure since the modem was
last switched on.

### Ping, NetConfig, Netmask, Network

`Ping` has the packets in the network and, per program, the packets its socket
holds.  A raw socket gets every ICMP packet that comes to the machine: answers,
error messages (with zeros for id and sequence), requests and messages of others
(`Stray`), and for a program that pings this machine (`Local`) its own request.
One `recvfrom` per request takes whatever came first, of any type; a packet may
arrive more than once.  `answered` remembers which requests the destination has
answered, `strays` the packets with the right id that were no answers.
The checksum is compared with its definition in `MCNetwork` (a packet that contains
its own checksum has checksum 0).

`NetConfig` has an address, a mask, `IFF_UP` and the default routes of an
interface.  A call is a series of ioctls, each a step; `alone` remembers whether
another call overlapped it, `asked` what the last undisturbed call was for.  What
the kernel does besides (the class mask, the routes that go, the alias that goes
with its network) is external.  `Netmask` is the test `is_valid_netmask`, bit by bit,
compared with its definition in `MCNetwork`; it is a module of its own because the
provers know no bitwise operators.

`Network` puts the power of the modem, the programs that ping and the Ethernet
interface side by side, under names that do not clash.  `MCNetwork` adds the threads
that send commands to the modem.  `GatewayProofs` has the proofs about all four.

### Meter, Mqtt, MeterProofs

In `Meter` a call is a job: a sequence of transactions on the line (`left`), each a
`Request` and then an `Answer` or `NoAnswer`.  All functions that read or write a
single register are one action, since nothing depends on which.  `chip` and `cache`
hold the limits, `unsure` remembers that the last change of a group failed or met
another.  A call of `im3332_write_regs` ends as `stuck`: it locks the mutex again
where it should unlock it.

`Mqtt` has the client, the flag, the mutex and the place of each thread.
`mqtt_start` creates, connects and, after a failure, destroys the client without the
mutex (`Starting`).  `reset` remembers that it initialised the mutex while somebody
held it, `opened` that it has connected once, `late` who was let in before the client
was last destroyed, `stale` that a start that failed has left `bConnect` set.

### Instances of several components

`MCCamera`, `MCMeter`, `MCNetwork` and `MCRecoveryUpdate` choose in the initial state,
with the variable `setup`, which of several small machines a behaviour is about; the
others stay at their initial states.  So one run answers for components that share
nothing, or for one component in two environments, at the price of the sum of their
states and not of the product.

## 3. The runs

| run | instance | what it shows |
|---|---|---|
| `ring_daemon` | 3 frames, a capture thread, the GStreamer reader, a TCP client | ownership, conservation, no lost wakeup, no blank picture, FIFO (as a refinement), no starvation |
| `camera` | 2 buffers, 2 frames, a viewer, 2 capture threads, TCP clients, stops, restarts and failing calls; or the sensor | no torn picture, quiet after a stop, the stop returns, pictures keep coming; three settings read back |
| `update_whole` | an image with items of both slots, 3 tries, SUCCESSFUL_BOOT before and RETRY_BOOT after | a way to boot, the running slot untouched, success means written, completion, coming up |
| `update_patch` | the same with patches and power losses | a torn partition can be patched again |
| `update_resume` | a patch update after a power loss | violated: it is never finished |
| `recovery_full` | boot loader, boot, recovery, rootfs and misc; or an SD card with 3 runs and 3 images | with the default mask a way to boot, nothing running written, completion; the script installs its image |
| `sd_cards` | one partition, 3 cards, another device with the same number, a restart, slow nodes, failing commands | exactly the card that is in is mounted; an early unmount is repaired; rest |
| `modem_info` | `get_RF_moduleInfo` with the echo on | violated: it returns 0 without having read |
| `command_clients` | 2 clients that come back and read to the end, 9 requests | one line each, about its own request; everybody is served |
| `command_reader` | the same, with clients that may leave once they have read something | violated: the daemon ends at the second write |
| `meter` | 2 threads on the line of the chip, 3 limits in 2 groups; or 3 publishers | who is on the line, the copy of the limits, calls return; who is in the MQTT client beside others, or after its end |
| `network` | the modem's monitor and 2 programs that reset and dial; or a Lynq modem and 2 threads with 6 operations under the mutex; or 2 that ping, one its own machine; or 2 that configure and check addresses | the modem has power and comes back; each result is its own, 0 means done, the radio is back, operations end; what is counted was answered, or another packet with its numbers came; an undisturbed call leaves what it was asked for |

`TypeOK` of a module says which values each variable takes.  It documents the state,
and is part of the inductive invariants; no run repeats it.

### Bounds, and why they are enough

* Ring buffer: with three frames a queue can be empty, full, and wrapped around;
  a producer and two readers are enough for a signal to have a wrong thread to
  wake.  Two pictures tell order and overwriting apart.  The proofs hold for
  every number of frames and threads.
* Update: `MaxTries` (7 in the boot loader) is 2 or 3, enough to use up the tries
  of one slot, to fall back, and to come to the last one.  Two parts per slot let
  one be written and the other not.  An item that is missing for one slot takes
  the path that uses its partner's.
* Recovery: two partitions in the normal system and one of the boot loader's.
* SD card update: two images with different items and other places for the same
  partitions, so that commands of one run name files and offsets of the other, and one
  image that hangs; three runs, of which two can break off.
* SD monitor: with `MaxCards` = 3 an event of the first card can be handled when
  the third is in; one restart finds mounts of one before.  A second partition
  changes nothing but the product of the states: no two of them share anything
  but the order of the events.
* Modem: `MaxOps` = 1 call per thread, as the two threads already follow each
  other on the port, and what the first call leaves there is read by the second;
  a call has up to three commands, each of which may fail.  The theorems hold for
  every number of threads and calls, and what is said of late answers is proved only.
* Camera: with two buffers the driver can fill one while a thread copies the other,
  and one can stay behind; with two threads one handle can be overwritten.  A third
  thread is like the second, as nobody waits for either.
* Sensor: three flags with registers of their own, and two settings whose getters
  read other registers; three values, as the setters tell 0 from the rest and write 2.
* Radio: the monitor and two programs can be at any two of the places of `rf_reset`
  with a third looking on; `Failures` = 2 failing commands, crashes or kills.  The
  theorem holds for every number of programs and failures.
* Ping: two requests per call tell a late answer from the right one; one packet per
  socket and one on the way, which may arrive again at any later time, are enough to
  shift the answers.  Both ids are 0, as of every caller in the repository; one of the
  programs pings its own machine.
* Ethernet: two addresses, one mask beside that of the class, one failing ioctl.
* Meter: two limits in a group let the first be written and the second not; a second
  group shows that changes of one do not touch the other.  Three publishers are one
  more than two that a mutex keeps apart.
* Commands: the requests take every branch of `handle_command` and of the kinds
  of handler; more clients than two only make the queue longer.  `Backlog` is 0
  so that the queue gets full.

### Fairness, and why the code justifies it

* `RingBuffer`: weak fairness of every step of every thread, since the threads
  are loops that the kernel schedules and no critical section waits inside.
  None for spurious wakeups and failing sends.
* `UpdateEngine`: weak fairness of the program, the boot loader and the boot
  script.  Strong fairness of two things outside: somebody starts the update again
  while the old version runs, and reboots when the other slot waits.  Without them
  no update is ever begun.  `UpdateCompletes` also assumes that faults and changes
  by hand stop at some time.
* `RecoveryUpdate`: the same.
* `SdMonitor`: weak fairness of the monitor, which blocks only in `read`, and of
  what the kernel has begun (nodes appear, vanish and become ready).
* `Camera`: weak fairness of the capture threads, of the rest of a stop that has
  begun, of the driver while it has buffers, and of viewers of a playing pipeline.
  None for starts and stops, failing calls or the pipeline: `StopReturns` and
  `KeepsDelivering` say what happens when viewers pause.
* `Meter`: a transaction ends, at the latest by its timeout (weak); a thread that
  waits for a mutex which is free again and again gets it (strong), since the mutex
  of a system with a fair scheduler does not starve it for ever.
* `RadioPower`: weak fairness of the threads, the monitor and the modem, which boots
  and vanishes as it is switched.  It is the premise of `Heals` in `MCNetwork`, whose
  own specification has the fairness of `ModemRequests`.
* `ModemRequests`: weak fairness of the threads, each of which waits at most for a
  timeout or the mutex, and of the modem.
* `CommandServer`: weak fairness of the server thread, and of clients: one that
  has connected sends something or leaves.  The code does not ensure the
  latter (`recv` has no timeout); a client that says nothing blocks all others,
  and is listed as a hazard.

### What else is assumed of the environment

* A power loss keeps what was synced and loses or keeps the rest; a write that
  `fsync` failed for is noticed when the partition is read back.
* `MayStop`: power is not lost, nor a confirmation refused, so often in a row that
  the running slot has no boot left: then u-boot gives up a slot that works.
* One `updateEngine` runs at a time.
* `Patient` (recovery): nobody starts a second update before the reboot that the
  first asks for, and nobody wipes the user data after an update of recovery that
  failed half way.  Without the second, `AlwaysBoots` is violated:
  `--misc=wipe_userdata` asks for the recovery system that is torn.
* Nobody mounts or unmounts the monitor's mount points by hand.
* Recovery runs all commands of the script, in order.
* A modem answers in pieces (`body`, `OK`, `ERROR`) which are not split; a prompt
  one (`Slow` = FALSE) answers before a second of silence.
* In `command_clients`, clients that have sent something wait for the end
  (`Leaving = "end"`).  In `command_reader` they may close after they have read
  something, as the repository's own test does, and the daemon is ended (section 5).
* `ThroughRecovery`: the mask has the recovery partition, as the default has.  This is
  a premise of `AlwaysBoots`, `RunningUntouched` and `UpdateCompletes`, not an
  assumption on the constants: without it the normal system writes what it runs from,
  and the first two are violated.
* `pthread_join` without a thread to join returns or ends the process; that it waits
  for another thread which has got the same handle is left out.
* The gateway's modem has one supply line and one node; USB numbering is stable.
* A packet with a wrong checksum is read and compared like any other that does not
  match.
* Programs that use the metering chip stop when `im3332_init` fails.

## 4. The proofs

All safety properties that passing runs check are also theorems.  A run shows its
properties on one instance; a theorem shows them for every value of the constants
that satisfies the named assumptions.

| module | theorem | of | says |
|---|---|---|---|
| `RingBufferProofs` | `TypeCorrectness`, `Exclusion`, `FramesConserved`, `PushNeverWaits` | `RingBuffer` | `TypeOK`, `ExclusiveOwnership`, `Conservation`, `PushNeverBlocks` for every number of frames and threads |
| | `NeverBlank`, `SignalsSuffice` | | `NoBlankPicture`, `NoLostWakeup`, likewise |
| | `Implementation` | | `ImplementsChannel`: every behaviour is one of `FrameChannel` |
| `CameraProofs` | `PicturesWhole`, `StoppedMeansQuiet` | `Camera` | `NoTornPicture`, `QuietAfterStop` for every number of buffers, frames, viewers and threads |
| | `AloneNeverTorn` | | if no TCP client starts the stream, no viewer sees a torn picture at all |
| | `SettingsKept` | `SensorRegisters` | `ReadsBack`: the modes of exposure, gain and GPIO1, whatever else is set, for all values |
| `UpdateEngineProofs` | `TypeCorrectness`, `RunningSlotSafe`, `NeverConfused`, `SuccessMeansWritten` | `UpdateEngine` | `TypeOK`, `RunningSlotUntouched`, `NoConfusedSlot`, `FinishedMeansWritten` for every image, mask, set of patches, number of tries and mix of systems |
| | `AlwaysAWayOut` | | `SafeToStop`, likewise |
| | `PatchSurvives`, `PatchSurvivesPowerLoss` | | `PatchRecoverable` while no write fails, and with the power losses of `update_patch` |
| `RecoveryUpdateProofs` | `TypeCorrect`, `BootsAlways`, `HandedToNewRecovery`, `LeavesRunningAlone` | `RecoveryUpdate` | `TypeOK` for every image and mask; `AlwaysBoots`, `NewRecovery`, `RunningUntouched` for every image and every mask with recovery |
| | `CardInstalls` | `SdCardUpdate` | `ScriptInstalls` for all images, however many runs broke off before |
| `CommandServerProofs` | `TypeCorrect`, `OneLine` | `CommandServer` | `TypeOK`, `OneLineEach` for all clients, requests and lengths of the queue |
| | `EndedByEarlyLeaver` | | the daemon is ended only by a client that has read the answer and left before the line end |
| `SdMonitorProofs` | `MountsRight`, `ComesBack` | `SdMonitor` | `MountsMatch`, `UnmountedIsRemounted` for any partitions, devices with their numbers, cards and restarts |
| `MeterProofs` | `LineKept`, `CopyIsTrue` | `Meter` | `LineExclusive`, `CacheMatchesChip` for every number of threads, all groups, registers and values |
| | `OneAtATime`, `ClientIsThere` | `Mqtt` | `PublishExclusive`, `PublishesToClient` for every number of publishers |
| `GatewayProofs` | `OffOnlyByFailure` | `RadioPower` | `LeftOffOnlyByFailure` for every number of programs and failures |
| | `AnsweredIfCounted` | `Ping` | `CountedAnswered` for all programs, identifiers, destinations, numbers of requests and queues |
| | `AsAskedIfAlone` | `NetConfig` | `Settled` for all programs, addresses and masks |
| | `NamedResults` | `ModemRequests` | `SameCommand` for all threads and processes, either modem, late or not |
| | `OwnAnswers`, `SuccessIsDone`, `RadioIsBack` | | `OwnAnswer`, `OkMeansDone`, `RadioBack` for every number of threads, under `InTurns` |

### What they assume

The named assumptions about the constants (`SizeAssumption`, `ThreadAssumption`,
`ValueAssumption`, `CameraAssumption`, `SettingsAssumption`, `ImageAssumption`,
`TriesAssumption`, `RecoveryAssumption`, `CardAssumption`, `ClientAssumption`,
`NumberAssumption`, `BoundAssumption`, `MeterAssumption`, `RadioAssumption`,
`OpsAssumption`) are evaluated by TLC in the runs.  Some theorems have premises of
their own:

* `SuccessMeansWritten`: the mask includes the default one, since a smaller mask
  leaves partitions out on purpose.
* `PatchSurvives`: no write of a partition fails.  One that does breaks it, as
  `flash_normal` removes the patched file whatever `block_write` returned.
* `BootsAlways`, `HandedToNewRecovery`, `LeavesRunningAlone`: the properties have
  `ThroughRecovery` for a premise (section 3).
* `AloneNeverTorn`: the actions of the daemon alone start the stream.
* `InTurns`: the modem answers in time, its users are threads of one process, and
  none of them calls `get_RF_moduleInfo`, the one operation that does not take
  `g_rf_mutex`.  Without any of the three a thread can read the answer to another
  command (section 5); `NamedResults` is what remains then.

### How they go

* Ring buffer.  `ExclusiveOwnership` and `Conservation` are not inductive: a pop
  must not yield garbage, so that the occupied positions hold frames
  (`QueuedInv`); the next free position is `head + count` (`TailInv`); and a
  thread has a frame exactly in certain places (`HoldInv`).  `PushNeverBlocks`
  follows by counting: a thread that pushes holds a frame, so that
  `Conservation` leaves at most `MaxBuffers - 1` for a queue.  No blank picture:
  from the copy to the end of the reader's look a frame shows a picture, in a hand
  and in the queue alike (`FilledInv`).  No lost wakeup: since no push waits, all
  that sleep on a queue want to pop from it (`WaitersPop`), so that a signal never
  goes to one that cannot use it.  The refinement reads the used queue from its head
  (`ChannelBar`): a push appends to it, a pop takes its first, and every other step
  stutters, a copy into a free frame because that frame is in nobody else's hands.
* Camera.  The buffers `DQBUF` will return are the driver's, each once (`DoneInv`),
  and one a thread copies from is its own unless `video_stop_stream` pulled the
  buffers from under it (`UserInv`); that takes a second starter, since otherwise
  the thread the stop waits for is the only one (`OneThread`).  The sensor's three flags have registers to themselves.
* Update.  `LoopInv` says that what is left to do belongs to the plan of the
  running slot and that something is left exactly while the loop is at an entry;
  whatever the loop has left behind is new.  `SourceInv` ties the source of a
  write to the kind of the item, `MetaInv` extends `NoConfusedSlot` to the
  metadata on disk.  That a plan never names the running slot is a lemma about
  masks and the table (`PlanFacts`).  `SafeToStop` speaks of the moment power is
  lost and needs more: the running slot holds one whole version, and both copies
  of the metadata put it before another slot that is known to boot (`Behind`,
  `SafeInv`); half of its proof is what `setSlotActivity` and u-boot do with
  priorities and tries.  For patches, `PatchInv` follows the patched file from the
  open of the device to its removal.
* Recovery.  `PlaceInv` ties what is left to do to the system that runs,
  `MessageInv` the two copies of the message to each other, `SystemInv` says that
  the normal system is whole unless the update the message tells of is under way,
  `RecoveryInv` that recovery is whole whenever a message waits.  `AlwaysBoots`
  mentions none of the first two, but a step of `Verify` or `ClearMessage`
  preserves it only because of them.
* SD card.  Of the entries the loop has left behind the files are the image's and the
  last commands for their places are theirs (`DoneInv`).  A command for one entry
  does not undo that for another because no two have the same place (`Offsets`, from
  `CardAssumption` and the table), also not the place in the other slot, which only
  entries without a partner in the image go to.  `ListedInv`: the layout has been
  read before anybody looks for such a place.
* Command server.  `QueueInv` follows a connection: once in the queue, then
  served, then ended; `InboxInv` says that what has not been received was sent by a
  client that is still there, which is why the check of `len` in `command_server`
  is enough (`AnswerInv`).  `LineInv` follows what is written: nothing before its
  turn, then the answer to what `recv` saw, then the line end.  `LeaveInv`: a client
  that is served and has gone has read the answer and not the line end.
* SD monitor.  Mounts and nodes disagree all the time while events are on their way.
  For each partition about which a promise can be kept, the invariant says what in the
  queue or in the monitor's hands will put it right: a mount without a node has a
  deletion in the queue (`Gone`), a deletion that is out of date has a creation behind
  it (`Order`), another card's mount will be removed (`Fresh`), and what is not mounted
  will still be looked at (`Due`).
* Meter.  The invariant says of a thread on the line that it has something to send,
  and the mutex unless what it sends is a factory switch (`OnLine`); and that only a
  call of `im3331_set_mode` has such a switch among what is left.  Two threads on the
  line are then two owners of the mutex, or one of them sets the mode.  For the copy
  of the limits, a call that nobody met agrees with the chip, or with what it has read,
  about all the registers it is past (`Progress`).
* MQTT.  While the mutex was never initialised under its holder, it is locked
  whenever somebody is between lock and unlock (`HeldLocked`); before the first
  connection nobody is let in.  Whoever is let in finds the client there, or was let in
  before the last destruction, or by a flag that a failed start has left (`LetInInv`).
* Modem power.  `LeftOffOnlyByFailure` is inductive with the places of the threads:
  whoever leaves `on` without switching the modem on, or gives up waiting at `gone`,
  sets `excused`; every other step leaves a thread that is there where it is.
* Ping.  A reply in the network or in a socket is to a request that was answered, and
  every other packet in a socket with its id is among its `strays` (`HeardBy`).
* Ethernet.  What an undisturbed call has set so far is there (`SoFar`), and an alias
  that was not left behind belongs to a check under way (`AliasInUse`).
* AT requests.  That a named result comes from its command needs only that answers
  carry the name of theirs, and that `FirstBody` finds one that does.  `OwnAnswer`
  needs that there is silence between two requests: while nobody waits, no command, no
  answer and nothing on the line (`Silent`); while somebody does, all there is belongs
  to one command, and nothing follows its `OK` or `ERROR` (`Talk`).  `Carried` adds
  that all commands but the one at hand were accepted, which the results of
  operations that set something are read from.

### What stays with TLC

Everything that must happen in the end (`PictureDelivered`, `StopReturns`,
`KeepsDelivering`, `UpdateCompletes`, `ComesUp`, `Settles`, `Returns`, `Served`,
`Heals`), because the provers do not treat fairness.  What is said of the checksum,
the netmask test and the partition table is evaluated for the listed inputs.

## 5. Where code and documentation disagree

* `flash_image.c:225`: the size of the done file is compared before it is
  assigned, so that it is never read.  Whole partitions are simply written again;
  a patch is applied to what it has already made, and the update never ends
  (`update_resume`).  The comment above says that it can go on after a power loss.
* `rf_quectel.c:113`: with the echo on `get_RF_DeviceInfo_QUECTEL` returns 0 for
  requests that failed (`modem_info`).
* `command_parser.c:31`: the line end of an answer is a second `write`, and a client
  that closes after it has read the first, as `test_set_framerate.py:22` does, ends the
  daemon by SIGPIPE (`command_reader`).

Seen while modelling, with no run of their own.  Where the code does not do what its
names, comments or tests say:

* `flash_image.c:286`: the patched file is to be removed after it was written to
  flash, and is removed after a failed write too.
* `update.c:251`: the script of an SD card update is opened with `O_APPEND`: the
  commands of earlier runs stay, also for partitions the image of the last does not
  have, and one that was cut off joins the first of the next run.
* `flash_image.c:658`: the names of partitions are copied before their flags are cut
  off, so that "Fix if update_xxx.img not found some A/B partition image"
  (`update.c:403`) passes over a partition with a flag.
* `flash_image.c:334` and `:362`: a comment line in the parameter file makes the loop
  over its lines endless.  `main.c:247` reads `optarg` when it is NULL: an update from
  a USB disk is taken for one from an SD card.
* `rkbootloader.c:505` and `:548`: the custom command line is read without its length and
  written with it: what `read` has written `write` does not understand.
* `main.c:93`: the comment above says that recovery is updated in the normal system;
  with a mask that lacks recovery the normal system writes what it runs from instead.
* `mount_sd.c:13`: `DEVICE_WAIT_TIMEOUT` is not used; a node that does not answer
  at once is given up.
* `rf_common.c:115`: `get_RF_moduleInfo` does not take `g_rf_mutex` and can read the
  answers to another thread's commands; an `OK` that comes after three seconds is
  taken for the next command's.  `rf_common.c:104`: `reset_rf` looks at none of its
  results and returns 0 with the modem off.
* A framerate or format command with an unknown action gets no answer.
* `video.c:417`: after a stop only the buffer in use goes back to the driver; a
  stream that is started again without `video_init` runs dry
  (`KeepsDelivering` says so in its premise).  `video.c:425`: a stop after a start
  that failed joins a thread that is not there.
* `mvcam.c`: the getters of brightness, trigger mode, trigger source and trigger
  number read other registers than their setters write; those of delay and edge do
  not fill in what they were asked for; a register write that failed returns 0.
* `im3332.c:57`: `im3332_write_regs` locks the mutex twice.  `im3332.c:379`: after a
  failed connection `ctx` points to freed memory.
* `mqtt.c:113`: the mutex is initialised after publishers were let in, and again at
  every later start.  `mqtt.c:98-108`: a later start creates, connects and destroys
  beside a publisher that was let in before; `mqtt.c:66`: that publisher does not look
  again before it publishes; `mqtt.c:106-111`: a start that fails leaves `bConnect` as
  an earlier one has set it.
* `ping.c:147`: the type of a packet is not looked at (the check is commented out), so
  that an error message counts as the answer to request 0 of id 0, and a request with
  the right numbers, such as the own one over the loopback, as its own answer.  `ping.c:402`: `ping_intf` closes its
  socket twice on one path, and `ping` may close descriptor 0.
* `rf_daemon.c` starts a thread function that does not exist; its monitor is modelled
  as it is written.

## 6. What is not modelled, and what remains

Not modelled, because it is a single call of a library or a driver with no state that
several steps depend on, or because it never runs:

* GPIO, thread and debug wrappers; LED, clock, DI, DO, AI, RS-485 and SSI drivers; the
  scanner; the functions of `netip.c` that only read (`get_addr`, `get_localgateway`
  and their like); the setters of `ModParam.c` that keep one value; the sampling of
  `im3332.c`, which opens, reads and closes a device of its own.
* `iot_daemon.c`, whose `main` returns at once; the client and the test programs.
* The elements and caps of the GStreamer pipeline, downloads, log output.

Not modelled, although it has behaviour worth a model:

* The custom command line of misc, with one reader and one writer by hand.
* MTD devices: `mtd_write`, its bad-block handling, and the misc partition, which is
  erased and rewritten (`rkbootloader.c:169`); what `rkboot.c` puts into the blocks of
  the loader.
* Image formats and checksums, which `UpdateEngine` takes to be right, and the
  comparison of versions by `strcmp` (`update.c:502`: 1.0.10 is older than 1.0.9).
* The overflow of the inotify queue, which `mount_sd.c:219` does not handle.
* The log of the SD monitor, a file behind a mutex with one caller.

Next would come MTD devices as a second kind of flash in `UpdateEngine`, and the
theorems about them; the log of the SD monitor; and, of what is modelled, theorems
about the operators the models are built from: that `setSlotActivity` and u-boot
always agree on the slot to try, and that the entries of `GptEntry` never overlap.
