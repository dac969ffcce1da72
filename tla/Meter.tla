------------------------------- MODULE Meter --------------------------------
(* The metering chip of project/elec on its RS-485 line (im3332.c) and the *)
(* copy of its alarm limits kept by ModParam.c, used by several threads of *)
(* one program.                                                            *)
EXTENDS Naturals, Sequences, FiniteSets

CONSTANTS
  Threads,
  Sigal, Con,  \* the limits of one phase and of all phases: sequences of registers
  Values,      \* what a register holds; 0 is what memset leaves
  None

VARIABLES
  ctx,     \* the modbus context
  mutex,   \* owner of im3332_mutex
  line,    \* threads between the request and the answer of a transaction
  work,    \* what each thread does
  chip,    \* the limits in the chip
  cache,   \* g_MetetParam.sigphase_info and conphase_info
  unsure   \* limits whose last change failed, or was one of several at once

vars == <<ctx, mutex, line, work, chip, cache, unsure>>

Groups == {"sigal", "con"}
(* Mutant of AlarmRegs: the first register is forgotten.                   *)
AlarmRegsButOne(g) == Tail(IF g = "sigal" THEN Sigal ELSE Con)
(* The registers of a group, in the order of the code.                     *)
AlarmRegs(g) == IF g = "sigal" THEN Sigal ELSE Con

RegsOf(g) == IF g = "sigal" THEN {Sigal[i] : i \in 1 .. Len(Sigal)}
                            ELSE {Con[i] : i \in 1 .. Len(Con)}
Limits == RegsOf("sigal") \cup RegsOf("con")

(* What else a call may have to do.                                        *)
Others == {"enter", "wiring", "exit", "one", "regs"}

ASSUME MeterAssumption ==
  /\ 0 \in Values /\ None \notin Threads
  /\ Sigal \in Seq(Limits) /\ Con \in Seq(Limits)
  /\ RegsOf("sigal") \cap RegsOf("con") = {} /\ Limits \cap Others = {}

(* Registers that are read, or written, one at a time and not kept.        *)
Identity == {"MODEL", "SOFT_VER"}
Energies == {"AE_T", "PAE_T", "NAE_T"}
Sampling == {"SAMPLE_PHASE_TYPE", "SAMPLE_POINTS_NUM", "SAMPLE_ADC_RES",
             "SAMPLE_SCALE_RATIO", "SAMPLE_ENABLE"}
Single   == {Identity, Energies, Sampling, {"WIRING"}}

Idle == [kind |-> "idle", of |-> {}, value |-> 0, left |-> <<>>, ok |-> TRUE]

Init ==
  /\ ctx = "none" /\ mutex = None /\ line = {}
  /\ work = [t \in Threads |-> Idle]
  /\ chip \in [Limits -> Values]
  /\ cache = [r \in Limits |-> 0]
  /\ unsure = [g \in Groups |-> TRUE]

Working(g) == {t \in Threads : g \in work[t].of}
-----------------------------------------------------------------------------
(* im3332_init: a new context is connected.  When that fails it is freed,  *)
(* but ctx keeps the pointer; programs give up then.                       *)
Connect ==
  /\ ctx = "none"
  /\ ctx' \in {"open", "freed"}
  /\ UNCHANGED <<mutex, line, work, chip, cache, unsure>>

Start(t, job) ==
  /\ ctx = "open" /\ work[t].kind = "idle"
  /\ work' = [work EXCEPT ![t] = job]
  /\ UNCHANGED <<ctx, mutex, line, chip>>

Changes(groups) ==
  unsure' = [g \in Groups |-> IF g \in groups THEN Working(g) # {} ELSE unsure[g]]

(* Any function that reads or writes one register: all of a kind are one,  *)
(* as nothing else depends on the register.                                *)
OneRegister(t) ==
  /\ Start(t, [kind |-> "one", of |-> {}, value |-> 0, left |-> <<"one">>, ok |-> TRUE])
  /\ UNCHANGED <<cache, unsure>>

(* im3331_set_mode: factory mode on, wiring, factory mode off.             *)
SetMode(t) ==
  /\ Start(t, [kind |-> "mode", of |-> {}, value |-> 0,
               left |-> <<"enter", "wiring", "exit">>, ok |-> TRUE])
  /\ UNCHANGED <<cache, unsure>>

(* ModParamsSetSigalPhaseEvent, ModParamsSetConPhaseEvent.                 *)
SetLimits(t, g, v) ==
  /\ Start(t, [kind |-> "set", of |-> {g}, value |-> v, left |-> AlarmRegs(g), ok |-> TRUE])
  /\ Changes({g}) /\ UNCHANGED cache

(* ModParamReset: everything to zero, then both groups are read.           *)
Reset(t) ==
  /\ Start(t, [kind |-> "reset", of |-> Groups, value |-> 0,
               left |-> AlarmRegs("con") \o AlarmRegs("sigal"), ok |-> TRUE])
  /\ Changes(Groups) /\ cache' = [r \in Limits |-> 0]

(* im3332_write_regs, for any registers: here all those of a group.        *)
WriteRegs(t, g, v) ==
  /\ Start(t, [kind |-> "regs", of |-> {g}, value |-> v, left |-> <<"regs">>, ok |-> TRUE])
  /\ unsure' = [unsure EXCEPT ![g] = TRUE] /\ UNCHANGED cache
-----------------------------------------------------------------------------
Current(t) == Head(work[t].left)
(* Mutant of Raw: one register is read without the mutex too.              *)
RawToo(t) == Current(t) \in {"enter", "exit", "one"}
(* Entering and leaving factory mode is done without the mutex.            *)
Raw(t) == Current(t) \in {"enter", "exit"}

(* One of the wrappers sends its request.                                  *)
Request(t) ==
  /\ work[t].left # <<>> /\ t \notin line
  /\ IF Raw(t) THEN UNCHANGED mutex ELSE mutex = None /\ mutex' = t
  /\ line' = line \cup {t}
  /\ UNCHANGED <<ctx, work, chip, cache, unsure>>

(* What a request does to the chip when it arrives.                        *)
Arrives(t) ==
  LET written == CASE work[t].kind = "set"  -> {Current(t)}
                   [] work[t].kind = "regs" -> UNION {RegsOf(g) : g \in work[t].of}
                   [] OTHER -> {}
  IN  chip' = [r \in Limits |-> IF r \in written THEN work[t].value ELSE chip[r]]

(* Mutant of Release: reading one register ends like write_regs.           *)
ReleaseNot(t) ==
  IF Raw(t) \/ work[t].kind \in {"regs", "one"} THEN UNCHANGED mutex ELSE mutex' = None
(* The mutex after a transaction; write_regs locks it a second time        *)
(* instead, and sleeps for ever.                                           *)
Release(t) == IF Raw(t) \/ work[t].kind = "regs" THEN UNCHANGED mutex ELSE mutex' = None

Answer(t) ==
  /\ t \in line
  /\ line' = line \ {t}
  /\ Release(t) /\ Arrives(t)
  /\ work' = [work EXCEPT ![t].left = IF @ = <<"regs">> THEN @ ELSE Tail(@),
                          ![t].kind = IF @ = "regs" THEN "stuck" ELSE @]
  /\ cache' = IF work[t].kind = "reset" THEN [cache EXCEPT ![Current(t)] = chip[Current(t)]]
                                        ELSE cache
  /\ UNCHANGED <<ctx, unsure>>

(* No answer: the request or the answer was lost, or two met on the line.  *)
(* A group is given up at its first failure; set_mode goes on all the same *)
(* and reports what the wiring did.                                        *)
NoAnswer(t) ==
  LET rest == CASE work[t].kind = "mode"  -> Tail(work[t].left)
                [] work[t].kind = "reset" ->
                     IF Len(work[t].left) > Len(Sigal) THEN AlarmRegs("sigal") ELSE <<>>
                [] work[t].kind = "regs"  -> work[t].left
                [] OTHER -> <<>>
  IN
  /\ t \in line
  /\ line' = line \ {t}
  /\ Release(t)
  /\ Arrives(t) \/ UNCHANGED chip
  /\ work' = [work EXCEPT ![t].left = rest,
                          ![t].ok = @ /\ Raw(t),
                          ![t].kind = IF @ = "regs" THEN "stuck" ELSE @]
  /\ unsure' = [g \in Groups |-> unsure[g] \/ g \in work[t].of]
  /\ UNCHANGED <<ctx, cache>>

(* The call returns; limits that the chip has taken are copied.            *)
Return(t) ==
  /\ work[t].kind # "idle" /\ work[t].left = <<>> /\ t \notin line
  /\ cache' = [r \in Limits |->
                 IF work[t].kind = "set" /\ work[t].ok /\ \E g \in work[t].of : r \in RegsOf(g)
                   THEN work[t].value ELSE cache[r]]
  /\ work' = [work EXCEPT ![t] = Idle]
  /\ unsure' = [g \in Groups |-> unsure[g] \/ (g \in work[t].of /\ Working(g) # {t})]
  /\ UNCHANGED <<ctx, mutex, line, chip>>

Stuck(t) == work[t].kind = "stuck"
Step(t) == ~Stuck(t) /\ (Request(t) \/ Answer(t) \/ NoAnswer(t) \/ Return(t))

Call(t) ==
  \/ OneRegister(t) \/ SetMode(t) \/ Reset(t)
  \/ \E g \in Groups, v \in Values : SetLimits(t, g, v) \/ WriteRegs(t, g, v)

Next == Connect \/ \E t \in Threads : Call(t) \/ Step(t)

Spec == Init /\ [][Next]_vars

(* A transaction ends, in an answer or a timeout, and a thread that waits  *)
(* for the mutex gets it at last when it is free again and again.          *)
Fairness == \A t \in Threads : /\ SF_vars(~Stuck(t) /\ Request(t))
                               /\ WF_vars(~Stuck(t) /\ (Answer(t) \/ NoAnswer(t) \/ Return(t)))
FairSpec == Spec /\ Fairness
-----------------------------------------------------------------------------
(* Two threads are on the line at once only if one of them is setting the  *)
(* wiring mode: im3332_enter_factory and im3332_exit_factory are the only  *)
(* functions that go round the mutex.                                      *)
LineExclusive ==
  \A s, t \in line : s # t => work[s].kind = "mode" \/ work[t].kind = "mode"

(* The copy of the limits agrees with the chip once calls have ended,      *)
(* whatever fails and whoever changes what: unless the last change of the  *)
(* group failed, or met another change of it.                              *)
CacheMatchesChip ==
  \A g \in Groups : ~unsure[g] /\ Working(g) = {} =>
    \A r \in RegsOf(g) : cache[r] = chip[r]

(* Every call returns, unless some thread has called im3332_write_regs:    *)
(* that one never does, and nobody gets the mutex after it.                *)
Returns ==
  \A t \in Threads : work[t].kind # "idle" ~> (work[t].kind = "idle" \/ \E s \in Threads : Stuck(s))
=============================================================================
