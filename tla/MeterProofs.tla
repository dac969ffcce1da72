----------------------------- MODULE MeterProofs ----------------------------
(* Proofs about the meter box, for any number of threads and any         *)
(* registers: transactions on the line of the metering chip keep to      *)
(* themselves, but for those that switch the factory mode; the copy of   *)
(* the limits is what the chip has; and one thread at a time uses the    *)
(* MQTT client.                                                          *)
EXTENDS MCMeter, TLAPS

Kinds == {"idle", "one", "mode", "set", "reset", "regs", "stuck"}
Jobs == [kind : Kinds, of : SUBSET Groups, value : Values,
         left : Seq(Limits \cup Others), ok : BOOLEAN]

(* Only a call that sets the mode has factory switches to send, and no     *)
(* call has nothing to send.                                               *)
Sensible(job) ==
  /\ job.kind # "mode" => job.left \in Seq((Limits \cup Others) \ {"enter", "exit"})
  /\ job.kind = "idle" => job.left = <<>>

(* Whoever is on the line has something to send, and the mutex unless what *)
(* it sends is a factory switch.                                           *)
OnLine(t) == work[t].left # <<>> /\ (Raw(t) \/ mutex = t)

Inv ==
  /\ line \subseteq Threads
  /\ work \in [Threads -> Jobs]
  /\ \A t \in Threads : Sensible(work[t])
  /\ \A t \in line : OnLine(t)

-----------------------------------------------------------------------------
LEMMA GroupRegs ==
  ASSUME NEW g
  PROVE  AlarmRegs(g) \in Seq((Limits \cup Others) \ {"enter", "exit"})
<1>1. Limits \subseteq (Limits \cup Others) \ {"enter", "exit"}
  BY MeterAssumption DEF Others
<1> QED
  BY <1>1, MeterAssumption DEF AlarmRegs

LEMMA Starting == Init => Inv
<1> SUFFICES ASSUME Init PROVE Inv
  OBVIOUS
<1>1. Idle \in Jobs /\ Sensible(Idle)
  BY MeterAssumption DEF Idle, Jobs, Kinds, Sensible
<1> QED
  BY <1>1 DEF Init, Inv

LEMMA OnlyMode == Inv => LineExclusive
<1> SUFFICES ASSUME Inv, NEW s \in line, NEW t \in line, s # t,
                    work[s].kind # "mode", work[t].kind # "mode"
             PROVE  FALSE
  BY DEF LineExclusive
<1>1. ASSUME NEW u \in line, work[u].kind # "mode" PROVE mutex = u
  <2>1. Sensible(work[u]) /\ OnLine(u)
    BY DEF Inv
  <2>2. ~Raw(u)
    BY <1>1, <2>1 DEF Sensible, OnLine, Raw, Current
  <2> QED
    BY <2>1, <2>2 DEF OnLine
<1> QED
  BY <1>1

-----------------------------------------------------------------------------
(* A thread that is on the line has something to send.                     *)
LEMMA OnTheLine ==
  ASSUME Inv, NEW t \in line
  PROVE  /\ t \in Threads /\ work[t] \in Jobs /\ work[t].left # <<>>
         /\ work[t].kind # "idle" /\ Sensible(work[t])
  BY DEF Inv, OnLine, Sensible

LEMMA Starts ==
  ASSUME Inv, NEW t \in Threads, NEW job \in Jobs, Sensible(job), Start(t, job)
  PROVE  Inv'
<1>1. t \notin line
  BY OnTheLine DEF Start
<1>2. work' \in [Threads -> Jobs] /\ \A u \in Threads : Sensible(work'[u])
  BY DEF Inv, Start
<1>3. ASSUME NEW u \in line PROVE OnLine(u)'
  BY <1>1, <1>3 DEF Inv, Start, OnLine, Raw, Current
<1> QED
  BY <1>2, <1>3 DEF Inv, Start

LEMMA Calls ==
  ASSUME Inv, NEW t \in Threads, Call(t)
  PROVE  Inv'
<1>1. CASE OneRegister(t)
  <2> DEFINE job == [kind |-> "one", of |-> {}, value |-> 0, left |-> <<"one">>, ok |-> TRUE]
  <2>1. <<"one">> \in Seq((Limits \cup Others) \ {"enter", "exit"}) /\ <<"one">> \in Seq(Limits \cup Others)
    BY DEF Others
  <2>2. job \in Jobs /\ Sensible(job)
    BY <2>1, MeterAssumption DEF Jobs, Kinds, Sensible
  <2> QED
    BY <1>1, <2>2, Starts DEF OneRegister
<1>2. CASE SetMode(t)
  <2> DEFINE job == [kind |-> "mode", of |-> {}, value |-> 0, left |-> <<"enter", "wiring", "exit">>, ok |-> TRUE]
  <2>1. <<"enter", "wiring", "exit">> \in Seq(Limits \cup Others)
    BY DEF Others
  <2>2. job \in Jobs /\ Sensible(job)
    BY <2>1, MeterAssumption DEF Jobs, Kinds, Sensible
  <2> QED
    BY <1>2, <2>2, Starts DEF SetMode
<1>3. CASE Reset(t)
  <2> DEFINE regs == AlarmRegs("con") \o AlarmRegs("sigal")
             job == [kind |-> "reset", of |-> Groups, value |-> 0, left |-> regs, ok |-> TRUE]
  <2>1. regs \in Seq((Limits \cup Others) \ {"enter", "exit"})
    BY GroupRegs
  <2>2. regs \in Seq(Limits \cup Others)
    BY <2>1
  <2>3. job \in Jobs /\ Sensible(job)
    BY <2>1, <2>2, MeterAssumption DEF Jobs, Kinds, Sensible
  <2> QED
    BY <1>3, <2>3, Starts DEF Reset
<1>4. ASSUME NEW g \in Groups, NEW v \in Values, SetLimits(t, g, v) PROVE Inv'
  <2> DEFINE job == [kind |-> "set", of |-> {g}, value |-> v, left |-> AlarmRegs(g), ok |-> TRUE]
  <2>1. AlarmRegs(g) \in Seq(Limits \cup Others)
    BY GroupRegs
  <2>2. job \in Jobs /\ Sensible(job)
    BY <2>1, GroupRegs DEF Jobs, Kinds, Sensible
  <2> QED
    BY <1>4, <2>2, Starts DEF SetLimits
<1>5. ASSUME NEW g \in Groups, NEW v \in Values, WriteRegs(t, g, v) PROVE Inv'
  <2> DEFINE job == [kind |-> "regs", of |-> {g}, value |-> v, left |-> <<"regs">>, ok |-> TRUE]
  <2>1. job \in Jobs /\ Sensible(job)
    BY DEF Jobs, Kinds, Sensible, Others
  <2> QED
    BY <1>5, <2>1, Starts DEF WriteRegs
<1> QED
  BY <1>1, <1>2, <1>3, <1>4, <1>5 DEF Call

LEMMA Requests ==
  ASSUME Inv, NEW t \in Threads, Request(t)
  PROVE  Inv'
<1>1. ASSUME NEW u \in line' PROVE OnLine(u)'
  <2>1. CASE u = t
    BY <2>1 DEF Request, OnLine, Raw, Current
  <2>2. CASE u \in line
    BY <2>2, MeterAssumption DEF Request, OnLine, Inv, Raw, Current
  <2> QED
    BY <1>1, <2>1, <2>2 DEF Request
<1> QED
  BY <1>1 DEF Inv, Request

(* The end of a transaction: the others are not disturbed.                 *)
LEMMA Ends ==
  ASSUME Inv, NEW t \in line, line' = line \ {t}, Release(t),
         NEW job \in Jobs, Sensible(job), work' = [work EXCEPT ![t] = job]
  PROVE  Inv'
<1>1. ASSUME NEW u \in line' PROVE OnLine(u)'
  <2>1. u \in line /\ u # t /\ u \in Threads /\ t \in Threads
    BY DEF Inv
  <2>2. OnLine(u) /\ OnLine(t)
    BY <2>1 DEF Inv
  <2>3. work'[u] = work[u]
    BY <2>1 DEF Inv
  <2> QED
    BY <2>1, <2>2, <2>3 DEF OnLine, Release, Raw, Current
<1> QED
  BY <1>1 DEF Inv

LEMMA Answers ==
  ASSUME Inv, NEW t \in Threads, Answer(t)
  PROVE  Inv'
<1> DEFINE left == IF work[t].left = <<"regs">> THEN work[t].left ELSE Tail(work[t].left)
           kind == IF work[t].kind = "regs" THEN "stuck" ELSE work[t].kind
           job == [work[t] EXCEPT !.left = left, !.kind = kind]
<1>1. t \in line /\ work[t] \in Jobs /\ work[t].left # <<>> /\ work[t].kind # "idle" /\ Sensible(work[t])
  BY OnTheLine DEF Answer
<1>2. left \in Seq(Limits \cup Others)
  BY <1>1 DEF Jobs
<1>3. work[t].kind # "mode" => left \in Seq((Limits \cup Others) \ {"enter", "exit"})
  BY <1>1 DEF Sensible, Jobs
<1>4. job \in Jobs /\ Sensible(job)
  BY <1>1, <1>2, <1>3 DEF Jobs, Kinds, Sensible
<1>5. work' = [work EXCEPT ![t] = job]
  BY <1>1 DEF Answer, Inv, Jobs
<1> QED
  BY <1>1, <1>4, <1>5, Ends DEF Answer

(* A request without an answer: what is left is the end of the sequence,   *)
(* the next group, or nothing.                                             *)
LEMMA NoAnswers ==
  ASSUME Inv, NEW t \in Threads, NoAnswer(t)
  PROVE  Inv'
<1> DEFINE rest == CASE work[t].kind = "mode"  -> Tail(work[t].left)
                     [] work[t].kind = "reset" ->
                          IF Len(work[t].left) > Len(Sigal) THEN AlarmRegs("sigal") ELSE <<>>
                     [] work[t].kind = "regs"  -> work[t].left
                     [] OTHER -> <<>>
           kind == IF work[t].kind = "regs" THEN "stuck" ELSE work[t].kind
           ok == work[t].ok /\ Raw(t)
           job == [work[t] EXCEPT !.left = rest, !.ok = ok, !.kind = kind]
<1>1. t \in line /\ work[t] \in Jobs /\ work[t].left # <<>> /\ work[t].kind # "idle" /\ Sensible(work[t])
  BY OnTheLine DEF NoAnswer
<1>2. rest \in Seq(Limits \cup Others)
  <2>1. AlarmRegs("sigal") \in Seq(Limits \cup Others)
    BY GroupRegs
  <2>2. work[t].left \in Seq(Limits \cup Others) /\ Tail(work[t].left) \in Seq(Limits \cup Others)
    BY <1>1 DEF Jobs
  <2> QED
    BY <2>1, <2>2
<1>3. work[t].kind # "mode" => rest \in Seq((Limits \cup Others) \ {"enter", "exit"})
  <2>1. AlarmRegs("sigal") \in Seq((Limits \cup Others) \ {"enter", "exit"})
    BY GroupRegs
  <2>2. work[t].kind # "mode" => work[t].left \in Seq((Limits \cup Others) \ {"enter", "exit"})
    BY <1>1 DEF Sensible
  <2> QED
    BY <2>1, <2>2
<1>4. ok \in BOOLEAN
  BY <1>1 DEF Jobs, Raw
<1>5. job \in Jobs /\ Sensible(job)
  <2> HIDE DEF rest, ok
  <2> QED
    BY <1>1, <1>2, <1>3, <1>4 DEF Jobs, Kinds, Sensible
<1>6. work' = [work EXCEPT ![t] = job]
  BY <1>1 DEF NoAnswer, Inv, Jobs
<1>7. line' = line \ {t} /\ Release(t)
  BY DEF NoAnswer
<1> HIDE DEF job
<1> QED
  BY <1>1, <1>5, <1>6, <1>7, Ends

LEMMA Returning ==
  ASSUME Inv, NEW t \in Threads, Return(t)
  PROVE  Inv'
<1>1. Idle \in Jobs /\ Sensible(Idle)
  BY MeterAssumption DEF Idle, Jobs, Kinds, Sensible
<1>2. work' \in [Threads -> Jobs] /\ \A u \in Threads : Sensible(work'[u])
  BY <1>1 DEF Inv, Return
<1>3. ASSUME NEW u \in line PROVE OnLine(u)'
  BY <1>3 DEF Inv, Return, OnLine, Raw, Current
<1> QED
  BY <1>2, <1>3 DEF Inv, Return

-----------------------------------------------------------------------------
LEMMA Preserves == Inv /\ [Next]_vars => Inv'
<1> SUFFICES ASSUME Inv, [Next]_vars PROVE Inv'
  OBVIOUS
<1>1. CASE Connect
  BY <1>1 DEF Connect, Inv, OnLine, Raw, Current
<1>2. ASSUME NEW t \in Threads, Call(t) PROVE Inv'
  BY <1>2, Calls
<1>3. ASSUME NEW t \in Threads, Step(t) PROVE Inv'
  BY <1>3, Requests, Answers, NoAnswers, Returning DEF Step
<1>4. CASE UNCHANGED vars
  BY <1>4 DEF vars, Inv, OnLine, Raw, Current
<1> QED
  BY <1>1, <1>2, <1>3, <1>4 DEF Next

(* However many threads use the chip, two are on its line at once only if  *)
(* one of them is setting the wiring mode (im3331_set_mode): the mutex of  *)
(* im3332.c keeps all the other functions apart.                           *)
THEOREM LineKept == Spec => []LineExclusive
<1>1. Inv /\ [Next]_vars => Inv'
  BY Preserves
<1>2. Init => Inv
  BY Starting
<1>3. Inv => LineExclusive
  BY OnlyMode
<1> QED
  BY <1>1, <1>2, <1>3, PTL DEF Spec
-----------------------------------------------------------------------------
(* The copy of the limits.  A call that changes limits works its way       *)
(* through the registers of a group: those it is past agree with what it   *)
(* writes, or with what it has read.                                       *)
RegsIn(regs) == {regs[i] : i \in 1 .. Len(regs)}
Rest(t) == RegsIn(work[t].left)

Kept == /\ chip \in [Limits -> Values] /\ cache \in [Limits -> Values]
        /\ unsure \in [Groups -> BOOLEAN]

(* A call changes the groups it says it does, and no others.               *)
Honest(job) ==
  /\ job.kind = "set" =>
       \E g \in Groups : job.of = {g} /\ RegsIn(job.left) \subseteq RegsOf(g)
  /\ job.kind = "reset" => job.of = Groups /\ RegsIn(job.left) \subseteq Limits
  /\ job.kind \in {"idle", "one", "mode"} => job.of = {}

Progress(t, g) ==
  \/ /\ work[t].kind = "set" /\ work[t].ok
     /\ \A r \in RegsOf(g) \ Rest(t) : chip[r] = work[t].value
  \/ /\ work[t].kind = "reset"
     /\ \A r \in RegsOf(g) \ Rest(t) : cache[r] = chip[r]

GroupInv(g) == ~unsure[g] =>
  /\ Working(g) = {} => \A r \in RegsOf(g) : cache[r] = chip[r]
  /\ \A s, t \in Working(g) : s = t
  /\ \A t \in Working(g) : Progress(t, g)

LimitsInv == /\ Kept
             /\ \A t \in Threads : Honest(work[t])
             /\ \A g \in Groups : GroupInv(g)

LEMMA GroupsApart ==
  /\ \A g \in Groups : RegsOf(g) \subseteq Limits
  /\ \A g \in Groups : RegsIn(AlarmRegs(g)) = RegsOf(g)
  /\ \A g, h \in Groups, r \in Limits : r \in RegsOf(g) /\ r \in RegsOf(h) => g = h
  /\ \A r \in Limits : r # "regs"
BY MeterAssumption DEF Groups, Limits, RegsOf, RegsIn, AlarmRegs, Others

LEMMA RegsInTail ==
  ASSUME NEW S, NEW s \in Seq(S), s # <<>>
  PROVE  /\ RegsIn(Tail(s)) \subseteq RegsIn(s)
         /\ RegsIn(s) \subseteq RegsIn(Tail(s)) \cup {Head(s)}
         /\ Head(s) \in RegsIn(s)
<1>1. /\ Len(s) \in Nat /\ Len(s) >= 1 /\ Head(s) = s[1]
      /\ Len(Tail(s)) = Len(s) - 1
      /\ \A i \in 1 .. Len(Tail(s)) : Tail(s)[i] = s[i + 1]
  OBVIOUS
<1>2. ASSUME NEW i \in 1 .. Len(Tail(s)) PROVE Tail(s)[i] \in RegsIn(s)
  <2>1. i + 1 \in 1 .. Len(s)
    BY <1>1
  <2> QED
    BY <1>1, <2>1 DEF RegsIn
<1>3. ASSUME NEW i \in 1 .. Len(s), i # 1 PROVE s[i] \in RegsIn(Tail(s))
  <2>1. i - 1 \in 1 .. Len(Tail(s)) /\ (i - 1) + 1 = i
    BY <1>1, <1>3
  <2>2. Tail(s)[i - 1] = s[i]
    BY <1>1, <2>1
  <2> QED
    BY <2>1, <2>2 DEF RegsIn
<1>4. 1 \in 1 .. Len(s)
  BY <1>1
<1> QED
  BY <1>1, <1>2, <1>3, <1>4 DEF RegsIn

LEMMA RegsInBoth ==
  ASSUME NEW S, NEW s \in Seq(S), NEW t \in Seq(S)
  PROVE  RegsIn(s) \cup RegsIn(t) \subseteq RegsIn(s \o t) /\ RegsIn(s \o t) \subseteq S
<1>1. ASSUME NEW i \in 1 .. Len(s) PROVE s[i] \in RegsIn(s \o t)
  <2>1. i \in 1 .. Len(s \o t) /\ (s \o t)[i] = s[i]
    OBVIOUS
  <2> QED
    BY <2>1 DEF RegsIn
<1>2. ASSUME NEW i \in 1 .. Len(t) PROVE t[i] \in RegsIn(s \o t)
  <2>1. Len(s) + i \in 1 .. Len(s \o t) /\ (s \o t)[Len(s) + i] = t[i]
    OBVIOUS
  <2> QED
    BY <2>1 DEF RegsIn
<1>3. s \o t \in Seq(S)
  OBVIOUS
<1> QED
  BY <1>1, <1>2, <1>3 DEF RegsIn

(* A group that a step has nothing to do with.                             *)
LEMMA GroupFrame ==
  ASSUME NEW g \in Groups, GroupInv(g),
         unsure'[g] = unsure[g] \/ unsure'[g],
         Working(g)' = Working(g), \A t \in Working(g) : work'[t] = work[t],
         \A r \in RegsOf(g) : chip'[r] = chip[r] /\ cache'[r] = cache[r]
  PROVE  GroupInv(g)'
BY DEF GroupInv, Progress, Rest

(* A call begins: what it is about is sure only if nobody else is at it.   *)
LEMMA LimitsStart ==
  ASSUME Inv, LimitsInv, NEW t \in Threads, NEW job \in Jobs, Honest(job), Start(t, job),
         Kept',
         \A g \in Groups \ job.of : unsure'[g] = unsure[g],
         \A g \in job.of : Working(g) # {} => unsure'[g],
         \A g \in job.of : ~unsure'[g] =>
           job.kind \in {"set", "reset"} /\ job.ok /\ RegsOf(g) \subseteq RegsIn(job.left),
         \A g \in Groups \ job.of : \A r \in RegsOf(g) : cache'[r] = cache[r]
  PROVE  LimitsInv'
<1>1. /\ work \in [Threads -> Jobs] /\ work' = [work EXCEPT ![t] = job]
      /\ work'[t] = job /\ \A u \in Threads : u # t => work'[u] = work[u]
      /\ work[t].of = {} /\ chip' = chip
  BY DEF Inv, LimitsInv, Honest, Start
<1>2. \A u \in Threads : Honest(work'[u])
  BY <1>1 DEF LimitsInv
<1>3. \A g \in Groups : t \notin Working(g)
  BY <1>1 DEF Working
<1>4. ASSUME NEW g \in Groups, g \notin job.of PROVE GroupInv(g)'
  <2>1. Working(g)' = Working(g) /\ \A u \in Working(g) : work'[u] = work[u]
    BY <1>1, <1>3, <1>4 DEF Working
  <2> QED
    BY <1>1, <1>4, <2>1, GroupFrame DEF LimitsInv
<1>5. ASSUME NEW g \in Groups, g \in job.of, ~unsure'[g] PROVE GroupInv(g)'
  <2>1. Working(g)' = {t}
    BY <1>1, <1>5 DEF Working
  <2>2. Progress(t, g)'
    BY <1>1, <1>5 DEF Progress, Rest
  <2> QED
    BY <2>1, <2>2 DEF GroupInv
<1>6. \A g \in Groups : GroupInv(g)'
  BY <1>4, <1>5 DEF GroupInv
<1> QED
  BY <1>2, <1>6 DEF LimitsInv

LEMMA LimitsCall ==
  ASSUME Inv, LimitsInv, NEW t \in Threads, Call(t)
  PROVE  LimitsInv'
<1>0. Kept /\ 0 \in Values
  BY MeterAssumption DEF LimitsInv
<1>a. \A g \in Groups : AlarmRegs(g) \in Seq(Limits) /\ AlarmRegs(g) \in Seq(Limits \cup Others)
  BY MeterAssumption DEF AlarmRegs
<1>1. CASE OneRegister(t)
  <2> DEFINE job == [kind |-> "one", of |-> {}, value |-> 0, left |-> <<"one">>, ok |-> TRUE]
  <2>1. job \in Jobs /\ Honest(job) /\ job.of = {}
    <3>1. <<"one">> \in Seq(Limits \cup Others)
      BY DEF Others
    <3> QED
      BY <3>1, MeterAssumption DEF Jobs, Kinds, Honest
  <2>2. Start(t, job) /\ UNCHANGED <<cache, unsure, chip>>
    BY <1>1 DEF OneRegister, Start
  <2> HIDE DEF job
  <2> QED
    BY <1>0, <2>1, <2>2, LimitsStart DEF Kept
<1>2. CASE SetMode(t)
  <2> DEFINE job == [kind |-> "mode", of |-> {}, value |-> 0, left |-> <<"enter", "wiring", "exit">>, ok |-> TRUE]
  <2>1. job \in Jobs /\ Honest(job) /\ job.of = {}
    <3>1. <<"enter", "wiring", "exit">> \in Seq(Limits \cup Others)
      BY DEF Others
    <3> QED
      BY <3>1, MeterAssumption DEF Jobs, Kinds, Honest
  <2>2. Start(t, job) /\ UNCHANGED <<cache, unsure, chip>>
    BY <1>2 DEF SetMode, Start
  <2> HIDE DEF job
  <2> QED
    BY <1>0, <2>1, <2>2, LimitsStart DEF Kept
<1>3. CASE Reset(t)
  <2> DEFINE regs == AlarmRegs("con") \o AlarmRegs("sigal")
             job == [kind |-> "reset", of |-> Groups, value |-> 0, left |-> regs, ok |-> TRUE]
  <2>1. /\ regs \in Seq(Limits) /\ regs \in Seq(Limits \cup Others)
        /\ \A g \in Groups : RegsOf(g) \subseteq RegsIn(regs)
        /\ RegsIn(regs) \subseteq Limits
    BY <1>a, GroupsApart, RegsInBoth DEF Groups
  <2>2. /\ job \in Jobs /\ Honest(job) /\ job.of = Groups /\ job.kind = "reset"
        /\ job.ok /\ \A g \in Groups : RegsOf(g) \subseteq RegsIn(job.left)
    BY <2>1, MeterAssumption DEF Jobs, Kinds, Honest
  <2>3. /\ Start(t, job) /\ chip' = chip /\ cache' = [r \in Limits |-> 0]
        /\ unsure' = [g \in Groups |-> Working(g) # {}]
    BY <1>3 DEF Reset, Start, Changes
  <2> HIDE DEF job
  <2> QED
    BY <1>0, <2>2, <2>3, LimitsStart DEF Kept
<1>4. ASSUME NEW g \in Groups, NEW v \in Values, SetLimits(t, g, v) PROVE LimitsInv'
  <2> DEFINE job == [kind |-> "set", of |-> {g}, value |-> v, left |-> AlarmRegs(g), ok |-> TRUE]
  <2>1. /\ job \in Jobs /\ Honest(job) /\ job.of = {g} /\ job.kind = "set" /\ job.ok
        /\ RegsOf(g) \subseteq RegsIn(job.left)
    BY <1>a, GroupsApart DEF Jobs, Kinds, Honest
  <2>2. /\ Start(t, job) /\ UNCHANGED <<chip, cache>>
        /\ unsure' = [h \in Groups |-> IF h \in {g} THEN Working(h) # {} ELSE unsure[h]]
    BY <1>4 DEF SetLimits, Start, Changes
  <2> HIDE DEF job
  <2> QED
    BY <1>0, <2>1, <2>2, LimitsStart DEF Kept
<1>5. ASSUME NEW g \in Groups, NEW v \in Values, WriteRegs(t, g, v) PROVE LimitsInv'
  <2> DEFINE job == [kind |-> "regs", of |-> {g}, value |-> v, left |-> <<"regs">>, ok |-> TRUE]
  <2>1. job \in Jobs /\ Honest(job) /\ job.of = {g}
    <3>1. <<"regs">> \in Seq(Limits \cup Others)
      BY DEF Others
    <3> QED
      BY <3>1 DEF Jobs, Kinds, Honest
  <2>2. /\ Start(t, job) /\ UNCHANGED <<chip, cache>>
        /\ unsure' = [unsure EXCEPT ![g] = TRUE]
    BY <1>5 DEF WriteRegs, Start
  <2> HIDE DEF job
  <2> QED
    BY <1>0, <2>1, <2>2, LimitsStart DEF Kept
<1> QED
  BY <1>1, <1>2, <1>3, <1>4, <1>5 DEF Call

(* What a request does to the chip stays within what its call is about.    *)
LEMMA ArrivesInside ==
  ASSUME Inv, LimitsInv, NEW t \in line, Arrives(t)
  PROVE  /\ chip' \in [Limits -> Values]
         /\ \A g \in Groups \ work[t].of : \A r \in RegsOf(g) : chip'[r] = chip[r]
         /\ work[t].kind = "set" =>
              /\ chip'[Current(t)] = work[t].value
              /\ \A r \in Limits : r # Current(t) => chip'[r] = chip[r]
         /\ work[t].kind = "reset" => chip' = chip
<1>1. /\ work[t] \in Jobs /\ work[t].left # <<>> /\ Honest(work[t])
      /\ chip \in [Limits -> Values]
  BY OnTheLine DEF LimitsInv, Kept
<1>2. work[t].left \in Seq(Limits \cup Others) /\ work[t].value \in Values
      /\ work[t].of \subseteq Groups
  BY <1>1 DEF Jobs
<1>3. Current(t) \in Rest(t)
  BY <1>1, <1>2, RegsInTail DEF Current, Rest
<1> DEFINE written == CASE work[t].kind = "set"  -> {Current(t)}
                        [] work[t].kind = "regs" -> UNION {RegsOf(g) : g \in work[t].of}
                        [] OTHER -> {}
<1>4. chip' = [r \in Limits |-> IF r \in written THEN work[t].value ELSE chip[r]]
  BY DEF Arrives
<1>5. \A r \in Limits : r \in written => \E g \in work[t].of : r \in RegsOf(g)
  <2>1. CASE work[t].kind = "set"
    <3>1. PICK g \in Groups : work[t].of = {g} /\ Rest(t) \subseteq RegsOf(g)
      BY <1>1, <2>1 DEF Honest, Rest
    <3> QED
      BY <1>3, <2>1, <3>1
  <2>2. CASE work[t].kind # "set"
    BY <2>2
  <2> QED
    BY <2>1, <2>2
<1>6. work[t].kind = "set" => written = {Current(t)} /\ Current(t) \in Limits
  BY <1>1, <1>3, GroupsApart DEF Honest, Rest
<1>7. work[t].kind = "reset" => written = {}
  OBVIOUS
<1> HIDE DEF written
<1>8. \A g \in Groups \ work[t].of : \A r \in RegsOf(g) : chip'[r] = chip[r]
  BY <1>2, <1>4, <1>5, GroupsApart
<1>9. work[t].kind = "reset" => chip' = chip
  BY <1>1, <1>4, <1>7
<1> QED
  BY <1>1, <1>2, <1>4, <1>6, <1>8, <1>9

(* A transaction that ends leaves the others as they were; its own call is *)
(* a register further, or the group is unsure.                             *)
LEMMA LimitsEnd ==
  ASSUME Inv, LimitsInv, NEW t \in line, NEW job, Honest(job), Kept',
         work' = [work EXCEPT ![t] = job], job.of = work[t].of,
         \A g \in Groups \ job.of :
           /\ unsure'[g] = unsure[g]
           /\ \A r \in RegsOf(g) : chip'[r] = chip[r] /\ cache'[r] = cache[r],
         \A g \in job.of : ~unsure'[g] => ~unsure[g] /\ (Progress(t, g) => Progress(t, g)')
  PROVE  LimitsInv'
<1>1. /\ work \in [Threads -> Jobs] /\ t \in Threads
      /\ work'[t] = job /\ \A u \in Threads : u # t => work'[u] = work[u]
  BY OnTheLine DEF Inv
<1>2. \A u \in Threads : Honest(work'[u])
  BY <1>1 DEF LimitsInv
<1>3. \A g \in Groups : Working(g)' = Working(g)
  BY <1>1 DEF Working
<1>4. ASSUME NEW g \in Groups, g \notin job.of PROVE GroupInv(g)'
  <2>1. \A u \in Working(g) : work'[u] = work[u]
    BY <1>1, <1>4 DEF Working
  <2> QED
    BY <1>3, <1>4, <2>1, GroupFrame DEF LimitsInv
<1>5. ASSUME NEW g \in Groups, g \in job.of, ~unsure'[g] PROVE GroupInv(g)'
  <2>1. t \in Working(g) /\ GroupInv(g)
    BY <1>1, <1>5 DEF Working, LimitsInv
  <2>2. \A u \in Working(g) : u = t
    BY <1>5, <2>1 DEF GroupInv
  <2>3. Progress(t, g)
    BY <1>5, <2>1 DEF GroupInv
  <2> QED
    BY <1>3, <1>5, <2>1, <2>2, <2>3 DEF GroupInv
<1>6. \A g \in Groups : GroupInv(g)'
  BY <1>4, <1>5 DEF GroupInv
<1> QED
  BY <1>2, <1>6 DEF LimitsInv

LEMMA LimitsAnswer ==
  ASSUME Inv, LimitsInv, NEW t \in Threads, Answer(t)
  PROVE  LimitsInv'
<1> DEFINE left == IF work[t].left = <<"regs">> THEN work[t].left ELSE Tail(work[t].left)
           kind == IF work[t].kind = "regs" THEN "stuck" ELSE work[t].kind
           job == [work[t] EXCEPT !.left = left, !.kind = kind]
<1>1. /\ t \in line /\ work[t] \in Jobs /\ work[t].left # <<>> /\ Arrives(t)
      /\ Honest(work[t]) /\ Kept /\ unsure' = unsure
  BY OnTheLine DEF Answer, LimitsInv
<1>2. work' = [work EXCEPT ![t] = job]
  BY <1>1 DEF Answer, Inv, Jobs
<1>3. /\ work[t].left \in Seq(Limits \cup Others) /\ Current(t) = Head(work[t].left)
      /\ RegsIn(Tail(work[t].left)) \subseteq Rest(t)
      /\ Rest(t) \subseteq RegsIn(Tail(work[t].left)) \cup {Current(t)}
      /\ Current(t) \in Rest(t)
  BY <1>1, RegsInTail DEF Jobs, Current, Rest
<1>4. /\ job.of = work[t].of /\ job.left = left /\ job.kind = kind
      /\ job.value = work[t].value /\ job.ok = work[t].ok
  BY <1>1 DEF Jobs
<1>5. work[t].kind \in {"set", "reset"} =>
        /\ Rest(t) \subseteq Limits /\ left = Tail(work[t].left)
  <2>1. work[t].kind \in {"set", "reset"} => Rest(t) \subseteq Limits
    BY <1>1, GroupsApart DEF Honest, Rest
  <2>2. work[t].left = <<"regs">> => Current(t) = "regs"
    BY <1>3
  <2> QED
    BY <1>3, <2>1, <2>2, GroupsApart
<1>6. Honest(job)
  BY <1>1, <1>3, <1>4, <1>5 DEF Honest, Rest
<1>7. /\ cache' \in [Limits -> Values]
      /\ work[t].kind # "reset" => cache' = cache
      /\ work[t].kind = "reset" =>
           /\ cache'[Current(t)] = chip[Current(t)]
           /\ \A r \in Limits : r # Current(t) => cache'[r] = cache[r]
  <2>1. CASE work[t].kind = "reset"
    <3>1. Current(t) \in Limits /\ cache' = [cache EXCEPT ![Current(t)] = chip[Current(t)]]
      BY <1>3, <1>5, <2>1 DEF Answer
    <3> QED
      BY <1>1, <2>1, <3>1 DEF Kept
  <2>2. CASE work[t].kind # "reset"
    BY <1>1, <2>2 DEF Kept, Answer
  <2> QED
    BY <2>1, <2>2
<1>8. Kept'
  BY <1>1, <1>7, ArrivesInside DEF Kept
<1>9. ASSUME NEW g \in Groups, g \notin job.of
      PROVE  /\ unsure'[g] = unsure[g]
             /\ \A r \in RegsOf(g) : chip'[r] = chip[r] /\ cache'[r] = cache[r]
  <2>1. work[t].kind # "reset"
    BY <1>1, <1>4, <1>9 DEF Honest
  <2> QED
    BY <1>1, <1>4, <1>7, <1>9, <2>1, ArrivesInside
<1>10. ASSUME NEW g \in job.of, Progress(t, g) PROVE Progress(t, g)'
  <2>0. g \in Groups /\ RegsOf(g) \subseteq Limits /\ work'[t] = job
    BY <1>1, <1>2, <1>4, GroupsApart DEF Jobs, Inv
  <2>1. CASE work[t].kind = "set"
    <3>1. \A r \in RegsOf(g) \ RegsIn(left) : chip'[r] = work[t].value
      BY <1>1, <1>3, <1>5, <1>10, <2>0, <2>1, ArrivesInside DEF Progress
    <3> QED
      BY <1>4, <1>10, <2>0, <2>1, <3>1 DEF Progress, Rest
  <2>2. CASE work[t].kind = "reset"
    <3>1. \A r \in RegsOf(g) \ RegsIn(left) : cache'[r] = chip'[r]
      BY <1>1, <1>3, <1>5, <1>7, <1>10, <2>0, <2>2, ArrivesInside DEF Progress
    <3> QED
      BY <1>4, <2>0, <2>2, <3>1 DEF Progress, Rest
  <2> QED
    BY <1>10, <2>1, <2>2 DEF Progress
<1> HIDE DEF job
<1> QED
  BY <1>1, <1>2, <1>4, <1>6, <1>8, <1>9, <1>10, LimitsEnd

LEMMA LimitsNoAnswer ==
  ASSUME Inv, LimitsInv, NEW t \in Threads, NoAnswer(t)
  PROVE  LimitsInv'
<1> DEFINE rest == CASE work[t].kind = "mode"  -> Tail(work[t].left)
                     [] work[t].kind = "reset" ->
                          IF Len(work[t].left) > Len(Sigal) THEN AlarmRegs("sigal") ELSE <<>>
                     [] work[t].kind = "regs"  -> work[t].left
                     [] OTHER -> <<>>
           kind == IF work[t].kind = "regs" THEN "stuck" ELSE work[t].kind
           ok == work[t].ok /\ Raw(t)
           job == [work[t] EXCEPT !.left = rest, !.ok = ok, !.kind = kind]
<1>1. /\ t \in line /\ work[t] \in Jobs /\ Honest(work[t]) /\ Kept
      /\ Arrives(t) \/ chip' = chip
      /\ cache' = cache /\ unsure' = [g \in Groups |-> unsure[g] \/ g \in work[t].of]
  BY OnTheLine DEF NoAnswer, LimitsInv
<1>2. work' = [work EXCEPT ![t] = job]
  BY <1>1 DEF NoAnswer, Inv, Jobs
<1>3. job.of = work[t].of /\ job.left = rest /\ job.kind = kind /\ work[t].of \subseteq Groups
  BY <1>1 DEF Jobs
<1>4. Honest(job)
  <2>1. RegsIn(<<>>) = {}
    BY DEF RegsIn
  <2>2. work[t].kind = "reset" => RegsIn(rest) \subseteq Limits
    BY <2>1, GroupsApart DEF Groups
  <2>3. work[t].kind = "set" => rest = <<>>
    OBVIOUS
  <2> HIDE DEF rest
  <2> QED
    BY <1>1, <1>3, <2>1, <2>2, <2>3 DEF Honest
<1>5. Kept' /\ \A g \in Groups \ job.of : \A r \in RegsOf(g) : chip'[r] = chip[r]
  BY <1>1, <1>3, ArrivesInside DEF Kept
<1>6. \A g \in Groups : unsure'[g] <=> unsure[g] \/ g \in job.of
  BY <1>1, <1>3
<1> HIDE DEF job
<1>7. \A g \in Groups \ job.of :
        /\ unsure'[g] = unsure[g]
        /\ \A r \in RegsOf(g) : chip'[r] = chip[r] /\ cache'[r] = cache[r]
  BY <1>1, <1>5, <1>6 DEF Kept
<1>8. \A g \in job.of : unsure'[g]
  BY <1>3, <1>6
<1> QED
  BY <1>1, <1>2, <1>3, <1>4, <1>5, <1>7, <1>8, LimitsEnd

LEMMA LimitsReturn ==
  ASSUME Inv, LimitsInv, NEW t \in Threads, Return(t)
  PROVE  LimitsInv'
<1>1. /\ work \in [Threads -> Jobs] /\ work[t] \in Jobs /\ Honest(work[t])
      /\ Kept /\ Rest(t) = {}
      /\ chip' = chip /\ work' = [work EXCEPT ![t] = Idle]
      /\ unsure' = [g \in Groups |-> unsure[g] \/ (g \in work[t].of /\ Working(g) # {t})]
      /\ cache' = [r \in Limits |->
                     IF work[t].kind = "set" /\ work[t].ok
                          /\ \E g \in work[t].of : r \in RegsOf(g)
                     THEN work[t].value ELSE cache[r]]
  BY DEF Return, Inv, LimitsInv, Rest, RegsIn
<1>2. /\ work'[t] = Idle /\ \A u \in Threads : u # t => work'[u] = work[u]
      /\ Idle.of = {} /\ work[t].of \subseteq Groups /\ work[t].value \in Values
  BY <1>1 DEF Idle, Jobs
<1>3. Honest(Idle)
  BY DEF Idle, Honest
<1>4. Kept'
  BY <1>1, <1>2 DEF Kept
<1>5. ASSUME NEW g \in Groups, g \notin work[t].of PROVE GroupInv(g)'
  <2>1. Working(g)' = Working(g) /\ \A u \in Working(g) : work'[u] = work[u]
    BY <1>1, <1>2, <1>5 DEF Working
  <2>2. \A r \in RegsOf(g) : cache'[r] = cache[r]
    BY <1>1, <1>2, <1>5, GroupsApart
  <2>3. unsure'[g] = unsure[g]
    BY <1>1, <1>5 DEF Kept
  <2> QED
    BY <1>1, <2>1, <2>2, <2>3, GroupFrame DEF LimitsInv
<1>6. ASSUME NEW g \in Groups, g \in work[t].of, ~unsure'[g] PROVE GroupInv(g)'
  <2>1. ~unsure[g] /\ Working(g) = {t} /\ GroupInv(g)
    BY <1>1, <1>6 DEF LimitsInv
  <2>2. Working(g)' = {}
    BY <1>1, <1>2, <2>1 DEF Working
  <2>3. \A r \in RegsOf(g) : cache'[r] = chip[r]
    <3>1. Progress(t, g) /\ RegsOf(g) \subseteq Limits
      BY <2>1, GroupsApart DEF GroupInv
    <3>2. CASE work[t].kind = "set" /\ work[t].ok
      BY <1>1, <1>6, <3>1, <3>2 DEF Progress
    <3>3. CASE work[t].kind = "reset"
      BY <1>1, <1>6, <3>1, <3>3 DEF Progress
    <3> QED
      BY <3>1, <3>2, <3>3 DEF Progress
  <2> QED
    BY <1>1, <2>2, <2>3 DEF GroupInv
<1>7. \A g \in Groups : GroupInv(g)'
  BY <1>5, <1>6 DEF GroupInv
<1>8. \A u \in Threads : Honest(work'[u])
  BY <1>2, <1>3 DEF LimitsInv
<1> QED
  BY <1>4, <1>7, <1>8 DEF LimitsInv

LEMMA LimitsStep == Inv /\ LimitsInv /\ [Next]_vars => LimitsInv'
<1> SUFFICES ASSUME Inv, LimitsInv, [Next]_vars PROVE LimitsInv'
  OBVIOUS
<1>1. ASSUME UNCHANGED <<work, chip, cache, unsure>> PROVE LimitsInv'
  BY <1>1 DEF LimitsInv, Kept, GroupInv, Working, Progress, Rest
<1>2. CASE Connect \/ UNCHANGED vars
  BY <1>1, <1>2 DEF Connect, vars
<1>3. ASSUME NEW t \in Threads, Call(t) PROVE LimitsInv'
  BY <1>3, LimitsCall
<1>4. ASSUME NEW t \in Threads, Step(t) PROVE LimitsInv'
  BY <1>1, <1>4, LimitsAnswer, LimitsNoAnswer, LimitsReturn DEF Step, Request
<1> QED
  BY <1>2, <1>3, <1>4 DEF Next

(* However many threads change and read the limits, and whatever requests  *)
(* or answers are lost: once nobody is at a group, and its last change has *)
(* neither failed nor met another one, the copy that ModParam.c keeps of   *)
(* it is what the chip has.                                                *)
THEOREM CopyIsTrue == Spec => []CacheMatchesChip
<1>1. Init => LimitsInv
  <2> SUFFICES ASSUME Init PROVE LimitsInv
    OBVIOUS
  <2>1. Honest(Idle)
    BY DEF Idle, Honest
  <2> QED
    BY <2>1, MeterAssumption DEF Init, LimitsInv, Kept, GroupInv
<1>2. Inv /\ LimitsInv /\ [Next]_vars => LimitsInv'
  BY LimitsStep
<1>3. LimitsInv => CacheMatchesChip
  BY DEF LimitsInv, GroupInv, CacheMatchesChip
<1> QED
  BY <1>1, <1>2, <1>3, Starting, Preserves, PTL DEF Spec
-----------------------------------------------------------------------------
(* The mutex of the MQTT client.                                           *)
Places == {"idle", "lock", "publish", "wait", "connect", "init", "disconnect"}
PlacesOK == place \in [Publishing!MqttThreads -> Places]
(* Whoever is inside has the mutex locked, and is there alone.             *)
HeldLocked == ~reset /\ Publishing!Inside # {} => locked
Alone == ~reset => \A s, t \in Publishing!Inside : s = t
(* Before mqtt_start has connected nobody is let in.                       *)
NobodyYet ==
  ~opened => ~bConnect /\ \A p \in Publishers \ {Control} : place[p] = "idle"

MqttInv == PlacesOK /\ HeldLocked /\ Alone /\ NobodyYet

LEMMA MqttStart == Publishing!Init => MqttInv
  BY DEF Publishing!Init, MqttInv, PlacesOK, Places, HeldLocked, Alone, NobodyYet,
      Publishing!Inside, Publishing!MqttThreads

LEMMA MqttEnters ==
  ASSUME MqttInv, NEW t \in Publishing!MqttThreads, NEW from,
         NEW to \in Places, Publishing!Lock(t, from, to),
         t = Control \/ from = "lock"
  PROVE  MqttInv'
<1>1. PlacesOK' /\ UNCHANGED <<reset, opened, bConnect>> /\ locked'
  BY DEF MqttInv, PlacesOK, Places, Publishing!Lock, Publishing!Goto, Publishing!history
<1>2. ~reset => Publishing!Inside = {}
  BY DEF Publishing!Lock, MqttInv, HeldLocked
<1>3. ~reset => Publishing!Inside' \subseteq {t}
  BY <1>2 DEF Publishing!Inside, MqttInv, PlacesOK, Places, Publishing!Lock,
      Publishing!Goto
<1>4. NobodyYet'
  BY <1>1 DEF NobodyYet, MqttInv, PlacesOK, Publishing!Lock, Publishing!Goto,
      Publishing!MqttThreads
<1> QED
  BY <1>1, <1>3, <1>4 DEF MqttInv, HeldLocked, Alone

(* A step of a thread that is inside, which does not end there.            *)
LEMMA MqttLeaves ==
  ASSUME MqttInv, NEW t \in Publishing!MqttThreads, NEW from \in {"wait", "disconnect"},
         Publishing!Goto(t, from, "idle"), UNCHANGED <<reset, opened>>, bConnect' => bConnect
  PROVE  MqttInv'
<1>1. PlacesOK'
  BY DEF MqttInv, PlacesOK, Places, Publishing!Goto
<1>2. t \in Publishing!Inside
  BY DEF Publishing!Goto, Publishing!Inside
<1>3. ~reset => Publishing!Inside' = {}
  BY <1>2 DEF Publishing!Inside, MqttInv, PlacesOK, Places, Publishing!Goto, Alone
<1>4. NobodyYet'
  BY DEF NobodyYet, MqttInv, PlacesOK, Publishing!Goto, Publishing!MqttThreads
<1> QED
  BY <1>1, <1>3, <1>4 DEF MqttInv, HeldLocked, Alone

(* A step by which nobody comes in or goes out.                            *)
LEMMA MqttStays ==
  ASSUME MqttInv, PlacesOK', NobodyYet', UNCHANGED <<locked, reset>>,
         Publishing!Inside' = Publishing!Inside
  PROVE  MqttInv'
  BY DEF MqttInv, HeldLocked, Alone

LEMMA MqttStep == MqttInv /\ [Publishing!Next]_Publishing!vars => MqttInv'
<1> SUFFICES ASSUME MqttInv, [Publishing!Next]_Publishing!vars PROVE MqttInv'
  OBVIOUS
<1> Control \in Publishing!MqttThreads /\ Publishers \subseteq Publishing!MqttThreads
  BY DEF Publishing!MqttThreads
<1> USE DEF Publishing!history
<1>1. CASE UNCHANGED Publishing!vars
  BY <1>1, MqttStays DEF Publishing!vars, MqttInv, PlacesOK, Places,
      Publishing!Inside, NobodyYet
<1>2. ASSUME NEW p \in Publishers, Publishing!Check(p) PROVE MqttInv'
  <2>1. PlacesOK' /\ Publishing!Inside' = Publishing!Inside
    BY <1>2 DEF Publishing!Check, Publishing!Goto, MqttInv, PlacesOK, Places,
        Publishing!Inside
  <2>2. NobodyYet'
    BY <1>2 DEF Publishing!Check, NobodyYet, MqttInv
  <2> QED
    BY <1>2, <2>1, <2>2, MqttStays DEF Publishing!Check
<1>3. ASSUME NEW p \in Publishers, Publishing!Publish(p) PROVE MqttInv'
  <2>1. PlacesOK' /\ Publishing!Inside' = Publishing!Inside
    BY <1>3 DEF Publishing!Publish, Publishing!Goto, MqttInv, PlacesOK, Places,
        Publishing!Inside
  <2>2. NobodyYet'
    BY <1>3 DEF Publishing!Publish, Publishing!Goto, NobodyYet, MqttInv, PlacesOK
  <2> QED
    BY <1>3, <2>1, <2>2, MqttStays DEF Publishing!Publish
<1>4. ASSUME NEW p \in Publishers, Publishing!Unlock(p) PROVE MqttInv'
  BY <1>4, MqttLeaves DEF Publishing!Unlock
<1>5. CASE Publishing!Create \/ Publishing!Connect \/ Publishing!ConnectFails
  <2>1. PlacesOK' /\ Publishing!Inside' = Publishing!Inside
    BY <1>5 DEF Publishing!Create, Publishing!Connect, Publishing!ConnectFails,
        Publishing!Goto, MqttInv, PlacesOK, Places, Publishing!Inside
  <2>2. NobodyYet'
    BY <1>5 DEF Publishing!Create, Publishing!Connect, Publishing!ConnectFails,
        Publishing!Goto, MqttInv, PlacesOK, NobodyYet
  <2> QED
    BY <1>5, <2>1, <2>2, MqttStays DEF Publishing!Create, Publishing!Connect,
        Publishing!ConnectFails
<1>6. CASE Publishing!InitMutex
  <2>1. PlacesOK' /\ Publishing!Inside' = Publishing!Inside
    BY <1>6 DEF Publishing!InitMutex, Publishing!Goto, MqttInv, PlacesOK,
        Places, Publishing!Inside
  <2>2. ~reset' => Publishing!Inside' = {}
    BY <1>6, <2>1 DEF Publishing!InitMutex
  <2>3. NobodyYet'
    BY <1>6 DEF Publishing!InitMutex, Publishing!Goto, MqttInv, PlacesOK, NobodyYet
  <2> QED
    BY <2>1, <2>2, <2>3 DEF MqttInv, HeldLocked, Alone
<1>7. CASE Publishing!Stop
  BY <1>7, MqttLeaves DEF Publishing!Stop
<1>8. CASE Publishing!Lock(Control, "idle", "disconnect")
  BY <1>8, MqttEnters DEF Places
<1>9. ASSUME NEW p \in Publishers, Publishing!Lock(p, "lock", "publish") PROVE MqttInv'
  BY <1>9, MqttEnters DEF Places
<1> QED
  BY <1>1, <1>2, <1>3, <1>4, <1>5, <1>6, <1>7, <1>8, <1>9 DEF Publishing!Next

(* For any publishers: they and mqtt_stop use the client one at a time,    *)
(* unless mqtt_start has initialised the mutex while it was held, and      *)
(* nobody uses it beside the first mqtt_start; a later one, which takes no *)
(* lock for what it does (mqtt.c:98-108), is the other exception.          *)
THEOREM OneAtATime == Publishing!Spec => []PublishExclusive
<1>1. MqttInv => PublishExclusive
  <2> SUFFICES ASSUME MqttInv, NEW s \in Publishing!Using, NEW t \in Publishing!Using,
                      s # t, ~reset
               PROVE  opened /\ Publishing!Starting /\ Control \in {s, t}
    BY DEF PublishExclusive, Publishing!PublishExclusive
  <2>1. Publishing!Starting /\ Control \in {s, t}
    BY DEF MqttInv, Alone, Publishing!Using
  <2>2. PICK u \in Publishing!Inside : u # Control /\ u \in Publishers
    BY <2>1 DEF Publishing!Using, Publishing!Inside, Publishing!MqttThreads
  <2>3. opened
    BY <2>2 DEF MqttInv, NobodyYet, Publishing!Inside
  <2> QED
    BY <2>1, <2>3
<1> QED
  BY MqttStart, MqttStep, <1>1, PTL DEF Publishing!Spec

(* Whoever has been let in has a client, or was let in before the last was *)
(* destroyed, or after a mqtt_start that failed.                           *)
LetInInv ==
  /\ PlacesOK
  /\ bConnect => client \/ stale
  /\ Publishing!Starting => client
  /\ \A p \in Publishers :
       place[p] \in {"lock", "publish", "wait"} => client \/ p \in late \/ stale

(* For any publishers: a client that is not there is used only by who was  *)
(* let in before it was destroyed (mqtt.c:66), or after a mqtt_start that  *)
(* failed and left bConnect set (mqtt.c:106-111).                          *)
THEOREM ClientIsThere == Publishing!Spec => []PublishesToClient
<1>1. Publishing!Init => LetInInv
  BY DEF Publishing!Init, LetInInv, PlacesOK, Places, Publishing!Starting,
      Publishing!MqttThreads
<1>2. LetInInv /\ [Publishing!Next]_Publishing!vars => LetInInv'
  <2> SUFFICES ASSUME LetInInv, [Publishing!Next]_Publishing!vars PROVE LetInInv'
    OBVIOUS
  <2> Control \in Publishing!MqttThreads /\ Publishers \subseteq Publishing!MqttThreads
    BY DEF Publishing!MqttThreads
  <2> USE DEF LetInInv, PlacesOK, Places, Publishing!Starting, Publishing!Goto,
              Publishing!history
  <2>1. CASE UNCHANGED Publishing!vars
    BY <2>1 DEF Publishing!vars
  <2>2. ASSUME NEW p \in Publishers,
               Publishing!Check(p) \/ Publishing!Lock(p, "lock", "publish")
                 \/ Publishing!Publish(p)
        PROVE  LetInInv'
    BY <2>2 DEF Publishing!Check, Publishing!Lock, Publishing!Publish
  <2>3. ASSUME NEW p \in Publishers, Publishing!Unlock(p) PROVE LetInInv'
    BY <2>3 DEF Publishing!Unlock
  <2>4. CASE Publishing!Create \/ Publishing!Connect
    BY <2>4 DEF Publishing!Create, Publishing!Connect
  <2>5. CASE Publishing!ConnectFails \/ Publishing!Stop
    BY <2>5 DEF Publishing!ConnectFails, Publishing!Stop, Publishing!Destroy
  <2>6. CASE Publishing!InitMutex \/ Publishing!Lock(Control, "idle", "disconnect")
    BY <2>6 DEF Publishing!InitMutex, Publishing!Lock
  <2> QED
    BY <2>1, <2>2, <2>3, <2>4, <2>5, <2>6 DEF Publishing!Next
<1>3. LetInInv => PublishesToClient
  BY DEF LetInInv, PublishesToClient, Publishing!PublishesToClient
<1> QED
  BY <1>1, <1>2, <1>3, PTL DEF Publishing!Spec
=============================================================================
