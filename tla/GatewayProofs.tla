---------------------------- MODULE GatewayProofs ---------------------------
(* The gateway, for any number of programs and threads: the supply of the  *)
(* modem is off by failures only (Radio), ping counts what was answered    *)
(* (Pings), an undisturbed call leaves the Ethernet interface as it asked  *)
(* (Ethernet), and AT requests get their own answers (ModemRequests).      *)
EXTENDS Network, ModemRequests, SequenceTheorems, WellFoundedInduction, TLAPS
-----------------------------------------------------------------------------
(* RadioPower: whoever has switched the modem off is on the way to switch  *)
(* it on again, until a failure excuses it.                                *)

ResetSteps == {"idle", "off", "gone", "on", "back", "clean", "look", "unlink",
               "dialOn", "dialWait", "call", "dead"}
ResettingOK == resetting \in [Radio!Users -> ResetSteps]

PowerInv == ResettingOK /\ Radio!LeftOffOnlyByFailure

LEMMA PowerStart == Radio!Init => PowerInv
  BY DEF Radio!Init, PowerInv, ResettingOK, ResetSteps, Radio!LeftOffOnlyByFailure

(* The power and excused stay, and nobody who is about to switch the modem *)
(* on does anything else.                                                  *)
LEMMA PowerKeeps ==
  ASSUME PowerInv, NEW t \in Radio!Users, NEW to \in ResetSteps,
         resetting' = [resetting EXCEPT ![t] = to], power' = power, excused' = excused,
         resetting[t] \in {"gone", "on"} => to \in {"gone", "on"}
  PROVE  PowerInv'
<1>1. ResettingOK'
  BY DEF PowerInv, ResettingOK
<1>2. \A s \in Radio!Users : resetting[s] \in {"gone", "on"} => resetting'[s] \in {"gone", "on"}
  BY DEF PowerInv, ResettingOK
<1> QED
  BY <1>1, <1>2 DEF PowerInv, Radio!LeftOffOnlyByFailure

(* A failure is the excuse; a modem that is on needs none.                 *)
LEMMA PowerExcused ==
  ASSUME PowerInv, NEW t \in Radio!Users, NEW to \in ResetSteps,
         resetting' = [resetting EXCEPT ![t] = to], excused' = TRUE \/ power' = TRUE
  PROVE  PowerInv'
  BY DEF PowerInv, ResettingOK, Radio!LeftOffOnlyByFailure

LEMMA PowerElsewhere ==
  ASSUME PowerInv, power' = power, excused' = excused, resetting' = resetting
  PROVE  PowerInv'
  BY DEF PowerInv, ResettingOK, Radio!LeftOffOnlyByFailure

LEMMA PowerPreserves == PowerInv /\ [Radio!Next]_Radio!vars => PowerInv'
<1> SUFFICES ASSUME PowerInv, [Radio!Next]_Radio!vars PROVE PowerInv'
  OBVIOUS
<1> Monitor \in Radio!Users /\ Resetters \subseteq Radio!Users
  BY DEF Radio!Users
<1>1. CASE UNCHANGED Radio!vars
  BY <1>1, PowerElsewhere DEF Radio!vars, Radio!machine
<1>2. CASE Radio!Modem \/ Radio!ModemCrash
  BY <1>2, PowerElsewhere DEF Radio!Modem, Radio!ModemCrash, Radio!Boot, Radio!Vanish
<1>3. CASE Radio!MonitorInit
  BY <1>3, PowerKeeps DEF Radio!MonitorInit, Radio!machine, Radio!Goto, ResetSteps
<1>4. ASSUME NEW t \in Radio!Users, Radio!Reset(t) PROVE PowerInv'
  BY <1>4, PowerKeeps DEF Radio!Reset, Radio!machine, Radio!Goto, ResetSteps
<1>5. CASE Radio!MonitorReset
  BY <1>4, <1>5 DEF Radio!MonitorReset
<1>6. ASSUME NEW t \in Radio!Users, Radio!Dial(t) PROVE PowerInv'
  BY <1>6, PowerKeeps DEF Radio!Dial, Radio!Goto, ResetSteps
<1>7. ASSUME NEW t \in Radio!Users, Radio!NetTest(t) PROVE PowerInv'
  BY <1>7, PowerElsewhere DEF Radio!NetTest
<1>8. ASSUME NEW t \in Radio!Users, Radio!Step(t) PROVE PowerInv'
  <2>1. CASE Radio!PowerOff(t)
    <3>1. ResettingOK' /\ resetting'[t] = "gone"
      BY <2>1 DEF Radio!PowerOff, Radio!Goto, PowerInv, ResettingOK, ResetSteps
    <3> QED
      BY <3>1 DEF PowerInv, Radio!LeftOffOnlyByFailure
  <2>2. CASE Radio!WaitGone(t)
    BY <2>2, PowerKeeps DEF Radio!WaitGone, Radio!machine, Radio!Goto, ResetSteps
  <2>3. CASE Radio!GiveUpGone(t)
    BY <2>3, PowerExcused DEF Radio!GiveUpGone, Radio!ReturnError, Radio!Goto, ResetSteps
  <2>4. CASE Radio!PowerOn(t)
    BY <2>4, PowerExcused DEF Radio!PowerOn, Radio!Goto, ResetSteps
  <2>5. CASE Radio!Back(t)
    BY <2>5, PowerKeeps DEF Radio!Back, Radio!machine, Radio!Goto, ResetSteps
  <2>6. CASE Radio!GiveUpBack(t)
    BY <2>6, PowerExcused DEF Radio!GiveUpBack, Radio!ReturnError, Radio!Goto, ResetSteps
  <2>7. CASE Radio!Clean(t)
    BY <2>7, PowerKeeps DEF Radio!Clean, Radio!machine, Radio!Goto, ResetSteps
  <2>8. CASE Radio!Look(t)
    BY <2>8, PowerKeeps DEF Radio!Look, Radio!machine, Radio!Goto, ResetSteps
  <2>9. CASE Radio!Unlink(t)
    BY <2>9, PowerKeeps DEF Radio!Unlink, Radio!Goto, ResetSteps
  <2>10. CASE Radio!DialOn(t)
    BY <2>10, PowerExcused DEF Radio!DialOn, Radio!Goto, ResetSteps
  <2>11. CASE Radio!DialWait(t)
    BY <2>11, PowerKeeps DEF Radio!DialWait, Radio!machine, Radio!Goto, ResetSteps
  <2>12. CASE Radio!GiveUpDial(t)
    BY <2>12, PowerExcused DEF Radio!GiveUpDial, Radio!ReturnError, Radio!Goto, ResetSteps
  <2>13. CASE Radio!Call(t)
    BY <2>13, PowerKeeps DEF Radio!Call, Radio!Goto, ResetSteps
  <2> QED
    BY <1>8, <2>1, <2>2, <2>3, <2>4, <2>5, <2>6, <2>7, <2>8, <2>9, <2>10,
       <2>11, <2>12, <2>13 DEF Radio!Step
<1>9. ASSUME NEW t \in Radio!Users, Radio!Fault(t) PROVE PowerInv'
  <2>1. CASE Radio!PowerOffFails(t)
    BY <2>1, PowerExcused DEF Radio!PowerOffFails, Radio!ReturnError, Radio!Goto, ResetSteps
  <2>2. CASE Radio!PowerOnFails(t)
    BY <2>2, PowerExcused DEF Radio!PowerOnFails, Radio!ReturnError, Radio!Goto, ResetSteps
  <2>3. CASE Radio!DialOnFails(t)
    BY <2>3, PowerKeeps DEF Radio!DialOnFails, Radio!machine, Radio!Goto, ResetSteps
  <2>4. CASE Radio!Kill(t)
    BY <2>4, PowerExcused DEF Radio!Kill, ResetSteps
  <2> QED
    BY <1>9, <2>1, <2>2, <2>3, <2>4 DEF Radio!Fault
<1> QED
  BY <1>1, <1>2, <1>3, <1>4, <1>5, <1>6, <1>7, <1>8, <1>9 DEF Radio!Next

(* However many programs reset, dial, fail and are killed at once, the     *)
(* modem is without power only while somebody is on the way to switch it   *)
(* on, or after a failure.                                                 *)
THEOREM OffOnlyByFailure == Radio!Spec => []LeftOffOnlyByFailure
<1>1. PowerInv => LeftOffOnlyByFailure
  BY DEF PowerInv, LeftOffOnlyByFailure
<1> QED
  BY PowerStart, PowerPreserves, <1>1, PTL DEF Radio!Spec
-----------------------------------------------------------------------------
(* Ping: what a socket holds with the id of its pinger is the answer to a  *)
(* request that was answered, or one of its strays, and a socket that is   *)
(* not open holds nothing.                                                 *)

Packets == [type : {"request", "own", "reply", "other"}, id : Pings!Ids \cup {0}, seq : Nat]

HeardBy(p) ==
  {m \in Packets : m.id = Id[p] => <<m.id, m.seq>> \in answered \/ m.seq \in strays[p]}

PingersOK ==
  /\ itimes \in [Pingers -> Nat]
  /\ counted \in [Pingers -> SUBSET Nat] /\ strays \in [Pingers -> SUBSET Nat]
  /\ DOMAIN pinging = Pingers /\ DOMAIN socket = Pingers
  /\ \A p \in Pingers : socket[p] \in Seq(HeardBy(p))
  /\ \A p \in Pingers : pinging[p] = "idle" => socket[p] = << >>
NetworkOK ==
  /\ network \subseteq Packets
  /\ \A m \in network : m.type = "reply" => <<m.id, m.seq>> \in answered

PingInv == PingersOK /\ NetworkOK /\ CountedAnswered

LEMMA PingStart == Pings!Init => PingInv
<1>1. \A p \in Pingers : << >> \in Seq(HeardBy(p))
  BY EmptySeq
<1> QED
  BY <1>1 DEF Pings!Init, PingInv, PingersOK, NetworkOK, CountedAnswered,
              Pings!CountedAnswered

(* What was heard stays true when more is answered and more strays come.   *)
LEMMA StillHeard ==
  ASSUME answered \subseteq answered', NEW p \in Pingers, strays[p] \subseteq strays'[p],
         NEW s \in Seq(HeardBy(p))
  PROVE  s \in Seq(HeardBy(p)')
<1>1. HeardBy(p) \subseteq HeardBy(p)'
  BY DEF HeardBy
<1> QED
  BY <1>1

LEMMA PingTail ==
  ASSUME NEW p \in Pingers, NEW s \in Seq(HeardBy(p)), s # << >>
  PROVE  Head(s) \in HeardBy(p) /\ Tail(s) \in Seq(HeardBy(p))
  BY HeadTailProperties

(* A pinger goes on to its next request, or ends its call.                 *)
LEMMA PingGoesOn ==
  ASSUME PingersOK, NEW p \in Pingers, NEW from, NEW rest \in Seq(HeardBy(p)),
         Pings!GoOn(p, from, rest), counted' \in [Pingers -> SUBSET Nat]
  PROVE  PingersOK' /\ UNCHANGED <<answered, strays>>
<1>1. \A q \in Pingers : << >> \in Seq(HeardBy(q))
  BY EmptySeq
<1>2. UNCHANGED <<answered, strays>>
  BY DEF Pings!GoOn
<1>3. \A q \in Pingers : HeardBy(q)' = HeardBy(q)
  BY <1>2 DEF HeardBy
<1> DEFINE more == itimes[p] + 1 < Times
<1>4. /\ pinging' = [pinging EXCEPT ![p] = IF more THEN "send" ELSE "idle"]
      /\ itimes' = [itimes EXCEPT ![p] = IF more THEN @ + 1 ELSE 0]
      /\ socket' = [socket EXCEPT ![p] = IF more THEN rest ELSE << >>]
  BY DEF Pings!GoOn, Pings!Goto
<1> HIDE DEF more
<1>5. \A q \in Pingers : socket'[q] \in Seq(HeardBy(q)')
  BY <1>1, <1>3, <1>4 DEF PingersOK
<1>6. \A q \in Pingers : pinging'[q] = "idle" => socket'[q] = << >>
  BY <1>4 DEF PingersOK
<1>7. itimes' \in [Pingers -> Nat]
  BY <1>4 DEF PingersOK
<1> QED
  BY <1>2, <1>4, <1>5, <1>6, <1>7 DEF PingersOK

LEMMA PingPreserves == PingInv /\ [Pings!Next]_Pings!vars => PingInv'
<1> SUFFICES ASSUME PingInv, [Pings!Next]_Pings!vars PROVE PingInv'
  OBVIOUS
<1> USE DEF PingInv
<1>same. ASSUME UNCHANGED <<answered, strays>>
         PROVE  \A p \in Pingers : HeardBy(p)' = HeardBy(p)
  BY <1>same DEF HeardBy
<1>count. ASSUME answered \subseteq answered', counted' = counted,
                 \A p \in Pingers : strays[p] \subseteq strays'[p]
          PROVE  CountedAnswered'
  BY <1>count DEF CountedAnswered, Pings!CountedAnswered
<1>1. CASE UNCHANGED Pings!vars
  BY <1>1, <1>same, <1>count DEF Pings!vars, PingersOK, NetworkOK
<1>2. ASSUME NEW p \in Pingers, Pings!Open(p) PROVE PingInv'
  <2>1. /\ UNCHANGED <<itimes, socket, network, answered>> /\ socket[p] = << >>
        /\ counted' = [counted EXCEPT ![p] = {}] /\ strays' = [strays EXCEPT ![p] = {}]
        /\ pinging' = [pinging EXCEPT ![p] = "send"]
    BY <1>2 DEF Pings!Open, Pings!Goto, PingersOK
  <2>2. \A q \in Pingers \ {p} : strays'[q] = strays[q] /\ HeardBy(q)' = HeardBy(q)
    BY <2>1 DEF PingersOK, HeardBy
  <2>3. socket'[p] \in Seq(HeardBy(p)')
    BY <2>1, EmptySeq
  <2>4. PingersOK'
    BY <2>1, <2>2, <2>3 DEF PingersOK
  <2>5. CountedAnswered'
    BY <2>1, <2>2 DEF PingersOK, CountedAnswered, Pings!CountedAnswered
  <2> QED
    BY <2>1, <2>4, <2>5 DEF NetworkOK
<1>3. ASSUME NEW p \in Pingers, Pings!OpenFails(p) PROVE PingInv'
  <2>1. /\ UNCHANGED <<pinging, itimes, socket, network, answered, strays>>
        /\ counted' = [counted EXCEPT ![p] = {}]
    BY <1>3 DEF Pings!OpenFails
  <2>2. PingersOK' /\ NetworkOK'
    BY <2>1, <1>same DEF PingersOK, NetworkOK
  <2> QED
    BY <2>1, <2>2 DEF PingersOK, CountedAnswered, Pings!CountedAnswered
<1>4. ASSUME NEW p \in Pingers, Pings!Send(p) PROVE PingInv'
  <2>1. /\ UNCHANGED <<itimes, counted, socket, answered, strays>>
        /\ pinging' = [pinging EXCEPT ![p] = "receive"]
        /\ network' = network \cup
             {Pings!Packet(IF p \in Local THEN "own" ELSE "request", Id[p], itimes[p])}
    BY <1>4 DEF Pings!Send, Pings!Goto
  <2>2. Id[p] \in Pings!Ids /\ itimes[p] \in Nat
    BY DEF Pings!Ids, PingersOK
  <2>3. NetworkOK'
    BY <2>1, <2>2 DEF NetworkOK, Packets, Pings!Packet
  <2>4. PingersOK'
    BY <2>1, <1>same DEF PingersOK
  <2> QED
    BY <2>1, <2>3, <2>4, <1>count
<1>5. ASSUME NEW p \in Pingers, Pings!SendFails(p) \/ Pings!Timeout(p) PROVE PingInv'
  <2>1. socket[p] \in Seq(HeardBy(p)) /\ << >> \in Seq(HeardBy(p))
    BY EmptySeq DEF PingersOK
  <2>2. UNCHANGED <<counted, network>>
    BY <1>5 DEF Pings!SendFails, Pings!Timeout
  <2>3. PingersOK' /\ UNCHANGED <<answered, strays>>
    BY <1>5, <2>1, <2>2, PingGoesOn DEF Pings!SendFails, Pings!Timeout, PingersOK
  <2> QED
    BY <2>2, <2>3, <1>count DEF NetworkOK
<1>6. ASSUME NEW p \in Pingers, Pings!Receive(p) PROVE PingInv'
  <2> DEFINE m == Head(socket[p])
  <2>1. m \in HeardBy(p) /\ Tail(socket[p]) \in Seq(HeardBy(p))
    BY <1>6, PingTail DEF Pings!Receive, PingersOK
  <2>2. /\ counted' = [counted EXCEPT ![p] =
             IF Pings!Matches(p, m) THEN @ \cup {itimes[p]} ELSE @]
        /\ network' = network
    BY <1>6 DEF Pings!Receive
  <2>3. counted' \in [Pingers -> SUBSET Nat]
    BY <2>2 DEF PingersOK
  <2>4. PingersOK' /\ UNCHANGED <<answered, strays>>
    BY <1>6, <2>1, <2>3, PingGoesOn DEF Pings!Receive
  <2>5. Pings!Matches(p, m)
        => <<Id[p], itimes[p]>> \in answered \/ itimes[p] \in strays[p]
    BY <2>1 DEF Pings!Matches, HeardBy
  <2> QED
    BY <2>2, <2>4, <2>5 DEF PingersOK, NetworkOK, CountedAnswered, Pings!CountedAnswered
<1>7. ASSUME NEW m \in network, Pings!AnswerRequest(m) PROVE PingInv'
  <2>1. /\ UNCHANGED <<pinging, itimes, counted, socket, strays>>
        /\ network' = (network \ {m}) \cup {Pings!Packet("reply", m.id, m.seq)}
        /\ answered' = answered \cup {<<m.id, m.seq>>} /\ m \in Packets
    BY <1>7 DEF Pings!AnswerRequest, NetworkOK
  <2>2. PingersOK'
    BY <2>1, StillHeard DEF PingersOK
  <2>3. NetworkOK'
    BY <2>1 DEF NetworkOK, Packets, Pings!Packet
  <2> QED
    BY <2>1, <2>2, <2>3, <1>count
<1>8. ASSUME NEW m \in network, Pings!Refuse(m) \/ Pings!Lose(m) PROVE PingInv'
  <2>1. /\ UNCHANGED <<pinging, itimes, counted, socket, answered, strays>>
        /\ network' \subseteq network \cup {Pings!Unreachable}
    BY <1>8 DEF Pings!Refuse, Pings!Lose
  <2>2. NetworkOK'
    BY <2>1 DEF NetworkOK, Packets, Pings!Unreachable, Pings!Packet
  <2> QED
    BY <2>1, <2>2, <1>same, <1>count DEF PingersOK
<1>9. ASSUME NEW id \in Pings!Ids, NEW seq \in Pings!Seqs, Pings!Stray(id, seq) PROVE PingInv'
  <2>1. /\ UNCHANGED <<pinging, itimes, counted, socket, answered, strays>>
        /\ network' = network \cup {Pings!Packet("other", id, seq)}
    BY <1>9 DEF Pings!Stray
  <2>2. seq \in Nat
    BY DEF Pings!Seqs
  <2>3. NetworkOK'
    BY <2>1, <2>2 DEF NetworkOK, Packets, Pings!Packet
  <2> QED
    BY <2>1, <2>3, <1>same, <1>count DEF PingersOK
<1>10. ASSUME NEW m \in network, Pings!Arrive(m) PROVE PingInv'
  <2> DEFINE gets == {p \in Pingers : pinging[p] # "idle" /\ Len(socket[p]) < Queue}
  <2>1. /\ UNCHANGED <<pinging, itimes, counted, network, answered>>
        /\ socket' = [p \in Pingers |->
                        IF p \in gets THEN Append(socket[p], m) ELSE socket[p]]
        /\ strays' = [p \in Pingers |->
                        IF p \in gets /\ m.type # "reply" /\ m.id = Id[p]
                        THEN strays[p] \cup {m.seq} ELSE strays[p]]
    BY <1>10 DEF Pings!Arrive
  <2>2. m \in Packets /\ m.seq \in Nat /\ (m.type = "reply" => <<m.id, m.seq>> \in answered)
    BY DEF NetworkOK, Packets
  <2>3. \A p \in Pingers : strays[p] \subseteq strays'[p]
    BY <2>1
  <2>4. \A p \in gets : m \in HeardBy(p)'
    BY <2>1, <2>2 DEF HeardBy
  <2>5. \A p \in Pingers : socket[p] \in Seq(HeardBy(p)')
    BY <2>1, <2>3, StillHeard DEF PingersOK
  <2>6. \A p \in gets : Append(socket[p], m) \in Seq(HeardBy(p)')
    BY <2>4, <2>5, AppendProperties
  <2>7. \A p \in Pingers : socket'[p] \in Seq(HeardBy(p)')
    BY <2>1, <2>5, <2>6
  <2>8. strays' \in [Pingers -> SUBSET Nat]
    BY <2>1, <2>2 DEF PingersOK
  <2>9. PingersOK'
    BY <2>1, <2>7, <2>8 DEF PingersOK
  <2> QED
    BY <2>1, <2>3, <2>9, <1>count DEF NetworkOK
<1> QED
  BY <1>1, <1>2, <1>3, <1>4, <1>5, <1>6, <1>7, <1>8, <1>9, <1>10 DEF Pings!Next

(* However packets are lost, delayed, delivered more than once or to every *)
(* program at once, and whatever else comes to this machine, ping counts a *)
(* request as answered only when one of its number and id has been         *)
(* answered, or its socket has got a packet of another type with the two.  *)
THEOREM AnsweredIfCounted == Pings!Spec => []CountedAnswered
<1>1. PingInv => CountedAnswered
  BY DEF PingInv
<1> QED
  BY PingStart, PingPreserves, <1>1, PTL DEF Pings!Spec
-----------------------------------------------------------------------------
(* NetConfig: while a call that nobody has disturbed is under way nobody   *)
(* else configures, and what it has set so far is there.                   *)

Setting == {"addr", "mask", "up", "down"}
CheckSteps == {"alias", "aliasUp", "aliasDown"}

ConfiguringOK ==
  /\ configuring \in [Configurers -> {"idle"} \cup Setting \cup CheckSteps]
  /\ call \in [Configurers -> [addr : Addresses \cup {NoAddress},
                               mask : Masks \cup {Classful}, up : BOOLEAN]]
  /\ alone \in [Configurers -> BOOLEAN]

(* What the last undisturbed call asked for counts until the next begins.  *)
Quiet == asked # Ethernet!Any => \A t \in Configurers : configuring[t] \notin Setting
Alone ==
  \A t \in Configurers : alone[t] /\ configuring[t] \in Setting
    => \A s \in Configurers \ {t} : configuring[s] \notin Setting
SoFar ==
  \A t \in Configurers : alone[t] =>
    /\ configuring[t] \in {"mask", "up"} /\ call[t].addr # NoAddress => addr = call[t].addr
    /\ configuring[t] = "up" /\ call[t].mask # Classful => mask = call[t].mask
AliasInUse ==
  alias /\ ~aliasLeft => \E t \in Configurers : configuring[t] \in {"aliasUp", "aliasDown"}

NetInv ==
  ConfiguringOK /\ Quiet /\ Alone /\ SoFar /\ AliasInUse /\ Ethernet!ConfiguredAsAsked

LEMMA NetStart == Ethernet!Init => NetInv
  BY DEF Ethernet!Init, Ethernet!Any, NetInv, ConfiguringOK, Quiet, Alone, SoFar,
         AliasInUse, Ethernet!ConfiguredAsAsked, Setting

(* A call begins: nothing is asked for yet, and it is alone or not.        *)
LEMMA NetBegin ==
  ASSUME NetInv, NEW t \in Configurers, NEW to \in Setting,
         NEW what \in [addr : Addresses \cup {NoAddress}, mask : Masks \cup {Classful},
                       up : BOOLEAN],
         to \in {"mask", "up"} => what.addr = NoAddress,
         to = "up" => what.mask = Classful,
         Ethernet!Begin(t, to, what)
  PROVE  NetInv'
<1>1. /\ configuring[t] = "idle" /\ configuring' = [configuring EXCEPT ![t] = to]
      /\ call' = [call EXCEPT ![t] = what] /\ asked' = Ethernet!Any
      /\ alone' = [s \in Configurers |-> s = t /\ Ethernet!Busy \subseteq Ethernet!Checking]
      /\ UNCHANGED <<addr, mask, up, alias, aliasLeft>>
  BY DEF Ethernet!Begin, Ethernet!Goto, Ethernet!interface
<1>2. ConfiguringOK'
  BY <1>1 DEF NetInv, ConfiguringOK
<1>3. Quiet' /\ Ethernet!ConfiguredAsAsked'
  BY <1>1 DEF Quiet, Ethernet!ConfiguredAsAsked, Ethernet!Any
<1>4. Alone'
  BY <1>1 DEF NetInv, ConfiguringOK, Alone, Setting, CheckSteps, Ethernet!Busy, Ethernet!Checking
<1>5. SoFar'
  BY <1>1 DEF NetInv, ConfiguringOK, SoFar
<1>6. AliasInUse'
  BY <1>1 DEF NetInv, ConfiguringOK, AliasInUse
<1> QED
  BY <1>2, <1>3, <1>4, <1>5, <1>6 DEF NetInv

(* A step of a call, or its end without success.                           *)
LEMMA NetGoesOn ==
  ASSUME NetInv, NEW t \in Configurers, configuring[t] \in Setting,
         NEW to \in Setting \cup {"idle"}, configuring' = [configuring EXCEPT ![t] = to],
         UNCHANGED <<call, alone, asked, aliasLeft>>, alias' \in {alias, FALSE}
  PROVE  /\ ConfiguringOK' /\ Quiet' /\ Alone' /\ AliasInUse'
         /\ Ethernet!ConfiguredAsAsked'
         /\ \A s \in Configurers \ {t} : alone[s] => configuring'[s] \notin Setting
<1>1. ConfiguringOK'
  BY DEF NetInv, ConfiguringOK
<1>2. asked = Ethernet!Any
  BY DEF NetInv, Quiet
<1>3. Quiet' /\ Ethernet!ConfiguredAsAsked'
  BY <1>2 DEF Quiet, Ethernet!ConfiguredAsAsked, Ethernet!Any
<1>4. Alone'
  BY DEF NetInv, ConfiguringOK, Alone
<1>5. AliasInUse'
  BY DEF NetInv, ConfiguringOK, AliasInUse, Setting
<1>6. \A s \in Configurers \ {t} : alone[s] => configuring'[s] \notin Setting
  BY DEF NetInv, ConfiguringOK, Alone
<1> QED
  BY <1>1, <1>3, <1>4, <1>5, <1>6

(* A step of a check.                                                      *)
LEMMA NetChecks ==
  ASSUME NetInv, NEW t \in Configurers, configuring[t] \notin Setting,
         NEW to \in CheckSteps \cup {"idle"}, configuring' = [configuring EXCEPT ![t] = to],
         UNCHANGED <<addr, mask, up, call, alone, asked>>
  PROVE  ConfiguringOK' /\ Quiet' /\ Alone' /\ SoFar' /\ Ethernet!ConfiguredAsAsked'
<1>1. \A s \in Configurers :
        /\ configuring'[s] \in Setting <=> configuring[s] \in Setting
        /\ configuring[s] \in Setting => configuring'[s] = configuring[s]
  BY DEF NetInv, ConfiguringOK, Setting, CheckSteps
<1>2. ConfiguringOK'
  BY DEF NetInv, ConfiguringOK
<1>3. Quiet' /\ Ethernet!ConfiguredAsAsked'
  BY <1>1 DEF NetInv, Quiet, Ethernet!ConfiguredAsAsked
<1>4. Alone'
  BY <1>1 DEF NetInv, Alone
<1>5. SoFar'
  BY <1>1 DEF NetInv, SoFar, Setting
<1> QED
  BY <1>2, <1>3, <1>4, <1>5

LEMMA NetPreserves == NetInv /\ [Ethernet!Next]_Ethernet!vars => NetInv'
<1> SUFFICES ASSUME NetInv, [Ethernet!Next]_Ethernet!vars PROVE NetInv'
  OBVIOUS
<1>1. CASE UNCHANGED Ethernet!vars
  BY <1>1 DEF Ethernet!vars, Ethernet!interface, NetInv, ConfiguringOK, Quiet, Alone, SoFar,
              AliasInUse, Ethernet!ConfiguredAsAsked
<1>2. ASSUME NEW g \in Gateways, Ethernet!SetGateway(g) PROVE NetInv'
  BY <1>2 DEF Ethernet!SetGateway, NetInv, ConfiguringOK, Quiet, Alone, SoFar,
              AliasInUse, Ethernet!ConfiguredAsAsked
<1>3. ASSUME NEW t \in Configurers, NEW a \in Addresses, Ethernet!SetIp(t, a) PROVE NetInv'
  BY <1>3, NetBegin DEF Ethernet!SetIp, Setting
<1>4. ASSUME NEW t \in Configurers, NEW a \in Addresses, NEW m \in Masks,
             Ethernet!SetBoth(t, a, m)
      PROVE NetInv'
  BY <1>4, NetBegin DEF Ethernet!SetBoth, Setting
<1>5. ASSUME NEW t \in Configurers, NEW m \in Masks, Ethernet!SetNetmask(t, m) PROVE NetInv'
  BY <1>5, NetBegin DEF Ethernet!SetNetmask, Setting
<1>6. ASSUME NEW t \in Configurers, Ethernet!UpNetif(t) \/ Ethernet!DownNetif(t) PROVE NetInv'
  BY <1>6, NetBegin DEF Ethernet!UpNetif, Ethernet!DownNetif, Ethernet!Any, Setting
<1>7. ASSUME NEW t \in Configurers, Ethernet!SetAddr(t) PROVE NetInv'
  <2> DEFINE to == Ethernet!AfterAddr(t)
  <2>1. /\ configuring[t] = "addr" /\ configuring' = [configuring EXCEPT ![t] = to]
        /\ to = IF call[t].mask = Classful THEN "up" ELSE "mask"
        /\ addr' = call[t].addr /\ alias' \in {alias, FALSE}
        /\ UNCHANGED <<call, alone, asked, aliasLeft>>
    BY <1>7 DEF Ethernet!SetAddr, Ethernet!Goto, Ethernet!AfterAddr
  <2> HIDE DEF to
  <2>2. /\ ConfiguringOK' /\ Quiet' /\ Alone' /\ AliasInUse'
        /\ Ethernet!ConfiguredAsAsked'
        /\ \A s \in Configurers \ {t} : alone[s] => configuring'[s] \notin Setting
    BY <2>1, NetGoesOn DEF Setting
  <2>3. SoFar'
    BY <2>1, <2>2 DEF NetInv, ConfiguringOK, SoFar, Setting
  <2> QED
    BY <2>2, <2>3 DEF NetInv
<1>8. ASSUME NEW t \in Configurers, Ethernet!SetMask(t) PROVE NetInv'
  <2>1. /\ configuring[t] = "mask" /\ configuring' = [configuring EXCEPT ![t] = "up"]
        /\ mask' = call[t].mask /\ UNCHANGED <<addr, alias, call, alone, asked, aliasLeft>>
    BY <1>8 DEF Ethernet!SetMask, Ethernet!Goto
  <2>2. /\ ConfiguringOK' /\ Quiet' /\ Alone' /\ AliasInUse'
        /\ Ethernet!ConfiguredAsAsked'
        /\ \A s \in Configurers \ {t} : alone[s] => configuring'[s] \notin Setting
    BY <2>1, NetGoesOn DEF Setting
  <2>3. SoFar'
    BY <2>1, <2>2 DEF NetInv, ConfiguringOK, SoFar, Setting
  <2> QED
    BY <2>2, <2>3 DEF NetInv
<1>9. ASSUME NEW t \in Configurers, Ethernet!SetUp(t) PROVE NetInv'
  <2>1. /\ configuring[t] = "up" /\ configuring' = [configuring EXCEPT ![t] = "idle"]
        /\ up' = TRUE /\ asked' = IF alone[t] THEN call[t] ELSE asked
        /\ UNCHANGED <<addr, mask, alias, call, alone, aliasLeft>>
    BY <1>9 DEF Ethernet!SetUp, Ethernet!Goto
  <2>2. asked = Ethernet!Any
    BY <2>1 DEF NetInv, Quiet, Setting
  <2>3. ConfiguringOK'
    BY <2>1 DEF NetInv, ConfiguringOK
  <2>4. Alone' /\ SoFar' /\ AliasInUse'
    BY <2>1 DEF NetInv, ConfiguringOK, Alone, SoFar, AliasInUse, Setting
  <2>5. Quiet'
    BY <2>1, <2>2 DEF NetInv, ConfiguringOK, Alone, Quiet, Setting
  <2>6. Ethernet!ConfiguredAsAsked'
    BY <2>1, <2>2 DEF NetInv, SoFar, Ethernet!ConfiguredAsAsked, Ethernet!Any
  <2> QED
    BY <2>3, <2>4, <2>5, <2>6 DEF NetInv
<1>10. ASSUME NEW t \in Configurers, Ethernet!SetDown(t) \/ Ethernet!Fail(t) PROVE NetInv'
  <2>1. /\ configuring[t] \in Setting /\ configuring' = [configuring EXCEPT ![t] = "idle"]
        /\ UNCHANGED <<addr, mask, alias, call, alone, asked, aliasLeft>>
    BY <1>10 DEF Ethernet!SetDown, Ethernet!Fail, Ethernet!Goto, Ethernet!interface, Setting
  <2>2. /\ ConfiguringOK' /\ Quiet' /\ Alone' /\ AliasInUse'
        /\ Ethernet!ConfiguredAsAsked'
    BY <2>1, NetGoesOn
  <2>3. SoFar'
    BY <2>1 DEF NetInv, ConfiguringOK, SoFar
  <2> QED
    BY <2>2, <2>3 DEF NetInv
<1>11. ASSUME NEW t \in Configurers,
              \/ Ethernet!CheckIp(t) \/ Ethernet!AliasRefused(t) \/ Ethernet!AliasAddr(t)
              \/ Ethernet!AliasUp(t) \/ Ethernet!AliasDown(t) \/ Ethernet!AliasFails(t)
       PROVE NetInv'
  <2>1. \E to \in CheckSteps \cup {"idle"} : configuring' = [configuring EXCEPT ![t] = to]
    BY <1>11 DEF Ethernet!CheckIp, Ethernet!AliasRefused, Ethernet!AliasAddr, Ethernet!AliasUp,
                 Ethernet!AliasDown, Ethernet!AliasFails, Ethernet!Goto, CheckSteps
  <2>2. /\ configuring[t] \notin Setting
        /\ UNCHANGED <<addr, mask, up, call, alone, asked>>
    BY <1>11 DEF Ethernet!CheckIp, Ethernet!AliasRefused, Ethernet!AliasAddr, Ethernet!AliasUp,
                 Ethernet!AliasDown, Ethernet!AliasFails, Ethernet!Goto, Ethernet!interface,
                 Setting
  <2>3. ConfiguringOK' /\ Quiet' /\ Alone' /\ SoFar' /\ Ethernet!ConfiguredAsAsked'
    BY <2>1, <2>2, NetChecks
  <2>4. AliasInUse'
    BY <1>11 DEF Ethernet!CheckIp, Ethernet!AliasRefused, Ethernet!AliasAddr, Ethernet!AliasUp,
                 Ethernet!AliasDown, Ethernet!AliasFails, Ethernet!Goto, NetInv, ConfiguringOK,
                 AliasInUse
  <2> QED
    BY <2>3, <2>4 DEF NetInv
<1> QED
  BY <1>1, <1>2, <1>3, <1>4, <1>5, <1>6, <1>7, <1>8, <1>9, <1>10, <1>11 DEF Ethernet!Next

(* However many programs configure the interface at once, whichever of     *)
(* their ioctls fail and whatever the calls before left half done: after a *)
(* call that nobody disturbed the interface is as it asked, and the alias  *)
(* of a check is left behind by a failure only.                            *)
THEOREM AsAskedIfAlone == Ethernet!Spec => []Settled
<1>1. NetInv => Settled
  BY DEF NetInv, ConfiguringOK, AliasInUse, Settled, Ethernet!Settled, Ethernet!AliasGone,
         Ethernet!Checking
<1> QED
  BY NetStart, NetPreserves, <1>1, PTL DEF Ethernet!Spec
-----------------------------------------------------------------------------
(* ModemRequests: what the operations ask of the modem.                    *)

Names == {"ATI", "AT+GSN", "AT+CGSN", "AT+QSIMSTAT?", "AT+QCSQ", "AT+CSQ", "AT+QNWINFO",
          "AT+CPIN?", "AT+COPS?", "AT+CFUN=0", "AT+CFUN=1", "AT+QSIMDET", "AT+QCFG",
          "AT+QPOWD", "AT+CFUN?", "AT+CREG?", "AT+CICCID", "AT+CPSI?", "AT+MCSQ",
          "AT+CRESET", "AT+GMI=?", "AT*"}
Demands == {"OK", "OK and body", "body", "body first", "leading body",
            "anything first", "anything"}
(* Where OK is all that is demanded the operation ends without it.         *)
Asked == {r \in [cmd : Names, demand : Demands, otherwise : Nat] :
            r.demand = "OK" => r.otherwise = 0}

LEMMA ShortSeq ==
  ASSUME NEW S, NEW a \in S, NEW b \in S, NEW c \in S, NEW d \in S
  PROVE  /\ <<a>> \in Seq(S) /\ <<a, b>> \in Seq(S) /\ <<a, b, c, d>> \in Seq(S)
         /\ << >> \in Seq(S)
  OBVIOUS

LEMMA OnceOK ==
  ASSUME NEW cmd \in Names, NEW demand \in Demands
  PROVE  Once(cmd, demand) \in Seq(Asked)
<1> DEFINE a == Ask(cmd, demand, 0)
<1>1. a \in Asked
  BY DEF Ask, Asked
<1> HIDE DEF a
<1>2. <<a>> \in Seq(Asked)
  BY <1>1, ShortSeq
<1> QED
  BY <1>2 DEF Once, a

LEMMA ListsOK ==
  /\ QuectelInfo \in Seq(Asked)
  /\ QuectelNetwork \in Seq(Asked)
  /\ QuectelPin \in Seq(Asked)
  /\ QuectelOperator \in Seq(Asked)
  /\ QuectelSystem \in Seq(Asked)
  /\ QuectelResetCfun \in Seq(Asked)
  /\ LynqInfo \in Seq(Asked)
  /\ LynqSystem \in Seq(Asked)
  /\ LynqPin \in Seq(Asked)
  /\ LynqLevel \in Seq(Asked)
  /\ <<Ask("AT+QCSQ", "OK and body", 1)>> \in Seq(Asked)
<1>1. QuectelInfo \in Seq(Asked)
  <2> DEFINE a == Ask("ATI", "leading body", 0)
             b == Ask("AT+GSN", "anything first", 0)
             c == Ask("AT+CGSN", "anything first", 0)
             d == Ask("AT+QSIMSTAT?", "OK and body", 0)
  <2>1. a \in Asked /\ b \in Asked /\ c \in Asked /\ d \in Asked
    BY DEF Ask, Asked, Names, Demands
  <2> HIDE DEF a, b, c, d
  <2>2. <<a, b, c, d>> \in Seq(Asked)
    BY <2>1, ShortSeq
  <2> QED
    BY <2>2 DEF QuectelInfo, a, b, c, d
<1>2. QuectelNetwork \in Seq(Asked)
  <2> DEFINE a == Ask("AT+QNWINFO", "OK and body", 1)
  <2>1. a \in Asked
    BY DEF Ask, Asked, Names, Demands
  <2> HIDE DEF a
  <2>2. <<a>> \in Seq(Asked)
    BY <2>1, ShortSeq
  <2> QED
    BY <2>2 DEF QuectelNetwork, a
<1>3. QuectelPin \in Seq(Asked)
  <2> DEFINE a == Ask("AT+CPIN?", "OK and body", 1)
  <2>1. a \in Asked
    BY DEF Ask, Asked, Names, Demands
  <2> HIDE DEF a
  <2>2. <<a>> \in Seq(Asked)
    BY <2>1, ShortSeq
  <2> QED
    BY <2>2 DEF QuectelPin, a
<1>4. QuectelOperator \in Seq(Asked)
  <2> DEFINE a == Ask("AT+COPS?", "OK and body", 1)
  <2>1. a \in Asked
    BY DEF Ask, Asked, Names, Demands
  <2> HIDE DEF a
  <2>2. <<a>> \in Seq(Asked)
    BY <2>1, ShortSeq
  <2> QED
    BY <2>2 DEF QuectelOperator, a
<1>5. QuectelSystem \in Seq(Asked)
  <2> DEFINE a == Ask("AT+QCSQ", "OK and body", 2)
             b == Ask("AT+CSQ", "OK and body", 1)
  <2>1. a \in Asked /\ b \in Asked
    BY DEF Ask, Asked, Names, Demands
  <2> HIDE DEF a, b
  <2>2. <<a, b>> \in Seq(Asked)
    BY <2>1, ShortSeq
  <2> QED
    BY <2>2 DEF QuectelSystem, a, b
<1>6. QuectelResetCfun \in Seq(Asked)
  <2> DEFINE a == Ask("AT+CFUN=0", "OK", 0)
             b == Ask("AT+CFUN=1", "OK", 0)
  <2>1. a \in Asked /\ b \in Asked
    BY DEF Ask, Asked, Names, Demands
  <2> HIDE DEF a, b
  <2>2. <<a, b>> \in Seq(Asked)
    BY <2>1, ShortSeq
  <2> QED
    BY <2>2 DEF QuectelResetCfun, a, b
<1>7. LynqInfo \in Seq(Asked)
  <2> DEFINE a == Ask("ATI", "body", 0)
             b == Ask("AT+CICCID", "body first", 0)
  <2>1. a \in Asked /\ b \in Asked
    BY DEF Ask, Asked, Names, Demands
  <2> HIDE DEF a, b
  <2>2. <<a, b>> \in Seq(Asked)
    BY <2>1, ShortSeq
  <2> QED
    BY <2>2 DEF LynqInfo, a, b
<1>8. LynqSystem \in Seq(Asked)
  <2> DEFINE a == Ask("AT+CPSI?", "body", 0)
  <2>1. a \in Asked
    BY DEF Ask, Asked, Names, Demands
  <2> HIDE DEF a
  <2>2. <<a>> \in Seq(Asked)
    BY <2>1, ShortSeq
  <2> QED
    BY <2>2 DEF LynqSystem, a
<1>9. LynqPin \in Seq(Asked)
  <2> DEFINE a == Ask("AT+CPIN?", "body first", 1)
  <2>1. a \in Asked
    BY DEF Ask, Asked, Names, Demands
  <2> HIDE DEF a
  <2>2. <<a>> \in Seq(Asked)
    BY <2>1, ShortSeq
  <2> QED
    BY <2>2 DEF LynqPin, a
<1>10. LynqLevel \in Seq(Asked)
  <2> DEFINE a == Ask("AT+MCSQ", "body first", 1)
  <2>1. a \in Asked
    BY DEF Ask, Asked, Names, Demands
  <2> HIDE DEF a
  <2>2. <<a>> \in Seq(Asked)
    BY <2>1, ShortSeq
  <2> QED
    BY <2>2 DEF LynqLevel, a
<1>11. <<Ask("AT+QCSQ", "OK and body", 1)>> \in Seq(Asked)
  <2> DEFINE a == Ask("AT+QCSQ", "OK and body", 1)
  <2>1. a \in Asked
    BY DEF Ask, Asked, Names, Demands
  <2> HIDE DEF a
  <2>2. <<a>> \in Seq(Asked)
    BY <2>1, ShortSeq
  <2> QED
    BY <2>2 DEF a
<1> QED
  BY <1>1, <1>2, <1>3, <1>4, <1>5, <1>6, <1>7, <1>8, <1>9, <1>10, <1>11

LEMMA SignalsOK == QuectelSignal \in Seq(Asked) /\ LynqSignal \in Seq(Asked)
  BY ListsOK, ConcatProperties DEF QuectelSignal, LynqSignal

LEMMA RequestsOK == \A o \in AllOps : Requests[o] \in Seq(Asked)
<1>1. << >> \in Seq(Asked)
  BY EmptySeq
<1>2. /\ QuectelMode \in Seq(Asked)
      /\ QuectelSimDetect \in Seq(Asked)
      /\ QuectelScanMode \in Seq(Asked)
      /\ QuectelSoftReset \in Seq(Asked)
      /\ QuectelGetCfun \in Seq(Asked)
      /\ QuectelGetCpin \in Seq(Asked)
      /\ QuectelGetCreg \in Seq(Asked)
      /\ LynqSoftReset \in Seq(Asked)
      /\ LynqGetCfun \in Seq(Asked)
      /\ LynqGetCpin \in Seq(Asked)
      /\ LynqGetCreg \in Seq(Asked)
  BY OnceOK DEF Names, Demands, QuectelMode, QuectelSimDetect, QuectelScanMode, QuectelSoftReset,
       QuectelGetCfun, QuectelGetCpin, QuectelGetCreg, LynqSoftReset,
       LynqGetCfun, LynqGetCpin, LynqGetCreg
<1>3. \A o \in DOMAIN InfoRequests : InfoRequests[o] \in Seq(Asked)
  <2>1. DOMAIN InfoRequests =
             {"get_RF_moduleInfo", "update_RF_signalInfo"}
    BY DEF InfoRequests
  <2>2. InfoRequests["get_RF_moduleInfo"] \in Seq(Asked)
    BY ListsOK, SignalsOK DEF InfoRequests, Of
  <2>3. InfoRequests["update_RF_signalInfo"] \in Seq(Asked)
    BY ListsOK, SignalsOK DEF InfoRequests, Of
  <2> QED
    BY <2>1, <2>2, <2>3
<1>4. \A o \in DOMAIN StateRequests : StateRequests[o] \in Seq(Asked)
  <2>1. DOMAIN StateRequests =
             {"rf_get_cfun", "rf_get_cpin", "rf_get_creg",
              "rf_get_nwmode", "rf_nw_scanmode", "rf_sim_detect"}
    BY DEF StateRequests
  <2>2. StateRequests["rf_get_cfun"] \in Seq(Asked)
    BY <1>1, <1>2 DEF StateRequests, Of
  <2>3. StateRequests["rf_get_cpin"] \in Seq(Asked)
    BY <1>1, <1>2 DEF StateRequests, Of
  <2>4. StateRequests["rf_get_creg"] \in Seq(Asked)
    BY <1>1, <1>2 DEF StateRequests, Of
  <2>5. StateRequests["rf_get_nwmode"] \in Seq(Asked)
    BY <1>1, <1>2 DEF StateRequests, Of
  <2>6. StateRequests["rf_nw_scanmode"] \in Seq(Asked)
    BY <1>1, <1>2 DEF StateRequests, Of
  <2>7. StateRequests["rf_sim_detect"] \in Seq(Asked)
    BY <1>1, <1>2 DEF StateRequests, Of
  <2> QED
    BY <2>1, <2>2, <2>3, <2>4, <2>5, <2>6, <2>7
<1>5. \A o \in DOMAIN DirectRequests : DirectRequests[o] \in Seq(Asked)
  <2>1. DOMAIN DirectRequests =
             {"find_RF_manufacture", "rf_at_test", "rf_at_cmd"}
    BY DEF DirectRequests
  <2>2. DirectRequests["find_RF_manufacture"] \in Seq(Asked)
    BY OnceOK DEF DirectRequests, Names, Demands
  <2>3. DirectRequests["rf_at_test"] \in Seq(Asked)
    BY OnceOK DEF DirectRequests, Names, Demands
  <2>4. DirectRequests["rf_at_cmd"] \in Seq(Asked)
    BY OnceOK DEF DirectRequests, Names, Demands
  <2> QED
    BY <2>1, <2>2, <2>3, <2>4
<1>6. \A o \in DOMAIN ResetRequests : ResetRequests[o] \in Seq(Asked)
  <2>1. DOMAIN ResetRequests =
             {"rf_soft_reset", "rf_cfun_reset", "N1_RF_hwreset"}
    BY DEF ResetRequests
  <2>2. ResetRequests["rf_soft_reset"] \in Seq(Asked)
    BY <1>1, <1>2, ListsOK DEF ResetRequests, Of, LynqResetCfun
  <2>3. ResetRequests["rf_cfun_reset"] \in Seq(Asked)
    BY <1>1, <1>2, ListsOK DEF ResetRequests, Of, LynqResetCfun
  <2>4. ResetRequests["N1_RF_hwreset"] \in Seq(Asked)
    BY <1>1, <1>2, ListsOK DEF ResetRequests, Of, LynqResetCfun
  <2> QED
    BY <2>1, <2>2, <2>3, <2>4
<1> QED
  BY <1>3, <1>4, <1>5, <1>6 DEF Requests, AllOps

LEMMA ResetCfunRequests ==
  Requests["rf_cfun_reset"] = <<Ask("AT+CFUN=0", "OK", 0), Ask("AT+CFUN=1", "OK", 0)>>
  BY DEF Requests, AllOps, InfoRequests, StateRequests, DirectRequests, ResetRequests, Of,
         LynqResetCfun, QuectelResetCfun

-----------------------------------------------------------------------------
(* ModemRequests: the state, whatever the threads and the modem are.       *)

Piece == [part : {"echo", "body", "OK", "ERROR"}, cmd : Names, id : Nat]
Command == [cmd : Names, id : Nat]
Labels == {"idle", "lock", "open", "write", "flush", "read", "examine"}

PortTyped ==
  line \in Seq(Piece) /\ sending \in Seq(Piece) /\ commands \in Seq(Command) /\ sent \in Nat
ThreadsTyped ==
  /\ holder \in [Processes -> Threads \cup {Nobody}]
  /\ pc \in [Threads -> Labels] /\ op \in [Threads -> Ops] /\ step \in [Threads -> Nat]
  /\ got \in [Threads -> Seq(Piece)] /\ ret \in [Threads -> Int]
  /\ mine \in [Threads -> Seq(Nat)] /\ taken = [t \in Threads |-> taken[t]]
AtRequest ==
  \A t \in Threads : pc[t] # "idle" =>
    IF Requests[op[t]] = << >> THEN pc[t] \in {"lock", "open"}
    ELSE step[t] \in 1 .. Len(Requests[op[t]])

Typed == PortTyped /\ ThreadsTyped /\ AtRequest

LEMMA TypedStart == Init => Typed
<1> SUFFICES ASSUME Init PROVE Typed
  OBVIOUS
<1>1. << >> \in Seq(Piece) /\ << >> \in Seq(Command) /\ << >> \in Seq(Nat)
  BY EmptySeq
<1>2. (CHOOSE o \in Ops : TRUE) \in Ops
  BY OpsAssumption
<1>3. op \in [Threads -> Ops]
  BY <1>2 DEF Init
<1> QED
  BY <1>1, <1>3 DEF Init, Typed, PortTyped, ThreadsTyped, AtRequest, Labels

LEMMA RequestTyped ==
  ASSUME Typed, NEW t \in Threads, pc[t] \in {"write", "flush", "read", "examine"}
  PROVE  /\ Requests[op[t]] # << >> /\ Requests[op[t]] \in Seq(Asked)
         /\ step[t] \in 1 .. Len(Requests[op[t]]) /\ Request(t) \in Asked
<1>1. op[t] \in AllOps /\ step[t] \in 1 .. Len(Requests[op[t]]) /\ Requests[op[t]] # << >>
  BY OpsAssumption DEF Typed, ThreadsTyped, AtRequest
<1>2. Requests[op[t]] \in Seq(Asked)
  BY <1>1, RequestsOK
<1> QED
  BY <1>1, <1>2, ElementOfSeq DEF Request

LEMMA EchoPiece ==
  ASSUME NEW cmd \in Names, NEW id \in Nat, NEW part \in {"echo", "body", "OK", "ERROR"}
  PROVE  /\ [part |-> part, cmd |-> cmd, id |-> id] \in Piece
         /\ [cmd |-> cmd, id |-> id] \in Command
  BY DEF Piece, Command

(* What the modem adds to what it has to send.                             *)
Answer(c) ==
  {<<[part |-> "ERROR", cmd |-> c.cmd, id |-> c.id]>>,
   <<[part |-> "OK", cmd |-> c.cmd, id |-> c.id]>>,
   <<[part |-> "body", cmd |-> c.cmd, id |-> c.id],
     [part |-> "OK", cmd |-> c.cmd, id |-> c.id]>>}

LEMMA AnswerTyped ==
  ASSUME NEW c \in Command, NEW a \in Answer(c)
  PROVE  a \in Seq(Piece)
<1>1. \A part \in {"body", "OK", "ERROR"} : [part |-> part, cmd |-> c.cmd, id |-> c.id] \in Piece
  BY DEF Piece, Command
<1>2. \A x, y \in Piece : <<x>> \in Seq(Piece) /\ <<x, y>> \in Seq(Piece)
  BY ShortSeq
<1> QED
  BY <1>1, <1>2 DEF Answer

LEMMA ModemAnswersEffect ==
  ASSUME Typed, ModemAnswers
  PROVE  /\ commands # << >> /\ Head(commands) \in Command
         /\ commands' \in {<< >>, Tail(commands)} /\ commands' \in Seq(Command)
         /\ \E a \in Answer(Head(commands)) :
              /\ a \in Seq(Piece) /\ sending' = sending \o a
              /\ a[1].part = "ERROR" => accepted' = accepted /\ radio' = radio
              /\ a[1].part # "ERROR" =>
                   /\ accepted' = accepted \cup {Head(commands).id}
                   /\ Head(commands).cmd = "AT+CFUN=1" => radio' = TRUE
         /\ UNCHANGED <<threads, line, sent>>
<1>1. commands # << >> /\ commands \in Seq(Command)
  BY DEF ModemAnswers, Typed, PortTyped
<1>2. Head(commands) \in Command /\ Tail(commands) \in Seq(Command) /\ << >> \in Seq(Command)
  BY <1>1, HeadTailProperties, EmptySeq
<1>3. commands' \in {<< >>, Tail(commands)} /\ UNCHANGED <<threads, line, sent>>
  BY DEF ModemAnswers
<1>4. \E a \in Answer(Head(commands)) :
        /\ sending' = sending \o a
        /\ a[1].part = "ERROR" => accepted' = accepted /\ radio' = radio
        /\ a[1].part # "ERROR" =>
             /\ accepted' = accepted \cup {Head(commands).id}
             /\ Head(commands).cmd = "AT+CFUN=1" => radio' = TRUE
  BY DEF ModemAnswers, Answer
<1> QED
  BY <1>1, <1>2, <1>3, <1>4, AnswerTyped

LEMMA TypedStep == Typed /\ [Next]_vars => Typed'
<1> SUFFICES ASSUME Typed, [Next]_vars PROVE Typed'
  OBVIOUS
<1>0. << >> \in Seq(Piece) /\ << >> \in Seq(Command) /\ << >> \in Seq(Nat)
  BY EmptySeq
<1>1. CASE UNCHANGED vars
  BY <1>1 DEF vars, port, threads, Typed, PortTyped, ThreadsTyped, AtRequest
<1>2. ASSUME NEW t \in Threads, NEW o \in Ops, Begin(t, o) PROVE Typed'
  <2>1. op' = [op EXCEPT ![t] = o] /\ step' = [step EXCEPT ![t] = 1]
        /\ pc' = [pc EXCEPT ![t] = IF Locked(o) THEN "lock" ELSE "open"]
    BY <1>2 DEF Begin, GoTo
  <2>2. Requests[o] # << >> => 1 \in 1 .. Len(Requests[o])
    <3>1. Requests[o] \in Seq(Asked)
      BY OpsAssumption, RequestsOK
    <3> QED
      BY <3>1, EmptySeq
  <2>3. AtRequest'
    BY <2>1, <2>2 DEF Typed, ThreadsTyped, AtRequest
  <2>4. PortTyped'
    BY <1>2 DEF Begin, port, Typed, PortTyped
  <2>5. /\ UNCHANGED <<holder, got>> /\ ret' = [ret EXCEPT ![t] = -1]
        /\ mine' = [mine EXCEPT ![t] = << >>] /\ taken' = [taken EXCEPT ![t] = << >>]
    BY <1>2 DEF Begin
  <2>6. pc' \in [Threads -> Labels] /\ op' \in [Threads -> Ops] /\ step' \in [Threads -> Nat]
    BY <2>1 DEF Typed, ThreadsTyped, Labels
  <2>7. mine' \in [Threads -> Seq(Nat)] /\ taken' = [s \in Threads |-> taken'[s]]
    BY <1>0, <2>5 DEF Typed, ThreadsTyped
  <2>8. ret' \in [Threads -> Int]
    BY <2>5 DEF Typed, ThreadsTyped
  <2> QED
    BY <2>3, <2>4, <2>5, <2>6, <2>7, <2>8 DEF Typed, ThreadsTyped
<1>3. ASSUME NEW t \in Threads, Lock(t) \/ Open(t) \/ Fails(t) \/ Flush(t) \/ Silence(t)
      PROVE Typed'
  <2>1. /\ pc[t] # "idle" /\ UNCHANGED <<op, step, sent, commands, sending, mine, taken, ret>>
        /\ got' \in {got, [got EXCEPT ![t] = << >>]} /\ line' \in {line, << >>}
        /\ \E l \in Labels :
             /\ pc' = [pc EXCEPT ![t] = l]
             /\ l \in {"lock", "open"} \/ Requests[op[t]] # << >>
        /\ holder' \in {holder, [holder EXCEPT ![Process[t]] = t]}
    <3>1. CASE Lock(t)
      BY <3>1 DEF Lock, GoTo, port, Labels
    <3>2. CASE Open(t)
      BY <3>2 DEF Open, GoTo, Labels
    <3>3. CASE Fails(t)
      BY <3>3 DEF Fails, GoTo, port, Labels
    <3>4. CASE Flush(t)
      BY <3>4, RequestTyped DEF Flush, GoTo, Labels
    <3>5. CASE Silence(t)
      BY <3>5, RequestTyped DEF Silence, GoTo, port, Labels
    <3> QED
      BY <1>3, <3>1, <3>2, <3>3, <3>4, <3>5
  <2>2. AtRequest'
    BY <2>1 DEF Typed, ThreadsTyped, AtRequest
  <2>3. PortTyped'
    BY <1>0, <2>1 DEF Typed, PortTyped
  <2>4. pc' \in [Threads -> Labels]
    BY <2>1 DEF Typed, ThreadsTyped
  <2>6. got' \in [Threads -> Seq(Piece)]
    BY <1>0, <2>1 DEF Typed, ThreadsTyped
  <2>5. holder' \in [Processes -> Threads \cup {Nobody}]
    BY <2>1 DEF Typed, ThreadsTyped
  <2> QED
    BY <2>1, <2>2, <2>3, <2>4, <2>5, <2>6 DEF Typed, ThreadsTyped
<1>4. ASSUME NEW t \in Threads, Write(t) PROVE Typed'
  <2>1. Request(t).cmd \in Names /\ Requests[op[t]] # << >>
    BY <1>4, RequestTyped DEF Write, Asked
  <2>2. sent + 1 \in Nat
    BY DEF Typed, PortTyped
  <2>3. commands' \in Seq(Command)
    BY <1>4, <2>1, <2>2, EchoPiece, AppendProperties DEF Write, Typed, PortTyped
  <2>4. sending' \in Seq(Piece)
    BY <1>4, <2>1, <2>2, EchoPiece, AppendProperties DEF Write, Typed, PortTyped
  <2>5. mine' \in [Threads -> Seq(Nat)]
    BY <1>4, <2>2, AppendProperties DEF Write, Typed, ThreadsTyped
  <2>6. AtRequest'
    BY <1>4, <2>1 DEF Write, GoTo, Typed, ThreadsTyped, AtRequest
  <2> QED
    BY <1>4, <2>2, <2>3, <2>4, <2>5, <2>6 DEF Write, GoTo, Typed, PortTyped, ThreadsTyped, Labels
<1>5. ASSUME NEW t \in Threads, Read(t) PROVE Typed'
  <2>1. got[t] \o line \in Seq(Piece)
    BY ConcatProperties DEF Typed, PortTyped, ThreadsTyped
  <2>2. \E l \in {"read", "examine"} : pc' = [pc EXCEPT ![t] = l]
    BY <1>5 DEF Read, GoTo
  <2>3. AtRequest'
    BY <1>5, <2>2, RequestTyped DEF Read, Typed, ThreadsTyped, AtRequest
  <2> QED
    BY <1>0, <1>5, <2>1, <2>2, <2>3 DEF Read, Typed, PortTyped, ThreadsTyped, Labels
<1>6. ASSUME NEW t \in Threads, Examine(t) PROVE Typed'
  <2>1. \E next \in Int :
          \/ /\ next \in 1 .. Len(Requests[op[t]])
             /\ step' = [step EXCEPT ![t] = next] /\ pc' = [pc EXCEPT ![t] = "open"]
          \/ step' = step /\ pc' = [pc EXCEPT ![t] = "idle"]
    <3>1. Request(t).otherwise \in Nat /\ step[t] \in Nat
      BY <1>6, RequestTyped DEF Examine, Asked, Typed, ThreadsTyped
    <3>2. PICK next \in Int :
            /\ step' = IF next \in 1 .. Len(Requests[op[t]])
                         THEN [step EXCEPT ![t] = next] ELSE step
            /\ pc' = [pc EXCEPT ![t] = IF next \in 1 .. Len(Requests[op[t]])
                                         THEN "open" ELSE "idle"]
      <4> DEFINE good == Satisfied(Request(t), got[t])
                 next == IF good THEN step[t] + 1
                         ELSE IF Request(t).otherwise = 0 THEN 0
                         ELSE step[t] + Request(t).otherwise
      <4>1. /\ step' = IF next \in 1 .. Len(Requests[op[t]])
                         THEN [step EXCEPT ![t] = next] ELSE step
            /\ pc' = [pc EXCEPT ![t] = IF next \in 1 .. Len(Requests[op[t]])
                                         THEN "open" ELSE "idle"]
        BY <1>6 DEF Examine, GoTo
      <4>2. next \in Int
        BY <3>1
      <4> QED
        BY <4>1, <4>2
    <3> QED
      BY <3>2
  <2>2. /\ Requests[op[t]] # << >> /\ op' = op /\ mine' = mine /\ UNCHANGED port
        /\ holder' \in {holder, [holder EXCEPT ![Process[t]] = Nobody]}
        /\ got' = [got EXCEPT ![t] = << >>]
    BY <1>6, RequestTyped DEF Examine
  <2>3. AtRequest'
    BY <2>1, <2>2 DEF Typed, ThreadsTyped, AtRequest
  <2>4. ret' \in [Threads -> Int]
    <3>1. \A good \in BOOLEAN : Result(t, good) \in Int
      BY DEF Result, Typed, ThreadsTyped
    <3> QED
      BY <1>6, <3>1 DEF Examine, Typed, ThreadsTyped
  <2>5. taken' = [s \in Threads |-> taken'[s]]
    BY <1>6 DEF Examine, Typed, ThreadsTyped
  <2>6. PortTyped'
    BY <2>2 DEF port, Typed, PortTyped
  <2>7. pc' \in [Threads -> Labels]
    BY <2>1 DEF Typed, ThreadsTyped, Labels
  <2>9. step' \in [Threads -> Nat]
    <3>1. Len(Requests[op[t]]) \in Nat
      BY <1>6, RequestTyped, LenProperties DEF Examine
    <3>2. \A n \in 1 .. Len(Requests[op[t]]) : n \in Nat
      BY <3>1
    <3> QED
      BY <2>1, <3>2 DEF Typed, ThreadsTyped
  <2>8. got' \in [Threads -> Seq(Piece)] /\ holder' \in [Processes -> Threads \cup {Nobody}]
    BY <1>0, <2>2 DEF Typed, ThreadsTyped
  <2> QED
    BY <2>2, <2>3, <2>4, <2>5, <2>6, <2>7, <2>8, <2>9 DEF Typed, ThreadsTyped
<1>7. ASSUME NEW t \in Threads, HwReset(t) PROVE Typed'
  <2>1. /\ UNCHANGED <<op, step, got, line, sent, mine, taken>>
        /\ pc' = [pc EXCEPT ![t] = "idle"] /\ holder' = [holder EXCEPT ![Process[t]] = Nobody]
        /\ \E r \in {-1, 0} : ret' = [ret EXCEPT ![t] = r]
        /\ commands' \in {commands, << >>} /\ sending' \in {sending, << >>}
    BY <1>7 DEF HwReset, GoTo
  <2>2. AtRequest'
    BY <2>1 DEF Typed, ThreadsTyped, AtRequest
  <2>3. PortTyped'
    BY <1>0, <2>1 DEF Typed, PortTyped
  <2>4. pc' \in [Threads -> Labels] /\ ret' \in [Threads -> Int]
    BY <2>1 DEF Typed, ThreadsTyped, Labels
  <2>5. holder' \in [Processes -> Threads \cup {Nobody}]
    BY <2>1 DEF Typed, ThreadsTyped
  <2> QED
    BY <2>1, <2>2, <2>3, <2>4, <2>5 DEF Typed, ThreadsTyped
<1>8. CASE ModemAnswers
  <2>1. commands' \in Seq(Command) /\ sending' \in Seq(Piece) /\ UNCHANGED <<threads, line, sent>>
    BY <1>8, ModemAnswersEffect, ConcatProperties DEF Typed, PortTyped
  <2> QED
    BY <2>1 DEF threads, Typed, PortTyped, ThreadsTyped, AtRequest
<1>9. CASE ModemSends
  <2>1. Head(sending) \in Piece /\ Tail(sending) \in Seq(Piece)
    BY <1>9, HeadTailProperties DEF ModemSends, Typed, PortTyped
  <2>2. Append(line, Head(sending)) \in Seq(Piece)
    BY <2>1, AppendProperties DEF Typed, PortTyped
  <2> QED
    BY <1>9, <2>1, <2>2 DEF ModemSends, threads, Typed, PortTyped, ThreadsTyped, AtRequest
<1> QED
  BY <1>1, <1>2, <1>3, <1>4, <1>5, <1>6, <1>7, <1>8, <1>9 DEF Next, Run, Modem

LEMMA RangeShort == Range(<< >>) = {} /\ \A x : Range(<<x>>) = {x}
  BY DEF Range

(* The first body there is in an answer.                                   *)
LEMMA FirstBodyThere ==
  ASSUME NEW chunks \in Seq(Piece), NEW cmd, HasBody(chunks, cmd)
  PROVE  /\ FirstBody(chunks, cmd) \in 1 .. Len(chunks)
         /\ IsBody(chunks[FirstBody(chunks, cmd)], cmd)
<1> DEFINE There == {i \in 1 .. Len(chunks) : IsBody(chunks[i], cmd)}
           Less == {p \in Nat \X Nat : p[1] < p[2]}
<1>0. Len(chunks) \in Nat /\ DOMAIN chunks = 1 .. Len(chunks)
  BY LenProperties
<1>1. There \subseteq Nat /\ There # {}
  BY <1>0 DEF HasBody, Range
<1>2. IsWellFoundedOn(Less, Nat)
  BY NatLessThanWellFounded DEF OpToRel
<1>3. PICK i \in There : \A j \in There : ~(<<j, i>> \in Less)
  <2> HIDE DEF Less, There
  <2> QED
    BY <1>1, <1>2, WFMin
<1>4. \A j \in 1 .. i - 1 : ~IsBody(chunks[j], cmd)
  <2>1. i \in 1 .. Len(chunks) /\ \A j \in There : j \in Nat /\ ~(j < i)
    BY <1>0, <1>1, <1>3
  <2>2. \A j \in 1 .. i - 1 : j \in 1 .. Len(chunks) /\ j < i
    BY <1>0, <2>1
  <2> QED
    BY <2>1, <2>2
<1>5. i \in DOMAIN chunks /\ IsBody(chunks[i], cmd)
  BY <1>0, <1>3
<1>6. /\ FirstBody(chunks, cmd) \in DOMAIN chunks
      /\ IsBody(chunks[FirstBody(chunks, cmd)], cmd)
  BY <1>4, <1>5 DEF FirstBody
<1> QED
  BY <1>0, <1>6

Named == {"OK and body", "body", "body first", "leading body"}

(* A result is taken from a piece of what was read.                        *)
LEMMA SourceThere ==
  ASSUME NEW chunks \in Seq(Piece), NEW r \in Asked, Satisfied(r, chunks)
  PROVE  /\ Source(r, chunks) \in Range(chunks)
         /\ r.demand \in Named => IsBody(Source(r, chunks), r.cmd)
         /\ r.demand = "OK" => HasOK(chunks)
<1>0. Len(chunks) \in Nat /\ DOMAIN chunks = 1 .. Len(chunks)
  BY LenProperties
<1>1. r.demand \in Demands
  BY DEF Asked
<1>2. CASE r.demand \in Named
  <2>1. HasBody(chunks, r.cmd)
    <3>1. CASE r.demand \in {"OK and body", "body"}
      BY <3>1 DEF Satisfied
    <3>2. CASE r.demand = "body first"
      <4>1. chunks # << >> /\ IsBody(Head(chunks), r.cmd)
        BY <3>2 DEF Satisfied
      <4>2. Head(chunks) = chunks[1] /\ 1 \in DOMAIN chunks
        BY <1>0, <4>1
      <4> QED
        BY <4>1, <4>2 DEF HasBody, Range
    <3>3. CASE r.demand = "leading body"
      <4> DEFINE rest == AfterEcho(chunks, r.cmd)
      <4>1. rest # << >> /\ IsBody(Head(rest), r.cmd)
        BY <3>3 DEF Satisfied
      <4>2. rest = chunks \/ (chunks # << >> /\ rest = Tail(chunks))
        BY DEF AfterEcho, EchoFirst
      <4>3. CASE rest = chunks
        <5>1. Head(chunks) = chunks[1] /\ 1 \in DOMAIN chunks
          BY <1>0, <4>1, <4>3
        <5> QED
          BY <4>1, <4>3, <5>1 DEF HasBody, Range
      <4>4. CASE chunks # << >> /\ rest = Tail(chunks)
        <5> HIDE DEF rest
        <5>1. /\ rest \in Seq(Piece) /\ Len(rest) = Len(chunks) - 1
              /\ \A i \in 1 .. Len(rest) : rest[i] = chunks[i + 1]
          BY <4>4, HeadTailProperties
        <5>2. Len(rest) \in Nat \ {0} /\ Head(rest) = rest[1]
          BY <4>1, <5>1, EmptySeq
        <5>3. rest[1] = chunks[2] /\ 2 \in DOMAIN chunks
          BY <1>0, <5>1, <5>2
        <5> QED
          BY <4>1, <5>2, <5>3 DEF HasBody, Range
      <4> QED
        BY <4>2, <4>3, <4>4
    <3> QED
      BY <1>2, <3>1, <3>2, <3>3 DEF Named
  <2>2. Source(r, chunks) = chunks[FirstBody(chunks, r.cmd)]
    BY <1>2 DEF Source, Named
  <2>3. FirstBody(chunks, r.cmd) \in DOMAIN chunks /\ IsBody(Source(r, chunks), r.cmd)
    BY <1>0, <2>1, <2>2, FirstBodyThere
  <2> QED
    BY <1>2, <2>2, <2>3 DEF Range, Named
<1>3. CASE r.demand \in {"OK", "anything first", "anything"}
  <2>1. r.demand = "OK" => HasOK(chunks)
    BY DEF Satisfied
  <2>2. chunks # << >>
    <3>1. HasOK(chunks) => chunks # << >>
      BY RangeShort DEF HasOK
    <3> QED
      BY <1>3, <3>1 DEF Satisfied
  <2>3. Head(chunks) = chunks[1] /\ 1 \in DOMAIN chunks
    BY <1>0, <2>2
  <2>4. Source(r, chunks) = Head(chunks)
    BY <1>3 DEF Source
  <2> QED
    BY <1>3, <2>1, <2>3, <2>4 DEF Range, Named
<1> QED
  BY <1>1, <1>2, <1>3 DEF Demands, Named

Taken(t) ==
  [id |-> Last(mine[t]), cmd |-> Request(t).cmd, demand |-> Request(t).demand,
   from |-> Source(Request(t), got[t])]

LEMMA ExamineTakes ==
  ASSUME Typed, NEW t \in Threads, Examine(t)
  PROVE  /\ \A s \in Threads \ {t} : taken'[s] = taken[s]
         /\ \/ taken'[t] = << >>
            \/ Satisfied(Request(t), got[t]) /\ taken'[t] = <<Taken(t)>>
  BY DEF Examine, Taken, Typed, ThreadsTyped

LEMMA SameCommandStart == Init => SameCommand
  BY RangeShort DEF Init, SameCommand

LEMMA SameCommandStep == Typed /\ SameCommand /\ [Next]_vars => SameCommand'
<1> SUFFICES ASSUME Typed, SameCommand, [Next]_vars PROVE SameCommand'
  OBVIOUS
<1>1. ASSUME taken' = taken PROVE SameCommand'
  BY <1>1 DEF SameCommand
<1>2. ASSUME NEW t \in Threads, NEW o \in Ops, Begin(t, o) PROVE SameCommand'
  BY <1>2, RangeShort DEF Begin, SameCommand, Typed, ThreadsTyped
<1>3. ASSUME NEW t \in Threads, Examine(t) PROVE SameCommand'
  <2>1. Request(t) \in Asked /\ got[t] \in Seq(Piece)
    BY <1>3, RequestTyped DEF Examine, Typed, ThreadsTyped
  <2>2. Satisfied(Request(t), got[t]) /\ Request(t).demand \in Named
        => IsBody(Source(Request(t), got[t]), Request(t).cmd)
    BY <2>1, SourceThere
  <2>3. \A f \in Range(taken'[t]) :
          f = Taken(t) /\ Satisfied(Request(t), got[t])
    BY <1>3, ExamineTakes, RangeShort
  <2>4. /\ Taken(t).demand = Request(t).demand /\ Taken(t).cmd = Request(t).cmd
        /\ Taken(t).from = Source(Request(t), got[t])
    BY DEF Taken
  <2>5. \A s \in Threads \ {t} : taken'[s] = taken[s]
    BY <1>3, ExamineTakes
  <2>6. \A s \in Threads : \A f \in Range(taken'[s]) :
          f.demand \in Named => f.from.part = "body" /\ f.from.cmd = f.cmd
    <3> TAKE s \in Threads
    <3>1. CASE s = t
      BY <2>2, <2>3, <2>4, <3>1 DEF IsBody
    <3>2. CASE s # t
      BY <2>5, <3>2 DEF SameCommand, Named
    <3> QED
      BY <3>1, <3>2
  <2> QED
    BY <2>6 DEF SameCommand, Named
<1> QED
  BY <1>1, <1>2, <1>3 DEF Next, Run, Modem, vars, port, threads, Lock, Open, Fails, Write,
       Flush, Read, Silence, HwReset, ModemAnswers, ModemSends

(* However late the modem is, whoever else uses the port and whatever they *)
(* ask: a result with a name of its own in the answer is never taken from  *)
(* the answer to another command.                                          *)
THEOREM NamedResults == Spec => []SameCommand
<1>1. Init => Typed /\ SameCommand
  BY TypedStart, SameCommandStart
<1>2. Typed /\ SameCommand /\ [Next]_vars => Typed' /\ SameCommand'
  BY TypedStep, SameCommandStep
<1> QED
  BY <1>1, <1>2, PTL DEF Spec
-----------------------------------------------------------------------------
(* ModemRequests: threads that take turns.                                 *)

(* The modem answers in time, its users are threads of one process, and    *)
(* none of them makes the one call that does not take the mutex.           *)
InTurns ==
  /\ ~Slow /\ \A s, t \in Threads : Process[s] = Process[t]
  /\ "get_RF_moduleInfo" \notin Ops

Active(t) == pc[t] \notin {"idle", "lock"}
Waiting(t) == pc[t] \in {"flush", "read"}
IsEnd(c) == c.part \in {"OK", "ERROR"}

Exclusive == \A t \in Threads : Active(t) => holder[Process[t]] = t

(* While nobody waits for an answer there is nothing at all under way.     *)
Silent ==
  (\A t \in Threads : ~Waiting(t)) => commands = << >> /\ sending = << >> /\ line = << >>
NothingRead == \A t \in Threads : pc[t] \notin {"read", "examine"} => got[t] = << >>

(* A piece of the answer to the command a thread has sent last: when it    *)
(* is an OK that command has been accepted, and if it was to switch the    *)
(* radio on the radio is on.                                               *)
Own(t, c) ==
  /\ mine[t] # << >> /\ c.id = Last(mine[t])
  /\ c.part = "OK" =>
       c.id \in accepted /\ (op[t] = "rf_cfun_reset" /\ step[t] = 2 => radio)

(* There is at most the command of the thread that waits, and once an      *)
(* answer has its end nothing follows it.                                  *)
Talk(t) ==
  /\ mine[t] # << >>
  /\ \/ commands = << >>
     \/ commands = <<[cmd |-> Request(t).cmd, id |-> Last(mine[t])]>>
  /\ \A c \in Range(got[t]) \cup Range(line) :
       Own(t, c) /\ (IsEnd(c) => commands = << >> /\ sending = << >>)
  /\ \A i \in 1 .. Len(sending) :
       /\ Own(t, sending[i])
       /\ IsEnd(sending[i]) => commands = << >> /\ i = Len(sending)
OneAnswer == \A t \in Threads : Waiting(t) => Talk(t)
ReadOwn == \A t \in Threads : pc[t] = "examine" => \A c \in Range(got[t]) : Own(t, c)

(* Of the commands of an operation that only sets something all but the    *)
(* one at hand have been accepted.                                         *)
CarriedBy(t) ==
  AllOK(op[t]) /\ (pc[t] # "idle" \/ ret[t] = 0) =>
    \A i \in 1 .. Len(mine[t]) :
      \/ mine[t][i] \in accepted
      \/ pc[t] \in {"flush", "read", "examine"} /\ i = Len(mine[t])
Carried == \A t \in Threads : CarriedBy(t)

TurnInv ==
  /\ Typed /\ Exclusive /\ Silent /\ NothingRead /\ OneAnswer /\ ReadOwn /\ Carried
  /\ OwnAnswer

LEMMA TurnStart == Init => TurnInv
<1> SUFFICES ASSUME Init PROVE TurnInv
  OBVIOUS
<1>1. Exclusive /\ Silent /\ NothingRead /\ OneAnswer /\ ReadOwn /\ Carried
  BY DEF Init, Exclusive, Active, Silent, NothingRead, OneAnswer, Waiting, ReadOwn, Carried,
         CarriedBy
<1>2. OwnAnswer
  BY RangeShort DEF Init, OwnAnswer
<1> QED
  BY <1>1, <1>2, TypedStart DEF TurnInv

LEMMA TakesMutex ==
  ASSUME InTurns, NEW o \in Ops
  PROVE  Locked(o)
  BY DEF InTurns, Locked

LEMMA OneActive ==
  ASSUME InTurns, Exclusive, NEW s \in Threads, NEW t \in Threads, Active(s), Active(t)
  PROVE  s = t
  BY DEF InTurns, Exclusive

LEMMA OwnStays ==
  ASSUME NEW t \in Threads, NEW c, Own(t, c), mine'[t] = mine[t], op'[t] = op[t],
         step'[t] = step[t],
         \/ accepted' = accepted /\ radio' = radio
         \/ c.part # "OK"
  PROVE  Own(t, c)'
  BY DEF Own

(* Nobody active, or somebody else: a thread that begins an operation, or  *)
(* takes the mutex, disturbs nobody.                                       *)
LEMMA TurnEnters ==
  ASSUME InTurns, TurnInv, Typed', NEW t \in Threads, ~Active(t), NEW l \in {"lock", "open"},
         pc' = [pc EXCEPT ![t] = l], UNCHANGED <<port, got>>, Exclusive',
         \A s \in Threads \ {t} : UNCHANGED <<op[s], step[s], mine[s], ret[s], taken[s]>>,
         CarriedBy(t)', \A f \in Range(taken'[t]) : f.from.id = f.id
  PROVE  TurnInv'
<1>0. pc \in [Threads -> Labels]
  BY DEF TurnInv, Typed, ThreadsTyped
<1>1. \A s \in Threads :
        /\ Waiting(s)' <=> Waiting(s)
        /\ Waiting(s) \/ pc[s] = "examine" => s # t
  BY <1>0 DEF Waiting, Active
<1>2. Silent'
  BY <1>1 DEF TurnInv, Silent, port
<1>3. NothingRead'
  BY <1>0 DEF TurnInv, NothingRead, Active
<1>4. \A s \in Threads \ {t} : Talk(s) => Talk(s)'
  BY DEF Talk, Own, Request, port
<1>5. OneAnswer'
  BY <1>1, <1>4 DEF TurnInv, OneAnswer
<1>6. ReadOwn'
  BY <1>0 DEF TurnInv, ReadOwn, Own, port
<1>7. Carried'
  BY <1>0 DEF TurnInv, Carried, CarriedBy, port
<1>8. OwnAnswer'
  BY DEF TurnInv, OwnAnswer
<1> QED
  BY <1>2, <1>3, <1>5, <1>6, <1>7, <1>8 DEF TurnInv

(* What a step of the one thread that has its turn has to show.            *)
LEMMA TurnGoesOn ==
  ASSUME InTurns, TurnInv, Typed', NEW t \in Threads, Active(t), NEW l \in Labels,
         pc' = [pc EXCEPT ![t] = l], l # "lock", accepted' = accepted, op' = op,
         l # "idle" => holder' = holder,
         \A s \in Threads \ {t} : UNCHANGED <<got[s], mine[s], ret[s], taken[s]>>,
         l \notin {"flush", "read"} => commands' = << >> /\ sending' = << >> /\ line' = << >>,
         l \notin {"read", "examine"} => got'[t] = << >>,
         l \in {"flush", "read"} => Talk(t)',
         l = "examine" => \A c \in Range(got'[t]) : Own(t, c)',
         CarriedBy(t)', \A f \in Range(taken'[t]) : f.from.id = f.id
  PROVE  TurnInv'
<1>0. pc \in [Threads -> Labels] /\ pc'[t] = l /\ \A s \in Threads \ {t} : pc'[s] = pc[s]
  BY DEF TurnInv, Typed, ThreadsTyped
<1>1. \A s \in Threads \ {t} : ~Active(s) /\ ~Active(s)'
  BY <1>0, OneActive DEF TurnInv, Active
<1>2. Exclusive'
  BY <1>0, <1>1 DEF TurnInv, Exclusive, Active
<1>3. Silent'
  BY <1>0 DEF Silent, Waiting
<1>4. NothingRead'
  BY <1>0 DEF TurnInv, NothingRead
<1>5. OneAnswer' /\ ReadOwn'
  BY <1>0, <1>1 DEF OneAnswer, ReadOwn, Waiting, Active
<1>6. Carried'
  BY <1>0 DEF TurnInv, Carried, CarriedBy
<1>7. OwnAnswer'
  BY DEF TurnInv, OwnAnswer
<1> QED
  BY <1>2, <1>3, <1>4, <1>5, <1>6, <1>7 DEF TurnInv

LEMMA QuietTurn ==
  ASSUME InTurns, TurnInv, NEW t \in Threads, Active(t), ~Waiting(t)
  PROVE  commands = << >> /\ sending = << >> /\ line = << >>
<1>1. \A s \in Threads : ~Waiting(s)
  BY OneActive DEF TurnInv, Waiting, Active
<1> QED
  BY <1>1 DEF TurnInv, Silent

LEMMA BeginTurn ==
  ASSUME InTurns, TurnInv, Typed', NEW t \in Threads, NEW o \in Ops, Begin(t, o)
  PROVE  TurnInv'
<1>1. /\ pc[t] = "idle" /\ pc' = [pc EXCEPT ![t] = "lock"]
      /\ op' = [op EXCEPT ![t] = o] /\ step' = [step EXCEPT ![t] = 1]
      /\ ret' = [ret EXCEPT ![t] = -1] /\ mine' = [mine EXCEPT ![t] = << >>]
      /\ taken' = [taken EXCEPT ![t] = << >>] /\ UNCHANGED <<port, holder, got>>
  BY TakesMutex DEF Begin, GoTo
<1>2. mine'[t] = << >> /\ taken'[t] = << >>
  BY <1>1 DEF TurnInv, Typed, ThreadsTyped
<1>3. CarriedBy(t)'
  BY <1>2 DEF CarriedBy
<1>4. \A f \in Range(taken'[t]) : f.from.id = f.id
  BY <1>2, RangeShort
<1>5. \A s \in Threads \ {t} : UNCHANGED <<op[s], step[s], mine[s], ret[s], taken[s]>>
  BY <1>1 DEF TurnInv, Typed, ThreadsTyped
<1>6. Exclusive'
  BY <1>1 DEF TurnInv, Typed, ThreadsTyped, Exclusive, Active
<1> QED
  BY <1>1, <1>3, <1>4, <1>5, <1>6, TurnEnters DEF Active

LEMMA LockTurn ==
  ASSUME InTurns, TurnInv, Typed', NEW t \in Threads, Lock(t)
  PROVE  TurnInv'
<1>1. /\ pc[t] = "lock" /\ pc' = [pc EXCEPT ![t] = "open"] /\ holder[Process[t]] = Nobody
      /\ holder' = [holder EXCEPT ![Process[t]] = t]
      /\ UNCHANGED <<port, got, op, step, mine, ret, taken>>
  BY DEF Lock, GoTo
<1>2. \A s \in Threads : ~Active(s)
  BY <1>1, OpsAssumption DEF InTurns, TurnInv, Exclusive
<1>3. Exclusive'
  BY <1>1, <1>2 DEF TurnInv, Typed, ThreadsTyped, Exclusive, Active, Processes
<1>4. CarriedBy(t)
  BY DEF TurnInv, Carried
<1>5. CarriedBy(t)'
  BY <1>1, <1>4 DEF CarriedBy, port, TurnInv, Typed, ThreadsTyped
<1>6. \A f \in Range(taken'[t]) : f.from.id = f.id
  BY <1>1 DEF TurnInv, OwnAnswer
<1> QED
  BY <1>1, <1>3, <1>5, <1>6, TurnEnters DEF Active

(* The steps that send nothing and take no result.                         *)
LEMMA QuietSteps ==
  ASSUME InTurns, TurnInv, Typed', NEW t \in Threads, Open(t) \/ Fails(t) \/ Silence(t)
  PROVE  TurnInv'
<1>1. \A f \in Range(taken[t]) : f.from.id = f.id
  BY DEF TurnInv, OwnAnswer
<1>2. CarriedBy(t)
  BY DEF TurnInv, Carried
<1>3. CASE Open(t)
  <2>1. /\ pc[t] = "open" /\ pc' = [pc EXCEPT ![t] = "write"] /\ line' = << >>
        /\ got' = [got EXCEPT ![t] = << >>]
        /\ UNCHANGED <<op, holder, mine, ret, taken, commands, sending, accepted>>
    BY <1>3 DEF Open, GoTo
  <2>2. commands = << >> /\ sending = << >>
    BY <2>1, QuietTurn DEF Active, Waiting
  <2>3. CarriedBy(t)'
    BY <1>2, <2>1 DEF CarriedBy, TurnInv, Typed, ThreadsTyped
  <2>4. got'[t] = << >> /\ \A s \in Threads \ {t} : got'[s] = got[s]
    BY <2>1 DEF TurnInv, Typed, ThreadsTyped
  <2> QED
    BY <1>1, <2>1, <2>2, <2>3, <2>4, TurnGoesOn DEF Active, Labels
<1>4. CASE Fails(t)
  <2>1. /\ pc[t] \in {"open", "write"} /\ pc' = [pc EXCEPT ![t] = "examine"]
        /\ got' = [got EXCEPT ![t] = << >>]
        /\ UNCHANGED <<op, holder, mine, ret, taken, commands, sending, line, accepted>>
    BY <1>4 DEF Fails, GoTo, port
  <2>2. commands = << >> /\ sending = << >> /\ line = << >>
    BY <2>1, QuietTurn DEF Active, Waiting
  <2>3. CarriedBy(t)'
    BY <1>2, <2>1 DEF CarriedBy, TurnInv, Typed, ThreadsTyped
  <2>4. got'[t] = << >> /\ \A s \in Threads \ {t} : got'[s] = got[s]
    BY <2>1 DEF TurnInv, Typed, ThreadsTyped
  <2>5. \A c \in Range(got'[t]) : Own(t, c)'
    BY <2>4, RangeShort
  <2> QED
    BY <1>1, <2>1, <2>2, <2>3, <2>4, <2>5, TurnGoesOn DEF Active, Labels
<1>5. CASE Silence(t)
  <2>1. PICK l \in {"read", "examine"} :
          /\ pc[t] = "read" /\ pc' = [pc EXCEPT ![t] = l] /\ line = << >>
          /\ commands = << >> /\ sending = << >>
          /\ UNCHANGED <<op, step, got, holder, mine, ret, taken, port>>
    BY <1>5 DEF Silence, GoTo, InTurns, ModemQuiet
  <2>2. CarriedBy(t)'
    BY <1>2, <2>1 DEF CarriedBy, port, TurnInv, Typed, ThreadsTyped
  <2>3. Talk(t)
    BY <2>1 DEF TurnInv, OneAnswer, Waiting
  <2>4. Talk(t)'
    BY <2>1, <2>3 DEF Talk, Own, Request, port
  <2>5. \A c \in Range(got'[t]) : Own(t, c)'
    BY <2>4 DEF Talk
  <2> QED
    BY <1>1, <2>1, <2>2, <2>4, <2>5, TurnGoesOn DEF Active, Labels, port
<1> QED
  BY <1>3, <1>4, <1>5

LEMMA WriteTurn ==
  ASSUME InTurns, TurnInv, Typed', NEW t \in Threads, Write(t)
  PROVE  TurnInv'
<1> DEFINE n == sent + 1
           sentOne == [cmd |-> Request(t).cmd, id |-> n]
           echo == [part |-> "echo", cmd |-> Request(t).cmd, id |-> n]
<1>1. /\ pc[t] = "write" /\ pc' = [pc EXCEPT ![t] = "flush"]
      /\ commands' \in {commands, Append(commands, sentOne)}
      /\ sending' \in {sending, Append(sending, echo)}
      /\ mine' = [mine EXCEPT ![t] = Append(@, n)]
      /\ UNCHANGED <<op, step, got, holder, ret, taken, line, accepted>>
  BY DEF Write, GoTo
<1>2. commands = << >> /\ sending = << >> /\ line = << >> /\ got[t] = << >>
  BY <1>1, QuietTurn DEF Active, Waiting, TurnInv, NothingRead
<1>3. n \in Nat /\ mine[t] \in Seq(Nat) /\ mine'[t] = Append(mine[t], n)
  BY <1>1 DEF TurnInv, Typed, PortTyped, ThreadsTyped
<1>4. /\ mine'[t] # << >> /\ Len(mine[t]) \in Nat /\ Len(mine'[t]) = Len(mine[t]) + 1
      /\ mine'[t][Len(mine[t]) + 1] = n
      /\ \A i \in 1 .. Len(mine[t]) : mine'[t][i] = mine[t][i]
  <2> HIDE DEF n
  <2>1. Len(mine[t]) \in Nat
    BY <1>3, LenProperties
  <2>2. /\ Append(mine[t], n) # << >> /\ Len(Append(mine[t], n)) = Len(mine[t]) + 1
        /\ Append(mine[t], n)[Len(mine[t]) + 1] = n
        /\ \A i \in 1 .. Len(mine[t]) : Append(mine[t], n)[i] = mine[t][i]
    BY <1>3, AppendProperties
  <2> QED
    BY <1>3, <2>1, <2>2
<1>5. Last(mine'[t]) = n
  BY <1>4 DEF Last
<1>6. Request(t)' = Request(t)
  BY <1>1 DEF Request
<1>7. commands' \in {<< >>, <<sentOne>>} /\ sending' \in {<< >>, <<echo>>}
  BY <1>1, <1>2
<1>8. Talk(t)'
  <2>1. commands' = << >> \/ commands' = <<[cmd |-> Request(t)'.cmd, id |-> Last(mine'[t])]>>
    BY <1>5, <1>6, <1>7
  <2>2. \A c : c \notin Range(got'[t]) \cup Range(line')
    BY <1>1, <1>2, RangeShort
  <2>3. \A i \in 1 .. Len(sending') : sending'[i] = echo
    BY <1>7
  <2>4. echo.part = "echo" /\ echo.id = n
    OBVIOUS
  <2> HIDE DEF echo, sentOne, n
  <2>5. \A i \in 1 .. Len(sending') : Own(t, sending[i])' /\ ~IsEnd(sending[i])'
    BY <1>4, <1>5, <2>3, <2>4 DEF Own, IsEnd
  <2> QED
    BY <1>4, <2>1, <2>2, <2>5 DEF Talk
<1>9. CarriedBy(t)'
  <2>1. AllOK(op[t]) => \A i \in 1 .. Len(mine[t]) : mine[t][i] \in accepted
    BY <1>1 DEF TurnInv, Carried, CarriedBy
  <2>2. pc'[t] = "flush" /\ op'[t] = op[t] /\ accepted' = accepted
    BY <1>1 DEF TurnInv, Typed, ThreadsTyped
  <2>3. \A i \in 1 .. Len(mine'[t]) : i \in 1 .. Len(mine[t]) \/ i = Len(mine'[t])
    BY <1>4
  <2>4. AllOK(op[t])' <=> AllOK(op[t])
    BY <2>2 DEF AllOK
  <2> QED
    BY <1>4, <2>1, <2>2, <2>3, <2>4 DEF CarriedBy
<1>10. \A s \in Threads \ {t} : mine'[s] = mine[s]
  BY <1>1 DEF TurnInv, Typed, ThreadsTyped
<1>11. \A f \in Range(taken'[t]) : f.from.id = f.id
  BY <1>1 DEF TurnInv, OwnAnswer
<1>12. got'[t] = << >>
  BY <1>1, <1>2
<1> QED
  BY <1>1, <1>8, <1>9, <1>10, <1>11, <1>12, TurnGoesOn DEF Active, Labels

LEMMA FlushTurn ==
  ASSUME InTurns, TurnInv, Typed', NEW t \in Threads, Flush(t)
  PROVE  TurnInv'
<1>1. /\ pc[t] = "flush" /\ pc' = [pc EXCEPT ![t] = "read"] /\ line' = << >>
      /\ UNCHANGED <<op, step, got, holder, mine, ret, taken, commands, sending, accepted, radio>>
  BY DEF Flush, GoTo
<1>2. Talk(t) /\ CarriedBy(t) /\ got[t] = << >>
  BY <1>1 DEF TurnInv, OneAnswer, Waiting, Carried, NothingRead
<1>3. Talk(t)'
  BY <1>1, <1>2, RangeShort DEF Talk, Own, Request
<1>4. CarriedBy(t)'
  BY <1>1, <1>2 DEF CarriedBy, TurnInv, Typed, ThreadsTyped
<1>5. \A f \in Range(taken'[t]) : f.from.id = f.id
  BY <1>1 DEF TurnInv, OwnAnswer
<1> QED
  BY <1>1, <1>3, <1>4, <1>5, TurnGoesOn DEF Active, Labels

LEMMA ReadTurn ==
  ASSUME InTurns, TurnInv, Typed', NEW t \in Threads, Read(t)
  PROVE  TurnInv'
<1> DEFINE chunks == got[t] \o line
<1>1. PICK l \in {"read", "examine"} :
        /\ pc[t] = "read" /\ pc' = [pc EXCEPT ![t] = l] /\ line' = << >>
        /\ got' = [got EXCEPT ![t] = chunks] /\ (l = "examine" => Ended(got'[t]))
        /\ UNCHANGED <<op, step, holder, mine, ret, taken, commands, sending, accepted, radio>>
  BY DEF Read, GoTo
<1>2. Talk(t) /\ CarriedBy(t)
  BY <1>1 DEF TurnInv, OneAnswer, Waiting, Carried
<1>3. got[t] \in Seq(Piece) /\ line \in Seq(Piece)
  BY DEF TurnInv, Typed, PortTyped, ThreadsTyped
<1>4. Range(chunks) = Range(got[t]) \cup Range(line)
  BY <1>3, RangeConcatenation
<1>5. got'[t] = chunks /\ \A s \in Threads \ {t} : got'[s] = got[s]
  BY <1>1 DEF TurnInv, Typed, ThreadsTyped
<1> HIDE DEF chunks
<1>6. Range(got'[t]) = Range(got[t]) \cup Range(line)
  BY <1>4, <1>5
<1>7. Talk(t)'
  BY <1>1, <1>2, <1>6, RangeShort DEF Talk, Own, Request
<1>8. l = "examine" => commands' = << >> /\ sending' = << >>
  <2>1. Ended(got'[t]) => \E c \in Range(got[t]) \cup Range(line) : IsEnd(c)
    BY <1>6 DEF Ended, IsEnd
  <2> QED
    BY <1>1, <1>2, <2>1 DEF Talk
<1>9. \A c \in Range(got'[t]) : Own(t, c)'
  BY <1>7 DEF Talk
<1>10. CarriedBy(t)'
  BY <1>1, <1>2 DEF CarriedBy, TurnInv, Typed, ThreadsTyped
<1>11. \A f \in Range(taken'[t]) : f.from.id = f.id
  BY <1>1 DEF TurnInv, OwnAnswer
<1> QED
  BY <1>1, <1>5, <1>7, <1>8, <1>9, <1>10, <1>11, TurnGoesOn DEF Active, Labels

(* An operation that only sets something goes on, or returns 0, only when  *)
(* its command has been accepted.                                          *)
LEMMA ExamineCarried ==
  ASSUME InTurns, TurnInv, NEW t \in Threads, Examine(t), AllOK(op[t]),
         pc'[t] # "idle" \/ ret'[t] = 0
  PROVE  /\ HasOK(got[t]) /\ Satisfied(Request(t), got[t])
         /\ \A i \in 1 .. Len(mine[t]) : mine[t][i] \in accepted
<1>0. Typed /\ pc[t] = "examine"
  BY DEF TurnInv, Examine
<1>1. /\ Request(t) \in Asked /\ step[t] \in 1 .. Len(Requests[op[t]])
      /\ Requests[op[t]] \in Seq(Asked)
  BY <1>0, RequestTyped
<1>2. Request(t).demand = "OK" /\ Request(t).otherwise = 0
  BY <1>1, LenProperties DEF AllOK, Request, Asked
<1>3. Satisfied(Request(t), got[t])
  <2> SUFFICES ASSUME ~Satisfied(Request(t), got[t]) PROVE FALSE
    OBVIOUS
  <2>1. pc' = [pc EXCEPT ![t] = "idle"] /\ ret' = [ret EXCEPT ![t] = Result(t, FALSE)]
    <3> DEFINE next == IF Satisfied(Request(t), got[t]) THEN step[t] + 1
                       ELSE IF Request(t).otherwise = 0 THEN 0
                       ELSE step[t] + Request(t).otherwise
               goesOn == next \in 1 .. Len(Requests[op[t]])
    <3>1. /\ pc' = [pc EXCEPT ![t] = IF goesOn THEN "open" ELSE "idle"]
          /\ ret' = [ret EXCEPT ![t] = Result(t, next # 0)]
      BY DEF Examine, GoTo
    <3>2. next = 0
      BY <1>2
    <3>3. ~goesOn
      BY <3>2, <1>1, LenProperties
    <3> HIDE DEF next, goesOn
    <3> QED
      BY <3>1, <3>2, <3>3
  <2>2. Result(t, FALSE) = -1
    BY DEF Result, InTurns, TurnInv, Typed, ThreadsTyped
  <2> QED
    <3>1. pc'[t] = "idle" /\ ret'[t] = -1
      BY <1>0, <2>1, <2>2 DEF Typed, ThreadsTyped
    <3> QED
      BY <3>1
<1>4. HasOK(got[t])
  BY <1>2, <1>3 DEF Satisfied
<1>5. PICK c \in Range(got[t]) : c.part = "OK"
  BY <1>4 DEF HasOK
<1>6. mine[t] # << >> /\ Last(mine[t]) \in accepted
  BY <1>0, <1>5 DEF TurnInv, ReadOwn, Own
<1>7. \A i \in 1 .. Len(mine[t]) : mine[t][i] \in accepted \/ i = Len(mine[t])
  BY <1>0 DEF TurnInv, Carried, CarriedBy
<1> QED
  BY <1>3, <1>4, <1>6, <1>7 DEF Last

LEMMA ExamineTurn ==
  ASSUME InTurns, TurnInv, Typed', NEW t \in Threads, Examine(t)
  PROVE  TurnInv'
<1>1. PICK l \in {"open", "idle"} :
        /\ pc[t] = "examine" /\ pc' = [pc EXCEPT ![t] = l]
        /\ l # "idle" => holder' = holder
        /\ got' = [got EXCEPT ![t] = << >>]
        /\ UNCHANGED <<port, op, mine>>
        /\ \E r : ret' = [ret EXCEPT ![t] = r]
  BY DEF Examine, GoTo
<1>2. commands = << >> /\ sending = << >> /\ line = << >>
  BY <1>1, QuietTurn DEF Active, Waiting
<1>3. /\ pc'[t] = l /\ got'[t] = << >>
      /\ \A s \in Threads \ {t} : got'[s] = got[s] /\ ret'[s] = ret[s]
  BY <1>1 DEF TurnInv, Typed, ThreadsTyped
<1>4. CarriedBy(t)'
  <2>1. AllOK(op[t])' <=> AllOK(op[t])
    BY <1>1 DEF AllOK
  <2> QED
    BY <1>1, <2>1, ExamineCarried DEF CarriedBy, port
<1>5. \A s \in Threads \ {t} : taken'[s] = taken[s]
  BY ExamineTakes DEF TurnInv
<1>6. \A f \in Range(taken'[t]) : f.from.id = f.id
  <2>1. CASE taken'[t] = << >>
    BY <2>1, RangeShort
  <2>2. CASE Satisfied(Request(t), got[t]) /\ taken'[t] = <<Taken(t)>>
    <3>1. Request(t) \in Asked /\ got[t] \in Seq(Piece)
      BY <1>1, RequestTyped DEF TurnInv, Typed, ThreadsTyped
    <3>2. Source(Request(t), got[t]) \in Range(got[t])
      BY <2>2, <3>1, SourceThere
    <3>3. Source(Request(t), got[t]).id = Last(mine[t])
      BY <1>1, <3>2 DEF TurnInv, ReadOwn, Own
    <3>4. Taken(t).from = Source(Request(t), got[t]) /\ Taken(t).id = Last(mine[t])
      BY DEF Taken
    <3> QED
      BY <2>2, <3>3, <3>4, RangeShort
  <2> QED
    BY <2>1, <2>2, ExamineTakes DEF TurnInv
<1> QED
  BY <1>1, <1>2, <1>3, <1>4, <1>5, <1>6, TurnGoesOn DEF Active, Labels, port

LEMMA HwResetTurn ==
  ASSUME InTurns, TurnInv, Typed', NEW t \in Threads, HwReset(t)
  PROVE  TurnInv'
<1>1. /\ pc[t] = "open" /\ pc' = [pc EXCEPT ![t] = "idle"]
      /\ commands' \in {commands, << >>} /\ sending' \in {sending, << >>}
      /\ \E r : ret' = [ret EXCEPT ![t] = r]
      /\ UNCHANGED <<op, step, got, line, accepted, mine, taken>>
  <2>1. ret = [ret EXCEPT ![t] = ret[t]]
    BY DEF TurnInv, Typed, ThreadsTyped
  <2> QED
    BY <2>1 DEF HwReset, GoTo
<1>2. commands = << >> /\ sending = << >> /\ line = << >> /\ got[t] = << >>
  BY <1>1, QuietTurn DEF Active, Waiting, TurnInv, NothingRead
<1>3. CarriedBy(t)'
  <2>1. AllOK(op[t]) => \A i \in 1 .. Len(mine[t]) : mine[t][i] \in accepted
    BY <1>1 DEF TurnInv, Carried, CarriedBy
  <2>2. AllOK(op[t])' <=> AllOK(op[t])
    BY <1>1 DEF AllOK
  <2> QED
    BY <1>1, <2>1, <2>2 DEF CarriedBy
<1>4. \A f \in Range(taken'[t]) : f.from.id = f.id
  BY <1>1 DEF TurnInv, OwnAnswer
<1>5. \A s \in Threads \ {t} : ret'[s] = ret[s]
  BY <1>1 DEF TurnInv, Typed, ThreadsTyped
<1> QED
  BY <1>1, <1>2, <1>3, <1>4, <1>5, TurnGoesOn DEF Active, Labels

(* The modem has something to do only while somebody waits for it.         *)
LEMMA ModemTurn ==
  ASSUME InTurns, TurnInv, Typed', NEW t \in Threads, Waiting(t), Talk(t)',
         UNCHANGED threads, accepted \subseteq accepted'
  PROVE  TurnInv'
<1>1. \A s \in Threads : Active(s) => s = t
  BY OneActive DEF TurnInv, Active, Waiting
<1>2. Exclusive' /\ NothingRead' /\ OwnAnswer'
  BY DEF threads, TurnInv, Exclusive, Active, NothingRead, OwnAnswer
<1>3. Silent'
  BY DEF Silent, Waiting, threads
<1>4. OneAnswer' /\ ReadOwn'
  BY <1>1 DEF OneAnswer, ReadOwn, Active, Waiting, threads
<1>5. Carried'
  BY DEF threads, TurnInv, Carried, CarriedBy
<1> QED
  BY <1>2, <1>3, <1>4, <1>5 DEF TurnInv

LEMMA AnswerTurn ==
  ASSUME InTurns, TurnInv, Typed', ModemAnswers
  PROVE  TurnInv'
<1>0. Typed
  BY DEF TurnInv
<1>1. PICK t \in Threads : Waiting(t)
  BY DEF ModemAnswers, TurnInv, Silent
<1>2. Talk(t)
  BY <1>1 DEF TurnInv, OneAnswer
<1> DEFINE c == [cmd |-> Request(t).cmd, id |-> Last(mine[t])]
<1>3. commands # << >> /\ commands = <<c>>
  BY <1>2 DEF ModemAnswers, Talk
<1>4. Head(commands) = c /\ Tail(commands) = << >>
  BY <1>3
<1>5. c.cmd = Request(t).cmd /\ c.id = Last(mine[t])
  OBVIOUS
<1> HIDE DEF c
<1>6. PICK a \in Answer(c) :
        /\ a \in Seq(Piece) /\ sending' = sending \o a
        /\ a[1].part = "ERROR" => accepted' = accepted /\ radio' = radio
        /\ a[1].part # "ERROR" =>
             /\ accepted' = accepted \cup {c.id}
             /\ c.cmd = "AT+CFUN=1" => radio' = TRUE
  BY <1>0, <1>4, ModemAnswersEffect
<1>7. commands' = << >> /\ UNCHANGED <<threads, line, sent>>
  BY <1>0, <1>4, ModemAnswersEffect
<1>8. accepted \subseteq accepted'
  BY <1>6
<1>9. /\ \A d \in Range(got[t]) \cup Range(line) : ~IsEnd(d) /\ Own(t, d)
      /\ \A i \in 1 .. Len(sending) : ~IsEnd(sending[i]) /\ Own(t, sending[i])
  BY <1>2, <1>3 DEF Talk
<1>10. \A d : Own(t, d) /\ ~IsEnd(d) => Own(t, d)'
  BY <1>7 DEF Own, IsEnd, threads
<1>11. op[t] = "rf_cfun_reset" /\ step[t] = 2 => c.cmd = "AT+CFUN=1"
  BY <1>5, ResetCfunRequests DEF Request, Ask
<1>12. \A i \in 1 .. Len(a) :
         /\ a[i].id = Last(mine[t])
         /\ a[i].part = "OK" => a[1].part # "ERROR"
         /\ IsEnd(a[i]) => i = Len(a)
  <2> DEFINE Says(part) == [part |-> part, cmd |-> c.cmd, id |-> c.id]
  <2>1. \A part : Says(part).part = part /\ Says(part).id = Last(mine[t])
    BY <1>5
  <2>2. \/ a = <<Says("ERROR")>> \/ a = <<Says("OK")>>
        \/ a = <<Says("body"), Says("OK")>>
    BY DEF Answer
  <2> HIDE DEF Says
  <2>3. CASE a = <<Says("ERROR")>>
    BY <2>1, <2>3
  <2>4. CASE a = <<Says("OK")>>
    BY <2>1, <2>4
  <2>5. CASE a = <<Says("body"), Says("OK")>>
    <3>1. Len(a) = 2 /\ a[1] = Says("body") /\ a[2] = Says("OK")
      BY <2>5
    <3> QED
      BY <2>1, <3>1 DEF IsEnd
  <2> QED
    BY <2>2, <2>3, <2>4, <2>5
<1>13. \A i \in 1 .. Len(a) : Own(t, a[i])'
  <2> TAKE i \in 1 .. Len(a)
  <2>1. mine'[t] = mine[t] /\ mine[t] # << >> /\ op' = op /\ step' = step
    BY <1>2, <1>7 DEF threads, Talk
  <2>2. a[i].part = "OK" =>
          a[i].id \in accepted' /\ (op[t] = "rf_cfun_reset" /\ step[t] = 2 => radio')
    BY <1>5, <1>6, <1>11, <1>12
  <2> QED
    BY <1>12, <2>1, <2>2 DEF Own
<1>14. /\ Len(sending') = Len(sending) + Len(a) /\ Len(sending) \in Nat /\ Len(a) \in Nat
       /\ \A i \in 1 .. Len(sending) : sending'[i] = sending[i]
       /\ \A i \in 1 .. Len(sending') : i > Len(sending) =>
            i - Len(sending) \in 1 .. Len(a) /\ sending'[i] = a[i - Len(sending)]
  <2>1. sending \in Seq(Piece)
    BY <1>0 DEF Typed, PortTyped
  <2> QED
    BY <1>6, <2>1, ConcatProperties, LenProperties
<1>15. \A i \in 1 .. Len(sending') :
         Own(t, sending[i])' /\ (IsEnd(sending[i])' => i = Len(sending'))
  <2> TAKE i \in 1 .. Len(sending')
  <2>1. CASE i \in 1 .. Len(sending)
    <3>1. sending'[i] = sending[i] /\ Own(t, sending[i]) /\ ~IsEnd(sending[i])
      BY <1>9, <1>14, <2>1
    <3>2. mine'[t] = mine[t]
      BY <1>7 DEF threads
    <3> QED
      BY <3>1, <3>2 DEF Own, IsEnd
  <2>2. CASE i > Len(sending)
    <3> DEFINE j == i - Len(sending)
    <3>1. j \in 1 .. Len(a) /\ sending'[i] = a[j]
      BY <1>14, <2>2
    <3>2. Own(t, sending[i])'
      BY <1>13, <3>1 DEF Own
    <3>3. IsEnd(sending[i])' => j = Len(a)
      BY <1>12, <3>1 DEF IsEnd
    <3> QED
      BY <1>14, <3>2, <3>3
  <2> QED
    BY <1>14, <2>1, <2>2
<1>16. got' = got /\ line' = line /\ mine' = mine
  BY <1>7 DEF threads
<1>17. Talk(t)'
  <2>1. mine'[t] # << >>
    BY <1>2, <1>16 DEF Talk
  <2>2. \A d \in Range(got'[t]) \cup Range(line') : Own(t, d)' /\ ~IsEnd(d)
    BY <1>9, <1>10, <1>16
  <2> QED
    BY <1>7, <1>15, <2>1, <2>2 DEF Talk, IsEnd
<1> QED
  BY <1>1, <1>7, <1>8, <1>17, ModemTurn

LEMMA SendTurn ==
  ASSUME InTurns, TurnInv, Typed', ModemSends
  PROVE  TurnInv'
<1>1. PICK t \in Threads : Waiting(t)
  BY DEF ModemSends, TurnInv, Silent
<1>2. Talk(t)
  BY <1>1 DEF TurnInv, OneAnswer
<1> DEFINE d == Head(sending)
<1>3. /\ sending # << >> /\ line' = Append(line, d) /\ sending' = Tail(sending)
      /\ UNCHANGED <<threads, commands, radio, accepted>>
  BY DEF ModemSends
<1>4. sending \in Seq(Piece) /\ line \in Seq(Piece)
  BY DEF TurnInv, Typed, PortTyped
<1>5. /\ d \in Piece /\ Len(sending) \in Nat \ {0} /\ d = sending[1]
      /\ Len(sending') = Len(sending) - 1
      /\ \A i \in 1 .. Len(sending') : sending'[i] = sending[i + 1]
  BY <1>3, <1>4, HeadTailProperties, LenProperties, EmptySeq
<1> HIDE DEF d
<1>6. Range(line') = Range(line) \cup {d}
  <2>1. Append(line, d) = line \o <<d>>
    BY <1>4, <1>5, AppendIsConcat
  <2>2. <<d>> \in Seq(Piece)
    BY <1>5, ShortSeq
  <2>3. Range(line \o <<d>>) = Range(line) \cup Range(<<d>>)
    BY <1>4, <2>2, RangeConcatenation
  <2> QED
    BY <1>3, <2>1, <2>3, RangeShort
<1>7. got' = got /\ mine' = mine /\ op' = op /\ step' = step /\ commands' = commands
  BY <1>3 DEF threads
<1>8. \A e : Own(t, e) => Own(t, e)'
  BY <1>3, <1>7 DEF Own
<1>9. Own(t, d) /\ (IsEnd(d) => commands = << >> /\ Len(sending) = 1)
  BY <1>2, <1>5 DEF Talk
<1>10. \A e \in Range(got[t]) \cup Range(line) : Own(t, e) /\ ~IsEnd(e)
  BY <1>2, <1>3 DEF Talk
<1>11. Len(sending) = 1 => sending' = << >>
  <2>1. sending' \in Seq(Piece)
    BY DEF Typed, PortTyped
  <2> QED
    BY <1>5, <2>1, EmptySeq
<1>12. \A e \in Range(got'[t]) \cup Range(line') :
         Own(t, e)' /\ (IsEnd(e) => commands' = << >> /\ sending' = << >>)
  BY <1>6, <1>7, <1>8, <1>9, <1>10, <1>11
<1>13. \A i \in 1 .. Len(sending') :
         Own(t, sending[i])' /\ (IsEnd(sending[i])' => commands' = << >> /\ i = Len(sending'))
  <2> TAKE i \in 1 .. Len(sending')
  <2>1. i + 1 \in 1 .. Len(sending) /\ sending'[i] = sending[i + 1]
    BY <1>5
  <2>2. Own(t, sending[i + 1])
        /\ (IsEnd(sending[i + 1]) => commands = << >> /\ i + 1 = Len(sending))
    BY <1>2, <2>1 DEF Talk
  <2>3. Own(t, sending[i])'
    BY <1>3, <1>7, <2>1, <2>2 DEF Own
  <2>4. IsEnd(sending[i])' => commands' = << >> /\ i = Len(sending')
    BY <1>5, <1>7, <2>1, <2>2 DEF IsEnd
  <2> QED
    BY <2>3, <2>4
<1>14. Request(t)' = Request(t)
  BY <1>7 DEF Request
<1>15. Talk(t)'
  <2>1. /\ mine'[t] # << >>
        /\ \/ commands' = << >>
           \/ commands' = <<[cmd |-> Request(t)'.cmd, id |-> Last(mine'[t])]>>
    BY <1>2, <1>7, <1>14 DEF Talk
  <2> QED
    BY <1>12, <1>13, <2>1 DEF Talk, IsEnd
<1> QED
  BY <1>1, <1>3, <1>15, ModemTurn

LEMMA TurnStep == InTurns /\ TurnInv /\ [Next]_vars => TurnInv'
<1> SUFFICES ASSUME InTurns, TurnInv, [Next]_vars PROVE TurnInv'
  OBVIOUS
<1>1. Typed'
  BY TypedStep DEF TurnInv
<1>2. CASE UNCHANGED vars
  <2>1. \A t \in Threads : Talk(t) => Talk(t)'
    BY <1>2 DEF Talk, Own, Request, vars, port, threads
  <2>2. OneAnswer'
    BY <1>2, <2>1 DEF TurnInv, OneAnswer, Waiting, vars, threads
  <2>3. Exclusive' /\ Silent' /\ NothingRead' /\ ReadOwn' /\ Carried' /\ OwnAnswer'
    BY <1>2 DEF vars, port, threads, TurnInv, Exclusive, Active, Silent, NothingRead, Waiting,
                ReadOwn, Own, Carried, CarriedBy, OwnAnswer
  <2> QED
    BY <1>1, <2>2, <2>3 DEF TurnInv
<1>3. ASSUME NEW t \in Threads, Run(t) \/ Fails(t) \/ \E o \in Ops : Begin(t, o)
      PROVE TurnInv'
  BY <1>1, <1>3, BeginTurn, LockTurn, QuietSteps, WriteTurn, FlushTurn, ReadTurn,
     ExamineTurn, HwResetTurn DEF Run
<1> QED
  BY <1>1, <1>2, <1>3, AnswerTurn, SendTurn DEF Next, Modem

(* Threads that take turns at a modem which answers in time, none of which *)
(* calls get_RF_moduleInfo, the operation without the mutex: every result  *)
(* is taken from the answer to the command that was sent for it, whatever  *)
(* was refused, lost or cut off by a restart before (g_rf_mutex, and the   *)
(* reads that go on until OK, ERROR or silence).                           *)
THEOREM OwnAnswers == InTurns => (Spec => []OwnAnswer)
<1> SUFFICES ASSUME InTurns PROVE Spec => []OwnAnswer
  OBVIOUS
<1>1. TurnInv /\ [Next]_vars => TurnInv'
  BY TurnStep
<1>2. TurnInv => OwnAnswer
  BY DEF TurnInv
<1> QED
  BY TurnStart, <1>1, <1>2, PTL DEF Spec

(* Under the same premises an operation that sets something returns 0 only *)
(* when the modem has carried out each of its commands.                    *)
THEOREM SuccessIsDone == InTurns => (Spec => []OkMeansDone)
<1> SUFFICES ASSUME InTurns PROVE Spec => []OkMeansDone
  OBVIOUS
<1>1. TurnInv /\ [Next]_vars => TurnInv'
  BY TurnStep
<1>2. TurnInv => OkMeansDone
  <2> SUFFICES ASSUME TurnInv, NEW t \in Threads,
                      pc[t] = "idle", ret[t] = 0, AllOK(op[t])
               PROVE  Range(mine[t]) \subseteq accepted
    BY DEF OkMeansDone
  <2>1. \A i \in 1 .. Len(mine[t]) : mine[t][i] \in accepted
    BY DEF TurnInv, Carried, CarriedBy
  <2>2. DOMAIN mine[t] = 1 .. Len(mine[t])
    BY LenProperties DEF TurnInv, Typed, ThreadsTyped
  <2> QED
    BY <2>1, <2>2 DEF Range
<1> QED
  BY TurnStart, <1>1, <1>2, PTL DEF Spec

(* rf_cfun_reset reports success with the radio on: nobody comes between   *)
(* its two commands, and a refused AT+CFUN=1 is no success.                *)
LEMMA RadioBackHolds == InTurns /\ TurnInv /\ [Next]_vars => RadioBackStep
<1> SUFFICES ASSUME InTurns, TurnInv, [Next]_vars, NEW t \in Threads,
                    pc[t] = "examine", pc'[t] = "idle", op[t] = "rf_cfun_reset", ret'[t] = 0
             PROVE  radio'
  BY DEF RadioBackStep
<1>0. Typed /\ pc \in [Threads -> Labels]
  BY DEF TurnInv, Typed, ThreadsTyped
<1>1. Examine(t)
  <2>1. pc' # pc
    OBVIOUS
  <2>2. \A s \in Threads \ {t} : \A l : pc' # [pc EXCEPT ![s] = l]
    BY <1>0
  <2>3. ~UNCHANGED vars /\ ~Modem
    BY <2>1 DEF vars, threads, Modem, ModemAnswers, ModemSends
  <2>4. ASSUME NEW s \in Threads, Run(s) \/ Fails(s) \/ \E o \in Ops : Begin(s, o)
        PROVE  s = t
    BY <2>2, <2>4 DEF Run, Fails, Begin, Lock, Open, Write, Flush, Read, Silence, Examine,
                   HwReset, GoTo
  <2>5. ~(Fails(t) \/ \E o \in Ops : Begin(t, o)) /\ (Run(t) => Examine(t))
    BY DEF Run, Fails, Begin, Lock, Open, Write, Flush, Read, Silence, HwReset
  <2> QED
    BY <2>3, <2>4, <2>5 DEF Next
<1>2. Requests[op[t]] = <<Ask("AT+CFUN=0", "OK", 0), Ask("AT+CFUN=1", "OK", 0)>>
  BY ResetCfunRequests
<1>3. AllOK(op[t])
  BY <1>2 DEF AllOK, Ask
<1>4. HasOK(got[t]) /\ Satisfied(Request(t), got[t])
  BY <1>1, <1>3, ExamineCarried
<1>5. step[t] \in 1 .. 2 /\ Len(Requests[op[t]]) = 2
  BY <1>0, <1>2, RequestTyped
<1>6. pc' = [pc EXCEPT ![t] = IF step[t] + 1 \in 1 .. 2 THEN "open" ELSE "idle"]
  BY <1>1, <1>4, <1>5 DEF Examine, GoTo
<1>7. step[t] = 2
  BY <1>0, <1>5, <1>6
<1>8. PICK c \in Range(got[t]) : c.part = "OK"
  BY <1>4 DEF HasOK
<1>9. radio
  BY <1>7, <1>8 DEF TurnInv, ReadOwn, Own
<1> QED
  BY <1>1, <1>9 DEF Examine, port

(* Under the same premises rf_cfun_reset returns 0 only with the radio on, *)
(* which it has switched off before (rf_quectel.c, rf_lynq.c).             *)
THEOREM RadioIsBack == InTurns => (Spec => RadioBack)
<1> SUFFICES ASSUME InTurns PROVE Spec => RadioBack
  OBVIOUS
<1>1. TurnInv /\ [Next]_vars => TurnInv'
  BY TurnStep
<1>2. TurnInv /\ [Next]_vars => [RadioBackStep]_vars
  BY RadioBackHolds
<1> QED
  BY TurnStart, <1>1, <1>2, PTL DEF Spec, RadioBack
=============================================================================
