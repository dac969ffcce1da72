--------------------------- MODULE ModemRequests ---------------------------
(* AT commands of the radio modem (common/utils/rf).  Each operation of    *)
(* rf_common.c sends one or more commands over a serial port and looks at  *)
(* what comes back; nothing in an answer says which command it is for.     *)
(* Threads of one process share g_rf_mutex, all processes share the port.  *)
EXTENDS Integers, Sequences, SequencesExt, FiniteSets

CONSTANTS
  Threads,      \* threads that call the library
  Process,      \* the process each thread belongs to
  Nobody,       \* holds a mutex that is free
  Ops,          \* operations they call
  Quectel,      \* whether the modem is a Quectel (else a Lynq)
  Echoes,       \* whether the modem sends back the commands it is sent (ATE1)
  Slow,         \* whether an answer may take longer than a request waits
  MaxOps        \* bound: how many operations a thread calls

Processes == {Process[t] : t \in Threads}

(* One request of an operation: the command, what the caller demands of    *)
(* the answer, and where it goes on otherwise: so many requests further,   *)
(* or nowhere (0), which ends the operation.                               *)
Ask(cmd, demand, otherwise) ==
  [cmd |-> cmd, demand |-> demand, otherwise |-> otherwise]

Once(cmd, demand) == <<Ask(cmd, demand, 0)>>

-----------------------------------------------------------------------------
(* rf_quectel.c.                                                           *)

QuectelInfo ==
  <<Ask("ATI", "leading body", 0), Ask("AT+GSN", "anything first", 0),
    Ask("AT+CGSN", "anything first", 0), Ask("AT+QSIMSTAT?", "OK and body", 0)>>

(* Without an answer to AT+QCSQ, AT+CSQ is not asked.                      *)
QuectelSystem == <<Ask("AT+QCSQ", "OK and body", 2), Ask("AT+CSQ", "OK and body", 1)>>
QuectelNetwork == <<Ask("AT+QNWINFO", "OK and body", 1)>>
QuectelPin == <<Ask("AT+CPIN?", "OK and body", 1)>>
QuectelOperator == <<Ask("AT+COPS?", "OK and body", 1)>>
QuectelMode == Once("AT+QCSQ", "OK and body")

QuectelSignal ==
  <<Ask("AT+QCSQ", "OK and body", 1)>> \o QuectelNetwork \o QuectelPin
    \o QuectelSystem \o QuectelOperator

QuectelResetCfun == <<Ask("AT+CFUN=0", "OK", 0), Ask("AT+CFUN=1", "OK", 0)>>

(* What SIM detection and the scan mode have in common: set and OK.        *)
QuectelSimDetect == Once("AT+QSIMDET", "OK")
QuectelScanMode == Once("AT+QCFG", "OK")
QuectelSoftReset == Once("AT+QPOWD", "OK")

(* These callers do not look for OK.                                       *)
QuectelGetCfun == Once("AT+CFUN?", "body")
QuectelGetCpin == Once("AT+CPIN?", "body")
QuectelGetCreg == Once("AT+CREG?", "body")

(* rf_lynq.c.  sscanf wants the answer at the very beginning.              *)
LynqInfo == <<Ask("ATI", "body", 0), Ask("AT+CICCID", "body first", 0)>>
LynqSystem == <<Ask("AT+CPSI?", "body", 0)>>
LynqPin == <<Ask("AT+CPIN?", "body first", 1)>>
LynqLevel == <<Ask("AT+MCSQ", "body first", 1)>>
LynqSignal == LynqSystem \o LynqPin \o LynqLevel
LynqSoftReset == Once("AT+CRESET", "OK")

(* Mutant of LynqResetCfun: on before off.                                 *)
LynqResetSwapped == <<Ask("AT+CFUN=1", "OK", 0), Ask("AT+CFUN=0", "OK", 0)>>

LynqResetCfun == QuectelResetCfun
LynqGetCfun == Once("AT+CFUN?", "body first")
LynqGetCpin == Once("AT+CPIN?", "anything")
LynqGetCreg == Once("AT+CREG?", "body")

(* rf_common.c: the requests an operation makes of either modem, none when *)
(* the modem does not have it.                                             *)
Of(quectel, lynq) == IF Quectel THEN quectel ELSE lynq

InfoRequests ==
  [get_RF_moduleInfo    |-> Of(QuectelInfo, LynqInfo),
   update_RF_signalInfo |-> Of(QuectelSignal, LynqSignal)]

StateRequests ==
  [rf_get_cfun    |-> Of(QuectelGetCfun, LynqGetCfun),
   rf_get_cpin    |-> Of(QuectelGetCpin, LynqGetCpin),
   rf_get_creg    |-> Of(QuectelGetCreg, LynqGetCreg),
   rf_get_nwmode  |-> Of(QuectelMode, << >>),
   rf_nw_scanmode |-> Of(QuectelScanMode, << >>),
   rf_sim_detect  |-> Of(QuectelSimDetect, << >>)]

DirectRequests ==
  [find_RF_manufacture |-> Once("ATI", "body"),
   rf_at_test          |-> Once("AT+GMI=?", "OK"),
   rf_at_cmd           |-> Once("AT*", "anything")]

ResetRequests ==
  [rf_soft_reset |-> Of(QuectelSoftReset, LynqSoftReset),
   rf_cfun_reset |-> Of(QuectelResetCfun, LynqResetCfun),
   N1_RF_hwreset |-> << >>]

AllOps == DOMAIN InfoRequests \cup DOMAIN StateRequests \cup DOMAIN DirectRequests
            \cup DOMAIN ResetRequests

Requests ==
  [o \in AllOps |->
     CASE o \in DOMAIN InfoRequests   -> InfoRequests[o]
       [] o \in DOMAIN StateRequests  -> StateRequests[o]
       [] o \in DOMAIN DirectRequests -> DirectRequests[o]
       [] o \in DOMAIN ResetRequests  -> ResetRequests[o]]

ASSUME OpsAssumption == Ops # {} /\ Ops \subseteq AllOps /\ Nobody \notin Threads

(* get_RF_moduleInfo is the one operation that does not take the mutex.    *)
Locked(o) == o # "get_RF_moduleInfo"

(* ret is never assigned on these paths.                                   *)
AlwaysFails(o) ==
  \/ Quectel /\ o = "update_RF_signalInfo"
  \/ ~Quectel /\ o = "get_RF_moduleInfo"

(* Commands the modem only answers with OK or ERROR.                       *)
Plain == {"AT+CFUN=0", "AT+CFUN=1", "AT+QSIMDET", "AT+QCFG", "AT+GMI=?",
          "AT+QPOWD", "AT+CRESET"}
-----------------------------------------------------------------------------
VARIABLES
  holder,       \* per process: the thread that holds g_rf_mutex
  pc,           \* where a thread is
  op, step,     \* its operation, or the last one, and the request it is at
  got,          \* resp_: what the request at hand has read
  rounds,       \* cnt of rf_read
  ret,          \* what the operation returns
  calls,        \* how many operations a thread has called
  line,         \* input queue of the serial port
  sent,         \* number of commands sent by all
  commands,     \* commands the modem has still to answer
  sending,      \* what it has still to send of the answer it is at
  on, radio,    \* whether the modem runs, whether its radio does
  accepted,     \* history: numbers of the commands answered with OK
  mine,         \* history: numbers of the commands of the operation at hand
  taken,        \* history: the result last taken from an answer, as <<result>>
  known         \* history: its commands whose results are what the modem answered

port == <<line, sent, commands, sending, on, radio, accepted>>
threads == <<holder, pc, op, step, got, rounds, ret, calls, mine, taken, known>>
vars == <<port, threads>>

MaxSent == Cardinality(Threads) * MaxOps * 6
Ids == 1 .. MaxSent
Chunks == [part : {"echo", "body", "OK", "ERROR"}, cmd : STRING, id : Ids]

TypeOK ==
  /\ holder \in [Processes -> Threads \cup {Nobody}]
  /\ pc \in [Threads -> {"idle", "lock", "open", "write", "flush", "read", "examine"}]
  /\ op \in [Threads -> Ops] /\ step \in [Threads -> 1 .. 6]
  /\ \A t \in Threads : \A i \in 1 .. Len(got[t]) : got[t][i] \in Chunks
  /\ rounds \in [Threads -> 0 .. 3] /\ ret \in [Threads -> {-1, 0, 1}]
  /\ calls \in [Threads -> 0 .. MaxOps]
  /\ \A i \in 1 .. Len(line) : line[i] \in Chunks
  /\ \A i \in 1 .. Len(sending) : sending[i] \in Chunks
  /\ \A i \in 1 .. Len(commands) : commands[i].id \in Ids
  /\ sent \in 0 .. MaxSent /\ on \in BOOLEAN /\ radio \in BOOLEAN
  /\ accepted \subseteq Ids /\ \A t \in Threads : Range(mine[t]) \subseteq Ids
  /\ \A t \in Threads : \A f \in Range(taken[t]) : f.id \in Ids /\ f.from \in Chunks
  /\ known \in [Threads -> SUBSET STRING]

Init ==
  /\ holder = [p \in Processes |-> Nobody]
  /\ pc = [t \in Threads |-> "idle"]
  /\ op \in [Threads -> {CHOOSE o \in Ops : TRUE}]
  /\ step = [t \in Threads |-> 1]
  /\ got = [t \in Threads |-> << >>]
  /\ rounds = [t \in Threads |-> 0]
  /\ ret = [t \in Threads |-> -1]
  /\ calls = [t \in Threads |-> 0]
  /\ line = << >> /\ sent = 0 /\ commands = << >> /\ sending = << >>
  /\ on = TRUE /\ radio = TRUE /\ accepted = {}
  /\ mine = [t \in Threads |-> << >>]
  /\ taken = [t \in Threads |-> << >>]
  /\ known = [t \in Threads |-> {}]
-----------------------------------------------------------------------------
(* A thread.                                                               *)

Request(t) == Requests[op[t]][step[t]]

GoTo(t, label) == pc' = [pc EXCEPT ![t] = label]

Begin(t, o) ==
  /\ pc[t] = "idle" /\ calls[t] < MaxOps
  /\ Requests[o] # << >> \/ o = "N1_RF_hwreset"
  /\ calls' = [calls EXCEPT ![t] = @ + 1]
  /\ op' = [op EXCEPT ![t] = o] /\ step' = [step EXCEPT ![t] = 1]
  /\ ret' = [ret EXCEPT ![t] = -1]
  /\ mine' = [mine EXCEPT ![t] = << >>]
  /\ taken' = [taken EXCEPT ![t] = << >>] /\ known' = [known EXCEPT ![t] = {}]
  /\ GoTo(t, IF Locked(o) THEN "lock" ELSE "open")
  /\ UNCHANGED <<port, holder, got, rounds>>

(* Mutant of Lock: the mutex excludes nobody.                              *)
LockNothing(t) ==
  /\ pc[t] = "lock"
  /\ GoTo(t, "open")
  /\ UNCHANGED <<port, holder, op, step, got, rounds, ret, calls, mine, taken, known>>

Lock(t) ==
  /\ pc[t] = "lock" /\ holder[Process[t]] = Nobody
  /\ holder' = [holder EXCEPT ![Process[t]] = t]
  /\ GoTo(t, "open")
  /\ UNCHANGED <<port, op, step, got, rounds, ret, calls, mine, taken, known>>

(* OpenSerial and SetSerial: what the port has received so far is thrown   *)
(* away.                                                                   *)
Open(t) ==
  /\ pc[t] = "open" /\ Requests[op[t]] # << >>
  /\ line' = << >>
  /\ got' = [got EXCEPT ![t] = << >>] /\ rounds' = [rounds EXCEPT ![t] = 0]
  /\ GoTo(t, "write")
  /\ UNCHANGED <<holder, op, step, ret, calls, sent, commands, sending, on,
                 radio, accepted, mine, taken, known>>

(* open or write fails: nothing was sent and nothing is read.              *)
Fails(t) ==
  /\ pc[t] \in {"open", "write"} /\ Requests[op[t]] # << >>
  /\ got' = [got EXCEPT ![t] = << >>]
  /\ GoTo(t, "examine")
  /\ UNCHANGED <<port, holder, op, step, rounds, ret, calls, mine, taken, known>>

Write(t) ==
  /\ pc[t] = "write"
  /\ sent' = sent + 1
  /\ commands' = IF on THEN Append(commands, [cmd |-> Request(t).cmd, id |-> sent + 1])
                 ELSE commands
  /\ sending' = IF on /\ Echoes
                THEN Append(sending, [part |-> "echo", cmd |-> Request(t).cmd, id |-> sent + 1])
                ELSE sending
  /\ mine' = [mine EXCEPT ![t] = Append(@, sent + 1)]
  /\ GoTo(t, "flush")
  /\ UNCHANGED <<holder, op, step, got, rounds, ret, calls, line, on, radio,
                 accepted, taken, known>>

(* rf_write ends with a tcflush, which may also hit the answer.            *)
Flush(t) ==
  /\ pc[t] = "flush"
  /\ line' = << >>
  /\ GoTo(t, "read")
  /\ UNCHANGED <<holder, op, step, got, rounds, ret, calls, sent, commands,
                 sending, on, radio, accepted, mine, taken, known>>

Ended(chunks) == \E c \in Range(chunks) : c.part \in {"OK", "ERROR"}

(* read returns what there is; the request ends with OK or ERROR in it.    *)
(* (rf_read also begins a new round after ten reads; no answer has so many *)
(* pieces.)                                                                *)
Read(t) ==
  /\ pc[t] = "read" /\ line # << >>
  /\ got' = [got EXCEPT ![t] = @ \o line]
  /\ line' = << >>
  /\ GoTo(t, IF Ended(got'[t]) THEN "examine" ELSE "read")
  /\ UNCHANGED <<holder, op, step, rounds, ret, calls, sent, commands, sending,
                 on, radio, accepted, mine, taken, known>>

ModemQuiet == commands = << >> /\ sending = << >>

(* Mutant of Silence: a silent round is not counted.                       *)
SilenceUncounted(t) ==
  /\ pc[t] = "read" /\ line = << >> /\ (Slow \/ ModemQuiet)
  /\ GoTo(t, "read")
  /\ UNCHANGED <<port, holder, op, step, got, rounds, ret, calls, mine, taken, known>>

(* read returns 0 after a second without input; three such rounds and the  *)
(* request ends with what it has.                                          *)
Silence(t) ==
  /\ pc[t] = "read" /\ line = << >> /\ (Slow \/ ModemQuiet)
  /\ rounds' = [rounds EXCEPT ![t] = @ + 1]
  /\ GoTo(t, IF rounds[t] + 1 = 3 THEN "examine" ELSE "read")
  /\ UNCHANGED <<port, holder, op, step, got, ret, calls, mine, taken, known>>

(* What a caller makes of resp_.                                           *)
HasOK(chunks) == \E c \in Range(chunks) : c.part = "OK"
IsBody(c, cmd) == c.part = "body" /\ c.cmd = cmd
HasBody(chunks, cmd) == \E c \in Range(chunks) : IsBody(c, cmd)
FirstBody(chunks, cmd) ==
  CHOOSE i \in DOMAIN chunks :
    IsBody(chunks[i], cmd) /\ \A j \in 1 .. i - 1 : ~IsBody(chunks[j], cmd)

(* The echo of ATI is skipped when resp_ begins with it.                   *)
EchoFirst(chunks, cmd) ==
  chunks # << >> /\ Head(chunks).part = "echo" /\ Head(chunks).cmd = cmd
AfterEcho(chunks, cmd) == IF EchoFirst(chunks, cmd) THEN Tail(chunks) ELSE chunks

(* Mutant of Satisfied: any end of an answer will do.                      *)
SatisfiedByError(r, chunks) ==
  IF r.demand = "OK" THEN Ended(chunks) ELSE HasBody(chunks, r.cmd)

(* What the caller demands.  "AT+GSN\n\r", which the callers of "anything  *)
(* first" look for, is not the echo of the "AT+GSN\r\n" they send: they    *)
(* always take the first word there is.                                    *)
Satisfied(r, chunks) ==
  CASE r.demand = "OK" -> HasOK(chunks)
    [] r.demand = "OK and body" -> HasOK(chunks) /\ HasBody(chunks, r.cmd)
    [] r.demand = "body" -> HasBody(chunks, r.cmd)
    [] r.demand = "body first" -> chunks # << >> /\ IsBody(Head(chunks), r.cmd)
    [] r.demand = "leading body" ->
         /\ HasOK(chunks) /\ AfterEcho(chunks, r.cmd) # << >>
         /\ IsBody(Head(AfterEcho(chunks, r.cmd)), r.cmd)
    [] r.demand = "anything first" -> HasOK(chunks)
    [] r.demand = "anything" -> chunks # << >>

(* Mutant of Source: the first thing in the answer.                        *)
SourceFirst(r, chunks) == Head(chunks)

(* The piece of the answer a result is taken from.                         *)
Source(r, chunks) ==
  IF r.demand \in {"anything first", "anything", "OK"} THEN Head(chunks)
  ELSE chunks[FirstBody(chunks, r.cmd)]

(* get_RF_DeviceInfo_QUECTEL keeps the result of strncmp(response, "ATI")  *)
(* in ret and returns it on every later path.                              *)
Result(t, good) ==
  IF Quectel /\ op[t] = "get_RF_moduleInfo"
    THEN IF step[t] > 1 THEN ret[t]
         ELSE IF ~HasOK(got[t]) THEN -1
         ELSE IF EchoFirst(got[t], "ATI") THEN 0 ELSE 1
  ELSE IF AlwaysFails(op[t]) \/ ~good THEN -1 ELSE 0

(* The end of a request: the next one, or the end of the operation, which  *)
(* gives the mutex back on every path.                                     *)
Examine(t) ==
  LET r == Request(t)
      good == Satisfied(r, got[t])
      next == IF good THEN step[t] + 1
              ELSE IF r.otherwise = 0 THEN 0 ELSE step[t] + r.otherwise
      goesOn == next \in 1 .. Len(Requests[op[t]])
  IN
  /\ pc[t] = "examine"
  /\ taken' = [taken EXCEPT ![t] =
       IF good THEN <<[id |-> Last(mine[t]), cmd |-> r.cmd, demand |-> r.demand,
                       from |-> Source(r, got[t])]>>
       ELSE << >>]
  /\ known' = [known EXCEPT ![t] =
       IF good /\ IsBody(Source(r, got[t]), r.cmd) THEN @ \cup {r.cmd} ELSE @]
  /\ ret' = [ret EXCEPT ![t] = Result(t, next # 0)]
  /\ step' = IF goesOn THEN [step EXCEPT ![t] = next] ELSE step
  /\ GoTo(t, IF goesOn THEN "open" ELSE "idle")
  /\ holder' = IF goesOn \/ ~Locked(op[t]) THEN holder
               ELSE [holder EXCEPT ![Process[t]] = Nobody]
  /\ got' = [got EXCEPT ![t] = << >>]
  /\ rounds' = [rounds EXCEPT ![t] = 0]
  /\ UNCHANGED <<port, op, calls, mine>>

(* N1_RF_hwreset: off and on again by GPIO; reset_rf does not look at what *)
(* its two halves return: 0 although the modem stayed off, or stayed as it *)
(* was.  It is -1 when the pin cannot be set up.                           *)
HwReset(t) ==
  /\ pc[t] = "open" /\ Requests[op[t]] = << >>
  /\ \/ /\ on' \in BOOLEAN /\ radio' = on'
        /\ commands' = << >> /\ sending' = << >>
        /\ ret' = [ret EXCEPT ![t] = 0]
     \/ /\ UNCHANGED <<on, radio, commands, sending>>
        /\ \E r \in {-1, 0} : ret' = [ret EXCEPT ![t] = r]
  /\ holder' = [holder EXCEPT ![Process[t]] = Nobody]
  /\ GoTo(t, "idle")
  /\ UNCHANGED <<op, step, got, rounds, calls, line, sent, accepted, mine, taken, known>>

Run(t) ==
  \/ Lock(t) \/ Open(t) \/ Write(t) \/ Flush(t) \/ Read(t) \/ Silence(t)
  \/ Examine(t) \/ HwReset(t)
-----------------------------------------------------------------------------
(* The modem.                                                              *)

(* It carries out one command after the other, or refuses it.              *)
ModemAnswers ==
  /\ commands # << >>
  /\ \E ok \in BOOLEAN :
       LET c == Head(commands)
           Piece(part) == [part |-> part, cmd |-> c.cmd, id |-> c.id]
           restarts == ok /\ c.cmd \in {"AT+QPOWD", "AT+CRESET"}
       IN
       /\ sending' = sending \o
            IF ~ok THEN <<Piece("ERROR")>>
            ELSE IF c.cmd \in Plain THEN <<Piece("OK")>>
            ELSE <<Piece("body"), Piece("OK")>>
       /\ commands' = IF restarts THEN << >> ELSE Tail(commands)
       /\ on' = (on /\ ~(ok /\ c.cmd = "AT+QPOWD"))
       /\ radio' = IF ok /\ c.cmd = "AT+CFUN=0" THEN FALSE
                   ELSE IF ok /\ c.cmd \in {"AT+CFUN=1", "AT+CRESET"} THEN TRUE
                   ELSE radio
       /\ accepted' = IF ok THEN accepted \cup {c.id} ELSE accepted
  /\ UNCHANGED <<threads, line, sent>>

ModemSends ==
  /\ sending # << >>
  /\ line' = Append(line, Head(sending)) /\ sending' = Tail(sending)
  /\ UNCHANGED <<threads, sent, commands, on, radio, accepted>>

Modem == ModemAnswers \/ ModemSends

Next ==
  \/ \E t \in Threads : Run(t) \/ Fails(t) \/ \E o \in Ops : Begin(t, o)
  \/ Modem

(* Threads run and the modem answers in the end; nobody has to call.       *)
Fairness == WF_vars(Modem) /\ \A t \in Threads : WF_vars(Run(t))

Spec == Init /\ [][Next]_vars /\ Fairness
-----------------------------------------------------------------------------
(* Every result is taken from the answer to the command that was sent for  *)
(* it: threads that take turns at the port, and requests that give up or   *)
(* fail half way, never leave an answer behind for the next (the flush in  *)
(* SetSerial, g_rf_mutex).                                                 *)
OwnAnswer == \A t \in Threads : \A f \in Range(taken[t]) : f.from.id = f.id

(* The operations whose every command has to be carried out.               *)
AllOK(o) == \A i \in DOMAIN Requests[o] : Requests[o][i].demand = "OK"

(* An operation that sets something returns 0 only when the modem has      *)
(* carried out each of its commands ("0, if okay", rf_common.c:580).       *)
OkMeansDone ==
  \A t \in Threads :
    pc[t] = "idle" /\ ret[t] = 0 /\ AllOK(op[t]) => Range(mine[t]) \subseteq accepted

(* When rf_cfun_reset reports success the radio is on: nobody came between *)
(* its two commands.                                                       *)
RadioBackStep ==
  \A t \in Threads :
    pc[t] = "examine" /\ pc'[t] = "idle" /\ op[t] = "rf_cfun_reset" /\ ret'[t] = 0
    => radio'
RadioBack == [][RadioBackStep]_vars

(* A result with a name of its own in the answer ("+CPIN:") is never taken *)
(* from the answer to another command, however late the modem is and       *)
(* whoever else uses the port.                                             *)
SameCommand ==
  \A t \in Threads : \A f \in Range(taken[t]) :
    f.demand \in {"OK and body", "body", "body first", "leading body"}
    => f.from.part = "body" /\ f.from.cmd = f.cmd

(* What get_RF_moduleInfo reports as read when it returns 0 is what the    *)
(* modem answered, for each of its questions.                              *)
InfoComplete ==
  \A t \in Threads :
    pc[t] = "idle" /\ calls[t] > 0 /\ op[t] = "get_RF_moduleInfo" /\ ret[t] = 0
    => \A i \in DOMAIN Requests[op[t]] : Requests[op[t]][i].cmd \in known[t]

(* Every operation ends, with a modem that is silent, switched off or busy *)
(* with the commands of others, and the mutex does not stay behind.        *)
Returned(t) == pc[t] = "idle" /\ holder[Process[t]] # t
Returns == \A t \in Threads : pc[t] # "idle" ~> Returned(t)
=============================================================================
