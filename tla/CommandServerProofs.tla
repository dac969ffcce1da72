------------------------- MODULE CommandServerProofs -------------------------
(* Proofs about CommandServer, for any number of clients, any requests     *)
(* and any length of the queue: the types, that each client that has sent  *)
(* something has one line when the server closes, the answer to its own    *)
(* request, and that nobody ends the daemon but a client that leaves with  *)
(* the answer before the line end is written.                              *)
(*                                                                         *)
(* The inductive invariant follows a connection: it is in the queue once,  *)
(* then served, then ended.  LineInv follows what is written to it, and    *)
(* LeaveInv when its client may have left.                                 *)
EXTENDS CommandServer, SequenceTheorems, TLAPS

(* A connection that waits is nowhere else, and neither side of it that    *)
(* waits or is served has been closed by the server.                       *)
QueueInv ==
  /\ \A j, k \in 1 .. Len(waiting) : waiting[j] = waiting[k] => j = k
  /\ \A k \in 1 .. Len(waiting) :
       ~ended[waiting[k]] /\ place[waiting[k]] # "away" /\ waiting[k] # current
  /\ current # NoClient => ~ended[current] /\ place[current] # "away"
  /\ \A c \in Clients : ended[c] => place[c] # "away"

IInv == TypeOK /\ QueueInv
-----------------------------------------------------------------------------
LEMMA ReplyTypes ==
  /\ \A r \in Requests \cup {NoRequest} : Reply(r) \in Replies
  /\ Unknown \in Replies /\ Silence \in Replies
BY DEF Replies, Reply

(* A write adds a piece to what the current client has to read, if at all. *)
LEMMA WriteTypes ==
  ASSUME TypeOK, server \in {"answer", "newline"},
         NEW piece \in Replies \cup {Newline}, NEW next, WriteThen(piece, next)
  PROVE  outbox' \in [Clients -> Seq(Replies \cup {Newline})]
<1>1. CASE UNCHANGED outbox
  BY <1>1 DEF TypeOK
<1>2. CASE outbox' = [outbox EXCEPT ![current] = Append(@, piece)]
  <2>1. outbox[current] \in Seq(Replies \cup {Newline}) /\ current \in Clients
    BY DEF TypeOK
  <2>2. Append(outbox[current], piece) \in Seq(Replies \cup {Newline})
    BY <2>1
  <2> QED
    BY <1>2, <2>1, <2>2 DEF TypeOK
<1> QED
  BY <1>1, <1>2 DEF WriteThen

LEMMA TypeStep ==
  ASSUME TypeOK, [Next]_vars
  PROVE  TypeOK'
<1>1. CASE Accept
  BY <1>1, ReplyTypes, ClientAssumption
  DEF Accept, clientVars, TypeOK
<1>2. CASE Recv
  BY <1>2, ReplyTypes, ClientAssumption
  DEF Recv, clientVars, TypeOK
<1>3. CASE Answer
  <2>1. outbox' \in [Clients -> Seq(Replies \cup {Newline})]
    BY <1>3, WriteTypes DEF Answer, TypeOK
  <2> QED
    BY <1>3, <2>1, ClientAssumption DEF Answer, clientVars, TypeOK, WriteThen
<1>4. CASE EndLine
  <2>1. outbox' \in [Clients -> Seq(Replies \cup {Newline})]
    BY <1>4, WriteTypes DEF EndLine, TypeOK
  <2> QED
    BY <1>4, <2>1, ClientAssumption DEF EndLine, clientVars, TypeOK, WriteThen
<1>5. CASE Close
  BY <1>5, ReplyTypes, ClientAssumption
  DEF Close, clientVars, TypeOK
<1>6. ASSUME NEW c \in Clients, Send(c) PROVE TypeOK'
  BY <1>6, ReplyTypes, ClientAssumption
  DEF Send, TypeOK
<1>7. ASSUME NEW c \in Clients, Read(c) PROVE TypeOK'
  BY <1>7, ReplyTypes, ClientAssumption
  DEF Read, TypeOK
<1>8. ASSUME NEW c \in Clients, Leave(c) PROVE TypeOK'
  BY <1>8, ReplyTypes, ClientAssumption
  DEF Leave, TypeOK
<1>9. ASSUME NEW c \in Clients, Forget(c) PROVE TypeOK'
  BY <1>9, ReplyTypes, ClientAssumption
  DEF Forget, TypeOK
<1>10. ASSUME NEW c \in Clients, NEW r \in Requests \cup {NoRequest}, Connect(c, r)
      PROVE  TypeOK'
  BY <1>10, ReplyTypes, ClientAssumption
  DEF Connect, TypeOK
<1>11. CASE UNCHANGED vars
  BY <1>11, ReplyTypes, ClientAssumption DEF vars, TypeOK
<1> QED
  BY <1>1, <1>2, <1>3, <1>4, <1>5, <1>6, <1>7, <1>8, <1>9, <1>10, <1>11 DEF Next, Server, Proceed

LEMMA QueueStep ==
  ASSUME TypeOK, QueueInv, [Next]_vars
  PROVE  QueueInv'
<1>1. CASE Accept
  <2>1. /\ Len(waiting) \in Nat /\ Len(waiting) >= 1
        /\ current = NoClient /\ current' = waiting[1] /\ current' \in Clients
        /\ Len(waiting') = Len(waiting) - 1
        /\ \A k \in 1 .. Len(waiting') : waiting'[k] = waiting[k + 1]
        /\ UNCHANGED <<ended, place>>
    BY <1>1 DEF Accept, clientVars, TypeOK
  <2>2. \A k \in 1 .. Len(waiting') : k + 1 \in 1 .. Len(waiting) /\ k + 1 # 1
    BY <2>1
  <2>3. \A j, k \in 1 .. Len(waiting') : waiting'[j] = waiting'[k] => j = k
    <3>1. \A j, k \in 1 .. Len(waiting') : j + 1 = k + 1 => j = k
      OBVIOUS
    <3> QED
      BY <2>1, <2>2, <3>1 DEF QueueInv
  <2>4. \A k \in 1 .. Len(waiting') : waiting'[k] # current'
    BY <2>1, <2>2 DEF QueueInv
  <2>5. \A k \in 1 .. Len(waiting') :
          ~ended'[waiting'[k]] /\ place'[waiting'[k]] # "away"
    BY <2>1, <2>2 DEF QueueInv
  <2>6. ~ended'[current'] /\ place'[current'] # "away"
    BY <2>1 DEF QueueInv
  <2> QED
    BY <2>1, <2>3, <2>4, <2>5, <2>6 DEF QueueInv
<1>2. CASE Recv
  BY <1>2, ClientAssumption
  DEF Recv, clientVars, TypeOK, QueueInv
<1>3. CASE Answer
  BY <1>3, ClientAssumption
  DEF Answer, clientVars, TypeOK, QueueInv, WriteThen
<1>4. CASE EndLine
  BY <1>4, ClientAssumption
  DEF EndLine, clientVars, TypeOK, QueueInv, WriteThen
<1>5. CASE Close
  BY <1>5, ClientAssumption
  DEF Close, clientVars, TypeOK, QueueInv
<1>6. ASSUME NEW c \in Clients, Send(c) PROVE QueueInv'
  BY <1>6, ClientAssumption
  DEF Send, TypeOK, QueueInv
<1>7. ASSUME NEW c \in Clients, Read(c) PROVE QueueInv'
  BY <1>7, ClientAssumption
  DEF Read, TypeOK, QueueInv
<1>8. ASSUME NEW c \in Clients, Leave(c) PROVE QueueInv'
  BY <1>8, ClientAssumption
  DEF Leave, TypeOK, QueueInv
<1>9. ASSUME NEW c \in Clients, Forget(c) PROVE QueueInv'
  BY <1>9, ClientAssumption
  DEF Forget, TypeOK, QueueInv
<1>10. ASSUME NEW c \in Clients, NEW r \in Requests \cup {NoRequest}, Connect(c, r)
      PROVE  QueueInv'
  <2>1. /\ c # current /\ ~ended[c]
        /\ \A k \in 1 .. Len(waiting) : waiting[k] # c
    BY <1>10, ClientAssumption DEF Connect, TypeOK, QueueInv
  <2> QED
    BY <1>10, <2>1, ClientAssumption DEF Connect, TypeOK, QueueInv
<1>11. CASE UNCHANGED vars
  BY <1>11, ClientAssumption DEF vars, TypeOK, QueueInv
<1> QED
  BY <1>1, <1>2, <1>3, <1>4, <1>5, <1>6, <1>7, <1>8, <1>9, <1>10, <1>11 DEF Next, Server, Proceed

-----------------------------------------------------------------------------
LEMMA InitInvariant == Init => IInv
<1> SUFFICES ASSUME Init PROVE IInv
  OBVIOUS
<1>1. TypeOK
  BY ReplyTypes, ClientAssumption DEF Init, TypeOK
<1> QED
  BY <1>1 DEF Init, IInv, QueueInv

LEMMA Invariant == Spec => []IInv
<1>1. IInv /\ [Next]_vars => IInv'
  BY TypeStep, QueueStep DEF IInv
<1> QED
  BY <1>1, InitInvariant, PTL DEF Spec

(* Every variable keeps its type, for any clients and requests.            *)
THEOREM TypeCorrect == Spec => []TypeOK
<1>1. IInv => TypeOK
  BY DEF IInv
<1> QED
  BY <1>1, Invariant, PTL

-----------------------------------------------------------------------------
(* What the handlers answer: nothing only to a request they forget, and    *)
(* otherwise something about the module and the action of the request,     *)
(* which confirms no setting that it does not have.                        *)
Speaks(answer, r) ==
  /\ answer # Silence
  /\ answer.module = r.module /\ answer.action = r.action
  /\ answer.state = "success" /\ r.action = "set" => answer.data \subseteq r.fields

LEMMA SpokenAnswers ==
  ASSUME NEW r
  PROVE  /\ \A data : (r.action = "set" => data \subseteq r.fields)
                     => Speaks(Success(r, data), r)
         /\ Speaks(Fail(r), r)
BY DEF Speaks, Success, Fail, Silence, Says

LEMMA SettingsAnswers ==
  ASSUME NEW r, NEW needed, NEW otherwise
  PROVE  \/ Speaks(Settings(r, needed, otherwise), r)
         \/ /\ r.action \notin {"get", "set"}
            /\ Settings(r, needed, otherwise) = otherwise
BY SpokenAnswers DEF Settings

LEMMA ReplyAnswers ==
  ASSUME NEW r \in Requests
  PROVE  \/ Reply(r) = Unknown /\ "none" \in {r.module, r.action}
         \/ "none" \notin {r.module, r.action} /\ Speaks(Reply(r), r)
         \/ Reply(r) = Silence /\ Forgotten(r)
<1> SUFFICES ASSUME r.module # "none", r.action # "none"
             PROVE  \/ Speaks(Reply(r), r)
                    \/ Reply(r) = Silence /\ Forgotten(r)
  BY ClientAssumption DEF Reply
<1>0. r # NoRequest
  BY ClientAssumption
<1>1. CASE r.module = "sensor"
  <2>1. Reply(r) = SensorReply(r)
    BY <1>0, <1>1 DEF Reply
  <2>2. CASE r.submodule = "framerate"
    <3>1. SensorReply(r) = Settings(r, {"fps"}, Silence)
      BY <2>2 DEF SensorReply
    <3> QED
      BY <1>0, <1>1, <2>1, <2>2, <3>1, SettingsAnswers DEF Forgotten
  <2>3. CASE r.submodule # "framerate"
    <3>1. Speaks(SensorReply(r), r)
      <4>1. \A needed : Speaks(Settings(r, needed, Fail(r)), r)
        BY SettingsAnswers, SpokenAnswers
      <4> QED
        BY <2>3, <4>1, SpokenAnswers DEF SensorReply
    <3> QED
      BY <2>1, <3>1
  <2> QED
    BY <2>2, <2>3
<1>2. CASE r.module = "video"
  <2>1. Reply(r) = VideoReply(r)
    BY <1>0, <1>2 DEF Reply
  <2>2. CASE r.submodule \in {"framerate", "format"}
    <3>1. \E needed : VideoReply(r) = Settings(r, needed, Silence)
      BY <2>2 DEF VideoReply
    <3> QED
      BY <1>0, <1>2, <2>1, <2>2, <3>1, SettingsAnswers DEF Forgotten
  <2>3. CASE r.submodule \notin {"framerate", "format"}
    <3>1. Speaks(VideoReply(r), r)
      BY <2>3, SpokenAnswers DEF VideoReply
    <3> QED
      BY <2>1, <3>1
  <2> QED
    BY <2>2, <2>3
<1>3. CASE r.module = "system"
  <2> DEFINE s == Settings(r, {"ip", "netmask", "gateway"}, Fail(r))
  <2>1. Reply(r) = [s EXCEPT !.submodule = "none"]
    BY <1>0, <1>3 DEF Reply, SystemReply
  <2>2. PICK state, data :
          /\ s = Says(r.module, Sub(r), r.action, state, data) /\ state # "none"
          /\ state = "success" /\ r.action = "set" => data \subseteq r.fields
    BY DEF Settings, Success, Fail
  <2> HIDE DEF s
  <2>3. Reply(r) = Says(r.module, "none", r.action, state, data)
    BY <2>1, <2>2 DEF Says
  <2> QED
    BY <2>2, <2>3 DEF Says, Speaks, Silence
<1>4. CASE r.module \notin {"sensor", "video", "system"}
  <2>1. Reply(r) = Says(r.module, r.submodule, r.action, "fail", {})
    BY <1>0, <1>4 DEF Reply
  <2> QED
    BY <2>1 DEF Says, Speaks, Silence
<1> QED
  BY <1>1, <1>2, <1>3, <1>4

(* What a client has been written, the answers its request can get, and a  *)
(* client that has been dealt with whole.                                  *)
LineOf(c) == got[c] \o outbox[c]
Answers(c) == {IF cut[c] THEN Unknown ELSE Reply(request[c])} \ {Silence}
Whole(c) ==
  \/ LineOf(c) = <<>> /\ ~cut[c] /\ Reply(request[c]) = Silence
  \/ \E a \in Answers(c) : LineOf(c) = <<a, Newline>>

(* Nothing is written to a client before its turn; then its answer, then   *)
(* the line end, and when the server closes all of it is there, or the     *)
(* client has left.                                                        *)
LineInv ==
  /\ \A c \in Clients : ~ended[c] /\ c # current => got[c] = <<>> /\ outbox[c] = <<>>
  /\ server \in {"recv", "answer"} => got[current] = <<>> /\ outbox[current] = <<>>
  /\ server \in {"answer", "newline"} => reply \in Answers(current)
  /\ server = "newline" => LineOf(current) = <<reply>>
  /\ server = "close" => place[current] = "left" \/ Whole(current)
  /\ \A c \in Clients : ended[c] => place[c] = "left" \/ Whole(c)

LEMMA WholeIsOneLine ==
  ASSUME TypeOK, LineInv
  PROVE  OneLineEach
<1> SUFFICES ASSUME NEW c \in Clients, ended[c], place[c] \in {"half", "sent"}
             PROVE  IF LineOf(c) = <<>> THEN ~cut[c] /\ Forgotten(request[c])
                    ELSE /\ Len(LineOf(c)) = 2 /\ LineOf(c)[2] = Newline
                         /\ IF cut[c] THEN LineOf(c)[1] = Unknown
                            ELSE Fits(LineOf(c)[1], request[c])
  BY DEF OneLineEach, LineOf
<1>1. Whole(c) /\ request[c] \in Requests \cup {NoRequest}
  BY DEF LineInv, TypeOK
<1>2. Unknown # Silence /\ Reply(NoRequest) = Unknown
  BY DEF Unknown, Silence, Says, Reply
<1>3. CASE LineOf(c) = <<>> /\ ~cut[c] /\ Reply(request[c]) = Silence
  <2>1. request[c] \in Requests
    BY <1>1, <1>2, <1>3
  <2>2. Forgotten(request[c])
    BY <1>2, <1>3, <2>1, ReplyAnswers DEF Speaks
  <2> QED
    BY <1>3, <2>2
<1>4. ASSUME NEW a \in Answers(c), LineOf(c) = <<a, Newline>>
      PROVE  /\ LineOf(c) # <<>> /\ Len(LineOf(c)) = 2
             /\ LineOf(c)[1] = a /\ LineOf(c)[2] = Newline
             /\ IF cut[c] THEN a = Unknown ELSE Fits(a, request[c])
  <2>1. cut[c] => a = Unknown
    BY DEF Answers
  <2>2. ~cut[c] /\ request[c] = NoRequest => Fits(a, request[c])
    BY <1>2 DEF Answers, Fits
  <2>3. ~cut[c] /\ request[c] \in Requests => Fits(a, request[c])
    BY ReplyAnswers, ClientAssumption DEF Answers, Fits, Speaks
  <2> QED
    BY <1>1, <1>4, <2>1, <2>2, <2>3
<1> QED
  BY <1>1, <1>3, <1>4 DEF Whole

LEMMA AppendToOne ==
  ASSUME NEW S, NEW s \in Seq(S), NEW x \in S, NEW y \in S, s = <<x>>
  PROVE  Append(s, y) = <<x, y>>
<1>1. Len(s) = 1 /\ s[1] = x
  OBVIOUS
<1> DEFINE t == Append(s, y)
<1>2. t \in Seq(S) /\ Len(t) = 2 /\ t[1] = x /\ t[2] = y
  BY <1>1, AppendProperties
<1>3. <<x, y>> \in Seq(S) /\ Len(<<x, y>>) = 2
  OBVIOUS
<1>4. \A i \in 1 .. 2 : t[i] = <<x, y>>[i]
  BY <1>2
<1> QED
  BY <1>2, <1>3, <1>4, SeqEqual

LEMMA AppendLast ==
  ASSUME NEW S, NEW s \in Seq(S), NEW t \in Seq(S), NEW x \in S
  PROVE  s \o Append(t, x) = Append(s \o t, x)
<1>1. /\ s \o Append(t, x) \in Seq(S) /\ Append(s \o t, x) \in Seq(S)
      /\ Len(s \o Append(t, x)) = Len(s) + Len(t) + 1
      /\ Len(Append(s \o t, x)) = Len(s) + Len(t) + 1
  OBVIOUS
<1>2. \A i \in 1 .. Len(s) + Len(t) + 1 :
        (s \o Append(t, x))[i] = Append(s \o t, x)[i]
  OBVIOUS
<1> QED
  BY <1>1, <1>2, SeqEqual

(* A client of whom a step changes neither what it asked nor what it was   *)
(* written.                                                                *)
LEMMA SameLine ==
  ASSUME NEW c \in Clients, request'[c] = request[c], cut'[c] = cut[c],
         LineOf(c)' = LineOf(c)
  PROVE  Answers(c)' = Answers(c) /\ Whole(c)' = Whole(c)
BY DEF Answers, Whole

LEMMA LineStep ==
  ASSUME TypeOK, QueueInv, LineInv, [Next]_vars
  PROVE  LineInv'
<1>0. /\ current \in Clients \cup {NoClient}
      /\ got \in [Clients -> Seq(Replies \cup {Newline})]
      /\ outbox \in [Clients -> Seq(Replies \cup {Newline})]
      /\ server # "accept" => current \in Clients
  BY DEF TypeOK
<1>k. \A c \in Clients :
        UNCHANGED <<got, outbox, request, cut>> =>
          /\ Answers(c)' = Answers(c) /\ Whole(c)' = Whole(c)
          /\ LineOf(c)' = LineOf(c)
  BY SameLine DEF LineOf
<1>1. CASE Accept
  <2>1. /\ current' \in Clients /\ current = NoClient /\ ~ended[current']
        /\ server' = "recv"
        /\ UNCHANGED <<ended, got, outbox, request, place, cut>>
    <3>1. waiting \in Seq(Clients) /\ 1 \in 1 .. Len(waiting) /\ Head(waiting) = waiting[1]
      BY <1>1 DEF Accept, TypeOK
    <3> QED
      BY <1>1, <3>1 DEF Accept, clientVars, TypeOK, QueueInv
  <2>2. \A c \in Clients : ended'[c] => place'[c] = "left" \/ Whole(c)'
    BY <2>1, <1>k DEF LineInv
  <2> QED
    BY <2>1, <2>2, ClientAssumption DEF LineInv
<1>2. CASE Recv
  <2>1. /\ UNCHANGED <<ended, got, outbox, request, place, current>>
        /\ current \in Clients /\ ~ended[current]
        /\ cut' = [cut EXCEPT ![current] = inbox[current] = "prefix"]
        /\ inbox[current] \in {"nothing", "prefix", "all"}
        /\ cut \in [Clients -> BOOLEAN]
    BY <1>0, <1>2, ClientAssumption DEF Recv, clientVars, QueueInv, TypeOK
  <2>2. server = "recv" /\ server' \in {"answer", "close"}
    BY <1>2 DEF Recv
  <2>3. server' = "answer" => reply' \in Answers(current)'
    BY <1>2, <2>1 DEF Recv, Answers
  <2>4. server' = "close" =>
          place[current] = "left" \/ (~cut'[current] /\ Reply(request[current]) = Silence)
    <3>1. Unknown # Silence
      BY DEF Unknown, Silence, Says
    <3> QED
      BY <1>2, <2>1, <3>1 DEF Recv
  <2>5. LineOf(current)' = <<>>
    BY <2>1, <2>2 DEF LineInv, LineOf
  <2>6. server' = "close" => place'[current'] = "left" \/ Whole(current)'
    BY <2>1, <2>4, <2>5 DEF Whole
  <2>7. \A c \in Clients : c # current => cut'[c] = cut[c]
    BY <2>1
  <2>8. \A c \in Clients : c # current => Whole(c)' = Whole(c)
    BY <2>1, <2>7, SameLine DEF LineOf
  <2> QED
    BY <2>1, <2>2, <2>3, <2>6, <2>8 DEF LineInv
<1>3. CASE Answer
  <2>1. /\ UNCHANGED <<ended, got, request, place, current, reply, cut>>
        /\ current \in Clients /\ server = "answer" /\ reply \in Answers(current)
        /\ ~ended[current]
    BY <1>0, <1>3, ClientAssumption DEF Answer, WriteThen, clientVars, LineInv, QueueInv
  <2>2. CASE server' = "killed" /\ outbox' = outbox
    BY <2>1, <2>2, <1>k DEF LineInv
  <2>3. CASE server' = "newline" /\ outbox' = [outbox EXCEPT ![current] = Append(@, reply)]
    <3>1. outbox'[current] = <<reply>> /\ got'[current] = <<>>
      BY <1>0, <2>1, <2>3 DEF LineInv
    <3>2. LineOf(current)' = <<reply>>
      BY <2>1, <3>1 DEF LineOf
    <3>3. \A c \in Clients : c # current => outbox'[c] = outbox[c] /\ got'[c] = got[c]
      BY <1>0, <2>1, <2>3
    <3>4. \A c \in Clients : c # current => Whole(c)' = Whole(c)
      BY <2>1, <3>3, SameLine DEF LineOf
    <3>5. Answers(current)' = Answers(current)
      BY <2>1 DEF Answers
    <3> QED
      BY <2>1, <2>3, <3>2, <3>3, <3>4, <3>5 DEF LineInv
  <2> QED
    BY <1>3, <2>2, <2>3 DEF Answer, WriteThen
<1>4. CASE EndLine
  <2>1. /\ UNCHANGED <<ended, got, request, place, current, reply, cut>>
        /\ current \in Clients /\ server = "newline" /\ reply \in Answers(current)
        /\ ~ended[current] /\ LineOf(current) = <<reply>>
    BY <1>0, <1>4, ClientAssumption DEF EndLine, WriteThen, clientVars, LineInv, QueueInv
  <2>2. CASE server' = "killed" /\ outbox' = outbox
    BY <2>1, <2>2, <1>k DEF LineInv
  <2>3. CASE server' = "close" /\ outbox' = [outbox EXCEPT ![current] = Append(@, Newline)]
    <3>1. LineOf(current)' = got[current] \o Append(outbox[current], Newline)
      BY <1>0, <2>1, <2>3 DEF LineOf
    <3>2. got[current] \o Append(outbox[current], Newline) = Append(LineOf(current), Newline)
      <4> DEFINE All == Replies \cup {Newline}
                 g == got[current]
                 o == outbox[current]
      <4>1. g \in Seq(All) /\ o \in Seq(All) /\ Newline \in All
        BY <1>0, <2>1
      <4> HIDE DEF All, g, o
      <4>2. g \o Append(o, Newline) = Append(g \o o, Newline)
        BY <4>1, AppendLast
      <4> QED
        BY <4>2 DEF LineOf, g, o
    <3>3. LineOf(current)' = <<reply, Newline>>
      <4>1. LineOf(current)' = Append(LineOf(current), Newline)
        BY <3>1, <3>2
      <4> DEFINE All == Replies \cup {Newline}
      <4>2. LineOf(current) \in Seq(All) /\ reply \in All /\ Newline \in All
        BY <1>0, <2>1 DEF LineOf, TypeOK
      <4> HIDE DEF All
      <4>3. Append(LineOf(current), Newline) = <<reply, Newline>>
        BY <2>1, <4>2, AppendToOne
      <4> QED
        BY <4>1, <4>3
    <3>4. Answers(current)' = Answers(current)
      BY <2>1 DEF Answers
    <3>5. Whole(current)'
      BY <2>1, <3>3, <3>4 DEF Whole
    <3>6. \A c \in Clients : c # current => outbox'[c] = outbox[c] /\ got'[c] = got[c]
      BY <1>0, <2>1, <2>3
    <3>7. \A c \in Clients : c # current => Whole(c)' = Whole(c)
      BY <2>1, <3>6, SameLine DEF LineOf
    <3> QED
      BY <2>1, <2>3, <3>5, <3>6, <3>7 DEF LineInv
  <2> QED
    BY <1>4, <2>2, <2>3 DEF EndLine, WriteThen
<1>5. CASE Close
  <2>1. /\ UNCHANGED <<got, outbox, request, place, cut>>
        /\ current \in Clients /\ server = "close" /\ server' = "accept"
        /\ ended' = [ended EXCEPT ![current] = TRUE]
    BY <1>0, <1>5 DEF Close, clientVars
  <2>2. \A c \in Clients : ended'[c] <=> c = current \/ ended[c]
    BY <2>1 DEF TypeOK
  <2>3. \A c \in Clients : ended'[c] => place'[c] = "left" \/ Whole(c)'
    BY <2>1, <2>2, <1>k DEF LineInv
  <2> QED
    BY <2>1, <2>2, <2>3 DEF LineInv
<1>6. ASSUME NEW c \in Clients, Send(c) PROVE LineInv'
  <2>1. /\ UNCHANGED <<server, current, reply, request, outbox, got, ended, cut>>
        /\ ~ended[c] /\ place[c] # "left"
        /\ \A d \in Clients : d # c => place'[d] = place[d]
    BY <1>6 DEF Send, TypeOK
  <2>2. server = "close" /\ current = c => Whole(current)
    BY <2>1 DEF LineInv
  <2> QED
    BY <1>0, <2>1, <2>2, <1>k DEF LineInv
<1>7. ASSUME NEW c \in Clients, Read(c) PROVE LineInv'
  <2>1. /\ UNCHANGED <<server, current, reply, request, place, ended, cut>>
        /\ got' = [got EXCEPT ![c] = @ \o outbox[c]]
        /\ outbox' = [outbox EXCEPT ![c] = <<>>]
        /\ outbox[c] # <<>>
    BY <1>7 DEF Read
  <2>2. \A d \in Clients : d # c => got'[d] = got[d] /\ outbox'[d] = outbox[d]
    BY <1>0, <2>1
  <2>3. got'[c] = got[c] \o outbox[c] /\ outbox'[c] = <<>>
    BY <1>0, <2>1
  <2>4. LineOf(c)' = LineOf(c)
    BY <1>0, <2>3 DEF LineOf
  <2>5. \A d \in Clients : LineOf(d)' = LineOf(d)
    BY <2>2, <2>4 DEF LineOf
  <2>6. \A d \in Clients : Answers(d)' = Answers(d) /\ Whole(d)' = Whole(d)
    BY <2>1, <2>5, SameLine
  <2>7. ended[c] \/ (c = current /\ server \notin {"recv", "answer"})
    BY <2>1 DEF LineInv
  <2> QED
    BY <1>0, <2>1, <2>2, <2>5, <2>6, <2>7 DEF LineInv
<1>8. ASSUME NEW c \in Clients, Leave(c) PROVE LineInv'
  <2>1. /\ UNCHANGED <<server, current, reply, request, outbox, got, ended, cut>>
        /\ place'[c] = "left"
        /\ \A d \in Clients : d # c => place'[d] = place[d]
    BY <1>8 DEF Leave, TypeOK
  <2> QED
    BY <1>0, <2>1, <1>k DEF LineInv
<1>9. ASSUME NEW c \in Clients, Forget(c) PROVE LineInv'
  <2>1. /\ UNCHANGED <<server, current, reply>>
        /\ ended[c] /\ c # current
        /\ got'[c] = <<>> /\ outbox'[c] = <<>> /\ ~ended'[c]
    BY <1>9, ClientAssumption DEF Forget, TypeOK, QueueInv
  <2>2. \A d \in Clients : d # c =>
          /\ got'[d] = got[d] /\ outbox'[d] = outbox[d] /\ request'[d] = request[d]
          /\ place'[d] = place[d] /\ ended'[d] = ended[d] /\ cut'[d] = cut[d]
    BY <1>9 DEF Forget, TypeOK
  <2>3. \A d \in Clients : d # c =>
          /\ Answers(d)' = Answers(d) /\ Whole(d)' = Whole(d) /\ LineOf(d)' = LineOf(d)
    BY <2>2, SameLine DEF LineOf
  <2> QED
    BY <1>0, <2>1, <2>2, <2>3 DEF LineInv, TypeOK
<1>10. ASSUME NEW c \in Clients, NEW r \in Requests \cup {NoRequest}, Connect(c, r)
       PROVE  LineInv'
  <2>1. /\ UNCHANGED <<server, current, reply, outbox, got, ended, cut>>
        /\ ~ended[c] /\ c # current
    BY <1>10, ClientAssumption DEF Connect, TypeOK, QueueInv
  <2>2. \A d \in Clients : d # c => request'[d] = request[d] /\ place'[d] = place[d]
    BY <1>10 DEF Connect, TypeOK
  <2>3. \A d \in Clients : LineOf(d)' = LineOf(d)
    BY <2>1 DEF LineOf
  <2>4. \A d \in Clients : d # c => Answers(d)' = Answers(d) /\ Whole(d)' = Whole(d)
    BY <2>1, <2>2, <2>3, SameLine
  <2> QED
    BY <1>0, <2>1, <2>2, <2>3, <2>4 DEF LineInv, TypeOK
<1>11. CASE UNCHANGED vars
  BY <1>11, <1>0, <1>k DEF vars, LineInv
<1> QED
  BY <1>1, <1>2, <1>3, <1>4, <1>5, <1>6, <1>7, <1>8, <1>9, <1>10, <1>11
  DEF Next, Server, Proceed

(* Any requests, any clients, any interleaving of what they do: whoever    *)
(* has sent something has one line when the server closes, the answer to   *)
(* its own request if recv saw all of it, and otherwise that it is         *)
(* unknown; only a whole request that handle_sensor_command and            *)
(* handle_video_command forget goes without.                               *)
THEOREM OneLine == Spec => []OneLineEach
<1>1. Init => LineInv
  BY DEF Init, LineInv
<1>2. IInv /\ LineInv /\ [Next]_vars => LineInv'
  BY LineStep DEF IInv
<1>3. IInv /\ LineInv => OneLineEach
  BY WholeIsOneLine DEF IInv
<1> QED
  BY <1>1, <1>2, <1>3, Invariant, PTL DEF Spec
-----------------------------------------------------------------------------
(* A client that has left with the answer before the line end was written, *)
(* as it may when nothing makes it read until the end.                     *)
LeftEarly ==
  /\ Leaving = "answer" /\ place[current] = "left" /\ ~ended[current]
  /\ got[current] = <<reply>>

(* Who has left, or has said nothing yet, has nothing to be received; once *)
(* its request was received, a client has left only if it has left early,  *)
(* or after the server has written everything.                             *)
LeaveInv ==
  /\ \A c \in Clients :
       ~ended[c] /\ place[c] \in {"away", "connected", "left"} => inbox[c] = "nothing"
  /\ server \in {"answer", "newline", "close"} => inbox[current] = "nothing"
  /\ server = "answer" => place[current] \in {"half", "sent"}
  /\ server = "newline" => place[current] \in {"half", "sent"} \/ LeftEarly
  /\ server = "close" => place[current] \in {"half", "sent", "left"}
  /\ server = "killed" => LeftEarly

LEMMA LeaveStep ==
  ASSUME TypeOK, QueueInv, LineInv, LeaveInv, [Next]_vars
  PROVE  LeaveInv'
<1>0. /\ current \in Clients \cup {NoClient} /\ NoClient \notin Clients
      /\ server # "accept" => current \in Clients /\ ~ended[current]
      /\ inbox \in [Clients -> {"nothing", "prefix", "all"}]
      /\ place \in [Clients -> {"away", "connected", "half", "sent", "left"}]
      /\ ended \in [Clients -> BOOLEAN]
  BY ClientAssumption DEF TypeOK, QueueInv
<1>1. CASE Accept
  BY <1>0, <1>1 DEF Accept, clientVars, LeaveInv
<1>2. CASE Recv
  BY <1>0, <1>2 DEF Recv, clientVars, LeaveInv
<1>3. CASE Answer
  BY <1>0, <1>3 DEF Answer, WriteThen, clientVars, LeaveInv
<1>4. CASE EndLine
  BY <1>0, <1>4 DEF EndLine, WriteThen, clientVars, LeaveInv, LeftEarly
<1>5. CASE Close
  BY <1>0, <1>5 DEF Close, clientVars, LeaveInv
<1>6. ASSUME NEW c \in Clients, Send(c) PROVE LeaveInv'
  BY <1>0, <1>6 DEF Send, LeaveInv, LeftEarly
<1>7. ASSUME NEW c \in Clients, Read(c) PROVE LeaveInv'
  <2>1. /\ UNCHANGED <<server, current, reply, place, inbox, ended>>
        /\ place[c] \in {"half", "sent"}
        /\ \A d \in Clients : d # c => got'[d] = got[d]
    BY <1>7 DEF Read, TypeOK
  <2> QED
    BY <1>0, <2>1 DEF LeaveInv, LeftEarly
<1>8. ASSUME NEW c \in Clients, Leave(c) PROVE LeaveInv'
  <2>1. /\ UNCHANGED <<server, current, reply, inbox, got, ended>>
        /\ place' = [place EXCEPT ![c] = "left"]
        /\ \/ place[c] = "connected"
           \/ place[c] \in {"half", "sent"} /\ outbox[c] = <<>> /\ HasEnough(c)
    BY <1>8 DEF Leave
  <2>2. CASE c = current /\ server = "newline" /\ place[c] \in {"half", "sent"}
    <3>1. LineOf(c) = <<reply>> /\ outbox[c] = <<>> /\ got[c] \in Seq(Replies \cup {Newline})
      BY <1>0, <2>1, <2>2 DEF LineInv, TypeOK
    <3>2. got[c] = <<reply>>
      BY <3>1 DEF LineOf
    <3>3. Leaving = "answer"
      BY <1>0, <2>1, <2>2 DEF HasEnough
    <3> QED
      BY <1>0, <2>1, <2>2, <3>2, <3>3 DEF LeaveInv, LeftEarly
  <2>3. CASE c = current /\ server = "answer"
    <3>1. got[c] = <<>> /\ ~ended[c]
      BY <1>0, <2>3 DEF LineInv
    <3> QED
      BY <2>1, <2>3, <3>1 DEF LeaveInv, HasEnough
  <2>4. ~ended[c] /\ place[c] \in {"half", "sent"} => inbox[c] = "nothing"
    <3>1. ~ended[c] /\ place[c] \in {"half", "sent"} => got[c] # <<>>
      BY <2>1 DEF HasEnough
    <3>2. ~ended[c] /\ got[c] # <<>> => c = current /\ server \in {"newline", "close", "killed"}
      <4>1. current = NoClient <=> server = "accept"
        BY DEF TypeOK
      <4>2. server \in {"accept", "recv", "answer", "newline", "close", "killed"}
        BY DEF TypeOK
      <4> QED
        BY <1>0, <4>1, <4>2 DEF LineInv
    <3>3. server = "killed" => place[current] = "left"
      BY DEF LeaveInv, LeftEarly
    <3> QED
      BY <3>1, <3>2, <3>3 DEF LeaveInv
  <2> QED
    BY <1>0, <2>1, <2>2, <2>3, <2>4 DEF LeaveInv, LeftEarly
<1>9. ASSUME NEW c \in Clients, Forget(c) PROVE LeaveInv'
  BY <1>0, <1>9 DEF Forget, LeaveInv, LeftEarly, TypeOK
<1>10. ASSUME NEW c \in Clients, NEW r \in Requests \cup {NoRequest}, Connect(c, r)
       PROVE  LeaveInv'
  BY <1>0, <1>10 DEF Connect, LeaveInv, LeftEarly, QueueInv
<1>11. CASE UNCHANGED vars
  BY <1>11 DEF vars, LeaveInv, LeftEarly
<1> QED
  BY <1>1, <1>2, <1>3, <1>4, <1>5, <1>6, <1>7, <1>8, <1>9, <1>10, <1>11
  DEF Next, Server, Proceed

(* Whatever the clients do, the video daemon is ended by the second write  *)
(* of send_json_response alone (command_parser.c:31), to a client that has *)
(* read the answer and left without the line end.                          *)
THEOREM EndedByEarlyLeaver == Spec => [](~DaemonSurvives => LeftEarly)
<1>1. Init => LineInv /\ LeaveInv
  BY ClientAssumption DEF Init, LineInv, LeaveInv
<1>2. IInv /\ LineInv /\ LeaveInv /\ [Next]_vars => LineInv' /\ LeaveInv'
  BY LineStep, LeaveStep DEF IInv
<1>3. LeaveInv => (~DaemonSurvives => LeftEarly)
  BY DEF LeaveInv, DaemonSurvives
<1> QED
  BY <1>1, <1>2, <1>3, Invariant, PTL DEF Spec
=============================================================================
