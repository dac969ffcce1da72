---------------------------- MODULE CommandServer ----------------------------
(* The command server of the video daemon (project/SmartCam/app/command):  *)
(* one thread that takes the clients of /tmp/cam.sock one at a time,       *)
(* receives once, answers with one line of JSON and closes.  The clients   *)
(* are as test/test_set_framerate.py shows them.                           *)
(*                                                                         *)
(* A request is what a JSON text says: its module, submodule and action    *)
(* ("none" when missing or not a string) and the settings it has as        *)
(* strings.  A prefix of such a text does not parse.                       *)
EXTENDS Naturals, Sequences

CONSTANTS
  Clients, Requests,
  NoRequest,  \* a text that is not JSON
  NoClient,
  Backlog,    \* listen(fd, 5)
  Leaving     \* "end": a client that has sent something reads until the end;
              \* "answer": it may leave once it has read something, as that test does

ASSUME ClientAssumption ==
  /\ NoClient \notin Clients /\ NoRequest \notin Requests
  /\ Backlog \in Nat
  /\ Leaving \in {"end", "answer"}
-----------------------------------------------------------------------------
(* What each handler answers.                                              *)
Says(module, sub, action, state, data) ==
  [module |-> module, submodule |-> sub, action |-> action, state |-> state, data |-> data]
Silence == Says("none", "none", "none", "none", {})

Sub(r) == IF r.submodule = "none" THEN "" ELSE r.submodule
Success(r, data) == Says(r.module, Sub(r), r.action, "success", data)
Fail(r)          == Says(r.module, Sub(r), r.action, "fail", {})

TriggerFields == {"mode", "trigger_number", "trigger_delay", "trigger_edge",
                  "trigger_filter", "trigger_filter_width"}

(* The branch of a handler for a submodule with settings: get answers with *)
(* all of them, set with those of the request, if all are there.           *)
Settings(r, needed, otherwise) ==
  CASE r.action = "get" -> Success(r, needed)
    [] r.action = "set" -> IF needed \subseteq r.fields THEN Success(r, needed) ELSE Fail(r)
    [] OTHER            -> otherwise

SensorReply(r) ==
  CASE r.submodule \in {"version", "errorcode"} ->
         IF r.action = "get"
         THEN Success(r, {IF r.submodule = "version" THEN "version" ELSE "code"})
         ELSE Fail(r)
    [] r.submodule = "framerate"  -> Settings(r, {"fps"}, Silence)
    [] r.submodule \in {"exposure", "gain"} -> Settings(r, {"mode", "value"}, Fail(r))
    [] r.submodule = "brightness" -> Settings(r, {"value"}, Fail(r))
    [] r.submodule = "trigger"    -> Settings(r, TriggerFields, Fail(r))
    [] OTHER                      -> Fail(r)

VideoReply(r) ==
  CASE r.submodule = "framerate" -> Settings(r, {"fps"}, Silence)
    [] r.submodule = "format"    -> Settings(r, {"format"}, Silence)
    [] r.submodule = "stream"    -> IF r.action \in {"start", "stop"}
                                    THEN Success(r, {}) ELSE Fail(r)
    [] OTHER                     -> Fail(r)

SystemReply(r) ==
  [Settings(r, {"ip", "netmask", "gateway"}, Fail(r)) EXCEPT !.submodule = "none"]

(* handle_command. *)
Unknown == Says("unknown", "none", "none", "fail", {})
(* Mutant of Reply: a submodule is asked for as well.                      *)
ReplyStrict(r) ==
  IF r = NoRequest THEN Unknown
  ELSE IF "none" \in {r.module, r.submodule, r.action} THEN Unknown
  ELSE CASE r.module = "sensor" -> SensorReply(r)
         [] r.module = "video"  -> VideoReply(r)
         [] r.module = "system" -> SystemReply(r)
         [] OTHER -> Says(r.module, r.submodule, r.action, "fail", {})
Reply(r) ==
  IF r = NoRequest THEN Unknown
  ELSE IF "none" \in {r.module, r.action} THEN Unknown
  ELSE CASE r.module = "sensor" -> SensorReply(r)
         [] r.module = "video"  -> VideoReply(r)
         [] r.module = "system" -> SystemReply(r)
         [] OTHER -> Says(r.module, r.submodule, r.action, "fail", {})
-----------------------------------------------------------------------------
VARIABLES
  server,   \* where command_server is; "killed" when SIGPIPE has ended the daemon
  current,  \* the client being served
  reply,    \* what is to be written to it
  waiting,  \* the connections not accepted yet
  place,    \* where each client is
  request,  \* what it asks for
  inbox,    \* what of its request waits to be received: nothing, a prefix, all
  outbox,   \* what it has been written and has not read
  got,      \* what it has read
  ended,    \* the server has closed the connection
  cut       \* history: the server has received only a part of its request

vars == <<server, current, reply, waiting, place, request, inbox, outbox, got, ended, cut>>
clientVars == <<place, request, got>>

Newline == Says("newline", "none", "none", "none", {})
Line(answer) == IF answer = Silence THEN <<>> ELSE <<answer, Newline>>
Replies == {Reply(r) : r \in Requests \cup {NoRequest}} \cup {Silence}

TypeOK ==
  /\ server \in {"accept", "recv", "answer", "newline", "close", "killed"}
  /\ current \in Clients \cup {NoClient}
  /\ (current = NoClient) <=> server = "accept"
  /\ reply \in Replies
  /\ waiting \in Seq(Clients) /\ Len(waiting) <= Backlog + 1
  /\ place \in [Clients -> {"away", "connected", "half", "sent", "left"}]
  /\ request \in [Clients -> Requests \cup {NoRequest}]
  /\ inbox \in [Clients -> {"nothing", "prefix", "all"}]
  /\ outbox \in [Clients -> Seq(Replies \cup {Newline})]
  /\ got \in [Clients -> Seq(Replies \cup {Newline})]
  /\ ended \in [Clients -> BOOLEAN] /\ cut \in [Clients -> BOOLEAN]

Init ==
  /\ server = "accept" /\ current = NoClient /\ reply = Silence
  /\ waiting = <<>>
  /\ place = [c \in Clients |-> "away"]
  /\ request = [c \in Clients |-> NoRequest]
  /\ inbox = [c \in Clients |-> "nothing"]
  /\ outbox = [c \in Clients |-> <<>>] /\ got = [c \in Clients |-> <<>>]
  /\ ended = [c \in Clients |-> FALSE] /\ cut = [c \in Clients |-> FALSE]
-----------------------------------------------------------------------------
(* The server.                                                             *)
Accept ==
  /\ server = "accept" /\ waiting # <<>>
  /\ current' = Head(waiting) /\ waiting' = Tail(waiting)
  /\ server' = "recv"
  /\ UNCHANGED <<reply, inbox, outbox, ended, cut, clientVars>>

(* Mutant of Recv: it tries again until something was received.            *)
RecvRetries ==
  /\ server = "recv"
  /\ \/ /\ inbox[current] # "nothing"
        /\ reply' = IF inbox[current] = "all" THEN Reply(request[current]) ELSE Unknown
        /\ server' = IF reply' = Silence THEN "close" ELSE "answer"
     \/ /\ inbox[current] = "nothing" /\ place[current] = "left"
        /\ UNCHANGED <<server, reply>>
  /\ inbox' = [inbox EXCEPT ![current] = "nothing"]
  /\ cut' = [cut EXCEPT ![current] = inbox[current] = "prefix"]
  /\ UNCHANGED <<current, waiting, outbox, ended, clientVars>>

(* recv, once and without a timeout: what has arrived, or nothing when the *)
(* client has left; and handle_command on it.                              *)
Recv ==
  /\ server = "recv"
  /\ \/ /\ inbox[current] # "nothing"
        /\ reply' = IF inbox[current] = "all" THEN Reply(request[current]) ELSE Unknown
        /\ server' = IF reply' = Silence THEN "close" ELSE "answer"
     \/ /\ inbox[current] = "nothing" /\ place[current] = "left"
        /\ server' = "close" /\ UNCHANGED reply
  /\ inbox' = [inbox EXCEPT ![current] = "nothing"]
  /\ cut' = [cut EXCEPT ![current] = inbox[current] = "prefix"]
  /\ UNCHANGED <<current, waiting, outbox, ended, clientVars>>

(* write to a client that has left raises SIGPIPE, which nobody handles.   *)
WriteThen(piece, next) ==
  /\ IF place[current] = "left"
     THEN server' = "killed" /\ UNCHANGED outbox
     ELSE server' = next /\ outbox' = [outbox EXCEPT ![current] = Append(@, piece)]
  /\ UNCHANGED <<current, reply, waiting, inbox, ended, cut, clientVars>>

(* The two writes of send_json_response. *)
Answer  == server = "answer" /\ WriteThen(reply, "newline")

(* Mutant of EndLine: the line end is not written.                         *)
EndLineNever ==
  /\ server = "newline" /\ server' = "close"
  /\ UNCHANGED <<current, reply, waiting, inbox, outbox, ended, cut, clientVars>>

EndLine == server = "newline" /\ WriteThen(Newline, "close")

Close ==
  /\ server = "close"
  /\ ended' = [ended EXCEPT ![current] = TRUE]
  /\ server' = "accept" /\ current' = NoClient /\ reply' = Silence
  /\ UNCHANGED <<waiting, inbox, outbox, cut, clientVars>>

Server == Accept \/ Recv \/ Answer \/ EndLine \/ Close
-----------------------------------------------------------------------------
(* The clients.                                                            *)
Connect(c, r) ==
  /\ place[c] = "away" /\ server # "killed"
  /\ Len(waiting) <= Backlog
  /\ waiting' = Append(waiting, c)
  /\ place' = [place EXCEPT ![c] = "connected"]
  /\ request' = [request EXCEPT ![c] = r]
  /\ UNCHANGED <<server, current, reply, inbox, outbox, got, ended, cut>>

(* The text arrives at once, or in two parts, of which the server may see  *)
(* the first alone.                                                        *)
Send(c) ==
  /\ ~ended[c]
  /\ \/ /\ place[c] = "connected"
        /\ place' = [place EXCEPT ![c] = "sent"]
        /\ inbox' = [inbox EXCEPT ![c] = "all"]
     \/ /\ place[c] = "connected"
        /\ place' = [place EXCEPT ![c] = "half"]
        /\ inbox' = [inbox EXCEPT ![c] = "prefix"]
     \/ /\ place[c] = "half"
        /\ place' = [place EXCEPT ![c] = "sent"]
        /\ inbox' = [inbox EXCEPT ![c] = IF @ = "prefix" THEN "all" ELSE @]
  /\ UNCHANGED <<server, current, reply, waiting, request, outbox, got, ended, cut>>

Read(c) ==
  /\ place[c] \in {"half", "sent"} /\ outbox[c] # <<>>
  /\ got' = [got EXCEPT ![c] = @ \o outbox[c]]
  /\ outbox' = [outbox EXCEPT ![c] = <<>>]
  /\ UNCHANGED <<server, current, reply, waiting, place, request, inbox, ended, cut>>

(* A client may leave before it has sent anything, and when it has what it *)
(* waits for.                                                              *)
HasEnough(c) == ended[c] \/ (Leaving = "answer" /\ got[c] # <<>>)

Leave(c) ==
  /\ \/ place[c] = "connected"
     \/ place[c] \in {"half", "sent"} /\ outbox[c] = <<>> /\ HasEnough(c)
  /\ place' = [place EXCEPT ![c] = "left"]
  /\ UNCHANGED <<server, current, reply, waiting, request, inbox, outbox, got, ended, cut>>

(* A connection both sides have closed is no more.                         *)
Forget(c) ==
  /\ place[c] = "left" /\ ended[c]
  /\ place' = [place EXCEPT ![c] = "away"]
  /\ request' = [request EXCEPT ![c] = NoRequest]
  /\ got' = [got EXCEPT ![c] = <<>>] /\ outbox' = [outbox EXCEPT ![c] = <<>>]
  /\ inbox' = [inbox EXCEPT ![c] = "nothing"]
  /\ ended' = [ended EXCEPT ![c] = FALSE] /\ cut' = [cut EXCEPT ![c] = FALSE]
  /\ UNCHANGED <<server, current, reply, waiting>>

(* What a client that is connected does without the server's help: it      *)
(* sends something or leaves.                                              *)
Proceed(c) == Send(c) \/ Read(c) \/ Leave(c)

Next ==
  \/ Server
  \/ \E c \in Clients : Proceed(c) \/ Forget(c)
  \/ \E c \in Clients, r \in Requests \cup {NoRequest} : Connect(c, r)

Spec == Init /\ [][Next]_vars
FairSpec == Spec /\ WF_vars(Server) /\ \A c \in Clients : WF_vars(Proceed(c))
-----------------------------------------------------------------------------
(* The requests handle_sensor_command and handle_video_command forget: an  *)
(* unknown action for a rate or a format.                                  *)
Forgotten(r) ==
  /\ r # NoRequest
  /\ <<r.module, r.submodule>> \in
       {<<"sensor", "framerate">>, <<"video", "framerate">>, <<"video", "format">>}
  /\ r.action \notin {"get", "set", "none"}

(* An answer to request r: that it is unknown, if r is no JSON or names no *)
(* module or no action, and otherwise one about its module and its action, *)
(* which confirms no setting that r does not have.                         *)
Fits(answer, r) ==
  IF r = NoRequest \/ "none" \in {r.module, r.action}
  THEN answer = Unknown
  ELSE /\ answer.module = r.module /\ answer.action = r.action
       /\ answer.state = "success" /\ r.action = "set" => answer.data \subseteq r.fields

(* When the server closes, a client that has sent something has exactly    *)
(* one line.  If its request was received whole, the line is the answer to *)
(* this request and to no other client's, and only a forgotten request     *)
(* goes without; a request of which recv saw a part is told to be unknown. *)
OneLineEach ==
  \A c \in Clients : ended[c] /\ place[c] \in {"half", "sent"} =>
    LET line == got[c] \o outbox[c]
    IN  IF line = <<>> THEN ~cut[c] /\ Forgotten(request[c])
        ELSE /\ Len(line) = 2 /\ line[2] = Newline
             /\ IF cut[c] THEN line[1] = Unknown ELSE Fits(line[1], request[c])

(* No client ends the video daemon, and surely not one that does what      *)
(* test_set_framerate.py does: it closes after its first recv, and has the *)
(* answer by then, though not the line end.                                *)
DaemonSurvives == server # "killed"

(* Every client that connects is served to the end, whatever the others    *)
(* ask and however often they come back, as long as nobody connects and    *)
(* then says nothing, and whoever has sent something waits for the end.    *)
Served == \A c \in Clients : place[c] = "connected" ~> ended[c]
=============================================================================
