-------------------------------- MODULE Ping --------------------------------
(* ping and ping_intf of common/utils/network/ping.c: several programs on  *)
(* one machine, each with a raw socket, which gets every ICMP packet that  *)
(* arrives, and with one recvfrom for every request.                       *)
EXTENDS Integers, Sequences, FiniteSets, SequencesExt

CONSTANTS
  Pingers,
  Id,        \* the id each of them uses
  Local,     \* those that ping an address of this machine
  Times,     \* requests of a call
  Queue,     \* packets a socket holds
  OnTheWay   \* packets in the network

Seqs == 0 .. Times - 1
Ids  == {Id[p] : p \in Pingers}

VARIABLES
  pc,         \* of each pinger
  itimes,     \* the number of its request
  counted,    \* those it takes for answered: success is their number
  socket,     \* the packets its socket has got
  network,    \* packets on the way
  answered,   \* history: requests that the destination has answered
  strays      \* history: the sequence numbers of the packets with its id that a
              \* socket has got and that are no answers

vars == <<pc, itimes, counted, socket, network, answered, strays>>

(* A request to another machine ("request") or to this one ("own"), its    *)
(* answer ("reply"), and every other ICMP packet ("other").                *)
Packet(type, id, seq) == [type |-> type, id |-> id, seq |-> seq]
(* An error message carries zeros where an echo has its id and sequence.   *)
Unreachable == Packet("other", 0, 0)

Init ==
  /\ pc = [p \in Pingers |-> "idle"]
  /\ itimes = [p \in Pingers |-> 0] /\ counted = [p \in Pingers |-> {}]
  /\ socket = [p \in Pingers |-> <<>>]
  /\ network = {} /\ answered = {} /\ strays = [p \in Pingers |-> {}]

Goto(p, from, to) == pc[p] = from /\ pc' = [pc EXCEPT ![p] = to]
-----------------------------------------------------------------------------
(* ping: a new socket, with nothing in it.                                 *)
Open(p) ==
  /\ Goto(p, "idle", "send")
  /\ counted' = [counted EXCEPT ![p] = {}]
  /\ strays' = [strays EXCEPT ![p] = {}]
  /\ UNCHANGED <<itimes, socket, network, answered>>

(* A wrong address, no socket, an option that cannot be set: -1, but 0     *)
(* from ping_intf when it cannot bind the socket to the interface.         *)
OpenFails(p) ==
  /\ pc[p] = "idle" /\ counted' = [counted EXCEPT ![p] = {}]
  /\ UNCHANGED <<pc, itimes, socket, network, answered, strays>>

(* ping_send.                                                              *)
Send(p) ==
  /\ Goto(p, "send", "receive")
  /\ network' = network \cup
       {Packet(IF p \in Local THEN "own" ELSE "request", Id[p], itimes[p])}
  /\ UNCHANGED <<itimes, counted, socket, answered, strays>>

(* The next request, or the end of the call, which returns the number of   *)
(* those counted, or -1, and closes the socket.                            *)
GoOn(p, from, rest) ==
  LET more == itimes[p] + 1 < Times IN
  /\ Goto(p, from, IF more THEN "send" ELSE "idle")
  /\ itimes' = [itimes EXCEPT ![p] = IF more THEN @ + 1 ELSE 0]
  /\ socket' = [socket EXCEPT ![p] = IF more THEN rest ELSE <<>>]
  /\ UNCHANGED <<answered, strays>>

SendFails(p) ==
  /\ UNCHANGED <<counted, network>> /\ GoOn(p, "send", socket[p])

(* Mutant of Matches: the sequence is not compared.                        *)
MatchesId(p, m) == m.id = Id[p]
(* handle_recvkt, for a packet with a right checksum.  The type is not     *)
(* looked at.                                                              *)
Matches(p, m) == m.id = Id[p] /\ m.seq = itimes[p]

(* ping_recv: whatever comes first is the answer, or none.                 *)
Receive(p) ==
  /\ socket[p] # <<>>
  /\ counted' = [counted EXCEPT ![p] =
       IF Matches(p, Head(socket[p])) THEN @ \cup {itimes[p]} ELSE @]
  /\ GoOn(p, "receive", Tail(socket[p]))
  /\ UNCHANGED network

Timeout(p) ==
  /\ socket[p] = <<>> /\ UNCHANGED <<counted, network>>
  /\ GoOn(p, "receive", <<>>)
-----------------------------------------------------------------------------
(* The network: a packet is on its way for as long as it likes, and may    *)
(* arrive more than once, or never.                                        *)
AnswerRequest(m) ==
  /\ m \in network /\ m.type \in {"request", "own"}
  /\ network' = (network \ {m}) \cup {Packet("reply", m.id, m.seq)}
  /\ answered' = answered \cup {<<m.id, m.seq>>}
  /\ UNCHANGED <<pc, itimes, counted, socket, strays>>

Refuse(m) ==
  /\ m \in network /\ m.type = "request"
  /\ network' = (network \ {m}) \cup {Unreachable}
  /\ UNCHANGED <<pc, itimes, counted, socket, answered, strays>>

(* Another machine pings this one, or a router sends it a message that has *)
(* an address or a size where an echo has its id and sequence.             *)
Stray(id, seq) ==
  /\ network' = network \cup {Packet("other", id, seq)}
  /\ UNCHANGED <<pc, itimes, counted, socket, answered, strays>>

Lose(m) ==
  /\ m \in network /\ network' = network \ {m}
  /\ UNCHANGED <<pc, itimes, counted, socket, answered, strays>>

(* Every open raw socket gets what comes to this machine, whatever its     *)
(* type: also a request to this machine, its own ones over the loopback.   *)
Arrive(m) ==
  LET gets == {p \in Pingers : pc[p] # "idle" /\ Len(socket[p]) < Queue} IN
  /\ m \in network /\ m.type # "request" /\ gets # {}
  /\ socket' = [p \in Pingers |-> IF p \in gets THEN Append(socket[p], m) ELSE socket[p]]
  /\ strays' = [p \in Pingers |-> IF p \in gets /\ m.type # "reply"
                                        /\ m.id = Id[p]
                                   THEN strays[p] \cup {m.seq} ELSE strays[p]]
  /\ UNCHANGED <<pc, itimes, counted, network, answered>>

Room == Cardinality(network) < OnTheWay

Next ==
  \/ \E p \in Pingers : \/ Open(p) \/ OpenFails(p) \/ (Room /\ Send(p))
                        \/ SendFails(p) \/ Receive(p) \/ Timeout(p)
  \/ \E m \in network : AnswerRequest(m) \/ Refuse(m) \/ Lose(m) \/ Arrive(m)
  \/ \E id \in Ids, seq \in Seqs : Room /\ Stray(id, seq)

Spec == Init /\ [][Next]_vars
-----------------------------------------------------------------------------
(* A request counted as answered has been answered: this one, or one with  *)
(* its number from an earlier call or of a program with the same id.  The  *)
(* exception is what the unread type lets through (ping.c:147): since the  *)
(* call began its socket has got a packet with these two numbers that is   *)
(* no answer, but an error message, a router's, or a request, which for    *)
(* who pings this machine itself is its own.                               *)
CountedAnswered ==
  \A p \in Pingers : \A s \in counted[p] :
    <<Id[p], s>> \in answered \/ s \in strays[p]
-----------------------------------------------------------------------------
(* checksum(): the sum of the 16-bit words, with the carries added twice.  *)
Checksum(words) ==
  LET sum    == FoldSeq(+, 0, words)
      once   == (sum \div 65536) + (sum % 65536)
      twice  == once + (once \div 65536)
  IN  65535 - (twice % 65536)
=============================================================================
