---------------------------- MODULE RequestReply ----------------------------
(***************************************************************************)
(* The clients that send a request and wait for its reply: TCP, WebSocket, *)
(* ZeroMQ and the data channel of WebRTC (connect/*/client.py), with the   *)
(* servers of connect/*/server.py behind them.  A reply carries nothing    *)
(* that says which request it answers: it is the one that comes next.  So  *)
(* everything hangs on what a client does with a connection on which a     *)
(* reply is still due: a reply that comes too late, a server that dies.    *)
(*                                                                         *)
(* What is sent is the number of the request; a server's reply is the      *)
(* request it has been given.  A message is received whole or not at all.  *)
(***************************************************************************)
EXTENDS Integers, Sequences, SequencesExt

CONSTANTS
    MaxSends,     \* bound: requests
    MaxConnects,  \* bound: connections made
    Uses          \* bound: the client that is used, and by how many threads

Request == 1..MaxSends
Hello == 0
NoReply == -1
Thread == {1, 2}
Connection == 1..MaxConnects

VARIABLES
    use,        \* the client that is used, and its threads
    connected,  \* server_connected (connected of WebRTC)
    sock,       \* how many connections were made: the last is self.sock
    wire,       \* the requests a connection carries
    back,       \* the replies it carries
    broken,     \* the connections that are gone
    owed,       \* the REQ sockets that wait for a reply
    futures,    \* _pending_responses: the threads that wait, oldest first
    stage,      \* where each thread stands in send()
    saying,     \* what it sends: "hello" before its request on a new connection
    request,    \* its request
    sends,      \* how many requests there have been
    outcome,    \* what send() returned
    shared      \* history: two send() were under way at once on one stream

channel == <<wire, back, broken>>
caller == <<stage, saying, request>>
vars == <<use, connected, sock, channel, owed, futures, caller, sends, outcome,
          shared>>

\* A client is made, and connected, before it is used.
Init ==
    /\ use \in Uses
    /\ connected = TRUE /\ sock = 1
    /\ wire = [c \in Connection |-> << >>] /\ back = [c \in Connection |-> << >>]
    /\ broken = {} /\ owed = {} /\ futures = << >>
    /\ stage = [t \in Thread |-> "idle"] /\ saying = [t \in Thread |-> Hello]
    /\ request = [t \in Thread |-> Hello]
    /\ sends = 0 /\ outcome = [n \in Request |-> NoReply] /\ shared = FALSE

By(client) == use.by = client
Goes(t, to) == stage' = [stage EXCEPT ![t] = to]

\* send() is called; no lock keeps a second thread out.
Begins(t) ==
    /\ stage[t] = "idle" /\ t <= use.threads /\ sends < MaxSends
    /\ sends' = sends + 1
    /\ request' = [request EXCEPT ![t] = sends']
    /\ saying' = [saying EXCEPT ![t] = sends']
    /\ Goes(t, IF connected THEN "put" ELSE "connect")
    /\ shared' = (shared \/ (~By("webrtc") /\ \E u \in Thread : stage[u] # "idle"))
    /\ UNCHANGED <<use, connected, sock, channel, owed, futures, outcome>>

\* send() returns: the reply, or None.
Returns(t, reply) ==
    /\ outcome' = [outcome EXCEPT ![request[t]] = reply]
    /\ Goes(t, "idle")
    /\ UNCHANGED <<saying, request>>

-----------------------------------------------------------------------------
(* _connect.                                                               *)

\* A new connection, on which "hello" is sent first.
Dials(t) ==
    /\ sock' = sock + 1
    /\ saying' = [saying EXCEPT ![t] = Hello]
    /\ Goes(t, "put")
    /\ UNCHANGED <<request, outcome>>

\* A stream is connected, or the server is not there.
Opens(t) ==
    /\ stage[t] = "connect" /\ sock < MaxConnects
    /\ \/ Dials(t) /\ connected' = TRUE
       \/ Returns(t, NoReply) /\ connected' = FALSE /\ UNCHANGED sock
    /\ UNCHANGED <<use, channel, owed, futures, sends, shared>>

TcpConnects(t) == By("tcp") /\ Opens(t)
WebSocketConnects(t) == By("websocket") /\ Opens(t)

\* The REQ socket is made whether or not anybody is there.
ZmqConnects(t) ==
    /\ By("zmq") /\ stage[t] = "connect" /\ sock < MaxConnects
    /\ Dials(t)
    /\ UNCHANGED <<use, connected, channel, owed, futures, sends, shared>>

-----------------------------------------------------------------------------
(* send().                                                                 *)

\* What is sent is carried, unless the connection is gone.
Carry(t) == wire' = [wire EXCEPT ![sock] = IF sock \in broken THEN @ ELSE Append(@, saying[t])]

Puts(t) ==
    /\ stage[t] = "put"
    /\ Carry(t)
    /\ Goes(t, "get")
    /\ UNCHANGED <<use, connected, sock, back, broken, saying, request, sends, outcome, shared>>

\* The next reply on the connection is what was waited for.
Gets(t) ==
    /\ stage[t] = "get" /\ back[sock] # << >>
    /\ back' = [back EXCEPT ![sock] = Tail(@)]
    /\ IF saying[t] = Hello
       THEN /\ saying' = [saying EXCEPT ![t] = request[t]] /\ Goes(t, "put")
            /\ UNCHANGED <<request, outcome>>
       ELSE Returns(t, Head(back[sock]))
    /\ connected' = TRUE
    /\ UNCHANGED <<use, sock, wire, broken, futures, sends, shared>>

\* Mutant: the connection is kept when a request fails on it.
KeepsConnection(t) == Returns(t, NoReply) /\ UNCHANGED connected

\* The connection is closed: the next send() makes a new one.
DropsConnection(t) == Returns(t, NoReply) /\ connected' = FALSE

\* A TCP client waits for as long as the connection stands.
TcpSends(t) ==
    /\ By("tcp")
    /\ \/ Puts(t) /\ UNCHANGED <<owed, futures>>
       \/ Gets(t) /\ UNCHANGED owed
       \/ /\ stage[t] \in {"put", "get"} /\ sock \in broken
          /\ DropsConnection(t)
          /\ UNCHANGED <<use, sock, channel, owed, futures, sends, shared>>

WebSocketSends(t) ==
    /\ By("websocket")
    /\ \/ Puts(t) /\ UNCHANGED <<owed, futures>>
       \/ Gets(t) /\ UNCHANGED owed
       \/ /\ stage[t] = "get" \/ (stage[t] = "put" /\ sock \in broken)
          /\ DropsConnection(t)
          /\ UNCHANGED <<use, sock, channel, owed, futures, sends, shared>>

\* A REQ socket refuses a request while a reply is due; and _connect takes a "hello"
\* that failed for one that did not, because send() has swallowed the error.
ZmqSends(t) ==
    /\ By("zmq")
    /\ \/ /\ sock \notin owed /\ Puts(t)
          /\ owed' = owed \cup {sock} /\ UNCHANGED futures
       \/ Gets(t) /\ owed' = owed \ {sock}
       \/ /\ stage[t] = "get" \/ (stage[t] = "put" /\ sock \in owed)
          /\ IF saying[t] = Hello
             THEN /\ saying' = [saying EXCEPT ![t] = request[t]] /\ Goes(t, "put")
                  /\ connected' = TRUE /\ UNCHANGED <<request, outcome>>
             ELSE DropsConnection(t)
          /\ UNCHANGED <<use, sock, channel, owed, futures, sends, shared>>

-----------------------------------------------------------------------------
(* The data channel of WebRTC: connected once, and never closed here.      *)

RtcSends(t) ==
    /\ By("webrtc") /\ Puts(t)
    /\ futures' = Append(futures, t) /\ UNCHANGED owed

\* on_message: the oldest future gets it.
RtcMessage ==
    /\ By("webrtc") /\ back[sock] # << >>
    /\ back' = [back EXCEPT ![sock] = Tail(@)]
    /\ IF futures = << >> THEN UNCHANGED <<futures, caller, outcome>>
       ELSE futures' = Tail(futures) /\ Returns(Head(futures), Head(back[sock]))
    /\ UNCHANGED <<use, connected, sock, wire, broken, owed, sends, shared>>

\* wait_for gives up: the future is taken out of the list.
RtcTimesOut(t) ==
    /\ By("webrtc") /\ stage[t] = "get"
    /\ \E i \in DOMAIN futures : futures[i] = t /\ futures' = RemoveAt(futures, i)
    /\ Returns(t, NoReply)
    /\ UNCHANGED <<use, connected, sock, channel, owed, sends, shared>>

-----------------------------------------------------------------------------
(* The other side: a handler takes what one connection carries in order.   *)

Handles(c) ==
    /\ wire[c] # << >>
    /\ wire' = [wire EXCEPT ![c] = Tail(@)]
    /\ back' = [back EXCEPT ![c] = Append(@, Head(wire[c]))]
    /\ UNCHANGED <<use, connected, sock, broken, owed, futures, caller, sends, outcome, shared>>

TcpServes(c) == By("tcp") /\ Handles(c)
WebSocketServes(c) == By("websocket") /\ Handles(c)
ZmqServes(c) == By("zmq") /\ Handles(c)
RtcServes(c) == By("webrtc") /\ Handles(c)

\* The server dies, closes the connection or fails on a request; what it carried is lost.
Breaks(c) ==
    /\ ~By("webrtc") /\ c <= sock /\ c \notin broken
    /\ broken' = broken \cup {c}
    /\ wire' = [wire EXCEPT ![c] = << >>] /\ back' = [back EXCEPT ![c] = << >>]
    /\ UNCHANGED <<use, connected, sock, owed, futures, caller, sends, outcome, shared>>

Next ==
    \/ \E t \in Thread :
          \/ Begins(t) \/ TcpConnects(t) \/ WebSocketConnects(t) \/ ZmqConnects(t)
          \/ TcpSends(t) \/ WebSocketSends(t) \/ ZmqSends(t) \/ RtcSends(t) \/ RtcTimesOut(t)
    \/ RtcMessage
    \/ \E c \in Connection :
          TcpServes(c) \/ WebSocketServes(c) \/ ZmqServes(c) \/ RtcServes(c) \/ Breaks(c)

Spec == Init /\ [][Next]_vars

-----------------------------------------------------------------------------
(* Properties.                                                             *)

TypeOK ==
    /\ use \in Uses /\ connected \in BOOLEAN /\ sock \in Connection
    /\ broken \subseteq Connection /\ owed \subseteq Connection
    /\ stage \in [Thread -> {"idle", "connect", "put", "get"}]
    /\ sends \in 0..MaxSends /\ outcome \in [Request -> NoReply..MaxSends] /\ shared \in BOOLEAN

(***************************************************************************)
(* What send() returns answers the request it was given, or nothing: no    *)
(* reply that comes after its request was given up, and no late "hello",   *)
(* is taken for the answer of the next one.  The data channel, which is    *)
(* not closed, hands on a late reply, and so after a timeout; and from the *)
(* moment that two threads are in send() of one stream, which no lock      *)
(* prevents, nothing is promised.  Taking turns, they get their own.       *)
(***************************************************************************)
GivenUp(n) ==
    /\ n <= sends /\ outcome[n] = NoReply
    /\ \A t \in Thread : stage[t] = "idle" \/ request[t] # n

AnswersOwnRequest ==
    \A n \in Request :
        \/ outcome[n] \in {NoReply, n}
        \/ By("webrtc") /\ \E m \in Request \ {n} : GivenUp(m)
        \/ shared

(***************************************************************************)
(* "Responses on a single DataChannel are ordered, so pop(0) always        *)
(* matches the right send()" (webrtc/client.py).                           *)
(***************************************************************************)
PopMatchesSend == By("webrtc") => \A n \in Request : outcome[n] \in {NoReply, n}
=============================================================================
