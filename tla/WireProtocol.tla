---------------------------- MODULE WireProtocol ----------------------------
(***************************************************************************)
(* Requests and answers as bytes on TCP connections: send_message and      *)
(* receive_message (common/protocol.py), the request loop of a client      *)
(* (producer, consumer, replication manager: send, wait, drop the socket   *)
(* when nothing comes) and the loop of a broker's handle_client.           *)
(*                                                                         *)
(* A frame is a length prefix and a body, sent by two sendall calls; recv  *)
(* returns some of what has arrived, at least a byte.  Requests are        *)
(* numbered, and an answer has the number of its request: nothing in the   *)
(* frames themselves says which request an answer belongs to.              *)
(***************************************************************************)
EXTENDS Integers, Sequences

CONSTANTS MaxRequests,      \* bound: requests the client has to make
          MaxConns,         \* bound: connections it may open
          HeaderSize,       \* bytes of a length prefix (4)
          BodySize,         \* bytes of a body
          MaxLength         \* bound: length read from bytes that are no prefix

ASSUME WireAssumption == /\ {MaxRequests, MaxConns, MaxLength} \subseteq Nat \ {0}
                         /\ {HeaderSize, BodySize} \subseteq Nat \ {0}

Requests == 1..MaxRequests
Conns == 1..MaxConns
Ends == Conns \X {"client", "server"}

Client(c) == << c, "client" >>
Server(c) == << c, "server" >>
Peer(e) == IF e[2] = "client" THEN Server(e[1]) ELSE Client(e[1])

VARIABLES
    conns,      \* connections opened so far; the client uses the last
    request,    \* the request the client is making
    task,       \* per end: "off", "send" (a prefix), "body" (send it) or "recv"
    sending,    \* per end: the request or answer it sends
    wire,       \* per end: bytes sent to it and not received
    need,       \* per end: the length receive_message has read, 0 before
    got,        \* per end: the bytes of the body it has received
    sent,       \* history, per end: what it has begun to send
    seen        \* history, per end: what receive_message has returned

vars == << conns, request, task, sending, wire, need, got, sent, seen >>

\* Bytes are marked with the frame they belong to and their place in it.
Bytes(m, from, to) == [i \in 1..(to - from + 1) |-> << m, from + i - 1 >>]
Header(m) == Bytes(m, 1, HeaderSize)
Body(m) == Bytes(m, HeaderSize + 1, HeaderSize + BodySize)

Init ==
    /\ conns = 0
    /\ request = 1
    /\ task = [e \in Ends |-> "off"]
    /\ sending = [e \in Ends |-> 0]
    /\ wire = [e \in Ends |-> << >>]
    /\ need = [e \in Ends |-> 0]
    /\ got = [e \in Ends |-> << >>]
    /\ sent = [e \in Ends |-> << >>]
    /\ seen = [e \in Ends |-> << >>]

\* The client connects, and the broker starts a handle_client thread.
Connect(c) ==
    /\ c = conns + 1
    /\ request \in Requests
    /\ \A d \in Conns : task[Client(d)] = "off"
    /\ conns' = c
    /\ task' = [task EXCEPT ![Client(c)] = "send", ![Server(c)] = "recv"]
    /\ sending' = [sending EXCEPT ![Client(c)] = request]
    /\ UNCHANGED << request, wire, need, got, sent, seen >>

-----------------------------------------------------------------------------
(***************************************************************************)
(* send_message                                                            *)
(***************************************************************************)
\* sendall(length): it succeeds even if the peer has just gone.
SendLength(e) ==
    /\ task[e] = "send"
    /\ wire' = [wire EXCEPT ![Peer(e)] = @ \o Header(sending[e])]
    /\ sent' = [sent EXCEPT ![e] = Append(@, sending[e])]
    /\ task' = [task EXCEPT ![e] = "body"]
    /\ UNCHANGED << conns, request, sending, need, got, seen >>

\* sendall(encoded)
SendBody(e) ==
    /\ task[e] = "body"
    /\ wire' = [wire EXCEPT ![Peer(e)] = @ \o Body(sending[e])]
    /\ task' = [task EXCEPT ![e] = "recv"]
    /\ UNCHANGED << conns, request, sending, need, got, sent, seen >>

-----------------------------------------------------------------------------
(***************************************************************************)
(* receive_message: what its callers do with the result, then its steps.   *)
(***************************************************************************)
\* Faulty variant: chunks are kept from one call to the next.
ResetLength(e) ==
    /\ need' = [need EXCEPT ![e] = 0]
    /\ UNCHANGED got

Reset(e) ==
    /\ need' = [need EXCEPT ![e] = 0]
    /\ got' = [got EXCEPT ![e] = << >>]

\* Faulty variant: a client that gets nothing makes a request on the same socket.
NothingAndStay(e) ==
    /\ request' \in IF e[2] = "client" THEN {request, request + 1} ELSE {request}
    /\ task' = [task EXCEPT ![e] =
                    IF e[2] = "client" /\ request' \in Requests THEN "send" ELSE "off"]
    /\ sending' = [sending EXCEPT ![e] = IF e[2] = "client" THEN request' ELSE @]
    /\ Reset(e)
    /\ UNCHANGED << conns, wire, sent, seen >>

\* None: handle_client breaks; a client drops the socket, to make the request
\* again on another connection or give it up.
Nothing(e) ==
    /\ task' = [task EXCEPT ![e] = "off"]
    /\ request' \in IF e[2] = "client" THEN {request, request + 1} ELSE {request}
    /\ Reset(e)
    /\ UNCHANGED << conns, sending, wire, sent, seen >>

\* A message: handle_client handles and answers it, a client makes its next
\* request on the same connection.
Received(e, m) ==
    /\ seen' = [seen EXCEPT ![e] = Append(@, m)]
    /\ IF e[2] = "server"
       THEN /\ sending' = [sending EXCEPT ![e] = m]
            /\ task' = [task EXCEPT ![e] = "send"]
            /\ UNCHANGED request
       ELSE /\ request' = request + 1
            /\ sending' = [sending EXCEPT ![e] = request']
            /\ task' = [task EXCEPT ![e] = IF request' \in Requests THEN "send" ELSE "off"]
    /\ Reset(e)
    /\ UNCHANGED << conns, sent >>

\* recv(n): any part of what has arrived.
Arrived(e, n) == {SubSeq(wire[e], 1, k) : k \in 1..(IF n < Len(wire[e]) THEN n ELSE Len(wire[e]))}

Consume(e, bytes) == wire' = [wire EXCEPT ![e] = SubSeq(@, Len(bytes) + 1, Len(@))]

\* int.from_bytes: the length, or some number if these bytes are no prefix.
LengthIn(bytes) == IF \E m \in Requests : bytes = Header(m) THEN {BodySize} ELSE 1..MaxLength

\* The one recv for the prefix: short is None.
ReadLength(e) ==
    /\ task[e] = "recv"
    /\ need[e] = 0
    /\ \E bytes \in Arrived(e, HeaderSize) :
        /\ Len(bytes) = HeaderSize
        /\ \E n \in LengthIn(bytes) : need' = [need EXCEPT ![e] = n]
        /\ Consume(e, bytes)
    /\ UNCHANGED << conns, request, task, sending, got, sent, seen >>

ReadShort(e) ==
    /\ task[e] = "recv"
    /\ need[e] = 0
    /\ \E bytes \in Arrived(e, HeaderSize - 1) : Nothing(e)

\* One round of the loop for the body.
ReadBody(e) ==
    /\ task[e] = "recv"
    /\ need[e] > 0
    /\ \E bytes \in Arrived(e, need[e] - Len(got[e])) :
        /\ got' = [got EXCEPT ![e] = @ \o bytes]
        /\ Consume(e, bytes)
    /\ UNCHANGED << conns, request, task, sending, need, sent, seen >>

\* The loop ends: decode and from_json, which fail on anything but a body.
Decode(e) ==
    /\ task[e] = "recv"
    /\ need[e] > 0
    /\ Len(got[e]) = need[e]
    /\ IF \E m \in Requests : got[e] = Body(m)
       THEN UNCHANGED wire /\ \E m \in Requests : got[e] = Body(m) /\ Received(e, m)
       ELSE Nothing(e)

\* Timeout, end of stream or a broken connection, in recv or in sendall.
Fails(e) ==
    /\ task[e] # "off"
    /\ Nothing(e)

Next ==
    \/ \E c \in Conns : Connect(c)
    \/ \E e \in Ends :
        \/ SendLength(e) \/ SendBody(e) \/ ReadLength(e) \/ ReadShort(e)
        \/ ReadBody(e) \/ Decode(e) \/ Fails(e)

Spec == Init /\ [][Next]_vars

-----------------------------------------------------------------------------
(***************************************************************************)
(* Properties.                                                             *)
(***************************************************************************)
\* The loop for the body never takes bytes of the next frame.
TypeOK ==
    /\ conns \in 0..MaxConns
    /\ request \in 1..(MaxRequests + 1)
    /\ task \in [Ends -> {"off", "send", "body", "recv"}]
    /\ sending \in [Ends -> 0..(MaxRequests + 1)]
    /\ wire \in [Ends -> Seq(Requests \X (1..(HeaderSize + BodySize)))]
    /\ need \in [Ends -> 0..(BodySize + MaxLength)]
    /\ \A e \in Ends : Len(got[e]) <= need[e]
    /\ {sent[e] : e \in Ends} \cup {seen[e] : e \in Ends} \subseteq Seq(Requests)

Prefix(s, t) == Len(s) <= Len(t) /\ \A i \in DOMAIN s : s[i] = t[i]

\* However the bytes are cut, and whatever fails between two of them, what an end
\* receives is what its peer sent, in order and without a gap.
FramesInOrder == \A e \in Ends : Prefix(seen[e], sent[Peer(e)])

\* Action property: what a client takes as the answer is the answer to the request it is
\* making.  The late answer of a request that timed out is never taken for the answer to
\* a later one, although answers do not name their request.
AnswersMatch ==
    [][\A c \in Conns :
          seen'[Client(c)] \in {seen[Client(c)], Append(seen[Client(c)], request)}]_vars
=============================================================================
