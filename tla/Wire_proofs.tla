----------------------------- MODULE Wire_proofs -----------------------------
(***************************************************************************)
(* Theorems of WireProtocol, for prefixes and bodies of any size, however  *)
(* recv cuts them, and for any number of requests and connections.         *)
(***************************************************************************)
EXTENDS WireProtocol, TLAPS

\* A byte of a frame, with its place in it.
Byte == Requests \X (1..(HeaderSize + BodySize))

(***************************************************************************)
(* Bytes of a frame: taking the first k leaves the others, and sending the *)
(* body after the prefix makes the frame.                                  *)
(***************************************************************************)
LEMMA BytesFacts ==
    ASSUME NEW m, NEW a \in Nat \ {0}, NEW b \in Nat, a <= b + 1
    PROVE  /\ Len(Bytes(m, a, b)) = b - a + 1
           /\ Bytes(m, a, b) \in Seq({m} \X (a..b))
           /\ \A i \in 1..(b - a + 1) : Bytes(m, a, b)[i] = << m, a + i - 1 >>
           /\ a = b + 1 => Bytes(m, a, b) = << >>
<1>1. b - a + 1 \in Nat
  OBVIOUS
<1>2. \A i \in 1..(b - a + 1) : << m, a + i - 1 >> \in {m} \X (a..b)
  OBVIOUS
<1> QED
  BY <1>1, <1>2 DEF Bytes

LEMMA BytesNone ==
    ASSUME NEW m, NEW b \in Nat
    PROVE  Bytes(m, b + 1, b) = << >>
<1>1. b - (b + 1) + 1 = 0
  OBVIOUS
<1> QED
  BY <1>1 DEF Bytes

LEMMA BytesAt ==
    ASSUME NEW m, NEW a \in Nat \ {0}, NEW b \in Nat, a <= b + 1, NEW i \in 1..(b - a + 1)
    PROVE  Bytes(m, a, b)[i] = << m, a + i - 1 >>
BY DEF Bytes

LEMMA SeqEqual ==
    ASSUME NEW S, NEW s \in Seq(S), NEW t \in Seq(S), Len(s) = Len(t),
           \A i \in 1..Len(s) : s[i] = t[i]
    PROVE  s = t
OBVIOUS

\* What a cut at k leaves on its two sides.
First(s, k) == SubSeq(s, 1, k)
Rest(s, k) == SubSeq(s, k + 1, Len(s))
Glue(s, t) == s \o t

LEMMA BytesTake ==
    ASSUME NEW m, NEW a \in Nat \ {0}, NEW b \in Nat, NEW k \in Nat, a + k <= b + 1
    PROVE  First(Bytes(m, a, b), k) = Bytes(m, a, a + k - 1)
BY DEF Bytes, First

LEMMA BytesDrop ==
    ASSUME NEW m, NEW a \in Nat \ {0}, NEW b \in Nat, NEW k \in Nat, a + k <= b + 1
    PROVE  Rest(Bytes(m, a, b), k) = Bytes(m, a + k, b)
<1>1. a <= b + 1
  OBVIOUS
<1>2. Len(Bytes(m, a, b)) = b - a + 1
  BY <1>1, BytesFacts
<1> QED
  BY <1>2 DEF Bytes, Rest

LEMMA BytesJoin ==
    ASSUME NEW m, NEW a \in Nat \ {0}, NEW b \in Nat, NEW c \in Nat, a <= b + 1, b <= c
    PROVE  Bytes(m, a, b) \o Bytes(m, b + 1, c) = Bytes(m, a, c)
<1>0. PICK d \in Nat \ {0} : d = b + 1
  OBVIOUS
<1>1. /\ d <= c + 1 /\ a <= c + 1 /\ (b - a + 1) + (c - d + 1) = c - a + 1
      /\ {b - a + 1, c - d + 1, c - a + 1} \subseteq Nat
  BY <1>0
<1>2. PICK S : S = {m} \X (a..c)
  OBVIOUS
<1>3. PICK s \in Seq(S) : /\ s = Bytes(m, a, b) /\ Len(s) = b - a + 1
                          /\ \A i \in 1..(b - a + 1) : s[i] = << m, a + i - 1 >>
  <2>1. {m} \X (a..b) \subseteq S
    BY <1>0, <1>1, <1>2
  <2>2. Bytes(m, a, b) \in Seq({m} \X (a..b)) /\ Len(Bytes(m, a, b)) = b - a + 1
    BY BytesFacts, ZenonT(30)
  <2>3. \A i \in 1..(b - a + 1) : Bytes(m, a, b)[i] = << m, a + i - 1 >>
    BY BytesAt, ZenonT(30)
  <2> QED
    BY <2>1, <2>2, <2>3
<1>4. PICK t \in Seq(S) : /\ t = Bytes(m, d, c) /\ Len(t) = c - d + 1
                          /\ \A i \in 1..(c - d + 1) : t[i] = << m, d + i - 1 >>
  <2>1. {m} \X (d..c) \subseteq S
    BY <1>0, <1>1, <1>2
  <2>2. Bytes(m, d, c) \in Seq({m} \X (d..c)) /\ Len(Bytes(m, d, c)) = c - d + 1
    BY <1>1, BytesFacts, ZenonT(30)
  <2>3. \A i \in 1..(c - d + 1) : Bytes(m, d, c)[i] = << m, d + i - 1 >>
    BY <1>1, BytesAt, ZenonT(30)
  <2> QED
    BY <2>1, <2>2, <2>3
<1>5. PICK u \in Seq(S) : /\ u = Bytes(m, a, c) /\ Len(u) = c - a + 1
                          /\ \A i \in 1..(c - a + 1) : u[i] = << m, a + i - 1 >>
  <2>1. Bytes(m, a, c) \in Seq({m} \X (a..c)) /\ Len(Bytes(m, a, c)) = c - a + 1
    BY <1>1, BytesFacts, ZenonT(30)
  <2>2. \A i \in 1..(c - a + 1) : Bytes(m, a, c)[i] = << m, a + i - 1 >>
    BY <1>1, BytesAt, ZenonT(30)
  <2> QED
    BY <1>2, <2>1, <2>2
<1>6. s \o t \in Seq(S) /\ Len(s \o t) = Len(u)
  <2>1. s \o t \in Seq(S) /\ Len(s \o t) = Len(s) + Len(t)
    OBVIOUS
  <2> QED
    BY <1>1, <1>3, <1>4, <1>5, <2>1
<1>7. ASSUME NEW i \in 1..Len(s \o t) PROVE (s \o t)[i] = u[i]
  <2>1. i \in 1..(c - a + 1) /\ u[i] = << m, a + i - 1 >>
    BY <1>5, <1>6
  <2>2. CASE i <= b - a + 1
    <3>1. i \in 1..(b - a + 1) /\ (s \o t)[i] = s[i]
      BY <1>3, <2>1, <2>2
    <3> QED
      BY <1>3, <2>1, <3>1
  <2>3. CASE ~(i <= b - a + 1)
    <3>1. PICK j \in 1..(c - d + 1) : j = i - (b - a + 1) /\ d + j - 1 = a + i - 1
      BY <1>0, <2>1, <2>3
    <3>2. i \in 1..(Len(s) + Len(t)) /\ ~(i <= Len(s)) /\ i - Len(s) = j
      BY <1>1, <1>3, <1>4, <2>1, <2>3, <3>1
    <3>3. (s \o t)[i] = t[i - Len(s)]
      BY <3>2
    <3> QED
      BY <1>4, <2>1, <3>1, <3>2, <3>3
  <2> QED
    BY <2>2, <2>3
<1>8. s \o t = u
  BY <1>6, <1>7, SeqEqual
<1> QED
  BY <1>0, <1>3, <1>4, <1>5, <1>8

\* The same, of what follows the first h or k bytes of a frame.
LEMMA CutFacts ==
    ASSUME NEW m, NEW k \in Nat, NEW t \in Nat, NEW j \in Nat, k + j <= t
    PROVE  /\ First(Bytes(m, k + 1, t), j) = Bytes(m, k + 1, k + j)
           /\ Rest(Bytes(m, k + 1, t), j) = Bytes(m, k + j + 1, t)
<1>1. PICK a \in Nat \ {0} : a = k + 1
  OBVIOUS
<1>2. a + j <= t + 1 /\ a + j - 1 = k + j /\ a + j = k + j + 1
  BY <1>1
<1>3. First(Bytes(m, a, t), j) = Bytes(m, a, a + j - 1)
  BY <1>2, BytesTake
<1>4. Rest(Bytes(m, a, t), j) = Bytes(m, a + j, t)
  BY <1>2, BytesDrop
<1> QED
  BY <1>1, <1>2, <1>3, <1>4

LEMMA JoinFacts ==
    ASSUME NEW m, NEW h \in Nat, NEW k \in Nat, NEW t \in Nat, h <= k, k <= t
    PROVE  Glue(Bytes(m, h + 1, k), Bytes(m, k + 1, t)) = Bytes(m, h + 1, t)
<1>1. PICK a \in Nat \ {0} : a = h + 1
  OBVIOUS
<1>2. a <= k + 1
  BY <1>1
<1>3. Bytes(m, a, k) \o Bytes(m, k + 1, t) = Bytes(m, a, t)
  BY <1>2, BytesJoin
<1> QED
  BY <1>1, <1>3 DEF Glue

LEMMA Sizes == /\ MaxRequests \in Nat \ {0} /\ MaxConns \in Nat \ {0}
              /\ MaxLength \in Nat \ {0} /\ BodySize \in Nat \ {0}
              /\ HeaderSize \in Nat \ {0}
              /\ HeaderSize + 1 \in Nat \ {0} /\ HeaderSize + BodySize \in Nat \ {0}
              /\ HeaderSize + 1 <= HeaderSize + BodySize
BY WireAssumption

LEMMA FrameFacts ==
    ASSUME NEW m \in Requests
    PROVE  /\ Header(m) \in Seq(Byte) /\ Body(m) \in Seq(Byte)
           /\ \A n \in Requests : Body(m) = Body(n) => m = n
<1>1. Header(m) \in Seq(Byte)
  <2>1. Header(m) \in Seq({m} \X (1..HeaderSize))
    <3>1. PICK h \in Nat \ {0}, first \in Nat \ {0} :
              h = HeaderSize /\ first = 1 /\ first <= h + 1
      BY Sizes
    <3>2. Bytes(m, first, h) \in Seq({m} \X (first..h))
      BY <3>1, BytesFacts
    <3> QED
      BY <3>1, <3>2 DEF Header
  <2>2. {m} \X (1..HeaderSize) \subseteq Byte
    BY Sizes DEF Byte
  <2> QED
    BY <2>1, <2>2
<1>2. PICK a \in Nat \ {0}, b \in Nat \ {0} :
          a = HeaderSize + 1 /\ b = HeaderSize + BodySize /\ a <= b
  BY Sizes
<1>3. \A n : Body(n) = Bytes(n, a, b)
  BY <1>2 DEF Body
<1>4. Body(m) \in Seq(Byte)
  <2>1. Body(m) \in Seq({m} \X (a..b))
    <3>1. a <= b + 1 /\ b \in Nat
      BY <1>2
    <3>2. Bytes(m, a, b) \in Seq({m} \X (a..b))
      BY <3>1, BytesFacts
    <3> QED
      BY <1>3, <3>2
  <2>2. {m} \X (a..b) \subseteq Byte
    BY <1>2, Sizes DEF Byte
  <2> QED
    BY <2>1, <2>2
<1>5. ASSUME NEW n PROVE Body(n)[1] = << n, a >>
  BY <1>2, <1>3 DEF Bytes
<1> QED
  BY <1>1, <1>4, <1>5

(***************************************************************************)
(* Connections and their ends.                                             *)
(***************************************************************************)
LEMMA EndFacts ==
    ASSUME NEW e \in Ends
    PROVE  /\ Peer(e) \in Ends /\ Peer(e) # e /\ Peer(Peer(e)) = e
           /\ \A f \in Ends : f # e /\ f # Peer(e) => Peer(f) # e /\ Peer(f) # Peer(e)
           /\ e[1] \in Conns
           /\ \/ e[2] = "client" /\ e = Client(e[1]) /\ Peer(e) = Server(e[1]) /\ Peer(e)[2] = "server"
              \/ e[2] = "server" /\ e = Server(e[1]) /\ Peer(e) = Client(e[1]) /\ Peer(e)[2] = "client"
BY DEF Ends, Peer, Client, Server

\* What recv may return, and what is left.
LEMMA ArrivedFacts ==
    ASSUME NEW e \in Ends, wire[e] \in Seq(Byte), NEW n \in Nat, NEW bytes \in Arrived(e, n)
    PROVE  /\ Len(bytes) \in 1..n /\ Len(bytes) <= Len(wire[e])
           /\ bytes = First(wire[e], Len(bytes))
           /\ bytes \in Seq(Byte)
           /\ Rest(wire[e], Len(bytes)) \in Seq(Byte)
<1>1. PICK k \in 1..(IF n < Len(wire[e]) THEN n ELSE Len(wire[e])) : bytes = SubSeq(wire[e], 1, k)
  BY DEF Arrived
<1>2. k \in Nat /\ k <= n /\ k <= Len(wire[e]) /\ k >= 1 /\ Len(wire[e]) \in Nat
  BY <1>1
<1>3. Len(bytes) = k /\ bytes \in Seq(Byte)
  BY <1>1, <1>2
<1>4. Rest(wire[e], k) \in Seq(Byte)
  BY <1>2 DEF Rest
<1> QED
  BY <1>1, <1>2, <1>3, <1>4 DEF First

LEMMA ConsumeFacts ==
    ASSUME NEW e, NEW bytes, Consume(e, bytes)
    PROVE  wire' = [wire EXCEPT ![e] = Rest(wire[e], Len(bytes))]
BY DEF Consume, Rest

(***************************************************************************)
(* Type correctness.  Only the last connection's client is at work, and it *)
(* makes the current request.                                              *)
(***************************************************************************)
Types ==
    /\ conns \in 0..MaxConns
    /\ request \in 1..(MaxRequests + 1)
    /\ task \in [Ends -> {"off", "send", "body", "recv"}]
    /\ sending \in [Ends -> 0..(MaxRequests + 1)]
    /\ wire \in [Ends -> Seq(Byte)]
    /\ need \in [Ends -> 0..(BodySize + MaxLength)]
    /\ got \in [Ends -> Seq(Byte)]
    /\ sent \in [Ends -> Seq(Requests)]
    /\ seen \in [Ends -> Seq(Requests)]

Fits == \A e \in Ends : Len(got[e]) <= need[e]

Working ==
    /\ \A e \in Ends : task[e] \in {"send", "body"} => sending[e] \in Requests
    /\ \A e \in Ends : e[2] = "client" /\ task[e] # "off" =>
           request \in Requests /\ e[1] = conns

TypeInv == Types /\ Fits /\ Working

LEMMA TypeInit == Init => TypeInv
<1> SUFFICES ASSUME Init PROVE TypeInv
  OBVIOUS
<1>1. Types
  BY Sizes DEF Init, Types
<1>2. Fits /\ Working
  BY Sizes DEF Init, Fits, Working
<1> QED
  BY <1>1, <1>2 DEF TypeInv

LEMMA TypeStep == TypeInv /\ [Next]_vars => TypeInv'
<1> SUFFICES ASSUME TypeInv, [Next]_vars PROVE TypeInv'
  OBVIOUS
<1>. Types /\ Fits /\ Working
  BY DEF TypeInv
<1> SUFFICES Types' /\ Fits' /\ Working'
  BY DEF TypeInv
<1>0. \A e \in Ends : need[e] \in Nat /\ Len(got[e]) \in Nat
  BY Sizes DEF Types
<1>r. /\ 1..(MaxRequests + 1) \subseteq 0..(MaxRequests + 1)
      /\ Requests \subseteq 1..(MaxRequests + 1)
      /\ \A r \in Requests : r + 1 \in 1..(MaxRequests + 1)
      /\ 1..(BodySize + MaxLength) \subseteq 0..(BodySize + MaxLength)
      /\ 0 \in 0..(BodySize + MaxLength)
      /\ HeaderSize \in Nat
  BY Sizes DEF Requests
<1>1. ASSUME NEW c \in Conns, Connect(c) PROVE Types' /\ Fits' /\ Working'
  <2>1. Client(c) \in Ends /\ Server(c) \in Ends /\ Client(c) # Server(c)
    BY DEF Ends, Client, Server
  <2>2. \A e \in Ends : e[2] = "client" => e = Client(e[1]) /\ e[1] \in Conns
    BY DEF Ends, Client
  <2>3. conns' \in 0..MaxConns
    BY <1>1, Sizes DEF Connect, Conns
  <2>4. /\ task' = [task EXCEPT ![Client(c)] = "send", ![Server(c)] = "recv"]
        /\ sending' = [sending EXCEPT ![Client(c)] = request]
        /\ UNCHANGED << request, wire, need, got, sent, seen >>
        /\ request \in Requests /\ conns' = c
        /\ \A d \in Conns : task[Client(d)] = "off"
    BY <1>1 DEF Connect
  <2>5. \A e \in Ends : e[2] = "client" => e # Server(c) /\ (e[1] = c => e = Client(c))
    BY <2>2 DEF Server
  <2>6. Client(c)[1] = c
    BY DEF Client
  <2>7. Types'
    BY <1>r, <2>1, <2>3, <2>4 DEF Types
  <2>8. Fits'
    BY <2>4 DEF Fits
  <2>9. Working'
    BY <2>1, <2>2, <2>4, <2>5, <2>6 DEF Working, Types
  <2> QED
    BY <2>7, <2>8, <2>9
<1>2. ASSUME NEW e \in Ends, NEW m, NEW s \in Seq(Byte), task[e] \in {"send", "body"},
             wire' = [wire EXCEPT ![Peer(e)] = @ \o s],
             sent' = sent \/ sent' = [sent EXCEPT ![e] = Append(@, sending[e])],
             \E t \in {"body", "recv"} : task' = [task EXCEPT ![e] = t],
             UNCHANGED << conns, request, sending, need, got, seen >>
      PROVE  Types' /\ Fits' /\ Working'
  <2>1. sending[e] \in Requests
    BY <1>2 DEF Working
  <2>2. wire[Peer(e)] \in Seq(Byte) /\ Peer(e) \in Ends
    BY EndFacts DEF Types
  <2>3. wire[Peer(e)] \o s \in Seq(Byte) /\ Append(sent[e], sending[e]) \in Seq(Requests)
    BY <2>1, <2>2 DEF Types
  <2>4. Types'
    BY <1>2, <2>2, <2>3 DEF Types
  <2>5. Fits' /\ Working'
    BY <1>2, <2>1 DEF Fits, Working, Types
  <2> QED
    BY <2>4, <2>5
<1>3. ASSUME NEW e \in Ends, SendLength(e) \/ SendBody(e) PROVE Types' /\ Fits' /\ Working'
  <2>1. Header(sending[e]) \in Seq(Byte) /\ Body(sending[e]) \in Seq(Byte)
    BY <1>3, FrameFacts DEF SendLength, SendBody, Working
  <2>2. CASE SendLength(e)
    BY <1>2, <2>1, <2>2 DEF SendLength
  <2>3. CASE SendBody(e)
    BY <1>2, <2>1, <2>3 DEF SendBody
  <2> QED
    BY <1>3, <2>2, <2>3
<1>4. ASSUME NEW e \in Ends, task[e] # "off", Nothing(e) PROVE Types' /\ Fits' /\ Working'
  <2>1. /\ task' = [task EXCEPT ![e] = "off"]
        /\ need' = [need EXCEPT ![e] = 0] /\ got' = [got EXCEPT ![e] = << >>]
        /\ request' \in IF e[2] = "client" THEN {request, request + 1} ELSE {request}
        /\ UNCHANGED << conns, sending, wire, sent, seen >>
    BY <1>4 DEF Nothing, Reset
  <2>2. request' \in 1..(MaxRequests + 1)
    <3>1. CASE e[2] = "client"
      BY <1>4, <1>r, <2>1, <3>1 DEF Types, Working
    <3>2. CASE e[2] # "client"
      BY <2>1, <3>2 DEF Types
    <3> QED
      BY <3>1, <3>2
  <2>3. Types'
    <3>1. << >> \in Seq(Byte)
      OBVIOUS
    <3> QED
      BY <1>r, <2>1, <2>2, <3>1 DEF Types
  <2>6. Fits'
    BY <2>1 DEF Types, Fits
  <2>4. CASE e[2] = "client"
    <3>1. \A f \in Ends : f[2] = "client" /\ f # e => task[f] = "off"
      BY <1>4, <2>4, EndFacts DEF Working
    <3>2. task \in [Ends -> {"off", "send", "body", "recv"}]
      BY DEF Types
    <3>3. \A f \in Ends : task'[f] # "off" => task'[f] = task[f] /\ f # e
      BY <2>1, <3>2
    <3>4. \A f \in Ends : f[2] = "client" => task'[f] = "off"
      BY <3>1, <3>3, <2>1, <3>2
    <3>5. /\ UNCHANGED << conns, sending >>
          /\ \A f \in Ends : task'[f] \in {"send", "body"} => task'[f] = task[f]
      BY <2>1, <3>3
    <3>6. \A f \in Ends : task'[f] \in {"send", "body"} => sending'[f] \in Requests
      BY <3>5 DEF Working
    <3>7. \A f \in Ends : f[2] = "client" /\ task'[f] # "off" =>
              request' \in Requests /\ f[1] = conns'
      BY <3>3, <3>4, <3>5 DEF Working
    <3> QED
      BY <2>3, <2>6, <3>6, <3>7 DEF Working
  <2>5. CASE e[2] # "client"
    <3>2. task \in [Ends -> {"off", "send", "body", "recv"}]
      BY DEF Types
    <3>3. \A f \in Ends : task'[f] # "off" => task'[f] = task[f]
      BY <2>1, <3>2
    <3>4. request' = request
      BY <2>1, <2>5
    <3>5. /\ UNCHANGED << conns, sending >>
          /\ \A f \in Ends : task'[f] \in {"send", "body"} => task'[f] = task[f]
      BY <2>1, <3>3
    <3>6. \A f \in Ends : task'[f] \in {"send", "body"} => sending'[f] \in Requests
      BY <3>5 DEF Working
    <3>7. \A f \in Ends : f[2] = "client" /\ task'[f] # "off" =>
              request' \in Requests /\ f[1] = conns'
      BY <3>3, <3>4, <3>5 DEF Working
    <3> QED
      BY <2>3, <2>6, <3>6, <3>7 DEF Working
  <2> QED
    BY <2>3, <2>4, <2>5, <2>6
<1>5. ASSUME NEW e \in Ends, ReadLength(e) PROVE Types' /\ Fits' /\ Working'
  <2>1. PICK bytes \in Arrived(e, HeaderSize) :
            /\ \E n \in LengthIn(bytes) : need' = [need EXCEPT ![e] = n]
            /\ Consume(e, bytes)
    BY <1>5 DEF ReadLength
  <2>2. Rest(wire[e], Len(bytes)) \in Seq(Byte)
    <3>1. wire[e] \in Seq(Byte) /\ HeaderSize \in Nat
      BY Sizes DEF Types
    <3> QED
      BY <2>1, <3>1, ArrivedFacts
  <2>3. LengthIn(bytes) \subseteq 1..(BodySize + MaxLength)
    BY Sizes DEF LengthIn
  <2>4. need[e] = 0 /\ UNCHANGED << conns, request, task, sending, got, sent, seen >>
    BY <1>5 DEF ReadLength
  <2>5. Len(got[e]) <= 0
    BY <2>4 DEF Fits
  <2>6. wire' = [wire EXCEPT ![e] = Rest(wire[e], Len(bytes))]
    BY <2>1, ConsumeFacts
  <2>7. PICK n \in 1..(BodySize + MaxLength) : need' = [need EXCEPT ![e] = n]
    BY <2>1, <2>3
  <2>8. Types'
    BY <1>r, <2>2, <2>4, <2>6, <2>7 DEF Types
  <2>9. Fits' /\ Working'
    BY <1>0, <2>4, <2>5, <2>7 DEF Fits, Working, Types
  <2> QED
    BY <2>8, <2>9
<1>6. ASSUME NEW e \in Ends, ReadBody(e) PROVE Types' /\ Fits' /\ Working'
  <2>1. PICK bytes \in Arrived(e, need[e] - Len(got[e])) :
            /\ got' = [got EXCEPT ![e] = @ \o bytes]
            /\ Consume(e, bytes)
    BY <1>6 DEF ReadBody
  <2>2. PICK k \in Nat : k = need[e] - Len(got[e])
    BY <1>0 DEF Fits
  <2>3. /\ Rest(wire[e], Len(bytes)) \in Seq(Byte)
        /\ bytes \in Seq(Byte) /\ Len(bytes) <= need[e] - Len(got[e])
    <3>1. wire[e] \in Seq(Byte) /\ bytes \in Arrived(e, k)
      BY <2>1, <2>2 DEF Types
    <3>2. Len(bytes) \in 1..k
      BY <3>1, ArrivedFacts
    <3> QED
      BY <2>2, <3>1, <3>2, ArrivedFacts
  <2>4. got[e] \in Seq(Byte)
    BY DEF Types
  <2>5. /\ got[e] \o bytes \in Seq(Byte)
        /\ Len(got[e] \o bytes) <= need[e]
    BY <1>0, <2>3, <2>4
  <2>6. wire' = [wire EXCEPT ![e] = Rest(wire[e], Len(bytes))]
    BY <2>1, ConsumeFacts
  <2>7. UNCHANGED << conns, request, task, sending, need, sent, seen >>
    BY <1>6 DEF ReadBody
  <2>8. Types'
    BY <2>1, <2>3, <2>5, <2>6, <2>7 DEF Types
  <2>9. Fits' /\ Working'
    BY <2>1, <2>5, <2>7 DEF Fits, Working, Types
  <2> QED
    BY <2>8, <2>9
<1>7. ASSUME NEW e \in Ends, NEW m \in Requests, task[e] = "recv", UNCHANGED wire, Received(e, m)
      PROVE  Types' /\ Fits' /\ Working'
  <2>1. Append(seen[e], m) \in Seq(Requests)
    BY DEF Types
  <2>2. /\ need' = [need EXCEPT ![e] = 0] /\ got' = [got EXCEPT ![e] = << >>]
        /\ seen' = [seen EXCEPT ![e] = Append(seen[e], m)]
        /\ UNCHANGED << conns, wire, sent >>
    BY <1>7 DEF Received, Reset
  <2>3. Fits'
    BY <2>2 DEF Fits, Types
  <2>4. m \in 0..(MaxRequests + 1) /\ << >> \in Seq(Byte)
    BY <1>r
  <2>5. CASE e[2] = "server"
    <3>1. /\ sending' = [sending EXCEPT ![e] = m] /\ task' = [task EXCEPT ![e] = "send"]
          /\ UNCHANGED request
      BY <1>7, <2>5 DEF Received
    <3>2. Types'
      BY <1>r, <2>1, <2>2, <2>4, <3>1 DEF Types
    <3>3. Working'
      BY <2>2, <2>5, <3>1 DEF Working, Types
    <3> QED
      BY <2>3, <3>2, <3>3
  <2>6. CASE e[2] = "client"
    <3>1. request \in Requests /\ e[1] = conns
      BY <1>7, <2>6 DEF Working
    <3>2. /\ request' = request + 1 /\ sending' = [sending EXCEPT ![e] = request']
          /\ task' = [task EXCEPT ![e] = IF request' \in Requests THEN "send" ELSE "off"]
      BY <1>7, <2>6 DEF Received
    <3>3. request' \in 1..(MaxRequests + 1)
      BY <1>r, <3>1, <3>2
    <3>4. \A f \in Ends : f[2] = "client" /\ f # e => task[f] = "off"
      BY <2>6, <3>1, EndFacts DEF Working
    <3>5. Types'
      BY <1>r, <2>1, <2>2, <2>4, <3>2, <3>3 DEF Types
    <3>6. Working'
      BY <2>2, <3>1, <3>2, <3>4 DEF Working, Types
    <3> QED
      BY <2>3, <3>5, <3>6
  <2> QED
    BY <2>5, <2>6, EndFacts
<1>8. CASE UNCHANGED vars
  BY <1>8 DEF vars, Types, Fits, Working
<1> QED
  <2>1. ASSUME NEW e \in Ends, ReadShort(e) \/ Decode(e) \/ Fails(e)
        PROVE  Types' /\ Fits' /\ Working'
    BY <1>4, <1>7, <2>1 DEF ReadShort, Decode, Fails
  <2> QED
    BY <1>1, <1>3, <1>5, <1>6, <1>8, <2>1 DEF Next

\* In every run, however recv cuts the stream: the loop for a body never takes a byte
\* beyond the length it read, and every variable keeps its type.
THEOREM TypeCorrect == Spec => []TypeOK
<1>1. TypeInv => TypeOK
  BY DEF TypeInv, Types, Fits, TypeOK, Byte
<1> QED
  BY <1>1, TypeInit, TypeStep, PTL DEF Spec

(***************************************************************************)
(* Frames.  A client and its handler take turns, so a direction of a       *)
(* connection carries at most one frame, and an end that reads has taken   *)
(* some number of its first bytes and not the rest of those sent so far.   *)
(***************************************************************************)
Silent(e) == wire[e] = << >> /\ need[e] = 0 /\ got[e] = << >>

\* Of t bytes of frame m sent to e, receive_message has taken the first k: none, or
\* the prefix and a part of the body.
Taken(e, m, k, t) ==
    /\ wire[e] = Bytes(m, k + 1, t)
    /\ k = 0 => need[e] = 0 /\ got[e] = << >>
    /\ k # 0 => need[e] = BodySize /\ got[e] = Bytes(m, HeaderSize + 1, k)

\* The peer's frame is on its way to e: the prefix only while the peer is between its
\* two sendall calls, all of it once the peer waits for an answer.
Underway(e) ==
    \E k \in {0} \cup (HeaderSize..(HeaderSize + BodySize)),
       t \in {HeaderSize, HeaderSize + BodySize} :
        /\ k <= t
        /\ task[Peer(e)] = "body" => t = HeaderSize
        /\ task[Peer(e)] = "recv" => t = HeaderSize + BodySize
        /\ Taken(e, sending[Peer(e)], k, t)

EndInv(e) ==
    /\ task[e] \in {"send", "body"} =>
           /\ Silent(e) /\ seen[e] = sent[Peer(e)]
           /\ task[Peer(e)] \in {"recv", "off"}
    /\ task[e] = "recv" =>
           \/ Silent(e) /\ seen[e] = sent[Peer(e)] /\ task[Peer(e)] # "body"
           \/ /\ Underway(e) /\ sent[Peer(e)] = Append(seen[e], sending[Peer(e)])
              /\ task[Peer(e)] # "send"
    /\ Prefix(seen[e], sent[Peer(e)])

\* Each end by itself: a client has received an answer to every request but the one it
\* is making, a handler answers what it received last.
Turn(e) ==
    IF e[2] = "client"
    THEN /\ task[e] = "send" => sent[e] = seen[e]
         /\ task[e] \in {"body", "recv"} => sent[e] = Append(seen[e], sending[e])
         /\ Prefix(seen[e], sent[e])
    ELSE /\ task[e] = "send" => seen[e] = Append(sent[e], sending[e])
         /\ task[e] \in {"body", "recv"} => seen[e] = sent[e]
         /\ Prefix(sent[e], seen[e])

\* A connection not opened yet.
Unopened ==
    \A e \in Ends : e[1] > conns =>
        task[e] = "off" /\ Silent(e) /\ sent[e] = << >> /\ seen[e] = << >>

FrameInv == Unopened /\ \A e \in Ends : EndInv(e) /\ Turn(e)

LEMMA PrefixFacts ==
    ASSUME NEW S, NEW s \in Seq(S), NEW t \in Seq(S), NEW x \in S
    PROVE  /\ Prefix(s, s)
           /\ Prefix(s, t) => Prefix(s, Append(t, x))
           /\ Append(s, x) # t \/ Len(t) = Len(s) + 1
           /\ Len(Append(s, x)) = Len(s) + 1
BY DEF Prefix

\* Two frames, each a message after s, of which one sequence continues the other.
LEMMA SameNext ==
    ASSUME NEW S, NEW s \in Seq(S), NEW t \in Seq(S), NEW x \in S, NEW y \in S,
           Prefix(Append(s, x), t), Prefix(t, Append(s, y))
    PROVE  x = y
<1>1. Len(s) \in Nat /\ Len(Append(s, x)) = Len(s) + 1 /\ Len(Append(s, y)) = Len(s) + 1
  OBVIOUS
<1>2. PICK n \in Nat : n = Len(s) + 1 /\ n >= 1
  BY <1>1
<1>3. Append(s, x)[n] = x /\ Append(s, y)[n] = y
  BY <1>2
<1>4. n \in DOMAIN Append(s, x) /\ n \in DOMAIN t
  BY <1>1, <1>2 DEF Prefix
<1> QED
  BY <1>3, <1>4 DEF Prefix

LEMMA FrameInit == Init => FrameInv
<1> SUFFICES ASSUME Init PROVE FrameInv
  OBVIOUS
<1>1. \A e \in Ends : /\ task[e] = "off" /\ Silent(e) /\ sent[e] = << >> /\ seen[e] = << >>
                      /\ sent[Peer(e)] = << >>
  BY EndFacts DEF Init, Silent
<1>2. \A e \in Ends : EndInv(e) /\ Turn(e)
  BY <1>1 DEF EndInv, Turn, Prefix
<1> QED
  BY <1>1, <1>2 DEF FrameInv, Unopened

(***************************************************************************)
(* What EndInv and Turn of an end depend on.                               *)
(***************************************************************************)
Reads(e) == << task[e], wire[e], need[e], got[e], seen[e] >>
Writes(e) == << task[e], sending[e], sent[e] >>

LEMMA KeepEnd ==
    ASSUME NEW e \in Ends, EndInv(e), UNCHANGED << Reads(e), Writes(Peer(e)) >>
    PROVE  EndInv(e)'
BY DEF Reads, Writes, EndInv, Silent, Underway, Taken

LEMMA KeepTurn ==
    ASSUME NEW e \in Ends, Turn(e), UNCHANGED << task[e], sending[e], sent[e], seen[e] >>
    PROVE  Turn(e)'
BY DEF Turn

\* A step of end e, which may send to its peer.
LEMMA StepOf ==
    ASSUME FrameInv, NEW e \in Ends, task[e] # "off", UNCHANGED conns,
           \A f \in Ends : f # e => UNCHANGED << task[f], sending[f], need[f], got[f], sent[f], seen[f] >>,
           \A f \in Ends : f # e /\ f # Peer(e) => UNCHANGED wire[f],
           EndInv(e)', EndInv(Peer(e))', Turn(e)'
    PROVE  FrameInv'
<1>1. ASSUME NEW f \in Ends PROVE EndInv(f)'
  <2>1. CASE f # e /\ f # Peer(e)
    <3>1. Peer(f) \in Ends /\ Peer(f) # e
      BY <2>1, EndFacts
    <3> QED
      BY <2>1, <3>1, KeepEnd DEF FrameInv, Reads, Writes
  <2> QED
    BY <2>1
<1>2. ASSUME NEW f \in Ends PROVE Turn(f)'
  BY <1>2, KeepTurn DEF FrameInv
<1>3. Unopened'
  <2>1. Peer(e)[1] = e[1]
    BY DEF Peer, Client, Server
  <2>2. ~(e[1] > conns) /\ ~(Peer(e)[1] > conns)
    BY <2>1 DEF FrameInv, Unopened
  <2> QED
    BY <2>2 DEF FrameInv, Unopened, Silent
<1> QED
  BY <1>1, <1>2, <1>3 DEF FrameInv

LEMMA ConnectStep ==
    ASSUME TypeInv, FrameInv, NEW c \in Conns, Connect(c)
    PROVE  FrameInv'
<1> DEFINE client == Client(c)
           server == Server(c)
<1>1. /\ client \in Ends /\ server \in Ends /\ client # server
      /\ Peer(client) = server /\ Peer(server) = client
      /\ client[1] = c /\ server[1] = c /\ client[2] = "client" /\ server[2] = "server"
      /\ \A f \in Ends : f # client /\ f # server => f[1] # c /\ Peer(f) # client /\ Peer(f) # server
  BY DEF Ends, Client, Server, Peer
<1> HIDE DEF client, server
<1>2. /\ c = conns + 1 /\ conns' = c /\ conns \in Nat
      /\ task' = [task EXCEPT ![client] = "send", ![server] = "recv"]
      /\ sending' = [sending EXCEPT ![client] = request]
      /\ UNCHANGED << wire, need, got, sent, seen >>
  BY Sizes DEF Connect, client, server, TypeInv, Types
<1>3. \A f \in {client, server} :
          Silent(f) /\ sent[f] = << >> /\ seen[f] = << >> /\ task[f] = "off"
  BY <1>1, <1>2 DEF FrameInv, Unopened
<1>t. /\ task \in [Ends -> {"off", "send", "body", "recv"}]
      /\ sending \in [Ends -> 0..(MaxRequests + 1)]
  BY DEF TypeInv, Types
<1>4. EndInv(client)' /\ EndInv(server)'
  BY <1>1, <1>2, <1>3, <1>t DEF EndInv, Silent, Prefix
<1>5. Turn(client)' /\ Turn(server)'
  BY <1>1, <1>2, <1>3, <1>t DEF Turn, Prefix
<1>6. ASSUME NEW f \in Ends, f # client, f # server PROVE EndInv(f)' /\ Turn(f)'
  <2>1. Peer(f) \in Ends /\ Peer(f) # client /\ Peer(f) # server
    BY <1>1, <1>6, EndFacts
  <2> QED
    BY <1>2, <1>6, <1>t, <2>1, KeepEnd, KeepTurn DEF FrameInv, Reads, Writes
<1>7. Unopened'
  <2> SUFFICES ASSUME NEW f \in Ends, f[1] > c
               PROVE  task'[f] = "off" /\ Silent(f)' /\ sent'[f] = << >> /\ seen'[f] = << >>
    BY <1>2 DEF Unopened
  <2>1. f[1] \in Nat /\ f[1] > conns /\ f # client /\ f # server
    BY <1>1, <1>2, Sizes DEF Ends, Conns
  <2> QED
    BY <1>2, <1>t, <2>1 DEF FrameInv, Unopened, Silent
<1> QED
  BY <1>4, <1>5, <1>6, <1>7 DEF FrameInv

\* send_message's first call.
LEMMA SendLengthStep ==
    ASSUME TypeInv, FrameInv, NEW e \in Ends, SendLength(e)
    PROVE  FrameInv'
<1> DEFINE p == Peer(e)
           m == sending[e]
<1>1. p \in Ends /\ p # e /\ Peer(p) = e
  BY EndFacts
<1> HIDE DEF p
<1>2. /\ task \in [Ends -> {"off", "send", "body", "recv"}]
      /\ wire \in [Ends -> Seq(Byte)] /\ sent \in [Ends -> Seq(Requests)]
      /\ seen \in [Ends -> Seq(Requests)] /\ m \in Requests
  BY DEF TypeInv, Types, Working, SendLength
<1>3. /\ task[e] = "send" /\ task' = [task EXCEPT ![e] = "body"]
      /\ wire' = [wire EXCEPT ![p] = @ \o Header(m)]
      /\ sent' = [sent EXCEPT ![e] = Append(@, m)]
      /\ UNCHANGED << conns, request, sending, need, got, seen >>
  BY DEF SendLength, p
<1>4. /\ EndInv(e) /\ EndInv(p) /\ Turn(e)
      /\ Silent(e) /\ seen[e] = sent[p] /\ task[p] \in {"recv", "off"}
  BY <1>1, <1>3 DEF FrameInv, EndInv, p
<1>5. EndInv(e)'
  BY <1>1, <1>2, <1>3, <1>4 DEF EndInv, Silent, p
<1>6. sent'[e] = Append(sent[e], m) /\ Len(sent[e]) \in Nat
  BY <1>2, <1>3
<1>7. Prefix(seen[p], sent[e])' /\ Prefix(sent[e], Append(sent[e], m))
      /\ Prefix(Append(sent[e], m), Append(sent[e], m))
  <2>1. sent[e] \in Seq(Requests) /\ seen[p] \in Seq(Requests)
        /\ Append(sent[e], m) \in Seq(Requests) /\ Prefix(seen[p], sent[e])
    BY <1>1, <1>2, <1>4 DEF EndInv
  <2>2. Prefix(sent[e], sent[e]) /\ Prefix(seen[p], Append(sent[e], m))
    BY <1>2, <2>1, PrefixFacts
  <2>3. Prefix(sent[e], Append(sent[e], m))
    BY <1>2, <2>1, <2>2, PrefixFacts
  <2>4. Prefix(Append(sent[e], m), Append(sent[e], m))
    BY <1>2, <2>1, PrefixFacts
  <2>5. Prefix(seen[p], sent[e])'
    BY <1>3, <1>6, <2>2
  <2> QED
    BY <2>3, <2>4, <2>5
<1>8. EndInv(p)'
  <2>1. CASE task[p] = "off"
    BY <1>1, <1>2, <1>3, <1>7, <2>1 DEF EndInv
  <2>2. CASE task[p] = "recv"
    <3>1. Silent(p) /\ seen[p] = sent[e]
      BY <1>1, <1>3, <1>4, <2>2 DEF EndInv
    <3>2. wire'[p] = Header(m)
      <4>1. wire'[p] = << >> \o Header(m) /\ Header(m) \in Seq(Byte)
        BY <1>1, <1>2, <1>3, <3>1, FrameFacts DEF Silent
      <4> QED
        BY <4>1
    <3>3. Taken(p, m, 0, HeaderSize)'
      BY <1>1, <1>3, <3>1, <3>2 DEF Taken, Silent, Header
    <3>4. Underway(p)'
      <4>1. 0 <= HeaderSize /\ task'[Peer(p)] = "body" /\ sending'[Peer(p)] = m
        BY <1>1, <1>2, <1>3, Sizes
      <4> QED
        BY <1>1, <1>3, <3>3, <4>1 DEF Underway, Taken
    <3> QED
      BY <1>1, <1>2, <1>3, <1>6, <1>7, <2>2, <3>1, <3>4 DEF EndInv
  <2> QED
    BY <1>4, <2>1, <2>2
<1>9. Turn(e)'
  BY <1>2, <1>3, <1>4, <1>6, <1>7 DEF Turn
<1> QED
  BY <1>1, <1>2, <1>3, <1>5, <1>8, <1>9, StepOf DEF p

\* send_message's second call.
LEMMA SendBodyStep ==
    ASSUME TypeInv, FrameInv, NEW e \in Ends, SendBody(e)
    PROVE  FrameInv'
<1> DEFINE p == Peer(e)
           m == sending[e]
<1>1. p \in Ends /\ p # e /\ Peer(p) = e
  BY EndFacts
<1> HIDE DEF p
<1>2. /\ task \in [Ends -> {"off", "send", "body", "recv"}]
      /\ wire \in [Ends -> Seq(Byte)]
  BY DEF TypeInv, Types
<1>3. /\ task[e] = "body" /\ task' = [task EXCEPT ![e] = "recv"]
      /\ wire' = [wire EXCEPT ![p] = @ \o Body(m)]
      /\ UNCHANGED << conns, request, sending, need, got, sent, seen >>
  BY DEF SendBody, p
<1>4. /\ EndInv(e) /\ EndInv(p) /\ Turn(e)
      /\ Silent(e) /\ seen[e] = sent[p] /\ task[p] \in {"recv", "off"}
  BY <1>1, <1>3 DEF FrameInv, EndInv, p
<1>5. EndInv(e)'
  BY <1>1, <1>2, <1>3, <1>4 DEF EndInv, Silent, p
<1>6. EndInv(p)'
  <2>1. CASE task[p] = "off"
    BY <1>1, <1>2, <1>3, <1>4, <2>1 DEF EndInv
  <2>2. CASE task[p] = "recv"
    <3>1. Underway(p) /\ sent[e] = Append(seen[p], m)
      BY <1>1, <1>3, <1>4, <2>2 DEF EndInv
    <3>2. PICK k \in {0} \cup (HeaderSize..(HeaderSize + BodySize)) :
              k <= HeaderSize /\ Taken(p, m, k, HeaderSize)
      BY <1>1, <1>3, <3>1 DEF Underway
    <3>3. Bytes(m, k + 1, HeaderSize) \o Body(m) = Bytes(m, k + 1, HeaderSize + BodySize)
      <4>1. PICK a \in Nat \ {0}, b \in Nat, c \in Nat :
                a = k + 1 /\ b = HeaderSize /\ c = HeaderSize + BodySize /\ a <= b + 1 /\ b <= c
        BY <3>2, Sizes
      <4>2. Bytes(m, a, b) \o Bytes(m, b + 1, c) = Bytes(m, a, c)
        BY <4>1, BytesJoin, ZenonT(30)
      <4> QED
        BY <4>1, <4>2 DEF Body
    <3>4. Taken(p, m, k, HeaderSize + BodySize)'
      BY <1>1, <1>2, <1>3, <3>2, <3>3 DEF Taken
    <3>5. Underway(p)'
      <4>1. k <= HeaderSize + BodySize /\ task'[Peer(p)] = "recv" /\ sending'[Peer(p)] = m
        BY <1>1, <1>2, <1>3, <3>2, Sizes
      <4> QED
        BY <1>1, <1>3, <3>2, <3>4, <4>1 DEF Underway, Taken
    <3> QED
      BY <1>1, <1>2, <1>3, <1>4, <2>2, <3>1, <3>5 DEF EndInv
  <2> QED
    BY <1>4, <2>1, <2>2
<1>7. Turn(e)'
  BY <1>2, <1>3, <1>4 DEF Turn
<1> QED
  BY <1>1, <1>2, <1>3, <1>5, <1>6, <1>7, StepOf DEF p

\* An end that has read something of a frame, and what it finds next.
LEMMA FrameUnderway ==
    ASSUME TypeInv, FrameInv, NEW e \in Ends, task[e] = "recv", need[e] > 0 \/ wire[e] # << >>
    PROVE  /\ Underway(e) /\ sent[Peer(e)] = Append(seen[e], sending[Peer(e)])
           /\ task[Peer(e)] # "send" /\ sending[Peer(e)] \in Requests
<1>1. /\ Underway(e) /\ sent[Peer(e)] = Append(seen[e], sending[Peer(e)])
      /\ task[Peer(e)] # "send"
  BY DEF FrameInv, EndInv, Silent
<1>2. sent[Peer(e)] \in Seq(Requests) /\ seen[e] \in Seq(Requests)
  BY EndFacts DEF TypeInv, Types
<1>3. sending[Peer(e)] \in Requests
  <2>1. Append(seen[e], sending[Peer(e)]) \in Seq(Requests)
    BY <1>1, <1>2
  <2>2. PICK n \in Nat : n = Len(seen[e]) + 1
    BY <1>2
  <2>3. n \in DOMAIN sent[Peer(e)] /\ sent[Peer(e)][n] = sending[Peer(e)]
    BY <1>1, <1>2, <2>1, <2>2
  <2> QED
    BY <1>2, <2>3
<1> QED
  BY <1>1, <1>3

\* A step that only reads.
LEMMA ReadStep ==
    ASSUME TypeInv, FrameInv, NEW e \in Ends, task[e] = "recv", Underway(e)',
           UNCHANGED << conns, task, sending, sent, seen >>,
           sent[Peer(e)] = Append(seen[e], sending[Peer(e)]), task[Peer(e)] # "send",
           \A f \in Ends : f # e => UNCHANGED << wire[f], need[f], got[f] >>
    PROVE  FrameInv'
<1>1. Peer(e) \in Ends /\ Peer(e) # e /\ Peer(Peer(e)) = e
  BY EndFacts
<1>2. EndInv(e)'
  BY DEF FrameInv, EndInv
<1>3. EndInv(Peer(e))'
  BY <1>1, KeepEnd DEF FrameInv, Reads, Writes
<1>4. Turn(e)'
  BY KeepTurn DEF FrameInv
<1> QED
  BY <1>1, <1>2, <1>3, <1>4, StepOf

LEMMA ReadLengthStep ==
    ASSUME TypeInv, FrameInv, NEW e \in Ends, ReadLength(e)
    PROVE  FrameInv'
<1>m. PICK m : m = sending[Peer(e)]
  OBVIOUS
<1>1. PICK bytes \in Arrived(e, HeaderSize) :
          /\ Len(bytes) = HeaderSize
          /\ \E n \in LengthIn(bytes) : need' = [need EXCEPT ![e] = n]
          /\ Consume(e, bytes)
  BY DEF ReadLength
<1>2. /\ task[e] = "recv" /\ need[e] = 0
      /\ UNCHANGED << conns, request, task, sending, got, sent, seen >>
  BY DEF ReadLength
<1>3. /\ wire \in [Ends -> Seq(Byte)] /\ need \in [Ends -> 0..(BodySize + MaxLength)]
  BY DEF TypeInv, Types
<1>4. /\ bytes = First(wire[e], HeaderSize) /\ HeaderSize <= Len(wire[e])
  BY <1>1, <1>3, ArrivedFacts, Sizes
<1>5. /\ Underway(e) /\ sent[Peer(e)] = Append(seen[e], m)
      /\ task[Peer(e)] # "send" /\ m \in Requests
  BY <1>m, <1>2, <1>3, <1>4, FrameUnderway, Sizes
<1>6. PICK k \in {0} \cup (HeaderSize..(HeaderSize + BodySize)),
           t \in {HeaderSize, HeaderSize + BodySize} :
        /\ k <= t
        /\ task[Peer(e)] = "body" => t = HeaderSize
        /\ task[Peer(e)] = "recv" => t = HeaderSize + BodySize
        /\ Taken(e, m, k, t)
  BY <1>m, <1>5 DEF Underway
<1>7. k = 0
  BY <1>2, <1>6, Sizes DEF Taken
<1>8. PICK h \in Nat \ {0}, z \in Nat, last \in Nat :
          h = HeaderSize /\ z = 0 /\ last = t /\ h <= last
  BY <1>6, Sizes
<1>9. wire[e] = Bytes(m, z + 1, last)
  BY <1>6, <1>7, <1>8 DEF Taken
<1>10. z + h <= last /\ z \in Nat /\ h \in Nat /\ last \in Nat
  BY <1>8
<1>11. bytes = Header(m)
  <2>1. First(Bytes(m, z + 1, last), h) = Bytes(m, z + 1, z + h)
    BY ONLY <1>10, CutFacts
  <2>2. z + 1 = 1 /\ z + h = HeaderSize
    BY <1>8
  <2> QED
    BY <1>4, <1>8, <1>9, <2>1, <2>2 DEF Header
<1>12. need' = [need EXCEPT ![e] = BodySize]
  BY <1>1, <1>5, <1>11 DEF LengthIn
<1>13. wire' = [wire EXCEPT ![e] = Bytes(m, HeaderSize + 1, t)]
  <2>1. wire' = [wire EXCEPT ![e] = Rest(wire[e], h)]
    BY <1>1, <1>8, ConsumeFacts
  <2>2. Rest(Bytes(m, z + 1, last), h) = Bytes(m, z + h + 1, last)
    BY ONLY <1>10, CutFacts
  <2>3. z + h + 1 = HeaderSize + 1 /\ last = t
    BY <1>8
  <2> QED
    BY <1>9, <2>1, <2>2, <2>3
<1>14. Taken(e, m, HeaderSize, t)'
  <2>1. got'[e] = << >> /\ Bytes(m, HeaderSize + 1, HeaderSize) = << >>
    <3>1. got[e] = << >>
      BY <1>6, <1>7 DEF Taken
    <3>2. Bytes(m, HeaderSize + 1, HeaderSize) = << >>
      BY Sizes, BytesNone
    <3> QED
      BY <1>2, <3>1, <3>2
  <2> QED
    BY <1>2, <1>3, <1>12, <1>13, <2>1, Sizes DEF Taken
<1>15. Underway(e)'
  <2>1. HeaderSize \in {0} \cup (HeaderSize..(HeaderSize + BodySize)) /\ HeaderSize <= t
    BY <1>6, Sizes
  <2> QED
    BY <1>m, <1>2, <1>6, <1>14, <2>1 DEF Underway
<1> QED
  BY <1>m, <1>2, <1>3, <1>5, <1>12, <1>13, <1>15, ReadStep

LEMMA ReadBodyStep ==
    ASSUME TypeInv, FrameInv, NEW e \in Ends, ReadBody(e)
    PROVE  FrameInv'
<1>m. PICK m : m = sending[Peer(e)]
  OBVIOUS
<1>1. PICK bytes :
          /\ bytes \in Arrived(e, need[e] - Len(got[e]))
          /\ got' = [got EXCEPT ![e] = @ \o bytes]
          /\ Consume(e, bytes)
  BY DEF ReadBody
<1>2. /\ task[e] = "recv" /\ need[e] > 0
      /\ UNCHANGED << conns, request, task, sending, need, sent, seen >>
  BY DEF ReadBody
<1>3. /\ wire \in [Ends -> Seq(Byte)] /\ got \in [Ends -> Seq(Byte)]
  BY DEF TypeInv, Types
<1>4. /\ Underway(e) /\ sent[Peer(e)] = Append(seen[e], m)
      /\ task[Peer(e)] # "send" /\ m \in Requests
  BY <1>m, <1>2, FrameUnderway
<1>5. PICK k, t :
        /\ k \in {0} \cup (HeaderSize..(HeaderSize + BodySize))
        /\ t \in {HeaderSize, HeaderSize + BodySize}
        /\ k <= t
        /\ task[Peer(e)] = "body" => t = HeaderSize
        /\ task[Peer(e)] = "recv" => t = HeaderSize + BodySize
        /\ Taken(e, m, k, t)
  BY <1>m, <1>4 DEF Underway
<1>6. /\ k \in Nat /\ k >= HeaderSize /\ k <= HeaderSize + BodySize /\ t \in Nat /\ k # 0
      /\ need[e] = BodySize /\ got[e] = Bytes(m, HeaderSize + 1, k) /\ wire[e] = Bytes(m, k + 1, t)
  BY <1>2, <1>5, Sizes DEF Taken
<1>7. Len(got[e]) = k - HeaderSize /\ Len(wire[e]) = t - k
  <2>1. PICK a \in Nat \ {0}, b \in Nat \ {0} : a = HeaderSize + 1 /\ b = k + 1
    BY <1>6, Sizes
  <2>2. a <= k + 1 /\ b <= t + 1
    BY <1>5, <1>6, <2>1
  <2>3. Len(Bytes(m, a, k)) = k - a + 1
    BY <1>6, <2>2, BytesFacts
  <2>4. Len(Bytes(m, b, t)) = t - b + 1
    BY <1>6, <2>2, BytesFacts
  <2>5. k - a + 1 = k - HeaderSize /\ t - b + 1 = t - k
    BY <1>6, <2>1, Sizes
  <2>6. got[e] = Bytes(m, a, k) /\ wire[e] = Bytes(m, b, t)
    BY <1>6, <2>1
  <2> QED
    BY <2>3, <2>4, <2>5, <2>6
<1>8. PICK n \in Nat : n = need[e] - Len(got[e])
  BY <1>6, <1>7, Sizes
<1>9. PICK j \in Nat : j = Len(bytes) /\ j <= n /\ j <= t - k /\ bytes = First(wire[e], j)
  <2>1. bytes \in Arrived(e, n) /\ wire[e] \in Seq(Byte)
    BY <1>1, <1>3, <1>8
  <2>2. Len(bytes) \in 1..n /\ Len(bytes) <= Len(wire[e])
    BY <2>1, ArrivedFacts
  <2>3. bytes = First(wire[e], Len(bytes))
    BY <2>1, ArrivedFacts
  <2>4. Len(bytes) \in Nat /\ Len(bytes) <= n /\ Len(bytes) <= t - k
    BY <1>7, <1>8, <2>2
  <2> QED
    BY <2>3, <2>4
<1>10. PICK h \in Nat, i \in Nat, u \in Nat : h = HeaderSize /\ i = k /\ u = t
  BY <1>6, Sizes
<1>11. /\ h \in Nat /\ i \in Nat /\ u \in Nat /\ j \in Nat
       /\ h <= i /\ i <= i + j /\ i + j <= u /\ i + j \in Nat
  BY <1>5, <1>6, <1>9, <1>10
<1>12. PICK c \in Nat : c = i + j
  BY <1>11
<1>13. /\ got' = [got EXCEPT ![e] = Bytes(m, HeaderSize + 1, c)]
       /\ wire' = [wire EXCEPT ![e] = Bytes(m, c + 1, t)]
  <2>0. i + j <= u
    BY <1>11
  <2>1. First(Bytes(m, i + 1, u), j) = Bytes(m, i + 1, i + j)
    BY ONLY <2>0, CutFacts
  <2>2. Rest(Bytes(m, i + 1, u), j) = Bytes(m, i + j + 1, u)
    BY ONLY <2>0, CutFacts
  <2>3. Glue(Bytes(m, h + 1, i), Bytes(m, i + 1, c)) = Bytes(m, h + 1, c)
    <3>1. h <= i
      BY <1>11
    <3>2. i <= c
      BY <1>11, <1>12
    <3> QED
      BY ONLY <3>1, <3>2, JoinFacts
  <2>4. wire[e] = Bytes(m, i + 1, u) /\ got[e] = Bytes(m, h + 1, i) /\ bytes = Bytes(m, i + 1, c)
    BY <1>6, <1>9, <1>10, <1>12, <2>1
  <2>5. got[e] \o bytes = Bytes(m, HeaderSize + 1, c)
    BY <1>10, <2>3, <2>4 DEF Glue
  <2>6. Rest(wire[e], Len(bytes)) = Bytes(m, c + 1, t)
    BY <1>9, <1>10, <1>12, <2>2, <2>4
  <2> QED
    BY <1>1, <2>5, <2>6, ConsumeFacts
<1>14. c \in HeaderSize..(HeaderSize + BodySize) /\ c <= t /\ c # 0
  <2>1. j <= BodySize - (k - HeaderSize) /\ j <= t - k
    BY <1>6, <1>7, <1>8, <1>9
  <2>2. HeaderSize \in Nat \ {0} /\ BodySize \in Nat /\ k \in Nat /\ k >= HeaderSize /\ t \in Nat
    BY <1>6, Sizes
  <2>3. c = k + j
    BY <1>10, <1>12
  <2>4. HeaderSize <= k + j /\ k + j <= HeaderSize + BodySize /\ k + j <= t /\ k + j # 0
    BY <2>1, <2>2
  <2> QED
    BY <2>2, <2>3, <2>4
<1>15. Taken(e, m, c, t)'
  BY <1>2, <1>3, <1>6, <1>13, <1>14 DEF Taken
<1>16. Underway(e)'
  BY <1>m, <1>2, <1>5, <1>14, <1>15 DEF Underway
<1> QED
  BY <1>m, <1>2, <1>3, <1>4, <1>13, <1>16, ReadStep

\* Whatever goes wrong: the end is off, and what it had read is as it was.
LEMMA NothingStep ==
    ASSUME TypeInv, FrameInv, NEW e \in Ends, task[e] # "off", Nothing(e)
    PROVE  FrameInv'
<1> DEFINE p == Peer(e)
<1>1. p \in Ends /\ p # e /\ Peer(p) = e
  BY EndFacts
<1> HIDE DEF p
<1>2. /\ task \in [Ends -> {"off", "send", "body", "recv"}]
      /\ got \in [Ends -> Seq(Byte)] /\ need \in [Ends -> 0..(BodySize + MaxLength)]
  BY DEF TypeInv, Types
<1>3. /\ task' = [task EXCEPT ![e] = "off"] /\ got' = [got EXCEPT ![e] = << >>]
      /\ need' = [need EXCEPT ![e] = 0]
      /\ UNCHANGED << conns, sending, wire, sent, seen >>
  BY DEF Nothing, Reset
<1>4. EndInv(e) /\ EndInv(p) /\ Turn(e)
  BY <1>1 DEF FrameInv
<1>5. EndInv(e)'
  BY <1>2, <1>3, <1>4 DEF EndInv
<1>6. Turn(e)'
  BY <1>2, <1>3, <1>4 DEF Turn
<1>7. Silent(p)' <=> Silent(p)
  BY <1>1, <1>2, <1>3 DEF Silent
<1>8. Underway(p) => Underway(p)'
  BY <1>1, <1>2, <1>3 DEF Underway, Taken
<1>9. EndInv(p)'
  BY <1>1, <1>2, <1>3, <1>4, <1>7, <1>8 DEF EndInv
<1> QED
  BY <1>1, <1>2, <1>3, <1>5, <1>6, <1>9, StepOf DEF p

\* A frame is complete: it is the one the peer has been sending, and the peer has sent
\* nothing since and waits, or is gone.
LEMMA WholeFrame ==
    ASSUME TypeInv, FrameInv, NEW e \in Ends, NEW r \in Requests, task[e] = "recv",
           need[e] > 0, Len(got[e]) = need[e], got[e] = Body(r)
    PROVE  /\ r = sending[Peer(e)] /\ wire[e] = << >>
           /\ task[Peer(e)] \in {"recv", "off"}
           /\ sent[Peer(e)] = Append(seen[e], sending[Peer(e)])
<1> DEFINE p == Peer(e)
           m == sending[p]
<1>1. /\ p \in Ends /\ p # e /\ Peer(p) = e
      /\ \/ e[2] = "client" /\ p[2] = "server"
         \/ e[2] = "server" /\ p[2] = "client"
  BY EndFacts
<1>2. /\ task \in [Ends -> {"off", "send", "body", "recv"}]
      /\ sending \in [Ends -> 0..(MaxRequests + 1)]
      /\ wire \in [Ends -> Seq(Byte)] /\ sent \in [Ends -> Seq(Requests)]
      /\ got \in [Ends -> Seq(Byte)] /\ need \in [Ends -> 0..(BodySize + MaxLength)]
      /\ seen \in [Ends -> Seq(Requests)]
  BY DEF TypeInv, Types
<1>3. /\ Underway(e) /\ sent[p] = Append(seen[e], m)
      /\ task[p] # "send" /\ m \in Requests
  BY FrameUnderway
<1>4. PICK k \in {0} \cup (HeaderSize..(HeaderSize + BodySize)),
           t \in {HeaderSize, HeaderSize + BodySize} :
        /\ k <= t
        /\ task[p] = "body" => t = HeaderSize
        /\ task[p] = "recv" => t = HeaderSize + BodySize
        /\ Taken(e, m, k, t)
  BY <1>3 DEF Underway
<1>5. /\ k \in Nat /\ k >= HeaderSize /\ k <= HeaderSize + BodySize /\ t \in Nat /\ k # 0
      /\ need[e] = BodySize /\ got[e] = Bytes(m, HeaderSize + 1, k) /\ wire[e] = Bytes(m, k + 1, t)
  BY <1>4, Sizes DEF Taken
<1>6. k = HeaderSize + BodySize /\ t = HeaderSize + BodySize
  <2>1. PICK a \in Nat \ {0} : a = HeaderSize + 1 /\ a <= k + 1
    BY <1>5, Sizes
  <2>2. Len(Bytes(m, a, k)) = k - a + 1
    BY <1>5, <2>1, BytesFacts
  <2> QED
    BY <1>4, <1>5, <2>1, <2>2, Sizes, SMTT(30)
<1>7. got[e] = Body(m) /\ r = m
  <2>1. got[e] = Body(m)
    BY <1>5, <1>6 DEF Body
  <2> QED
    BY <1>3, <2>1, FrameFacts
<1>8. wire[e] = << >>
  BY <1>5, <1>6, BytesNone
<1>9. task[p] \in {"recv", "off"}
  BY <1>1, <1>2, <1>3, <1>4, <1>6, Sizes
<1> QED
  BY <1>3, <1>7, <1>8, <1>9

\* What a waiting client receives is the answer to what it sent.
LEMMA AnswerOfClient ==
    ASSUME TypeInv, FrameInv, NEW e \in Ends, NEW r \in Requests, task[e] = "recv",
           need[e] > 0, Len(got[e]) = need[e], got[e] = Body(r), e[2] = "client"
    PROVE  r = sending[e]
<1> DEFINE p == Peer(e)
<1>1. p \in Ends /\ p # e /\ Peer(p) = e
  BY EndFacts
<1>2. /\ sent \in [Ends -> Seq(Requests)] /\ seen \in [Ends -> Seq(Requests)]
  BY DEF TypeInv, Types
<1>3. r = sending[p] /\ sent[p] = Append(seen[e], r)
  BY WholeFrame
<1> HIDE DEF p
<1>4. sent[e] = Append(seen[e], sending[e])
  BY DEF FrameInv, Turn
<1>5. Prefix(sent[p], seen[p]) /\ Prefix(seen[p], sent[e])
  <2>1. p[2] = "server"
    BY EndFacts DEF p
  <2> QED
    BY <1>1, <2>1 DEF FrameInv, EndInv, Turn
<1>6. sending[e] \in Requests
  <2>1. PICK n \in Nat : n = Len(seen[e]) + 1
    BY <1>2
  <2>2. n \in DOMAIN sent[e] /\ sent[e][n] = sending[e]
    BY <1>2, <1>4, <2>1
  <2> QED
    BY <1>2, <2>2
<1>7. Prefix(sent[p], sent[e])
  BY <1>5 DEF Prefix
<1> QED
  BY <1>1, <1>2, <1>3, <1>4, <1>5, <1>6, SameNext

LEMMA ReceivedStep ==
    ASSUME TypeInv, FrameInv, NEW e \in Ends, NEW r \in Requests, task[e] = "recv",
           need[e] > 0, Len(got[e]) = need[e], got[e] = Body(r), UNCHANGED wire, Received(e, r)
    PROVE  FrameInv'
<1> DEFINE p == Peer(e)
           m == sending[p]
<1>1. /\ p \in Ends /\ p # e /\ Peer(p) = e
      /\ \/ e[2] = "client" /\ p[2] = "server"
         \/ e[2] = "server" /\ p[2] = "client"
  BY EndFacts
<1>2. /\ task \in [Ends -> {"off", "send", "body", "recv"}]
      /\ sending \in [Ends -> 0..(MaxRequests + 1)]
      /\ wire \in [Ends -> Seq(Byte)] /\ sent \in [Ends -> Seq(Requests)]
      /\ got \in [Ends -> Seq(Byte)] /\ need \in [Ends -> 0..(BodySize + MaxLength)]
      /\ seen \in [Ends -> Seq(Requests)]
  BY DEF TypeInv, Types
<1>3. sent[p] = Append(seen[e], m) /\ r = m
  BY WholeFrame
<1>8. wire[e] = << >>
  BY WholeFrame
<1>9. task[p] \in {"recv", "off"}
  BY WholeFrame
<1>7. e[2] = "client" => sending[e] = m
  BY <1>3, AnswerOfClient
<1> HIDE DEF p, m
<1>10. /\ need' = [need EXCEPT ![e] = 0] /\ got' = [got EXCEPT ![e] = << >>]
       /\ seen' = [seen EXCEPT ![e] = Append(seen[e], m)]
       /\ UNCHANGED << conns, wire, sent >>
  BY <1>3 DEF Received, Reset
<1>11. PICK to \in {"send", "off"} : task' = [task EXCEPT ![e] = to]
  BY <1>1 DEF Received
<1>12. PICK s : /\ sending' = [sending EXCEPT ![e] = s]
                /\ e[2] = "server" => s = m
  <2>1. CASE e[2] = "server"
    BY <1>3, <2>1 DEF Received
  <2>2. CASE e[2] = "client"
    BY <2>2 DEF Received
  <2> QED
    BY <1>1, <2>1, <2>2
<1>13. EndInv(e) /\ EndInv(p) /\ Turn(e) /\ Turn(p)
  BY <1>1 DEF FrameInv
<1>14. Append(seen[e], m) = sent[p] /\ Prefix(sent[p], sent[p])
  BY <1>1, <1>2, <1>3, PrefixFacts
<1>15. EndInv(e)'
  <2>1. Silent(e)'
    BY <1>2, <1>8, <1>10 DEF Silent
  <2>2. seen'[e] = sent[p] /\ sent'[p] = sent[p] /\ task'[p] = task[p] /\ task'[e] # "recv"
    BY <1>1, <1>2, <1>10, <1>11, <1>12, <1>14
  <2> QED
    BY <1>9, <1>14, <2>1, <2>2 DEF EndInv, p
<1>16. EndInv(p)'
  <2>1. CASE task[p] = "off"
    BY <1>1, <1>2, <1>10, <1>11, <1>12, <1>13, <2>1 DEF EndInv
  <2>2. CASE task[p] = "recv"
    <3>1. Len(sent[p]) = Len(seen[e]) + 1 /\ Len(seen[e]) \in Nat
          /\ Len(seen[p]) \in Nat /\ Len(sent[e]) \in Nat
      BY <1>1, <1>2, <1>3, PrefixFacts
    <3>2. Len(sent[e]) # Len(seen[p]) + 1
      <4>1. CASE e[2] = "server"
        <5>1. seen[e] = sent[e] /\ sent[p] = Append(seen[p], m)
          BY <1>1, <1>13, <2>2, <4>1 DEF Turn, m
        <5>2. Len(sent[p]) = Len(seen[p]) + 1
          BY <1>1, <1>2, <1>3, <5>1, PrefixFacts
        <5> QED
          BY <3>1, <5>1, <5>2
      <4>2. CASE e[2] = "client"
        <5>1. seen[p] = sent[p] /\ sent[e] = Append(seen[e], sending[e])
          BY <1>1, <1>13, <2>2, <4>2 DEF Turn
        <5>2. Len(sent[e]) = Len(seen[e]) + 1
          BY <1>2, <5>1
        <5> QED
          BY <3>1, <5>1, <5>2
      <4> QED
        BY <1>1, <4>1, <4>2
    <3>3. sent[e] # Append(seen[p], sending[e])
      BY <1>1, <1>2, <3>2
    <3>4. Silent(p) /\ seen[p] = sent[e]
      BY <1>1, <1>13, <2>2, <3>3 DEF EndInv
    <3>5. Silent(p)'
      BY <1>1, <1>2, <1>10, <3>4 DEF Silent
    <3>6. seen'[p] = sent'[e] /\ task'[e] \in {"send", "off"} /\ task'[p] = "recv"
      BY <1>1, <1>2, <1>10, <1>11, <1>12, <2>2, <3>4
    <3>7. Prefix(seen[p], sent[e])'
      BY <1>1, <1>2, <1>10, <1>13 DEF EndInv
    <3> QED
      BY <1>1, <3>5, <3>6, <3>7 DEF EndInv
  <2> QED
    BY <1>9, <2>1, <2>2
<1>17. Turn(e)'
  <2>1. /\ seen'[e] = Append(seen[e], m) /\ sent'[e] = sent[e] /\ sending'[e] = s
        /\ task'[e] = to /\ to \in {"send", "off"}
    BY <1>2, <1>10, <1>11, <1>12
  <2>2. CASE e[2] = "server"
    <3>1. sent[e] = seen[e] /\ s = m
      BY <1>11, <1>12, <1>13, <2>2 DEF Turn
    <3>2. Prefix(sent[e], Append(sent[e], m))
      BY <1>2, <1>3, PrefixFacts
    <3> QED
      BY <2>1, <2>2, <3>1, <3>2 DEF Turn
  <2>3. CASE e[2] = "client"
    <3>1. sent[e] = Append(seen[e], sending[e])
      BY <1>13, <2>3 DEF Turn
    <3>5. Prefix(sent[e], sent[e])
      BY <1>2, PrefixFacts, <1>3
    <3> QED
      BY <1>7, <2>1, <2>3, <3>1, <3>5 DEF Turn
  <2> QED
    BY <1>1, <2>2, <2>3
<1> QED
  BY <1>1, <1>2, <1>10, <1>11, <1>12, <1>15, <1>16, <1>17, StepOf DEF p

LEMMA FrameStep == TypeInv /\ FrameInv /\ [Next]_vars => FrameInv'
<1> SUFFICES ASSUME TypeInv, FrameInv, [Next]_vars PROVE FrameInv'
  OBVIOUS
<1>1. ASSUME NEW e \in Ends, ReadShort(e) \/ Decode(e) \/ Fails(e) PROVE FrameInv'
  BY <1>1, NothingStep, ReceivedStep DEF ReadShort, Decode, Fails
<1>2. CASE UNCHANGED vars
  BY <1>2 DEF vars, FrameInv, Unopened, EndInv, Turn, Silent, Underway, Taken
<1> QED
  BY <1>1, <1>2, ConnectStep, SendLengthStep, SendBodyStep, ReadLengthStep, ReadBodyStep DEF Next

LEMMA FrameInvariant == Spec => [](TypeInv /\ FrameInv)
<1>1. Init => TypeInv /\ FrameInv
  BY TypeInit, FrameInit
<1>2. TypeInv /\ FrameInv /\ [Next]_vars => (TypeInv /\ FrameInv)'
  BY TypeStep, FrameStep
<1> QED
  BY <1>1, <1>2, PTL DEF Spec

\* In every run, however the bytes are cut and whatever fails between two of them, an end
\* receives what its peer sent, in order and without a gap.
THEOREM FramesCorrect == Spec => []FramesInOrder
<1>1. FrameInv => FramesInOrder
  BY DEF FrameInv, EndInv, FramesInOrder
<1> QED
  BY <1>1, FrameInvariant, PTL

(***************************************************************************)
(* The client that is at work sends the request it is making.              *)
(***************************************************************************)
Asking == \A e \in Ends : e[2] = "client" /\ task[e] # "off" => sending[e] = request

LEMMA AskingStep == TypeInv /\ Asking /\ [Next]_vars => Asking'
<1> SUFFICES ASSUME TypeInv, Asking, [Next]_vars PROVE Asking'
  OBVIOUS
<1>1. /\ task \in [Ends -> {"off", "send", "body", "recv"}]
      /\ sending \in [Ends -> 0..(MaxRequests + 1)]
  BY DEF TypeInv, Types
<1>2. ASSUME NEW c \in Conns, Connect(c) PROVE Asking'
  <2>1. \A e \in Ends : e[2] = "client" => e = Client(e[1]) /\ e[1] \in Conns /\ e # Server(c)
    BY DEF Ends, Client, Server
  <2> QED
    BY <1>1, <1>2, <2>1 DEF Connect, Asking
<1>3. ASSUME NEW e \in Ends, SendLength(e) \/ SendBody(e) PROVE Asking'
  BY <1>1, <1>3 DEF SendLength, SendBody, Asking
<1>4. ASSUME NEW e \in Ends, ReadLength(e) \/ ReadBody(e) PROVE Asking'
  BY <1>1, <1>4 DEF ReadLength, ReadBody, Asking
<1>5. ASSUME NEW e \in Ends, task[e] # "off", e[2] = "client"
      PROVE  \A f \in Ends : f[2] = "client" /\ f # e => task[f] = "off"
  BY <1>5, EndFacts DEF TypeInv, Working
<1>6. ASSUME NEW e \in Ends, task[e] # "off", Nothing(e) PROVE Asking'
  BY <1>1, <1>5, <1>6 DEF Nothing, Asking
<1>7. ASSUME NEW e \in Ends, task[e] # "off", NEW m \in Requests, Received(e, m) PROVE Asking'
  <2>1. CASE e[2] = "client"
    <3>1. /\ sending' = [sending EXCEPT ![e] = request']
          /\ \E t : task' = [task EXCEPT ![e] = t]
      BY <1>7, <2>1 DEF Received
    <3> QED
      BY <1>1, <1>5, <1>7, <2>1, <3>1 DEF Asking
  <2>2. CASE e[2] # "client"
    <3>1. /\ UNCHANGED request
          /\ \E t : task' = [task EXCEPT ![e] = t]
          /\ \E m1 : sending' = [sending EXCEPT ![e] = m1]
      <4>1. e[2] = "server"
        BY <2>2, EndFacts
      <4> QED
        BY <1>7, <4>1 DEF Received
    <3> QED
      BY <1>1, <2>2, <3>1 DEF Asking
  <2> QED
    BY <2>1, <2>2
<1>8. ASSUME NEW e \in Ends, ReadShort(e) \/ Decode(e) \/ Fails(e) PROVE Asking'
  BY <1>6, <1>7, <1>8 DEF ReadShort, Decode, Fails
<1>9. CASE UNCHANGED vars
  BY <1>9 DEF vars, Asking
<1> QED
  BY <1>2, <1>3, <1>4, <1>8, <1>9 DEF Next

\* In every run, what a client takes as an answer is the answer to the request it is
\* making, never the late answer of an earlier one.
THEOREM AnswersCorrect == Spec => AnswersMatch
<1>1. ASSUME TypeInv, FrameInv, Asking, [Next]_vars, NEW c \in Conns
      PROVE  seen'[Client(c)] \in {seen[Client(c)], Append(seen[Client(c)], request)}
  <2>1. Client(c) \in Ends /\ Client(c)[2] = "client"
    BY DEF Client, Ends
  <2>2. seen \in [Ends -> Seq(Requests)]
    BY <1>1 DEF TypeInv, Types
  <2>3. ASSUME NEW e \in Ends, NEW r \in Requests, task[e] = "recv", need[e] > 0,
               Len(got[e]) = need[e], got[e] = Body(r), Received(e, r)
        PROVE  seen'[Client(c)] \in {seen[Client(c)], Append(seen[Client(c)], request)}
    <3>1. seen' = [seen EXCEPT ![e] = Append(@, r)]
      BY <2>3 DEF Received
    <3>2. e = Client(c) => r = request
      BY <1>1, <2>1, <2>3, AnswerOfClient DEF Asking
    <3> QED
      BY <2>1, <2>2, <3>1, <3>2
  <2>4. ASSUME NEW e \in Ends, Decode(e)
        PROVE  seen'[Client(c)] \in {seen[Client(c)], Append(seen[Client(c)], request)}
    BY <2>3, <2>4 DEF Decode, Nothing
  <2>5. ASSUME NEW e \in Ends, SendLength(e) \/ SendBody(e) \/ ReadLength(e) \/ ReadShort(e)
                               \/ ReadBody(e) \/ Fails(e)
        PROVE  UNCHANGED seen
    BY <2>5 DEF SendLength, SendBody, ReadLength, ReadShort, ReadBody, Fails, Nothing
  <2>6. ASSUME NEW d \in Conns, Connect(d) PROVE UNCHANGED seen
    BY <2>6 DEF Connect
  <2>7. CASE UNCHANGED vars
    BY <2>7 DEF vars
  <2> QED
    BY <1>1, <2>4, <2>5, <2>6, <2>7 DEF Next
<1>2. TypeInv /\ FrameInv /\ Asking /\ [Next]_vars =>
          [\A c \in Conns :
              seen'[Client(c)] \in {seen[Client(c)], Append(seen[Client(c)], request)}]_vars
  BY <1>1
<1>3. Spec => []Asking
  <2>1. Init => Asking
    BY DEF Init, Asking
  <2> QED
    BY <2>1, AskingStep, FrameInvariant, PTL DEF Spec
<1> QED
  BY <1>2, <1>3, FrameInvariant, PTL DEF Spec, AnswersMatch
=============================================================================
