---------------------------- MODULE ServerProofs ----------------------------
(***************************************************************************)
(* Proofs about the two halves of the RSP server.  The session, RspServer, *)
(* for any set of requests: client and server stay in step and agree about *)
(* acknowledgements.  The requests for registers, Registers, for any       *)
(* contents of them: what g and p answer and where P writes.               *)
(***************************************************************************)
EXTENDS RspServer, Registers, Integers, SequenceTheorems, TLAPS

-----------------------------------------------------------------------------
(* The session: where the outstanding request can be                       *)

\* What may be on its way to the server: nothing but acknowledgements and interrupts, or
\* the request m among them.  An interrupt is not sent again while one is under way.
Noise == {<<>>, <<Interrupt>>, <<Plus>>, <<Interrupt, Plus>>}
Around(m) == {<<m>>, <<Interrupt, m>>, <<Plus, m>>, <<Interrupt, Plus, m>>,
              <<m, Interrupt>>, <<Plus, m, Interrupt>>}
Drained == toServer \in {<<>>, <<Interrupt>>}

Packets == {Request(c) : c \in Command} \union {Garbled(c) : c \in Command}
Streams == Noise \union UNION {Around(m) : m \in Packets}
AtRest == pc \notin {"handle", "error"}
Agreed == acks = ~disable_ack

\* What the client has received of the answer to a request the server has read.
Acknowledged == \/ client = "wait_ack" /\ acks /\ toClient = <<Plus>>
                \/ client = "wait_reply" /\ toClient = <<>>

\* The places the outstanding request of a connected client can be.
Away == /\ client = "away" /\ AtRest /\ Agreed /\ toServer = <<>> /\ toClient = <<>>
Idle == /\ client = "idle" /\ AtRest /\ Agreed /\ toServer \in Noise /\ toClient = <<>>
OnItsWay == /\ client = (IF acks THEN "wait_ack" ELSE "wait_reply")
            /\ AtRest /\ Agreed /\ toClient = <<>>
            /\ \/ toServer \in Around(Request(req))
               \/ acks /\ toServer \in Around(Garbled(req))
Handled == /\ Acknowledged /\ pc = "handle" /\ packet = req /\ Agreed /\ Drained
Refused == /\ client = "wait_ack" /\ acks /\ Agreed /\ Drained
           /\ \/ pc = "error" /\ toClient = <<>>
              \/ AtRest /\ toClient = <<Minus>>
Replied == /\ \/ client = "wait_ack" /\ acks /\ toClient = <<Plus, Reply(req)>>
              \/ client = "wait_reply" /\ toClient = <<Reply(req)>>
           /\ AtRest /\ Drained /\ disable_ack = (~acks \/ req = "noack")
Ignored == Acknowledged /\ AtRest /\ Agreed /\ Drained
Closed == /\ client = "closed"
          /\ toServer \in Streams
          /\ toClient \in {<<>>, <<Plus>>, <<Minus>>, <<Reply(req)>>, <<Plus, Reply(req)>>}

Shape == /\ pc \in {"accept", "serve", "read", "error", "handle", "exited", "panicked"}
         /\ running \in BOOLEAN /\ disable_ack \in BOOLEAN /\ acks \in BOOLEAN
         /\ packet \in Command /\ req \in Command
         /\ client \in {"away", "idle", "wait_ack", "wait_reply", "closed"}

Situation == Away \/ Idle \/ OnItsWay \/ Handled \/ Refused \/ Replied \/ Ignored \/ Closed

IInv == Shape /\ Situation

USE CmdAssumption, MayAssumption

-----------------------------------------------------------------------------
(* The streams                                                             *)

LEMMA Kinds ==
  /\ Interrupt.kind = "intr" /\ Plus.kind = "+" /\ Minus.kind = "-"
  /\ \A c \in Command : /\ Request(c).kind = "good" /\ Request(c).cmd = c
                        /\ Garbled(c).kind = "bad" /\ Garbled(c).cmd = c
                        /\ Reply(c).kind = "reply" /\ Reply(c).cmd = c
  BY DEF Interrupt, Plus, Minus, Request, Garbled, Reply

LEMMA AppendToOne == ASSUME NEW a, NEW b PROVE Append(<<a>>, b) = <<a, b>>
  <1>1. /\ <<a>> \in Seq({a, b}) /\ Len(<<a>>) = 1
        /\ <<a, b>> \in Seq({a, b}) /\ Len(<<a, b>>) = 2
    OBVIOUS
  <1>2. Append(<<a>>, b) \in Seq({a, b}) /\ Len(Append(<<a>>, b)) = 2
    BY <1>1
  <1>3. \A i \in 1 .. 2 : Append(<<a>>, b)[i] = <<a, b>>[i]
    BY <1>1
  <1> QED
    BY <1>1, <1>2, <1>3, SeqEqual

LEMMA AppendToTwo == ASSUME NEW a, NEW b, NEW c PROVE Append(<<a, b>>, c) = <<a, b, c>>
  <1>1. /\ <<a, b>> \in Seq({a, b, c}) /\ Len(<<a, b>>) = 2
        /\ <<a, b, c>> \in Seq({a, b, c}) /\ Len(<<a, b, c>>) = 3
    OBVIOUS
  <1>2. Append(<<a, b>>, c) \in Seq({a, b, c}) /\ Len(Append(<<a, b>>, c)) = 3
    BY <1>1
  <1>3. \A i \in 1 .. 3 : Append(<<a, b>>, c)[i] = <<a, b, c>>[i]
    BY <1>1
  <1> QED
    BY <1>1, <1>2, <1>3, SeqEqual

LEMMA HeadAndTail ==
  /\ \A a : Append(<<>>, a) = <<a>> /\ Head(<<a>>) = a /\ Tail(<<a>>) = <<>> /\ <<a>> # <<>>
  /\ \A a, b : Head(<<a, b>>) = a /\ Tail(<<a, b>>) = <<b>> /\ <<a, b>> # <<>>
  /\ \A a, b, c : Head(<<a, b, c>>) = a /\ Tail(<<a, b, c>>) = <<b, c>> /\ <<a, b, c>> # <<>>
  OBVIOUS

\* A message read from a stream, and what it leaves there.
LEMMA ReadNoise ==
  /\ \A s \in Noise : s # <<>> => Head(s) \in {Interrupt, Plus} /\ Tail(s) \in Noise
  /\ \A s \in {<<>>, <<Interrupt>>} : s # <<>> => Head(s) = Interrupt /\ Tail(s) = <<>>
  BY DEF Noise

LEMMA ReadAround ==
  ASSUME NEW m, NEW s \in Around(m)
  PROVE  /\ s # <<>>
         /\ \/ Head(s) = m /\ Tail(s) \in {<<>>, <<Interrupt>>}
            \/ Head(s) \in {Interrupt, Plus} /\ Tail(s) \in Around(m)
  <1>1. CASE s = <<m>>
    BY <1>1, HeadAndTail, Zenon
  <1>2. CASE s = <<m, Interrupt>>
    BY <1>2, HeadAndTail, Zenon
  <1>3. CASE s = <<Interrupt, m>>
    <2>1. Head(s) = Interrupt /\ Tail(s) = <<m>> /\ s # <<>>
      BY <1>3, HeadAndTail, Zenon
    <2> QED
      BY <2>1 DEF Around
  <1>4. CASE s = <<Plus, m>>
    <2>1. Head(s) = Plus /\ Tail(s) = <<m>> /\ s # <<>>
      BY <1>4, HeadAndTail, Zenon
    <2> QED
      BY <2>1 DEF Around
  <1>5. CASE s = <<Interrupt, Plus, m>>
    <2>1. Head(s) = Interrupt /\ Tail(s) = <<Plus, m>> /\ s # <<>>
      BY <1>5
    <2> QED
      BY <2>1 DEF Around
  <1>6. CASE s = <<Plus, m, Interrupt>>
    <2>1. Head(s) = Plus /\ Tail(s) = <<m, Interrupt>> /\ s # <<>>
      BY <1>6
    <2> QED
      BY <2>1 DEF Around
  <1> QED
    BY <1>1, <1>2, <1>3, <1>4, <1>5, <1>6 DEF Around

\* A message sent after those under way.
LEMMA SendNoise ==
  /\ \A s \in Noise, m \in Packets : Append(s, m) \in Around(m)
  /\ \A s \in {<<>>, <<Interrupt>>} : Append(s, Plus) \in Noise
  /\ {<<>>, <<Interrupt>>} \subseteq Noise
  <1>1. ASSUME NEW m
        PROVE  /\ Append(<<>>, m) \in Around(m) /\ Append(<<Interrupt>>, m) \in Around(m)
               /\ Append(<<Plus>>, m) \in Around(m) /\ Append(<<Interrupt, Plus>>, m) \in Around(m)
    <2>1. /\ Append(<<>>, m) = <<m>> /\ Append(<<Interrupt>>, m) = <<Interrupt, m>>
          /\ Append(<<Plus>>, m) = <<Plus, m>>
      BY HeadAndTail, AppendToOne, Zenon
    <2>2. Append(<<Interrupt, Plus>>, m) = <<Interrupt, Plus, m>>
      BY AppendToTwo, Zenon
    <2> QED
      BY <2>1, <2>2, Zenon DEF Around
  <1>2. Append(<<>>, Plus) = <<Plus>> /\ Append(<<Interrupt>>, Plus) = <<Interrupt, Plus>>
    BY HeadAndTail, AppendToOne, Zenon
  <1>3. \A s \in Noise : s = <<>> \/ s = <<Interrupt>> \/ s = <<Plus>> \/ s = <<Interrupt, Plus>>
    BY Zenon DEF Noise
  <1>4. \A s \in {<<>>, <<Interrupt>>} : Append(s, Plus) \in Noise
    BY <1>2, Zenon DEF Noise
  <1> QED
    BY <1>1, <1>3, <1>4, Zenon DEF Noise

LEMMA SendInterrupt ==
  ASSUME NEW s, Interrupt \notin {s[i] : i \in 1 .. Len(s)}
  PROVE  /\ s \in {<<>>, <<Interrupt>>} => Append(s, Interrupt) = <<Interrupt>>
         /\ \A m : s \in Around(m) => Append(s, Interrupt) \in Around(m)
  <1>1. \A i \in 1 .. Len(s) : s[i] # Interrupt
    OBVIOUS
  <1>2. s # <<Interrupt>>
    BY <1>1, <<Interrupt>>[1] = Interrupt, Len(<<Interrupt>>) = 1, 1 \in 1 .. 1
  <1>3. ASSUME NEW m
        PROVE  s \notin {<<Interrupt, m>>, <<Interrupt, Plus, m>>, <<m, Interrupt>>, <<Plus, m, Interrupt>>}
    <2>1. s # <<Interrupt, m>>
      BY <1>1, <<Interrupt, m>>[1] = Interrupt, 1 \in 1 .. Len(<<Interrupt, m>>)
    <2>2. s # <<Interrupt, Plus, m>>
      BY <1>1, <<Interrupt, Plus, m>>[1] = Interrupt, 1 \in 1 .. Len(<<Interrupt, Plus, m>>)
    <2>3. s # <<m, Interrupt>>
      BY <1>1, <<m, Interrupt>>[2] = Interrupt, 2 \in 1 .. Len(<<m, Interrupt>>)
    <2>4. s # <<Plus, m, Interrupt>>
      BY <1>1, <<Plus, m, Interrupt>>[3] = Interrupt, 3 \in 1 .. Len(<<Plus, m, Interrupt>>)
    <2> QED
      BY <2>1, <2>2, <2>3, <2>4, Zenon
  <1>4. ASSUME NEW m, s \in Around(m) PROVE Append(s, Interrupt) \in Around(m)
    <2>1. s = <<m>> \/ s = <<Plus, m>>
      BY <1>3, <1>4, Zenon DEF Around
    <2>2. Append(s, Interrupt) = <<m, Interrupt>> \/ Append(s, Interrupt) = <<Plus, m, Interrupt>>
      BY <2>1, AppendToOne, AppendToTwo, Zenon
    <2> QED
      BY <2>2, Zenon DEF Around
  <1> QED
    BY <1>2, <1>4, HeadAndTail, Zenon

LEMMA ReadStreams ==
  ASSUME NEW s \in Streams, s # <<>>
  PROVE  Tail(s) \in Streams /\ Head(s) \in {Interrupt, Plus} \union Packets
  <1>1. CASE s \in Noise
    BY <1>1, ReadNoise, Zenon DEF Streams
  <1>2. ASSUME NEW m \in Packets, s \in Around(m)
        PROVE  Tail(s) \in Streams /\ Head(s) \in {Interrupt, Plus} \union Packets
    BY <1>2, ReadAround, SendNoise, Zenon DEF Streams
  <1> QED
    BY <1>1, <1>2, Zenon DEF Streams

LEMMA PacketKinds ==
  /\ \A m \in Packets : m.kind \in {"good", "bad"} /\ m.cmd \in Command
  /\ \A c \in Command : Request(c) \in Packets /\ Garbled(c) \in Packets
  BY Kinds DEF Packets

-----------------------------------------------------------------------------
(* The server reads                                                        *)

\* What the server finds at the front of the stream of a client that is there.
LEMMA Front ==
  ASSUME IInv, toServer # <<>>, Connected
  PROVE  /\ Head(toServer).kind \in {"good", "bad"} =>
              /\ OnItsWay /\ Tail(toServer) \in {<<>>, <<Interrupt>>}
              /\ Head(toServer).kind = "good" => Head(toServer).cmd = req
              /\ Head(toServer).kind = "bad" => acks
         /\ Head(toServer).kind \notin {"good", "bad"} =>
              /\ toServer \in Noise => Tail(toServer) \in Noise
              /\ Drained => Tail(toServer) = <<>>
              /\ OnItsWay => \/ Tail(toServer) \in Around(Request(req))
                             \/ acks /\ Tail(toServer) \in Around(Garbled(req))
  <1>1. toServer \in Noise \/ OnItsWay
    BY SendNoise DEF IInv, Situation, Away, Idle, Handled, Refused, Replied, Ignored, Closed,
                     Drained, Connected
  <1>2. req \in Command
    BY DEF IInv, Shape
  <1>3. /\ toServer \in Noise => Tail(toServer) \in Noise
        /\ Drained => Tail(toServer) = <<>>
    BY ReadNoise DEF Drained
  <1>4. CASE ~OnItsWay
    <2>1. Head(toServer) \in {Interrupt, Plus}
      BY <1>1, <1>4, ReadNoise
    <2>2. Head(toServer).kind \notin {"good", "bad"}
      BY <2>1, Kinds
    <2> QED
      BY <2>2, <1>3, <1>4
  <1>5. CASE OnItsWay
    <2>1. PICK m \in {Request(req), Garbled(req)} :
            toServer \in Around(m) /\ (m = Garbled(req) => acks)
      BY <1>5, Kinds, <1>2 DEF OnItsWay
    <2>2. CASE Head(toServer) = m /\ Tail(toServer) \in {<<>>, <<Interrupt>>}
      BY <2>1, <2>2, <1>2, <1>5, Kinds
    <2>3. CASE Head(toServer) \in {Interrupt, Plus} /\ Tail(toServer) \in Around(m)
      <3>1. Head(toServer).kind \notin {"good", "bad"}
        BY <2>3, Kinds
      <3> QED
        BY <3>1, <2>1, <2>3, <1>3, <1>5
    <2> QED
      BY <2>1, <2>2, <2>3, ReadAround
  <1> QED
    BY <1>4, <1>5

LEMMA ClientStream ==
  /\ \A a : Append(<<>>, a) = <<a>>
  /\ \A a, b : Append(<<a>>, b) = <<a, b>>
  /\ \A a : Head(<<a>>) = a /\ Tail(<<a>>) = <<>> /\ <<a>> # <<>>
  /\ \A a, b : Head(<<a, b>>) = a /\ Tail(<<a, b>>) = <<b>> /\ <<a, b>> # <<>>
  BY HeadAndTail, AppendToOne, Zenon

LEMMA Distinct ==
  /\ Plus # Minus
  /\ \A c \in Command : Reply(c) # Plus /\ Reply(c) # Minus
  BY Kinds

\* A client that has gone: nothing is sent to it, and what it had sent is read or not.
LEMMA ClosedStep ==
  ASSUME IInv, client = "closed", Server PROVE Closed'
  <1>1. Closed
    BY DEF IInv, Situation, Away, Idle, OnItsWay, Handled, Refused, Replied, Ignored, Acknowledged
  <1>2. client' = client /\ req' = req
    BY DEF Server, Accept, AcceptFails, Exit, Serve, SkipByte, ReadPacket, PlusFails, BadChecksum,
           EndOfStream, ReadError, Handle, Detach, Panic, server
  <1>3. toClient' = toClient
    BY <1>1 DEF Server, Accept, AcceptFails, Exit, Serve, SkipByte, ReadPacket, PlusFails, BadChecksum,
           EndOfStream, ReadError, Handle, Detach, Panic, server, Sent, Connected
  <1>4. toServer' = toServer \/ (toServer # <<>> /\ toServer' = Tail(toServer))
    BY DEF Server, Accept, AcceptFails, Exit, Serve, SkipByte, ReadPacket, PlusFails, BadChecksum,
           EndOfStream, ReadError, Handle, Detach, Panic, server
  <1>5. toServer' \in Streams
    BY <1>1, <1>4, ReadStreams DEF Closed
  <1> QED
    BY <1>1, <1>2, <1>3, <1>5 DEF Closed

LEMMA ShapeStep ==
  ASSUME IInv, [Next]_vars PROVE Shape'
  <1>1. Shape
    BY DEF IInv
  <1>2. CASE Server
    <2>1. toServer # <<>> /\ Head(toServer).kind = "good" => Head(toServer).cmd \in Command
      <3>1. CASE client = "closed"
        <4>1. toServer \in Streams
          BY <3>1 DEF IInv, Situation, Away, Idle, OnItsWay, Handled, Refused, Replied, Ignored,
                      Acknowledged, Closed
        <4> QED
          BY <4>1, ReadStreams, PacketKinds, Kinds
      <3>2. CASE Connected
        BY <3>2, <1>1, Front DEF Shape
      <3>3. CASE client = "away"
        BY <3>3 DEF IInv, Situation, Away, Idle, OnItsWay, Handled, Refused, Replied, Ignored,
                    Acknowledged, Closed
      <3> QED
        BY <3>1, <3>2, <3>3, <1>1 DEF Shape, Connected
    <2> QED
      BY <1>1, <1>2, <2>1
      DEF Shape, Server, Accept, AcceptFails, Exit, Serve, SkipByte, ReadPacket, PlusFails,
          BadChecksum, EndOfStream, ReadError, Handle, Detach, Panic, server
  <1>3. CASE CtrlC
    BY <1>1, <1>3 DEF Shape, CtrlC
  <1>4. CASE Client
    BY <1>1, <1>4 DEF Shape, Client, Connect, SendRequest, GetPlus, GetMinus, GetReply, Killed,
                      PressInterrupt, Close, server
  <1>5. CASE UNCHANGED vars
    BY <1>1, <1>5 DEF Shape, vars
  <1> QED
    BY <1>2, <1>3, <1>4, <1>5 DEF Next

-----------------------------------------------------------------------------
(* Steps of the server while the client is there                           *)

\* The main loop itself: no stream is touched.
LEMMA LoopStep ==
  ASSUME IInv, client # "closed", Accept \/ AcceptFails \/ Exit \/ Serve \/ EndOfStream
  PROVE  Situation'
  BY DEF Accept, AcceptFails, Exit, Serve, EndOfStream, IInv, Shape, Situation, Away, Idle,
         OnItsWay, Handled, Refused, Replied, Ignored, Acknowledged, Closed, AtRest, Agreed, Drained

LEMMA SkipStep ==
  ASSUME IInv, client # "closed", SkipByte PROVE Situation'
  <1>1. toServer # <<>> /\ Head(toServer).kind \in {"+", "-", "intr"} /\ toServer' = Tail(toServer)
        /\ UNCHANGED <<pc, running, disable_ack, packet, toClient, client, req, acks>>
    BY DEF SkipByte, server
  <1>2. Connected
    BY <1>1 DEF Connected, IInv, Situation, Away, Idle, OnItsWay, Handled, Refused, Replied, Ignored,
                Acknowledged, Closed
  <1>3. /\ toServer \in Noise => toServer' \in Noise
        /\ Drained => toServer' = <<>>
        /\ OnItsWay => \/ toServer' \in Around(Request(req))
                       \/ acks /\ toServer' \in Around(Garbled(req))
    BY <1>1, <1>2, Front
  <1> USE DEF AtRest, Agreed, Acknowledged
  <1>4. ASSUME Idle PROVE Idle'
    BY <1>1, <1>3, <1>4 DEF Idle
  <1>5. ASSUME OnItsWay PROVE OnItsWay'
    BY <1>1, <1>3, <1>5 DEF OnItsWay
  <1>6. ASSUME Drained PROVE Drained'
    BY <1>3, <1>6 DEF Drained
  <1> QED
    BY <1>1, <1>2, <1>4, <1>5, <1>6
    DEF IInv, Situation, Away, Handled, Refused, Replied, Ignored, Closed, Connected

LEMMA ReadStep ==
  ASSUME IInv, client # "closed", ReadPacket \/ PlusFails \/ BadChecksum PROVE Situation'
  <1>1. /\ toServer # <<>> /\ Head(toServer).kind \in {"good", "bad"} /\ toServer' = Tail(toServer)
        /\ UNCHANGED <<disable_ack, client, req, acks>>
    BY DEF ReadPacket, PlusFails, BadChecksum
  <1>2. Connected
    BY <1>1 DEF Connected, IInv, Situation, Away, Idle, OnItsWay, Handled, Refused, Replied, Ignored,
                Acknowledged, Closed
  <1>3. /\ OnItsWay /\ Drained'
        /\ Head(toServer).kind = "good" => Head(toServer).cmd = req
        /\ Head(toServer).kind = "bad" => acks
    BY <1>1, <1>2, Front DEF Drained
  <1>4. ~PlusFails
    BY DEF PlusFails, MayFail
  <1>5. ASSUME ReadPacket PROVE Handled'
    <2>1. /\ Head(toServer).kind = "good" /\ pc' = "handle" /\ packet' = req
          /\ acks = ~disable_ack /\ toClient = <<>>
          /\ client = IF acks THEN "wait_ack" ELSE "wait_reply"
      BY <1>3, <1>5 DEF ReadPacket, OnItsWay, Agreed
    <2>2. toClient' = IF acks THEN <<Plus>> ELSE <<>>
      <3>1. CASE acks
        BY <1>2, <1>5, <2>1, <3>1, ClientStream DEF ReadPacket, Sent, IInv, Shape
      <3>2. CASE ~acks
        BY <1>5, <2>1, <3>2 DEF ReadPacket, IInv, Shape
      <3> QED
        BY <3>1, <3>2
    <2> QED
      BY <1>1, <1>3, <2>1, <2>2 DEF Handled, Acknowledged, Agreed
  <1>6. ASSUME BadChecksum PROVE Refused'
    BY <1>1, <1>3, <1>6 DEF BadChecksum, OnItsWay, Refused, Agreed
  <1> QED
    BY <1>4, <1>5, <1>6 DEF Situation

LEMMA AnswerStep ==
  ASSUME IInv, client # "closed", ReadError \/ Handle \/ Detach \/ Panic PROVE Situation'
  <1> USE DEF IInv, Shape
  <1>1. pc = "error" => Refused /\ toClient = <<>>
    BY DEF Situation, Away, Idle, OnItsWay, Handled, Refused, Replied, Ignored, Closed, AtRest
  <1>2. pc = "handle" => Handled
    BY DEF Situation, Away, Idle, OnItsWay, Handled, Refused, Replied, Ignored, Closed, AtRest
  <1>3. CASE ReadError
    <2>1. Refused /\ toClient = <<>> /\ pc' = "serve" /\ toClient' = Append(toClient, Minus)
      BY <1>1, <1>3 DEF ReadError, Refused, Agreed, Sent, Connected
    <2> QED
      BY <1>3, <2>1, ClientStream DEF ReadError, Refused, Agreed, AtRest, Drained, Situation
  <1>4. CASE Handle
    <2>1. Handled /\ pc' = "serve" /\ disable_ack' = (disable_ack \/ packet = "noack")
      BY <1>2, <1>4 DEF Handle
    <2>2. CASE packet = "kill"
      BY <1>4, <2>1, <2>2
      DEF Handle, Handled, Ignored, Acknowledged, Agreed, AtRest, Drained, Situation
    <2>3. CASE packet # "kill"
      <3>1. toClient' = Append(toClient, Reply(req)) /\ client' = client /\ acks' = acks
        BY <1>4, <2>1, <2>3 DEF Handle, Handled, Sent, Acknowledged, Connected
      <3>2. \/ client = "wait_ack" /\ acks /\ toClient' = <<Plus, Reply(req)>>
            \/ client = "wait_reply" /\ toClient' = <<Reply(req)>>
        BY <2>1, <3>1, ClientStream DEF Handled, Acknowledged
      <3> QED
        BY <1>4, <2>1, <3>1, <3>2 DEF Handle, Handled, Replied, Agreed, AtRest, Drained, Situation
    <2> QED
      BY <2>2, <2>3
  <1>5. CASE Detach
    <2>1. Handled /\ pc' = "accept" /\ req = "detach"
      BY <1>2, <1>5 DEF Detach, Handled
    <2>2. toClient' = Append(toClient, Reply(req)) /\ client' = client /\ acks' = acks
      BY <1>5, <2>1 DEF Detach, Handled, Sent, Acknowledged, Connected
    <2>3. \/ client = "wait_ack" /\ acks /\ toClient' = <<Plus, Reply(req)>>
          \/ client = "wait_reply" /\ toClient' = <<Reply(req)>>
      BY <2>1, <2>2, ClientStream DEF Handled, Acknowledged
    <2> QED
      BY <1>5, <2>1, <2>2, <2>3 DEF Detach, Handled, Replied, Agreed, AtRest, Drained, Situation
  <1>6. CASE Panic
    BY <1>2, <1>6 DEF Panic, MayFail, Handled, Ignored, Acknowledged, Agreed, AtRest, Drained, Situation
  <1> QED
    BY <1>3, <1>4, <1>5, <1>6

-----------------------------------------------------------------------------
(* Steps of the client                                                     *)

LEMMA SendStep ==
  ASSUME IInv,
         \/ Connect \/ Killed \/ Close
         \/ \E c \in Cmd : SendRequest(c)
  PROVE  Situation'
  <1> USE DEF server
  <1>1. CASE Connect
    <2>1. Away
      BY <1>1 DEF Connect, IInv, Situation, Away, Idle, OnItsWay, Handled, Refused, Replied, Ignored,
                  Acknowledged, Closed, Shape
    <2> QED
      BY <1>1, <2>1 DEF Connect, Away, Idle, AtRest, Agreed, Noise, Situation
  <1>2. CASE Killed \/ Close
    <2>1. toServer \in Streams
      BY PacketKinds, SendNoise
      DEF IInv, Shape, Situation, Away, Idle, OnItsWay, Handled, Refused, Replied, Ignored,
          Closed, Drained, Streams
    <2>2. toClient \in {<<>>, <<Plus>>, <<Minus>>, <<Reply(req)>>, <<Plus, Reply(req)>>}
      BY DEF IInv, Situation, Away, Idle, OnItsWay, Handled, Refused, Replied, Ignored,
             Acknowledged, Closed
    <2> QED
      BY <1>2, <2>1, <2>2 DEF Killed, Close, Closed, Situation
  <1>3. ASSUME NEW c \in Cmd, SendRequest(c) PROVE Situation'
    <2>1. Idle /\ c \in Command
      BY <1>3 DEF SendRequest, IInv, Situation, Away, Idle, OnItsWay, Handled, Refused, Replied,
                  Ignored, Acknowledged, Closed
    <2>2. \E m \in {Request(c), Garbled(c)} :
            toServer' = Append(toServer, m) /\ (m = Garbled(c) => acks)
      BY <1>3, <2>1, Kinds DEF SendRequest, Transmit, ToServer
    <2>3. toServer' \in Around(Request(c)) \/ (acks /\ toServer' \in Around(Garbled(c)))
      BY <2>1, <2>2, SendNoise, PacketKinds DEF Idle
    <2> QED
      BY <1>3, <2>1, <2>3 DEF SendRequest, Idle, OnItsWay, AtRest, Agreed, Situation
  <1> QED
    BY <1>1, <1>2, <1>3

LEMMA ReceiveStep ==
  ASSUME IInv, GetPlus \/ GetMinus \/ GetReply PROVE Situation'
  <1> USE DEF server
  <1>1. req \in Command
    BY DEF IInv, Shape
  <1>2. CASE GetPlus
    <2>1. Handled \/ Replied \/ Ignored
      BY <1>2, ClientStream, Distinct
      DEF GetPlus, Receive, IInv, Situation, Away, Idle, OnItsWay, Handled, Refused, Replied,
          Ignored, Closed, AtRest
    <2>2. \/ toClient = <<Plus>> /\ toClient' = <<>>
          \/ Replied /\ toClient = <<Plus, Reply(req)>> /\ toClient' = <<Reply(req)>>
      BY <1>2, <2>1, ClientStream DEF GetPlus, Receive, Handled, Replied, Ignored, Acknowledged
    <2> QED
      BY <1>2, <2>1, <2>2, ClientStream, Distinct, <1>1
      DEF GetPlus, Handled, Replied, Ignored, Acknowledged, AtRest, Agreed, Drained, Situation
  <1>3. CASE GetMinus
    <2>1. Refused /\ toClient = <<Minus>> /\ toClient' = <<>>
      BY <1>3, ClientStream, Distinct
      DEF GetMinus, Receive, IInv, Situation, Away, Idle, OnItsWay, Handled, Refused, Replied,
          Ignored, Acknowledged, Closed, AtRest
    <2>2. AtRest
      BY <2>1, ClientStream DEF Refused
    <2>3. \E m \in {Request(req), Garbled(req)} :
            toServer' = Append(toServer, m) /\ (m = Garbled(req) => acks)
      BY <1>3, <2>1 DEF GetMinus, Transmit, ToServer, Refused
    <2>4. toServer' \in Around(Request(req)) \/ (acks /\ toServer' \in Around(Garbled(req)))
      BY <2>1, <2>3, <1>1, SendNoise, PacketKinds DEF Refused, Drained
    <2> QED
      BY <1>3, <2>1, <2>2, <2>4 DEF GetMinus, Refused, OnItsWay, AtRest, Agreed, Situation
  <1>4. CASE GetReply
    <2>1. Replied /\ toClient = <<Reply(req)>> /\ toClient' = <<>>
      BY <1>4, <1>1, ClientStream, Distinct
      DEF GetReply, Receive, IInv, Situation, Away, Idle, OnItsWay, Handled, Refused, Replied,
          Ignored, Acknowledged, Closed
    <2>2. acks' = ~disable_ack' /\ AtRest' /\ toServer' \in Noise
      BY <1>4, <2>1, SendNoise DEF GetReply, Replied, ToServer, AtRest, Drained, IInv, Shape
    <2>3. CASE req = "detach"
      BY <1>4, <2>1, <2>2, <2>3 DEF GetReply, Closed, Streams, Situation
    <2>4. CASE req # "detach"
      BY <1>4, <2>1, <2>2, <2>4 DEF GetReply, Idle, Agreed, Situation
    <2> QED
      BY <2>3, <2>4
  <1> QED
    BY <1>2, <1>3, <1>4

LEMMA InterruptStep ==
  ASSUME IInv, PressInterrupt PROVE Situation'
  <1> USE DEF server
  <1>1. /\ client = "wait_reply" /\ toServer' = Append(toServer, Interrupt)
        /\ Interrupt \notin {toServer[i] : i \in 1 .. Len(toServer)}
        /\ UNCHANGED <<pc, running, disable_ack, packet, toClient, client, req, acks>>
    BY DEF PressInterrupt, ToServer
  <1>2. /\ Drained => Drained'
        /\ \A m : toServer \in Around(m) => toServer' \in Around(m)
    BY <1>1, SendInterrupt DEF Drained
  <1>3. ASSUME OnItsWay PROVE OnItsWay'
    BY <1>1, <1>2, <1>3 DEF OnItsWay, AtRest, Agreed
  <1>4. OnItsWay \/ Handled \/ Replied \/ Ignored
    BY <1>1 DEF IInv, Situation, Away, Idle, Refused, Closed
  <1> QED
    BY <1>1, <1>2, <1>3, <1>4
    DEF Handled, Replied, Ignored, Acknowledged, AtRest, Agreed, Situation

-----------------------------------------------------------------------------
LEMMA InitIInv == Init => IInv
  BY DEF Init, IInv, Shape, Situation, Away, AtRest, Agreed, Command

LEMMA NextIInv == ASSUME IInv, [Next]_vars PROVE IInv'
  <1>1. CASE Server
    <2>1. ASSUME client = "closed" PROVE Situation'
      BY <1>1, <2>1, ClosedStep DEF Situation
    <2>2. ASSUME client # "closed" PROVE Situation'
      BY <1>1, <2>2, LoopStep, SkipStep, ReadStep, AnswerStep DEF Server
    <2> QED
      BY <2>1, <2>2, ShapeStep DEF IInv
  <1>2. CASE Client
    BY <1>2, SendStep, ReceiveStep, InterruptStep, ShapeStep DEF Client, IInv
  <1>3. CASE CtrlC \/ UNCHANGED vars
    <2>1. UNCHANGED <<pc, disable_ack, packet, toServer, toClient, client, req, acks>>
      BY <1>3 DEF CtrlC, vars
    <2>2. Situation'
      BY <2>1 DEF IInv, Situation, Away, Idle, OnItsWay, Handled, Refused, Replied, Ignored,
                  Acknowledged, Closed, AtRest, Agreed, Drained
    <2> QED
      BY <2>2, ShapeStep DEF IInv
  <1> QED
    BY <1>1, <1>2, <1>3 DEF Next

\* The client never gets a byte it does not wait for, through garbled packets, the
\* change of the acknowledgement mode, interrupts, Ctrl-C and a client that vanishes.
THEOREM StaysInStep == Spec => []InStep
  <1>1. IInv => InStep
    <2> SUFFICES ASSUME IInv, Connected, toClient # <<>>
                 PROVE  CASE client = "wait_ack" -> \/ toClient = <<Minus>>
                                                    \/ toClient \in {<<Plus>>, <<Plus, Reply(req)>>}
                          [] client = "wait_reply" -> toClient = <<Reply(req)>>
                          [] OTHER -> FALSE
      BY DEF InStep
    <2> QED
      BY DEF IInv, Shape, Situation, Away, Idle, OnItsWay, Handled, Refused, Replied, Ignored,
             Acknowledged, Closed, Connected
  <1> QED
    BY <1>1, InitIInv, NextIInv, PTL DEF Spec

\* Whenever the client may send both sides agree about acknowledgements, although the
\* server changes the mode when it answers and the client when it gets the answer.
THEOREM ModesAgree == Spec => []AckModesAgree
  <1>1. IInv => AckModesAgree
    BY DEF IInv, Situation, Away, Idle, OnItsWay, Handled, Refused, Replied, Ignored,
           Acknowledged, Closed, Agreed, AckModesAgree
  <1> QED
    BY <1>1, InitIInv, NextIInv, PTL DEF Spec

LEMMA Lengths ==
  /\ \A s \in Streams : Len(s) <= 4
  /\ \A c : \A s \in {<<>>, <<Plus>>, <<Minus>>, <<Reply(c)>>, <<Plus, Reply(c)>>} : Len(s) <= 2
  <1>1. /\ Len(<<>>) = 0
        /\ \A a : Len(<<a>>) = 1
        /\ \A a, b : Len(<<a, b>>) = 2
        /\ \A a, b, c : Len(<<a, b, c>>) = 3
    OBVIOUS
  <1>2. ASSUME NEW m, NEW s \in Around(m) PROVE Len(s) \in {1, 2, 3}
    <2>1. \/ \E a : s = <<a>>
          \/ \E a, b : s = <<a, b>>
          \/ \E a, b, c : s = <<a, b, c>>
      BY Zenon DEF Around
    <2> QED
      BY <2>1, <1>1, Zenon
  <1>3. ASSUME NEW s \in Noise PROVE Len(s) \in {0, 1, 2}
    BY <1>1, Zenon DEF Noise
  <1>4. \A s \in Streams : Len(s) \in {0, 1, 2, 3}
    BY <1>2, <1>3 DEF Streams
  <1>5. \A c : \A s \in {<<>>, <<Plus>>, <<Minus>>, <<Reply(c)>>, <<Plus, Reply(c)>>} : Len(s) \in {0, 1, 2}
    BY <1>1, Zenon
  <1> QED
    BY <1>4, <1>5

\* Every variable has its type, and the streams stay short.
THEOREM TypeCorrect == Spec => []TypeOK
  <1>1. ASSUME IInv PROVE TypeOK
    <2>1. toServer \in Streams
      BY <1>1, PacketKinds, SendNoise
      DEF IInv, Shape, Situation, Away, Idle, OnItsWay, Handled, Refused, Replied, Ignored,
          Closed, Drained, Streams
    <2>2. toClient \in {<<>>, <<Plus>>, <<Minus>>, <<Reply(req)>>, <<Plus, Reply(req)>>}
      BY <1>1 DEF IInv, Situation, Away, Idle, OnItsWay, Handled, Refused, Replied, Ignored,
             Acknowledged, Closed
    <2>3. Len(toServer) <= 4 /\ Len(toClient) <= 2
      BY <2>1, <2>2, Lengths
    <2> QED
      BY <1>1, <2>3 DEF IInv, Shape, TypeOK
  <1> QED
    BY <1>1, InitIInv, NextIInv, PTL DEF Spec

-----------------------------------------------------------------------------
(* The numberings of the registers                                         *)

\* The addresses of the CSRs in the order of the target description.
CsrPlaces ==
  <<768, 769, 770, 771, 772, 773, 832, 833, 834, 835, 836, 1968, 1969, 1970, 1971, 1984, 1985,
    2816, 2818, 3072, 3073, 3074, 3857, 3858, 3859, 3860>>

LEMMA Numbers == Len(Description) = 58 /\ Number = 0 .. 57
<1>1. Len(Description) = 58
  BY DEF Description
<1> QED
  BY <1>1 DEF Number

LEMMA GprTables ==
  \A n \in 0 .. 31 : PlaceOf[n] = 4096 + n /\ ReadAddr(n) = 4096 + n /\ WriteAddr(n) = 4096 + n
<1>1. \A n \in 0 .. 31 : PlaceOf[n] = 4096 + n
  BY Numbers DEF PlaceOf, Place
<1>2. \A n \in 0 .. 31 : GprAddr[n + 1] = 4096 + n
  BY DEF GprAddr, From
<1> QED
  BY <1>1, <1>2 DEF ReadAddr, WriteAddr

LEMMA CsrTables ==
  \A n \in 32 .. 57 : /\ PlaceOf[n] = CsrPlaces[n - 31]
                      /\ ReadAddr(n) = CsrPlaces[n - 31] /\ WriteAddr(n) = CsrPlaces[n - 31]
<1>1. \A n \in 32 .. 57 : PlaceOf[n] = Place(n)
  BY Numbers DEF PlaceOf
<1>2. \A n \in 32 .. 57 : Place(n) = CsrPlaces[n - 31]
  BY DEF Place, Description, CsrPlaces
<1>3. \A n \in 32 .. 57 : ReadAddr(n) = CsrPlaces[n - 31]
  BY DEF ReadAddr, CsrAddr, csr_regs, CsrPlaces
<1>4. \A n \in 32 .. 57 : WriteAddr(n) = CsrPlaces[n - 31]
  BY DEF WriteAddr, CsrAddr, csr_regs, CsrPlaces
<1> QED
  BY <1>1, <1>2, <1>3, <1>4

LEMMA CsrRange == \A i \in 1 .. 26 : CsrPlaces[i] \in Nat /\ CsrPlaces[i] < 4096
  BY DEF CsrPlaces

\* p and P number the registers as the target description does.
LEMMA TablesAgree ==
  ASSUME NEW n \in Number
  PROVE  /\ ReadAddr(n) = PlaceOf[n] /\ WriteAddr(n) = PlaceOf[n]
         /\ PlaceOf[n] \in Address /\ PlaceOf[n] \in Nat
         /\ n < 32 => PlaceOf[n] = 4096 + n
         /\ n >= 32 => PlaceOf[n] < 4096
<1>1. n \in 0 .. 57 /\ PlaceOf[n] \in Address
  BY Numbers DEF Address
<1>2. CASE n < 32
  BY <1>1, <1>2, GprTables
<1>3. CASE n >= 32
  <2>1. n \in 32 .. 57 /\ n - 31 \in 1 .. 26
    BY <1>1, <1>3
  <2>2. CsrPlaces[n - 31] \in Nat /\ CsrPlaces[n - 31] < 4096
    BY <2>1, CsrRange
  <2> QED
    BY <1>1, <1>3, <2>1, <2>2, CsrTables
<1> QED
  BY <1>1, <1>2, <1>3

LEMMA A1IsAddress == A1 \in Address
<1>1. 11 \in Number /\ PlaceOf[11] = A1
  BY Numbers, GprTables DEF A1
<1> QED
  BY <1>1 DEF Address

\* s reads the first k registers of the target description.
Reads(s, k) == /\ s \in Seq(Nat) /\ Len(s) = k
               /\ \A i \in 1 .. k : s[i] = PlaceOf[i - 1]

LEMMA FromIsRange ==
  ASSUME NEW a \in Nat, NEW m \in Nat, NEW b \in Nat, b = a + m - 1
  PROVE  /\ From(a, b) \in Seq(Nat) /\ Len(From(a, b)) = m
         /\ \A i \in 1 .. m : From(a, b)[i] = a + i - 1
<1>1. From(a, b) = [i \in 1 .. m |-> a + i - 1]
  <2>1. b - a + 1 = m
    OBVIOUS
  <2> QED
    BY <2>1 DEF From
<1>2. \A i \in 1 .. m : a + i - 1 \in Nat
  OBVIOUS
<1> QED
  BY <1>1, <1>2

\* The m registers from the k-th on have the addresses from a on.
Follow(k, m, a) == \A i \in 1 .. m : PlaceOf[k + i - 1] = a + i - 1

LEMMA FirstRange ==
  ASSUME NEW m \in Nat, NEW a \in Nat, NEW b \in Nat, b = a + m - 1, Follow(0, m, a)
  PROVE  Reads(From(a, b), m)
<1> DEFINE t == From(a, b)
<1>1. t \in Seq(Nat) /\ Len(t) = m /\ \A i \in 1 .. m : t[i] = a + i - 1
  BY FromIsRange, Zenon
<1> HIDE DEF t
<1>2. ASSUME NEW i \in 1 .. m PROVE t[i] = PlaceOf[i - 1]
  <2>1. 0 + i - 1 = i - 1
    OBVIOUS
  <2> QED
    BY <1>1, <2>1 DEF Follow
<1> QED
  BY <1>1, <1>2 DEF Reads, t

LEMMA NextRange ==
  ASSUME NEW s, NEW k \in Nat, NEW m \in Nat, NEW a \in Nat, NEW b \in Nat, NEW j \in Nat,
         b = a + m - 1, j = k + m, Reads(s, k), Follow(k, m, a)
  PROVE  Reads(s \o From(a, b), j)
<1> DEFINE t == From(a, b)
<1>1. /\ s \in Seq(Nat) /\ Len(s) = k /\ t \in Seq(Nat) /\ Len(t) = m
      /\ \A i \in 1 .. m : t[i] = PlaceOf[k + i - 1]
  <2>1. t \in Seq(Nat) /\ Len(t) = m /\ \A i \in 1 .. m : t[i] = a + i - 1
    BY FromIsRange, Zenon
  <2> QED
    BY <2>1 DEF Reads, Follow
<1> HIDE DEF t
<1>2. s \o t \in Seq(Nat) /\ Len(s \o t) = k + m
  BY <1>1
<1>3. ASSUME NEW i \in 1 .. k + m PROVE (s \o t)[i] = PlaceOf[i - 1]
  <2>1. CASE i <= k
    BY <1>1, <2>1 DEF Reads
  <2>2. CASE ~(i <= k)
    <3>1. (s \o t)[i] = t[i - k]
      BY <1>1, <2>2
    <3>2. i - k \in 1 .. m /\ k + (i - k) - 1 = i - 1
      BY <2>2
    <3> QED
      BY <1>1, <3>1, <3>2
  <2> QED
    BY <2>1, <2>2
<1>4. Reads(s \o t, k + m)
  BY <1>2, <1>3 DEF Reads
<1> QED
  BY <1>4, Zenon DEF t

\* The ranges of read_gprs are the registers of the target description, in its order.
LEMMA OrderAgrees ==
  Len(ReadOrder) = 58 /\ \A n \in Number : ReadOrder[n + 1] = PlaceOf[n]
<1> DEFINE S1 == GprAddr
           S2 == S1 \o Csr("Mstatus", "Mtvec")
           S3 == S2 \o Csr("Mscratch", "Mip")
           S4 == S3 \o Csr("Dcsr", "Dscratch1")
           S5 == S4 \o Csr("Mlmemprot", "Mafstatus")
           S6 == S5 \o Csr("Mcycle", "Mcycle")
           S7 == S6 \o Csr("Minstret", "Minstret")
           S8 == S7 \o Csr("Cycle", "Instret")
           S9 == S8 \o Csr("Mvendorid", "Mhartid")
<1>1. S9 = ReadOrder
  BY DEF ReadOrder
<1>2. Reads(S1, 32)
  <2>1. Follow(0, 32, 4096)
    <3>1. ASSUME NEW i \in 1 .. 32 PROVE PlaceOf[0 + i - 1] = 4096 + i - 1
      <4>1. i - 1 \in 0 .. 31 /\ 0 + i - 1 = i - 1
        OBVIOUS
      <4> QED
        BY <4>1, GprTables
    <3> QED
      BY <3>1 DEF Follow
  <2>2. Reads(From(4096, 4127), 32)
    BY <2>1, FirstRange
  <2> QED
    BY <2>2 DEF GprAddr
<1>3. ASSUME NEW i \in 32 .. 57 PROVE PlaceOf[i] = CsrPlaces[i - 31]
  BY CsrTables
<1> HIDE DEF S1
<1>4. Reads(S2, 38)
  <2>1. Csr("Mstatus", "Mtvec") = From(768, 773)
    BY DEF Csr, CsrAddr
  <2>2. Follow(32, 6, 768)
    BY <1>3 DEF CsrPlaces, Follow
  <2>3. Reads(S1 \o From(768, 773), 38)
    BY <1>2, <2>2, NextRange
  <2> QED
    BY <2>1, <2>3
<1> HIDE DEF S2
<1>5. Reads(S3, 43)
  <2>1. Csr("Mscratch", "Mip") = From(832, 836)
    BY DEF Csr, CsrAddr
  <2>2. Follow(38, 5, 832)
    BY <1>3 DEF CsrPlaces, Follow
  <2>3. Reads(S2 \o From(832, 836), 43)
    BY <1>4, <2>2, NextRange
  <2> QED
    BY <2>1, <2>3
<1> HIDE DEF S3
<1>6. Reads(S4, 47)
  <2>1. Csr("Dcsr", "Dscratch1") = From(1968, 1971)
    BY DEF Csr, CsrAddr
  <2>2. Follow(43, 4, 1968)
    BY <1>3 DEF CsrPlaces, Follow
  <2>3. Reads(S3 \o From(1968, 1971), 47)
    BY <1>5, <2>2, NextRange
  <2> QED
    BY <2>1, <2>3
<1> HIDE DEF S4
<1>7. Reads(S5, 49)
  <2>1. Csr("Mlmemprot", "Mafstatus") = From(1984, 1985)
    BY DEF Csr, CsrAddr
  <2>2. Follow(47, 2, 1984)
    BY <1>3 DEF CsrPlaces, Follow
  <2>3. Reads(S4 \o From(1984, 1985), 49)
    BY <1>6, <2>2, NextRange
  <2> QED
    BY <2>1, <2>3
<1> HIDE DEF S5
<1>8. Reads(S6, 50)
  <2>1. Csr("Mcycle", "Mcycle") = From(2816, 2816)
    BY DEF Csr, CsrAddr
  <2>2. Follow(49, 1, 2816)
    BY <1>3 DEF CsrPlaces, Follow
  <2>3. Reads(S5 \o From(2816, 2816), 50)
    BY <1>7, <2>2, NextRange
  <2> QED
    BY <2>1, <2>3
<1> HIDE DEF S6
<1>9. Reads(S7, 51)
  <2>1. Csr("Minstret", "Minstret") = From(2818, 2818)
    BY DEF Csr, CsrAddr
  <2>2. Follow(50, 1, 2818)
    BY <1>3 DEF CsrPlaces, Follow
  <2>3. Reads(S6 \o From(2818, 2818), 51)
    BY <1>8, <2>2, NextRange
  <2> QED
    BY <2>1, <2>3
<1> HIDE DEF S7
<1>10. Reads(S8, 54)
  <2>1. Csr("Cycle", "Instret") = From(3072, 3074)
    BY DEF Csr, CsrAddr
  <2>2. Follow(51, 3, 3072)
    BY <1>3 DEF CsrPlaces, Follow
  <2>3. Reads(S7 \o From(3072, 3074), 54)
    BY <1>9, <2>2, NextRange
  <2> QED
    BY <2>1, <2>3
<1> HIDE DEF S8
<1>11. Reads(S9, 58)
  <2>1. Csr("Mvendorid", "Mhartid") = From(3857, 3860)
    BY DEF Csr, CsrAddr
  <2>2. Follow(54, 4, 3857)
    BY <1>3 DEF CsrPlaces, Follow
  <2>3. Reads(S8 \o From(3857, 3860), 58)
    BY <1>10, <2>2, NextRange
  <2> QED
    BY <2>1, <2>3
<1>12. Reads(ReadOrder, 58)
  BY <1>1, <1>11
<1>13. ASSUME NEW n \in Number PROVE ReadOrder[n + 1] = PlaceOf[n]
  <2>1. n + 1 \in 1 .. 58 /\ (n + 1) - 1 = n
    BY Numbers
  <2> QED
    BY <1>12, <2>1 DEF Reads
<1> QED
  BY <1>12, <1>13 DEF Reads

-----------------------------------------------------------------------------
(* Words on their way through the server                                   *)

\* (Bounds are stated as inequalities: the provers are lost in long ranges.)
LEMMA RangeIs == ASSUME NEW b \in Int, NEW w PROVE w \in 0 .. b <=> w \in Nat /\ w <= b
  OBVIOUS

LEMMA WordIs == ASSUME NEW w PROVE w \in Word <=> w \in Nat /\ w < 65536
<1>1. Byte * Byte - 1 = 65535 /\ Byte * Byte - 1 \in Int
  BY DEF Byte
<1>2. w \in Word <=> w \in Nat /\ w <= Byte * Byte - 1
  BY <1>1, RangeIs DEF Word
<1> QED
  BY <1>1, <1>2

LEMMA Remainder == ASSUME NEW w \in Nat PROVE w % 256 = w - 256 * (w \div 256)
  OBVIOUS

LEMMA Halves ==
  ASSUME NEW w \in Word
  PROVE  /\ w \div 256 \in Nat /\ w \div 256 < 256
         /\ w % 256 \in Nat /\ w % 256 < 256
         /\ w = (w \div 256) * 256 + (w % 256)
<1> DEFINE q == w \div 256
           r == w % 256
<1>1. w \in Nat /\ w < 65536
  BY WordIs
<1>2. r = w - 256 * q
  BY <1>1, Remainder
<1>3. r \in Nat /\ r < 256
  BY <1>1
<1>4. q \in Int /\ q >= 0
  BY <1>1
<1> HIDE DEF q, r
<1>5. w = q * 256 + r
  BY <1>1, <1>2, <1>3, <1>4
<1>6. q < 256
  BY <1>1, <1>3, <1>4, <1>5
<1> QED
  BY <1>3, <1>4, <1>5, <1>6 DEF q, r

LEMMA Joined ==
  ASSUME NEW hi \in Nat, NEW lo \in Nat, hi < 256, lo < 256
  PROVE  /\ hi * 256 + lo \in Word
         /\ (hi * 256 + lo) \div 256 = hi /\ (hi * 256 + lo) % 256 = lo
<1>1. hi * 256 + lo \in Word
  <2>1. hi * 256 + lo \in Nat /\ hi * 256 + lo < 65536
    OBVIOUS
  <2> QED
    BY <2>1, WordIs
<1>2. (hi * 256 + lo) \div 256 = hi
  OBVIOUS
<1>3. (hi * 256 + lo) % 256 = lo
  OBVIOUS
<1> QED
  BY <1>1, <1>2, <1>3

LEMMA SwapIsWord ==
  ASSUME NEW w \in Word
  PROVE  swap_bytes(w) \in Word /\ swap_bytes(w) \div 256 = w % 256 /\ swap_bytes(w) % 256 = w \div 256
<1> DEFINE q == w \div 256
           r == w % 256
<1>1. swap_bytes(w) = r * 256 + q
  BY DEF swap_bytes, Byte
<1>2. q \in Nat /\ q < 256 /\ r \in Nat /\ r < 256
  BY Halves
<1> HIDE DEF q, r
<1>3. r * 256 + q \in Word /\ (r * 256 + q) \div 256 = r /\ (r * 256 + q) % 256 = q
  BY <1>2, Joined
<1>4. swap_bytes(w) \in Word /\ swap_bytes(w) \div 256 = r /\ swap_bytes(w) % 256 = q
  BY <1>1, <1>3
<1> QED
  BY <1>4 DEF q, r

\* What the server sends of w the client decodes to w.
LEMMA SentRight ==
  ASSUME NEW w \in Word PROVE Decoded(Hex(swap_bytes(w))) = w
<1> DEFINE q == w \div 256
           r == w % 256
<1>1. Hex(swap_bytes(w)) = <<r, q>>
  BY SwapIsWord DEF Hex, Byte
<1>2. q \in Nat /\ r \in Nat /\ w = q * 256 + r
  BY Halves
<1> HIDE DEF q, r
<1>3. Decoded(<<r, q>>) = r + q * 256
  BY DEF Decoded, Byte
<1>4. r + q * 256 = q * 256 + r
  BY <1>2
<1> QED
  BY <1>1, <1>2, <1>3, <1>4

\* What the client sends of v the server writes as v.
LEMMA ReceivedRight ==
  ASSUME NEW v \in Word
  PROVE  swap_bytes(FromHex(Encoded(v))) = v /\ Decoded(Encoded(v)) = v
<1> DEFINE q == v \div 256
           r == v % 256
<1>1. FromHex(Encoded(v)) = swap_bytes(v)
  BY DEF FromHex, Encoded, swap_bytes, Byte
<1>2. Hex(swap_bytes(v)) = Encoded(v)
  BY SwapIsWord DEF Hex, Encoded, Byte
<1>3. swap_bytes(v) \div 256 = r /\ swap_bytes(v) % 256 = q
  BY SwapIsWord
<1>4. v = q * 256 + r
  BY Halves
<1> HIDE DEF q, r
<1>5. swap_bytes(swap_bytes(v)) = q * 256 + r
  BY <1>3 DEF swap_bytes, Byte
<1> QED
  BY <1>1, <1>2, <1>4, <1>5, SentRight

-----------------------------------------------------------------------------
(* What every state satisfies                                              *)

\* GDB and the server agree on the thread: numbers up to 9 read the same in decimal, and
\* a server that is sent one from a to f ends.
ThreadsAgree == \A t \in Thread : t < 16

\* The client writes no register that the architecture makes read-only.
Writable == \A n \in Written : ~ReadOnly(PlaceOf[n])

Typed == /\ rfpc \in Core /\ current \in Core
         /\ reg \in [Hart -> [Address -> Word]]
         /\ cmderr \subseteq 0 .. 2
         /\ writes \in 0 .. MaxWrites

\* The server works on the core the client has selected, a core that matters.
Selected == rfpc = current /\ HartOf(current) \in Hart

\* The core of every thread the server can be sent.
LEMMA ThreadCore ==
  ASSUME NEW t \in Nat, t < 32
  PROVE  thread_map[t] \in Core
<1>1. t \in 0 .. 31
  OBVIOUS
<1>2. t \div 8 \in 0 .. 3 /\ t % 8 \in 0 .. 7
  OBVIOUS
<1>3. thread_map[t] = [cluster |-> 0, group |-> t \div 8, core |-> t % 8]
  BY <1>1 DEF thread_map
<1> QED
  BY <1>2, <1>3 DEF Core

LEMMA ThreadSent ==
  ASSUME NEW t \in Thread, t % 16 < 10
  PROVE  /\ t \in Nat /\ t < 32 /\ ThreadRead(t) \in Nat /\ ThreadRead(t) < 32
         /\ t < 16 => ThreadRead(t) = t
<1>1. t \in Nat /\ t < 32
  BY ThreadAssumption
<1>2. t \div 16 \in 0 .. 1 /\ t % 16 \in 0 .. 9 /\ (t < 16 => t \div 16 = 0 /\ t % 16 = t)
  BY <1>1
<1> QED
  BY <1>1, <1>2 DEF ThreadRead

\* What a write does to the registers: to none but those of the server's hart, and of
\* those to the named one, and to a1 if it is a CSR.
LEMMA WriteEffect ==
  ASSUME Typed, NEW n \in Written, NEW v \in Value, write_reg(n, Encoded(v))
  PROVE  /\ Typed'
         /\ reply' = [cmd |-> "P", n |-> n, text |-> Encoded(v)]
         /\ rfpc' = rfpc /\ current' = current
         /\ \A h \in Hart, a \in Address : reg'[h][a] # reg[h][a] =>
              h = HartOf(rfpc) /\ (a = PlaceOf[n] \/ (a = A1 /\ n > 31))
<1> DEFINE w == swap_bytes(FromHex(Encoded(v)))
           p == WriteAddr(n)
           g == dm_hartsel(rfpc)
           New == IF g[1] \in cmderr THEN reg[g]
                  ELSE IF p >= 4096 THEN Written1(g, p, w)
                  ELSE IF ReadOnly(p) THEN [reg[g] EXCEPT ![A1] = w]
                  ELSE [reg[g] EXCEPT ![A1] = w, ![p] = w]
<1>1. /\ n \in Number /\ p = PlaceOf[n] /\ p \in Address /\ p \in Nat /\ A1 \in Address
      /\ p < 4096 => n > 31
  <2>1. n \in Number /\ n \in Nat
    BY WrittenAssumption, Numbers
  <2> QED
    BY <2>1, TablesAgree, A1IsAddress
<1>2. w = v /\ w \in Word
  BY ValueAssumption, ReceivedRight
<1>3. g = HartOf(rfpc) /\ g[1] \in 0 .. 2
  BY DEF Typed, Core, dm_hartsel, HartOf
<1>4. /\ writes < MaxWrites /\ writes' = writes + 1
      /\ cmderr' = cmderr \union (IF ReadOnly(p) THEN {g[1]} ELSE {})
      /\ reg' = [reg EXCEPT ![g] = New]
      /\ reply' = [cmd |-> "P", n |-> n, text |-> Encoded(v)]
      /\ rfpc' = rfpc /\ current' = current
  BY DEF write_reg, Answer
<1>5. reg \in [Hart -> [Address -> Word]]
  BY DEF Typed
<1> HIDE DEF w, p, g
<1>6. ASSUME g \in Hart
      PROVE  /\ New \in [Address -> Word]
             /\ \A a \in Address : New[a] # reg[g][a] => a = p \/ (a = A1 /\ n > 31)
  <2>1. reg[g] \in [Address -> Word]
    BY <1>5, <1>6
  <2> QED
    BY <1>1, <1>2, <2>1 DEF Written1
<1> HIDE DEF New
<1>7. reg' \in [Hart -> [Address -> Word]]
  BY <1>4, <1>5, <1>6
<1>8. ASSUME NEW h \in Hart, NEW a \in Address, reg'[h][a] # reg[h][a]
      PROVE  h = g /\ (a = p \/ (a = A1 /\ n > 31))
  <2>1. h = g
    BY <1>4, <1>5, <1>8
  <2>2. reg'[h] = New
    BY <1>4, <1>5, <2>1
  <2> QED
    BY <1>6, <1>8, <2>1, <2>2
<1>9. cmderr' \subseteq 0 .. 2
  BY <1>3, <1>4 DEF Typed
<1>10. writes' \in 0 .. MaxWrites
  BY <1>4, WrittenAssumption DEF Typed
<1> QED
  BY <1>1, <1>3, <1>4, <1>7, <1>8, <1>9, <1>10 DEF Typed

LEMMA TypedInit == RegInit => Typed /\ Selected
<1>1. HartOf(First) \in Hart
  BY DEF Hart
<1> QED
  BY <1>1, FirstAssumption, ContentsAssumption, WrittenAssumption DEF RegInit, Typed, Selected

LEMMA TypedNext == Typed /\ [RegNext]_regvars => Typed'
<1> SUFFICES ASSUME Typed, [RegNext]_regvars PROVE Typed'
  OBVIOUS
<1>1. CASE \E n \in Number : read_reg(n)
  BY <1>1 DEF read_reg, Typed
<1>2. CASE read_gprs
  BY <1>2 DEF read_gprs, Typed
<1>3. ASSUME NEW n \in Written, NEW v \in Value, write_reg(n, Encoded(v)) PROVE Typed'
  BY <1>3, WriteEffect
<1>4. ASSUME NEW t \in Thread, multicore_actions(t) PROVE Typed'
  BY <1>4, ThreadSent, ThreadCore DEF multicore_actions, Typed
<1>5. CASE UNCHANGED regvars
  BY <1>5 DEF regvars, Typed
<1> QED
  BY <1>1, <1>2, <1>3, <1>4, <1>5 DEF RegNext

\* The server's core is one there is, registers hold words, and the errors are those of
\* the clusters' debug modules.
THEOREM RegTypeCorrect == RegSpec => []RegTypeOK
<1>1. Typed => RegTypeOK
  BY DEF Typed, RegTypeOK
<1> QED
  BY <1>1, TypedInit, TypedNext, PTL DEF RegSpec

LEMMA SelectedNext ==
  ASSUME ThreadsAgree PROVE Typed /\ Selected /\ [RegNext]_regvars => Selected'
<1> SUFFICES ASSUME Typed, Selected, [RegNext]_regvars PROVE Selected'
  OBVIOUS
<1>1. CASE \E n \in Number : read_reg(n)
  BY <1>1 DEF read_reg, Selected
<1>2. CASE read_gprs
  BY <1>2 DEF read_gprs, Selected
<1>3. ASSUME NEW n \in Written, NEW v \in Value, write_reg(n, Encoded(v)) PROVE Selected'
  BY <1>3 DEF write_reg, Selected
<1>4. ASSUME NEW t \in Thread, multicore_actions(t) PROVE Selected'
  <2>1. ThreadRead(t) = t
    BY <1>4, ThreadSent DEF ThreadsAgree, multicore_actions
  <2>2. rfpc' = thread_map[t] /\ current' = thread_map[t]
    BY <1>4, <2>1 DEF multicore_actions
  <2>3. HartOf(thread_map[t]) \in Hart
    BY DEF Hart
  <2> QED
    BY <2>2, <2>3 DEF Selected
<1>5. CASE UNCHANGED regvars
  BY <1>5 DEF regvars, Selected
<1> QED
  BY <1>1, <1>2, <1>3, <1>4, <1>5 DEF RegNext

\* A write changes no register but the one named, and a1 if that is a CSR, of no core
\* but the one selected, if GDB and the server mean the same thread; reads change none.
THEOREM OnlyNamedRegisterChanges ==
  ASSUME ThreadsAgree PROVE RegSpec => OnlyNamedChanges
<1> DEFINE Named == \A h \in Hart, a \in Address : reg'[h][a] # reg[h][a] =>
                      /\ reply'.cmd = "P"
                      /\ h = HartOf(current)
                      /\ a = PlaceOf[reply'.n] \/ (a = A1 /\ reply'.n > 31)
<1>1. ASSUME Typed, Selected, RegNext PROVE Named
  <2>1. CASE \E n \in Number : read_reg(n)
    BY <2>1 DEF read_reg
  <2>2. CASE read_gprs
    BY <2>2 DEF read_gprs
  <2>3. ASSUME NEW n \in Written, NEW v \in Value, write_reg(n, Encoded(v)) PROVE Named
    <3>1. reply'.cmd = "P" /\ reply'.n = n
      BY <1>1, <2>3, WriteEffect
    <3>2. \A h \in Hart, a \in Address : reg'[h][a] # reg[h][a] =>
            h = HartOf(current) /\ (a = PlaceOf[n] \/ (a = A1 /\ n > 31))
      BY <1>1, <2>3, WriteEffect DEF Selected
    <3> QED
      BY <3>1, <3>2
  <2>4. CASE \E t \in Thread : multicore_actions(t)
    BY <2>4 DEF multicore_actions
  <2> QED
    BY <1>1, <2>1, <2>2, <2>3, <2>4 DEF RegNext
<1>2. Typed /\ Selected /\ [RegNext]_regvars => [Named]_regvars
  BY <1>1
<1> QED
  BY <1>2, TypedInit, TypedNext, SelectedNext, PTL DEF RegSpec, OnlyNamedChanges

\* Where no thread is misread and no read-only register is written, no debug module ever
\* reports an error, and what the server finds is what the register holds.
Working == Typed /\ Selected /\ cmderr = {}

LEMMA WorkingInit == RegInit => Working
  BY TypedInit DEF RegInit, Working

LEMMA WorkingNext ==
  ASSUME ThreadsAgree, Writable PROVE Working /\ [RegNext]_regvars => Working'
<1> SUFFICES ASSUME Working, [RegNext]_regvars PROVE cmderr' = {}
  BY TypedNext, SelectedNext DEF Working
<1>1. ASSUME NEW n \in Written, NEW v \in Value, write_reg(n, Encoded(v)) PROVE cmderr' = {}
  <2>1. n \in Number
    BY WrittenAssumption, Numbers
  <2>2. ~ReadOnly(WriteAddr(n))
    BY <2>1, TablesAgree DEF Writable
  <2> QED
    BY <1>1, <2>2 DEF write_reg, Working
<1>2. CASE ~\E n \in Written, v \in Value : write_reg(n, Encoded(v))
  BY <1>2 DEF RegNext, read_reg, read_gprs, multicore_actions, regvars, Working
<1> QED
  BY <1>1, <1>2

LEMMA FoundRight ==
  ASSUME Working, NEW n \in Number
  PROVE  /\ Found(PlaceOf[n]) = Register(n)
         /\ Decoded(Hex(swap_bytes(Found(PlaceOf[n])))) = Register(n)
<1>1. dm_hartsel(rfpc) = HartOf(current) /\ HartOf(current) \in Hart /\ PlaceOf[n] \in Address
  BY TablesAgree DEF Working, Selected, dm_hartsel, HartOf
<1>2. Found(PlaceOf[n]) = reg[HartOf(current)][PlaceOf[n]]
  BY <1>1 DEF Found, Working
<1>3. reg[HartOf(current)][PlaceOf[n]] \in Word
  BY <1>1 DEF Working, Typed
<1> QED
  BY <1>2, <1>3, SentRight DEF Register

LEMMA ReadAnswer ==
  ASSUME Working, NEW n \in Number, read_reg(n)
  PROVE  AnswersAsDescribed' /\ WriteReaches'
<1>1. reply' = [cmd |-> "p", n |-> n, text |-> Hex(swap_bytes(Found(PlaceOf[n])))]
  BY TablesAgree DEF read_reg, Answer
<1>2. Register(n)' = Register(n)
  BY DEF read_reg, Register
<1>3. reply'.cmd = "p" /\ reply'.n = n /\ Decoded(reply'.text) = Register(n)'
  BY <1>1, <1>2, FoundRight
<1> QED
  BY <1>3 DEF AnswersAsDescribed, WriteReaches, Register

LEMMA ReadAllAnswer ==
  ASSUME Working, read_gprs
  PROVE  AnswersAsDescribed' /\ WriteReaches'
<1>1. reply' = [cmd |-> "g", n |-> 0,
                text |-> [i \in 1 .. 58 |-> Hex(swap_bytes(Found(ReadOrder[i])))]]
  BY OrderAgrees DEF read_gprs, Answer
<1>2. \A n \in Number : Register(n)' = Register(n)
  BY DEF read_gprs, Register
<1>3. reply'.cmd = "g" /\ Len(reply'.text) = Len(Description)
  BY <1>1, Numbers
<1>4. ASSUME NEW n \in Number PROVE Decoded(reply'.text[n + 1]) = Register(n)'
  <2>1. n + 1 \in 1 .. 58
    BY Numbers
  <2>2. reply'.text[n + 1] = Hex(swap_bytes(Found(PlaceOf[n])))
    BY <1>1, <2>1, OrderAgrees
  <2> QED
    BY <1>2, <2>2, FoundRight
<1> QED
  BY <1>3, <1>4 DEF AnswersAsDescribed, WriteReaches, Register

LEMMA WriteAnswer ==
  ASSUME Working, Writable, NEW n \in Written, NEW v \in Value, write_reg(n, Encoded(v))
  PROVE  AnswersAsDescribed' /\ WriteReaches'
<1> DEFINE p == PlaceOf[n]
           g == HartOf(current)
<1>1. /\ n \in Nat /\ n \in Number /\ WriteAddr(n) = p /\ p \in Address /\ p \in Nat
      /\ A1 \in Address /\ (n < 32 => p = 4096 + n) /\ (n >= 32 => p < 4096) /\ ~ReadOnly(p)
  <2>1. n \in Number /\ n \in Nat
    BY WrittenAssumption, Numbers
  <2> QED
    BY <2>1, TablesAgree, A1IsAddress DEF Writable
<1>2. dm_hartsel(rfpc) = g /\ g \in Hart /\ current' = current /\ g[1] \notin cmderr
  BY DEF Working, Selected, dm_hartsel, HartOf, write_reg
<1>3. /\ swap_bytes(FromHex(Encoded(v))) = v /\ Decoded(Encoded(v)) = v
  BY ValueAssumption, ReceivedRight
<1>4. reg \in [Hart -> [Address -> Word]]
  BY DEF Working, Typed
<1>5. /\ reply' = [cmd |-> "P", n |-> n, text |-> Encoded(v)]
      /\ reg' = [reg EXCEPT ![g] = IF p >= 4096 THEN Written1(g, p, v)
                                   ELSE [reg[g] EXCEPT ![A1] = v, ![p] = v]]
  BY <1>1, <1>2, <1>3 DEF write_reg, Answer
<1> HIDE DEF g, p
<1>6. ASSUME n # 0 PROVE reg'[g][p] = v
  <2>1. reg[g] \in [Address -> Word]
    BY <1>2, <1>4
  <2>2. CASE p >= 4096
    <3>1. p # 4096
      BY <1>1, <1>6, <2>2
    <3>2. reg'[g] = [reg[g] EXCEPT ![p] = v]
      BY <1>2, <1>4, <1>5, <2>2, <3>1 DEF Written1
    <3> QED
      BY <1>1, <2>1, <3>2
  <2>3. CASE ~(p >= 4096)
    <3>1. reg'[g] = [reg[g] EXCEPT ![A1] = v, ![p] = v]
      BY <1>2, <1>4, <1>5, <2>3
    <3> QED
      BY <1>1, <2>1, <3>1
  <2> QED
    BY <2>2, <2>3
<1>7. n # 0 => Register(n)' = v
  BY <1>2, <1>6 DEF Register, g, p
<1> QED
  BY <1>3, <1>5, <1>7 DEF AnswersAsDescribed, WriteReaches, Register

Answered == AnswersAsDescribed /\ WriteReaches

LEMMA AnsweredInit == RegInit => Answered
  BY DEF RegInit, Answered, AnswersAsDescribed, WriteReaches

LEMMA AnsweredNext ==
  ASSUME Writable PROVE Working /\ Answered /\ [RegNext]_regvars => Answered'
<1> SUFFICES ASSUME Working, Answered, [RegNext]_regvars PROVE Answered'
  OBVIOUS
<1>1. ASSUME NEW n \in Number, read_reg(n) PROVE Answered'
  BY <1>1, ReadAnswer DEF Answered
<1>2. CASE read_gprs
  BY <1>2, ReadAllAnswer DEF Answered
<1>3. ASSUME NEW n \in Written, NEW v \in Value, write_reg(n, Encoded(v)) PROVE Answered'
  BY <1>3, WriteAnswer DEF Answered
<1>4. ASSUME NEW t \in Thread, multicore_actions(t) PROVE Answered'
  BY <1>4 DEF multicore_actions, Answered, AnswersAsDescribed, WriteReaches
<1>5. CASE UNCHANGED regvars
  BY <1>5 DEF regvars, Answered, AnswersAsDescribed, WriteReaches, Register
<1> QED
  BY <1>1, <1>2, <1>3, <1>4, <1>5 DEF RegNext

\* Every value in an answer to p and g is that of the register which the target
\* description gives the number or the place, whatever the registers hold, as long as no
\* thread is misread and no read-only register is written.
THEOREM RegistersReadRight ==
  ASSUME ThreadsAgree, Writable PROVE RegSpec => []AnswersAsDescribed
<1>1. Answered => AnswersAsDescribed
  BY DEF Answered
<1> QED
  BY <1>1, WorkingInit, WorkingNext, AnsweredInit, AnsweredNext, PTL DEF RegSpec

\* A register that has just been written holds what was written, for every value.
THEOREM RegistersWrittenRight ==
  ASSUME ThreadsAgree, Writable PROVE RegSpec => []WriteReaches
<1>1. Answered => WriteReaches
  BY DEF Answered
<1> QED
  BY <1>1, WorkingInit, WorkingNext, AnsweredInit, AnsweredNext, PTL DEF RegSpec
=============================================================================
