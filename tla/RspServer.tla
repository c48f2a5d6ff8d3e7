----------------------------- MODULE RspServer -----------------------------
(***************************************************************************)
(* The session of the RSP server with a GDB client: the accept and serve   *)
(* loops of run, parse_rsp_packet, handle_packet, the acknowledgement mode *)
(* (libs/rsp_server_stub.rs) and the Ctrl-C handler of bin/nfp_rsp.rs.     *)
(*                                                                         *)
(* A packet is known by what its command makes the server do.  The client  *)
(* is GDB as the protocol has it: one request at a time, acknowledgements  *)
(* until QStartNoAckMode is answered, a packet sent again when it is       *)
(* refused.  TCP keeps the bytes and their order; a bad checksum is put in *)
(* by the client, and only while acknowledgements are on.                  *)
(* Definitions with a suffix, as Serve_FlagIgnored, are slips the code     *)
(* might have had.                                                         *)
(***************************************************************************)
EXTENDS Naturals, Sequences

CONSTANTS
  Cmd,      \* the requests the client makes, a subset of Command
  MayClose, \* whether the client may go away at any time
  MayStop   \* whether the user may press Ctrl-C

\* "query" stands for every command that is answered, "kill" for those whose
\* table entry is None, "panic" for a request whose handler panics.
Command == {"query", "noack", "detach", "kill", "panic"}

ASSUME CmdAssumption == Cmd \subseteq Command
ASSUME MayAssumption == MayClose \in BOOLEAN /\ MayStop \in BOOLEAN

VARIABLES
  pc,           \* where the server's main thread is
  running,      \* the flag shared with the Ctrl-C handler
  disable_ack,
  packet,       \* the command of the packet being handled
  toServer,     \* the TCP stream, both ways
  toClient,
  client,       \* the client's state
  req,          \* its outstanding request
  acks          \* whether the client still acknowledges

server == <<pc, running, disable_ack, packet>>
vars == <<pc, running, disable_ack, packet, toServer, toClient, client, req, acks>>

Plus == [kind |-> "+", cmd |-> "query"]
Minus == [kind |-> "-", cmd |-> "query"]
Interrupt == [kind |-> "intr", cmd |-> "query"]
Request(c) == [kind |-> "good", cmd |-> c]
Garbled(c) == [kind |-> "bad", cmd |-> c]
Reply(c) == [kind |-> "reply", cmd |-> c]

Init == /\ pc = "accept" /\ running = TRUE /\ disable_ack = FALSE /\ packet = "query"
        /\ toServer = <<>> /\ toClient = <<>>
        /\ client = "away" /\ req = "query" /\ acks = TRUE

Connected == client \notin {"away", "closed"}

-----------------------------------------------------------------------------
(* The server                                                              *)

\* write_all reaches the client; to a client that has gone it is lost or fails.
Sent(m) == toClient' = IF Connected THEN Append(toClient, m) ELSE toClient
MayFail == client = "closed"

\* The two loops test the flag: the outer one before accept, the inner one
\* before each packet.
Accept == /\ pc = "accept" /\ running /\ client # "away"
          /\ pc' = "serve"
          /\ UNCHANGED <<running, disable_ack, packet, toServer, toClient, client, req, acks>>

\* accept fails for another reason than that nobody connects.
AcceptFails == /\ pc = "accept" /\ running
               /\ pc' = "exited"
               /\ UNCHANGED <<running, disable_ack, packet, toServer, toClient, client, req, acks>>

Exit == /\ pc = "accept" /\ ~running
        /\ pc' = "exited"
        /\ UNCHANGED <<running, disable_ack, packet, toServer, toClient, client, req, acks>>

Serve_FlagIgnored == /\ pc = "serve"
                     /\ pc' = "read"
                     /\ UNCHANGED <<running, disable_ack, packet, toServer, toClient, client, req, acks>>

Serve == /\ pc = "serve"
         /\ pc' = IF running THEN "read" ELSE "accept"
         /\ UNCHANGED <<running, disable_ack, packet, toServer, toClient, client, req, acks>>

\* Everything before a '$' is skipped, an interrupt as well.
SkipByte == /\ pc = "read" /\ toServer # <<>>
            /\ Head(toServer).kind \in {"+", "-", "intr"}
            /\ toServer' = Tail(toServer)
            /\ UNCHANGED <<server, toClient, client, req, acks>>

ReadPacket_AlwaysAcks ==
  /\ pc = "read" /\ toServer # <<>> /\ Head(toServer).kind = "good"
  /\ pc' = "handle" /\ packet' = Head(toServer).cmd
  /\ toServer' = Tail(toServer)
  /\ Sent(Plus)
  /\ UNCHANGED <<running, disable_ack, client, req, acks>>

ReadPacket == /\ pc = "read" /\ toServer # <<>> /\ Head(toServer).kind = "good"
              /\ pc' = "handle" /\ packet' = Head(toServer).cmd
              /\ toServer' = Tail(toServer)
              /\ IF disable_ack THEN UNCHANGED toClient ELSE Sent(Plus)
              /\ UNCHANGED <<running, disable_ack, client, req, acks>>

\* The '+' cannot be written: the packet is lost and the read fails.
PlusFails == /\ pc = "read" /\ toServer # <<>> /\ Head(toServer).kind = "good"
             /\ ~disable_ack /\ MayFail
             /\ pc' = "error" /\ toServer' = Tail(toServer)
             /\ UNCHANGED <<running, disable_ack, packet, toClient, client, req, acks>>

BadChecksum == /\ pc = "read" /\ toServer # <<>> /\ Head(toServer).kind = "bad"
               /\ pc' = "error" /\ toServer' = Tail(toServer)
               /\ UNCHANGED <<running, disable_ack, packet, toClient, client, req, acks>>

\* At the end of the stream read returns 0 and read_exact fails.
EndOfStream == /\ pc = "read" /\ toServer = <<>> /\ client = "closed"
               /\ pc' = "error"
               /\ UNCHANGED <<running, disable_ack, packet, toServer, toClient, client, req, acks>>

ReadError_Repeats == /\ pc = "error" /\ UNCHANGED pc
                     /\ IF disable_ack THEN UNCHANGED toClient ELSE Sent(Minus)
                     /\ UNCHANGED <<running, disable_ack, packet, toServer, client, req, acks>>

ReadError_Silent == /\ pc = "error" /\ pc' = "serve"
                    /\ UNCHANGED <<running, disable_ack, packet, toServer, toClient, client, req, acks>>

\* Any error of parse_rsp_packet: '-' while acknowledgements are on, then on.
ReadError == /\ pc = "error" /\ pc' = "serve"
             /\ IF disable_ack THEN UNCHANGED toClient ELSE Sent(Minus)
             /\ UNCHANGED <<running, disable_ack, packet, toServer, client, req, acks>>

Handle_AckStaysOn == /\ pc = "handle" /\ packet \notin {"detach", "panic"}
                     /\ pc' = "serve"
                     /\ IF packet = "kill" THEN UNCHANGED toClient ELSE Sent(Reply(packet))
                     /\ UNCHANGED <<running, disable_ack, packet, toServer, client, req, acks>>

Handle == /\ pc = "handle" /\ packet \notin {"detach", "panic"}
          /\ pc' = "serve"
          /\ disable_ack' = (disable_ack \/ packet = "noack")
          /\ IF packet = "kill" THEN UNCHANGED toClient ELSE Sent(Reply(packet))
          /\ UNCHANGED <<running, packet, toServer, client, req, acks>>

\* Detach answers, clears the flag and leaves the inner loop; the stream is
\* closed as the match arm ends.
Detach == /\ pc = "handle" /\ packet = "detach"
          /\ pc' = "accept" /\ running' = FALSE
          /\ Sent(Reply(packet))
          /\ UNCHANGED <<disable_ack, packet, toServer, client, req, acks>>

\* A handler panics, or unwrap does on a write to a client that has gone.
Panic == /\ \/ pc = "handle" /\ packet = "panic"
            \/ pc = "handle" /\ packet # "kill" /\ MayFail
            \/ pc = "error" /\ ~disable_ack /\ MayFail
         /\ pc' = "panicked"
         /\ UNCHANGED <<running, disable_ack, packet, toServer, toClient, client, req, acks>>

Server == \/ Accept \/ AcceptFails \/ Exit \/ Serve \/ SkipByte \/ ReadPacket \/ PlusFails \/ BadChecksum
          \/ EndOfStream \/ ReadError \/ Handle \/ Detach \/ Panic

\* The Ctrl-C handler runs on a thread of its own.
CtrlC == /\ MayStop /\ running
         /\ running' = FALSE
         /\ UNCHANGED <<pc, disable_ack, packet, toServer, toClient, client, req, acks>>

-----------------------------------------------------------------------------
(* The client (external)                                                   *)

ToServer(m) == toServer' = Append(toServer, m)

\* The kernel completes the connection before the server accepts it.
Connect == /\ client = "away" /\ pc = "accept" /\ running
           /\ client' = "idle"
           /\ UNCHANGED <<server, toServer, toClient, req, acks>>

Transmit(c) == IF acks THEN \E m \in {Request(c), Garbled(c)} : ToServer(m) ELSE ToServer(Request(c))

SendRequest(c) == /\ client = "idle"
                  /\ Transmit(c) /\ req' = c
                  /\ client' = IF acks THEN "wait_ack" ELSE "wait_reply"
                  /\ UNCHANGED <<server, toClient, acks>>

Receive(m) == toClient # <<>> /\ Head(toClient) = m /\ toClient' = Tail(toClient)

GetPlus == /\ client = "wait_ack" /\ Receive(Plus)
           /\ client' = "wait_reply"
           /\ UNCHANGED <<server, toServer, req, acks>>

GetMinus == /\ client = "wait_ack" /\ Receive(Minus)
            /\ Transmit(req)
            /\ UNCHANGED <<server, client, req, acks>>

\* The client acknowledges the reply, that to QStartNoAckMode for the last time.
GetReply == /\ client = "wait_reply" /\ Receive(Reply(req))
            /\ client' = IF req = "detach" THEN "closed" ELSE "idle"
            /\ acks' = (acks /\ req # "noack")
            /\ IF acks THEN ToServer(Plus) ELSE UNCHANGED toServer
            /\ UNCHANGED <<server, req>>

\* GDB closes the connection once it has sent a kill request.
Killed == /\ client = "wait_reply" /\ req = "kill"
          /\ client' = "closed"
          /\ UNCHANGED <<server, toServer, toClient, req, acks>>

PressInterrupt == /\ client = "wait_reply" /\ Interrupt \notin {toServer[i] : i \in 1 .. Len(toServer)}
                  /\ ToServer(Interrupt)
                  /\ UNCHANGED <<server, toClient, client, req, acks>>

Close == /\ MayClose /\ Connected
         /\ client' = "closed"
         /\ UNCHANGED <<server, toServer, toClient, req, acks>>

Client == \/ Connect \/ GetPlus \/ GetMinus \/ GetReply \/ Killed \/ PressInterrupt \/ Close
          \/ \E c \in Cmd : SendRequest(c)

Next == Server \/ CtrlC \/ Client

Spec == Init /\ [][Next]_vars

\* The main thread keeps running when it is not blocked; the client takes in
\* what it is sent, and does not garble a packet for ever.
FairSpec == /\ Spec /\ WF_vars(Server)
            /\ WF_vars(GetPlus) /\ WF_vars(GetReply) /\ WF_vars(Killed)
            /\ SF_vars(GetMinus /\ toServer' = Append(toServer, Request(req)))

-----------------------------------------------------------------------------
(* Properties                                                              *)

\* Every variable has its type, and the streams never hold more than the client
\* can have sent or be waiting for.
TypeOK ==
  /\ pc \in {"accept", "serve", "read", "error", "handle", "exited", "panicked"}
  /\ {running, disable_ack, acks} \subseteq BOOLEAN
  /\ packet \in Command /\ req \in Command
  /\ client \in {"away", "idle", "wait_ack", "wait_reply", "closed"}
  /\ Len(toClient) <= 2 /\ Len(toServer) <= 4

\* The client never gets a byte it does not wait for: one '+' or '-' for each
\* packet while acknowledgements are on, no acknowledgement after the answer to
\* QStartNoAckMode, and replies to the request that is outstanding, once each.
InStep ==
  Connected /\ toClient # <<>> =>
    CASE client = "wait_ack" -> \/ toClient = <<Minus>>
                                \/ toClient \in {<<Plus>>, <<Plus, Reply(req)>>}
      [] client = "wait_reply" -> toClient = <<Reply(req)>>
      [] OTHER -> FALSE

\* The two sides agree about acknowledgements whenever the client may send: a
\* server still acknowledging would be out of step for good.
AckModesAgree == client = "idle" => acks = ~disable_ack

\* A request that is neither a kill nor one that panics is answered, unless the
\* user stops the server.
RequestsAnswered ==
  client \in {"wait_ack", "wait_reply"} ~> client \in {"idle", "closed"} \/ pc \in {"exited", "panicked"}

\* Ctrl-C or a detach ends the server, whatever it is doing and whether or not the
\* client has gone, unless it is blocked in a read of a client that sends nothing.
Blocked == pc = "read" /\ toServer = <<>> /\ client # "closed"
StopsUnlessBlocked == ~running ~> (pc \in {"exited", "panicked"} \/ Blocked)

\* Ctrl-C ends the server.
StopHonoured == ~running ~> pc \in {"exited", "panicked"}

\* A client that goes away is noticed: the server stops reading its stream.
CloseNoticed == client = "closed" ~> pc \in {"accept", "exited"}
=============================================================================
