--------------------------- MODULE StreamSessions ---------------------------
(***************************************************************************)
(* Two sessions that talk over a pair of byte streams, the way the library *)
(* is meant to be used: each program runs one thread that loops over       *)
(* ReadContent() and Session::Receive(), and the Sender of its session is  *)
(* WriteContent().  Framing is ContentStream's subject, so a stream is a   *)
(* queue of messages here; a broken connection loses what is in flight.    *)
(* Session has no lock: no other thread of the program uses its session.   *)
(***************************************************************************)
EXTENDS Session, FiniteSets

CONSTANTS
    Peer,       \* the session at the other end
    Faults,     \* what may go wrong
    MaxWire     \* bound: messages a stream holds before its writer blocks

ASSUME PeerAssumption ==
    /\ Peer \in [Sessions -> Sessions]
    /\ \A s \in Sessions : Peer[s] # s /\ Peer[Peer[s]] = s

ASSUME FaultsAssumption ==
    Faults \subseteq {"codec", "sender", "connection"}

VARIABLES
    wire,       \* per session, the messages on their way to it
    connected,  \* have the streams not failed yet?
    handled     \* history: per session and id, the fate of the peer's request

streamVars == <<vars, wire, connected, handled>>

Messages ==
    [kind : {"request"}, id : Ids, method : Requests, body : {"none"}]
    \cup
    [kind : {"response"}, id : Ids, method : Requests, body : Bodies]
    \cup
    [kind : {"notification"}, id : {0}, method : Notifications, body : {"none"}]

Fates == {"none", "running", "rejected", "failed"} \cup Bodies

StreamTypeOK ==
    /\ TypeOK
    /\ wire \in [Sessions -> Seq(Messages)]
    /\ connected \in BOOLEAN
    /\ handled \in [Sessions -> [Ids -> Fates]]

StreamInit ==
    /\ Init
    /\ wire = [s \in Sessions |-> <<>>]
    /\ connected = TRUE
    /\ handled = [s \in Sessions |-> [i \in Ids |-> "none"]]

(* A fault b (FALSE) of a kind is possible only where it is injected. *)
Possible(kind, b) == b \/ kind \in Faults

Handled(s, i, fate) == handled' = [handled EXCEPT ![s][i] = fate]
-----------------------------------------------------------------------------
(* The program's own code runs: main(), a handler or a post-send callback. *)
Foreign(s) ==
    calls[s] # <<>> => Top(s).at \in ForeignPoints

StreamSetup(s) ==
    /\ calls[s] = <<>>
    /\ \/ \E callable \in BOOLEAN :
             Possible("sender", callable) /\ SetSender(s, callable)
       \/ \E m \in Requests : RegisterRequest(s, m)
       \/ \E m \in Requests : OnPostSend(s, m, TRUE)
       \/ \E m \in Notifications : RegisterNotification(s, m)
    /\ UNCHANGED <<wire, connected, handled>>

StreamSend(s) ==
    /\ Foreign(s)
    /\ \/ \E m \in Requests : SendRequest(s, m)
       \/ \E m \in Requests : "codec" \in Faults /\ SendRequestUnencodable(s, m)
       \/ \E m \in Notifications : SendNotification(s, m)
    /\ UNCHANGED <<wire, connected, handled>>

(* The message that the innermost call of s gives to its Sender. *)
Outgoing(s) ==
    LET f == Top(s)
    IN  [kind |-> CASE f.at = "SendRequest" -> "request"
                    [] f.at = "SendNotification" -> "notification"
                    [] f.at = "Respond" -> "response",
         id |-> f.id, method |-> f.method, body |-> f.body]

(* WriteContent() writes the message, blocking while the stream is full.   *)
(* Once the connection is broken it fails, or what it writes gets lost.    *)
StreamSenderReturns(s, sent) ==
    /\ calls[s] # <<>> /\ Top(s).at \in SendingPoints
    /\ \/ connected /\ sent /\ Len(wire[Peer[s]]) < MaxWire
       \/ ~connected
    /\ \/ SendRequestReturns(s, sent)
       \/ SendNotificationReturns(s)
       \/ RespondReturns(s, sent)
    /\ wire' = IF connected
               THEN [wire EXCEPT ![Peer[s]] = Append(@, Outgoing(s))]
               ELSE wire
    /\ UNCHANGED <<connected, handled>>

StreamHandlerReturns(s) ==
    /\ \/ \E b \in Bodies :
             RequestHandlerReturns(s, b) /\ Handled(s, Top(s).id, b)
       \/ \E encodes \in BOOLEAN :
             /\ Possible("codec", encodes)
             /\ RequestHandlerFails(s, encodes)
             /\ Handled(s, Top(s).id, "failed")
    /\ UNCHANGED <<wire, connected>>

StreamCallbackReturns(s) ==
    /\ PostSendReturns(s) \/ NotificationHandlerReturns(s)
    /\ UNCHANGED <<wire, connected, handled>>

(* The read loop takes the next message and gives it to Receive().         *)
StreamReceive(s) ==
    LET m == Head(wire[s])
    IN  /\ calls[s] = <<>> /\ wire[s] # <<>>
        /\ wire' = [wire EXCEPT ![s] = Tail(@)]
        /\ \E decodes \in BOOLEAN :
              /\ Possible("codec", decodes)
              /\ \/ /\ m.kind = "request"
                    /\ \/ /\ ReceiveRequest(s, m.id, m.method, decodes)
                          /\ Handled(s, m.id, "running")
                       \/ /\ RequestRejected(s, m.method, decodes)
                          /\ Handled(s, m.id, "rejected")
                 \/ /\ m.kind = "response"
                    /\ ReceiveResponse(s, m.id, m.body, decodes)
                    /\ UNCHANGED handled
                 \/ /\ m.kind = "notification"
                    /\ \/ ReceiveNotification(s, m.method, decodes)
                       \/ NotificationRejected(s, m.method, decodes)
                    /\ UNCHANGED handled
        /\ UNCHANGED connected

(* A program ends or the streams fail: what is in flight never arrives.    *)
Disconnect ==
    /\ "connection" \in Faults
    /\ connected
    /\ connected' = FALSE
    /\ wire' = [s \in Sessions |-> <<>>]
    /\ UNCHANGED <<vars, handled>>

StreamNext ==
    \/ \E s \in Sessions :
          \/ StreamSetup(s)
          \/ StreamSend(s)
          \/ \E sent \in BOOLEAN : StreamSenderReturns(s, sent)
          \/ StreamHandlerReturns(s)
          \/ StreamCallbackReturns(s)
          \/ StreamReceive(s)
    \/ Disconnect

StreamSpec == StreamInit /\ [][StreamNext]_streamVars

(* The streams make progress; handlers return, although they may send      *)
(* first; and the program comes back to its read loop between its own      *)
(* sends, of which the loop may see any number.                            *)
StreamFairness ==
    \A s \in Sessions :
        /\ WF_streamVars(\E sent \in BOOLEAN : StreamSenderReturns(s, sent))
        /\ SF_streamVars(StreamHandlerReturns(s))
        /\ SF_streamVars(StreamCallbackReturns(s))
        /\ SF_streamVars(StreamReceive(s))

FairStreamSpec == StreamSpec /\ StreamFairness
-----------------------------------------------------------------------------
(* What the pair promises about each request: one run of the handler, and  *)
(* the outcome of that run or none, whatever else is on the wire.     *)
Abstract ==
    INSTANCE RemoteCall WITH
        Calls  <- Sessions \X Ids,
        caller <- [c \in Sessions \X Ids |-> promise[c[1]][c[2]]],
        callee <- [c \in Sessions \X Ids |-> handled[Peer[c[1]]][c[2]]]

ImplementsRemoteCall == Abstract!CallSpec

(* Where request i of session s is: in its Sender, on the wire, with the   *)
(* peer's handler or Sender, or on the wire back.                          *)
Stages(s, i) ==
    LET p == Peer[s]
    IN  {<<"sending", k>> : k \in InSendRequest(s, i)}
        \cup {<<"out", k>> : k \in {k \in DOMAIN wire[p] :
                    wire[p][k].kind = "request" /\ wire[p][k].id = i}}
        \cup {<<"handling", k>> : k \in {k \in DOMAIN calls[p] :
                    calls[p][k].at \in {"Request", "Respond"} /\ calls[p][k].id = i}}
        \cup {<<"back", k>> : k \in {k \in DOMAIN wire[s] :
                    wire[s][k].kind = "response" /\ wire[s][k].id = i}}

(* A request is in one place at a time, and once its promise is settled it *)
(* is nowhere: no duplicate response can ever arrive.                      *)
OneStage ==
    \A s \in Sessions, i \in Ids :
        Cardinality(Stages(s, i)) <= IF promise[s][i] = "unset" THEN 1 ELSE 0

(* A response on its way finds the response handler of its request. *)
ResponsesAwaited ==
    \A s \in Sessions : \A k \in DOMAIN wire[s] :
        wire[s][k].kind = "response" =>
            response_handlers_[s][wire[s][k].id] = wire[s][k].method

(* Without faults, a future that is handed out is answered, provided the   *)
(* peer has a Sender and has registered the request's handler by the time  *)
(* it is asked.                                                            *)
Served(s, i) ==
    \E k \in DOMAIN wire[Peer[s]] :
        LET m == wire[Peer[s]][k]
        IN  /\ m.kind = "request" /\ m.id = i
            /\ request_handlers_[Peer[s]][m.method].function
            /\ sender_[Peer[s]]

FuturesAnswered ==
    \A s \in Sessions, i \in Ids : Served(s, i) ~> promise[s][i] \in Bodies

(* Receive() is documented as "calling the appropriate registered message  *)
(* handler, and sending the response to the registered Sender if the       *)
(* message was an LSP request" (session.h:67-69): every request that       *)
(* arrives at a session with a Sender is answered, one way or another.     *)
RequestsResponded ==
    \A s \in Sessions, i \in Ids :
        /\ sender_[Peer[s]]
        /\ \E k \in DOMAIN wire[Peer[s]] :
              wire[Peer[s]][k].kind = "request" /\ wire[Peer[s]][k].id = i
        ~> promise[s][i] \in Bodies \cup {"broken"}
=============================================================================
