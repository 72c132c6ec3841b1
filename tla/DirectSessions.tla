--------------------------- MODULE DirectSessions ---------------------------
(***************************************************************************)
(* Two sessions joined as src/session_test.cc joins them: the Sender of    *)
(* each is a lambda that returns the other's Receive().  One thread runs   *)
(* everything, so a request, its handler, the response and the response    *)
(* handler nest in one call stack: thread names the session of each        *)
(* suspended call of that stack, innermost last, and control says what the *)
(* thread does at the innermost end.                                       *)
(***************************************************************************)
EXTENDS Session

CONSTANT Peer   \* the session at the other end

ASSUME PeerAssumption ==
    /\ Peer \in [Sessions -> Sessions]
    /\ \A s \in Sessions : Peer[s] # s /\ Peer[Peer[s]] = s

VARIABLES
    thread,
    control,  \* "foreign": main or a handler runs; "call": a Sender was
              \* called; "ok", "failed": the call returned to its caller
    handled   \* history: per session and id, the fate of the peer's request

threadVars == <<thread, control>>
directVars == <<vars, thread, control, handled>>

Fates == {"none", "running", "rejected", "failed"} \cup Bodies

DirectTypeOK ==
    /\ TypeOK
    /\ thread \in Seq(Sessions)
    /\ control \in {"foreign", "call", "ok", "failed"}
    /\ handled \in [Sessions -> [Ids -> Fates]]

DirectInit ==
    /\ Init
    /\ thread = <<>>
    /\ control = "foreign"
    /\ handled = [s \in Sessions |-> [i \in Ids |-> "none"]]
-----------------------------------------------------------------------------
Innermost(s) == thread # <<>> /\ thread[Len(thread)] = s

(* The innermost frame calls its Sender, calls foreign code or returns.    *)
CallsOut(s)   == thread' = Append(thread, s) /\ control' = "call"
Enters(s)     == thread' = Append(thread, s) /\ control' = "foreign"
ReturnsTo(to) == thread' = SubSeq(thread, 1, Len(thread) - 1) /\ control' = to

Handled(s, i, fate) == handled' = [handled EXCEPT ![s][i] = fate]

(* Receive() returns this to the Sender. *)
Result(success) == IF success THEN "ok" ELSE "failed"
-----------------------------------------------------------------------------
(* main() sets up the sessions, at any time between two of its own calls;  *)
(* it takes no function away again (Session covers that).                  *)
Setup(s) ==
    /\ control = "foreign" /\ thread = <<>>
    /\ \/ SetSender(s, TRUE)
       \/ \E m \in Requests : RegisterRequest(s, m) \/ OnPostSend(s, m, TRUE)
       \/ \E m \in Notifications : RegisterNotification(s, m)
    /\ UNCHANGED <<threadVars, handled>>

(* main(), or the handler that is running, sends on either session. *)
DirectSend(s) ==
    /\ control = "foreign"
    /\ \/ /\ \E m \in Requests : SendRequestUnencodable(s, m)
          /\ UNCHANGED threadVars
       \/ /\ \E m \in Requests : SendRequest(s, m)
          /\ IF sender_[s] THEN CallsOut(s) ELSE UNCHANGED threadVars
       \/ /\ \E m \in Notifications : SendNotification(s, m)
          /\ CallsOut(s)
    /\ UNCHANGED handled

(* The Sender of s calls its peer's Receive() with a request, ... *)
DeliverRequest(s) ==
    LET p == Peer[s]
        f == Top(s)
    IN  /\ control = "call" /\ Innermost(s) /\ InCall(s, "SendRequest")
        /\ \E decodes \in BOOLEAN :
              \/ /\ ReceiveRequest(p, f.id, f.method, decodes)
                 /\ Enters(p)
                 /\ Handled(p, f.id, "running")
              \/ /\ RequestRejected(p, f.method, decodes)
                 /\ control' = "failed"
                 /\ Handled(p, f.id, "rejected")
                 /\ UNCHANGED thread

(* ... a notification ... *)
DeliverNotification(s) ==
    LET p == Peer[s]
        f == Top(s)
    IN  /\ control = "call" /\ Innermost(s) /\ InCall(s, "SendNotification")
        /\ \E decodes \in BOOLEAN :
              \/ ReceiveNotification(p, f.method, decodes) /\ Enters(p)
              \/ /\ NotificationRejected(p, f.method, decodes)
                 /\ control' = "failed"
                 /\ UNCHANGED thread
        /\ UNCHANGED handled

(* ... or a response, which never is an unknown one (ResponsesAwaited).    *)
DeliverResponse(s) ==
    LET p == Peer[s]
        f == Top(s)
    IN  /\ control = "call" /\ Innermost(s) /\ InCall(s, "Respond")
        /\ \E decodes \in BOOLEAN :
              /\ ReceiveResponse(p, f.id, f.body, decodes)
              /\ control' = Result(Accepts(response_handlers_[p][f.id], f.body, decodes))
        /\ UNCHANGED <<thread, handled>>

(* A request handler of s returns to Receive(). *)
DirectHandlerReturns(s) ==
    /\ control = "foreign" /\ Innermost(s)
    /\ \/ \E b \in Bodies :
             /\ RequestHandlerReturns(s, b)
             /\ Handled(s, Top(s).id, b)
             /\ control' = "call"
             /\ UNCHANGED thread
       \/ \E encodes \in BOOLEAN :
             /\ RequestHandlerFails(s, encodes)
             /\ Handled(s, Top(s).id, "failed")
             /\ ReturnsTo("failed")

(* The Sender of s returns; if that ends a Receive(), its caller is next.  *)
DirectSenderReturns(s) ==
    LET sent == control = "ok"
    IN  /\ control \in {"ok", "failed"} /\ Innermost(s)
        /\ \/ SendRequestReturns(s, sent) /\ ReturnsTo("foreign")
           \/ SendNotificationReturns(s) /\ ReturnsTo("foreign")
           \/ /\ RespondReturns(s, sent)
              /\ IF CallsPostSend(s, sent)
                 THEN control' = "foreign" /\ UNCHANGED thread
                 ELSE ReturnsTo(control)
        /\ UNCHANGED handled

DirectCallbackReturns(s) ==
    /\ control = "foreign" /\ Innermost(s)
    /\ \/ PostSendReturns(s) /\ ReturnsTo("ok")
       \/ NotificationHandlerReturns(s) /\ \E c \in {"ok", "failed"} : ReturnsTo(c)
    /\ UNCHANGED handled

DirectNext ==
    \E s \in Sessions :
        \/ Setup(s)
        \/ DirectSend(s)
        \/ DeliverRequest(s)
        \/ DeliverNotification(s)
        \/ DeliverResponse(s)
        \/ DirectHandlerReturns(s)
        \/ DirectSenderReturns(s)
        \/ DirectCallbackReturns(s)

DirectSpec == DirectInit /\ [][DirectNext]_directVars
-----------------------------------------------------------------------------
(* SendRequest() returns a future exactly when the answer has already come *)
(* and was accepted: the tests call get() on the same thread right away    *)
(* (session_test.cc:78-82) and would block forever otherwise.              *)
FutureIffAnswered ==
    \A s \in Sessions, i \in Ids :
        returned[s][i] # "none" =>
            (returned[s][i] = "future" <=> promise[s][i] \in Bodies)

(* What the pair promises about each request: one run of the handler, and  *)
(* the outcome of that run or none, whatever else is nested.                *)
Abstract ==
    INSTANCE RemoteCall WITH
        Calls  <- Sessions \X Ids,
        caller <- [c \in Sessions \X Ids |-> promise[c[1]][c[2]]],
        callee <- [c \in Sessions \X Ids |-> handled[Peer[c[1]]][c[2]]]

ImplementsRemoteCall == Abstract!CallSpec

(* The post-send callback runs after the peer has taken the response: its  *)
(* promise is already set while the callback still runs inside SendRequest.*)
PostSendAfterAnswer ==
    \A s \in Sessions : \A k \in DOMAIN calls[s] :
        LET f == calls[s][k]
        IN  f.at = "PostSend" => /\ promise[Peer[s]][f.id] = f.body
                                 /\ returned[Peer[s]][f.id] = "none"

(* A response that is being sent finds its response handler. *)
ResponsesAwaited ==
    \A s \in Sessions :
        control = "call" /\ Innermost(s) /\ InCall(s, "Respond") =>
            response_handlers_[Peer[s]][Top(s).id] # None
=============================================================================
