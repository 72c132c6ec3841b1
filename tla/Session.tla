------------------------------ MODULE Session ------------------------------
(***************************************************************************)
(* langsvr::Session (include/langsvr/session.h, src/session.cc): the       *)
(* registry that turns JSON messages into handler calls and handler        *)
(* results into JSON messages.                                             *)
(*                                                                         *)
(* A Session runs in the threads of its callers and calls out to three     *)
(* kinds of foreign code: the Sender, the registered handlers and the      *)
(* post-send callbacks.  Foreign code may call the session again.  Each    *)
(* action below is therefore the code between two callouts, and calls[s]   *)
(* is the stack of the session's own functions that are suspended in one   *)
(* (innermost call last).  Nothing is assumed here of the environment: any *)
(* message may arrive at any moment, any callout may succeed or fail.      *)
(* DirectSessions and StreamSessions restrict this specification to two    *)
(* sessions that are really connected.                                     *)
(***************************************************************************)
EXTENDS Integers, Sequences

CONSTANTS
    Sessions,       \* the Session objects
    Requests,       \* the LSP request types, named by their kMethod
    Notifications,  \* the LSP notification types
    HasParams,      \* the message types with kHasParams
    VoidFailure,    \* the request types whose FailureType is void
    None,           \* no message type
    MaxId,          \* bound: request ids a session hands out
    MaxDepth        \* bound: nested callouts of one session

ASSUME MessageTypesAssumption ==
    /\ Requests \cap Notifications = {}
    /\ HasParams \subseteq Requests \cup Notifications
    /\ VoidFailure \subseteq Requests
    /\ None \notin Requests \cup Notifications

ASSUME BoundsAssumption == MaxId \in Nat /\ MaxDepth \in Nat

VARIABLES
    sender_,                \* is sender_ a callable std::function?
    request_handlers_,      \* per request type, what the map's entry holds
    notification_handlers_, \* the registered notification types
    response_handlers_,     \* per id, the request type the entry waits for
    next_request_id_,
    promise,                \* per id, the std::promise SendRequest() made
    returned,               \* per id, what SendRequest() returned
    calls                   \* the stack of suspended calls

vars == <<sender_, request_handlers_, notification_handlers_,
          response_handlers_, next_request_id_, promise, returned, calls>>
-----------------------------------------------------------------------------
Ids     == 1..MaxId
Bodies  == {"result", "error"}

(***************************************************************************)
(* "none": not made yet; "unset": made and without a value; "result",      *)
(* "error": set_value() was called; "broken": the response handler ended   *)
(* without calling it, so that the future can only report broken_promise.  *)
(***************************************************************************)
Promises == {"none", "unset", "broken"} \cup Bodies

(* request_handlers_[method]: both std::functions are empty at first.      *)
Handlers == [function : BOOLEAN, post_send : BOOLEAN]

(* What SendRequest() has returned for an id, if it has. *)
Returns == {"none", "future", "failure"}

(* The callouts, by the call that makes them. *)
SendingPoints == {"SendRequest", "SendNotification", "Respond"}
ForeignPoints == {"Request", "PostSend", "Notification"}

(* A frame names the request or notification the call is about; body is    *)
(* what the request handler returned.                                      *)
RequestFrames ==
    [at : {"SendRequest", "Request"}, id : Ids, method : Requests,
     body : {"none"}]
    \cup
    [at : {"Respond", "PostSend"}, id : Ids, method : Requests, body : Bodies]

NotificationFrames ==
    [at : {"SendNotification", "Notification"}, id : {0},
     method : Notifications, body : {"none"}]

Frames == RequestFrames \cup NotificationFrames

TypeOK ==
    /\ sender_ \in [Sessions -> BOOLEAN]
    /\ request_handlers_ \in [Sessions -> [Requests -> Handlers]]
    /\ notification_handlers_ \in [Sessions -> SUBSET Notifications]
    /\ response_handlers_ \in [Sessions -> [Ids -> Requests \cup {None}]]
    /\ next_request_id_ \in [Sessions -> 1..(MaxId + 1)]
    /\ promise \in [Sessions -> [Ids -> Promises]]
    /\ returned \in [Sessions -> [Ids -> Returns]]
    /\ calls \in [Sessions -> Seq(Frames)]

(* A variant of FirstId: ids that count from zero. *)
FirstIdZero == 0
FirstId == 1

Init ==
    /\ sender_ = [s \in Sessions |-> FALSE]
    /\ request_handlers_ = [s \in Sessions |-> [m \in Requests |->
                              [function |-> FALSE, post_send |-> FALSE]]]
    /\ notification_handlers_ = [s \in Sessions |-> {}]
    /\ response_handlers_ = [s \in Sessions |-> [i \in Ids |-> None]]
    /\ next_request_id_ = [s \in Sessions |-> FirstId]
    /\ promise = [s \in Sessions |-> [i \in Ids |-> "none"]]
    /\ returned = [s \in Sessions |-> [i \in Ids |-> "none"]]
    /\ calls = [s \in Sessions |-> <<>>]
-----------------------------------------------------------------------------
(* The call stack of a session. *)

Frame(at, i, m, b) == [at |-> at, id |-> i, method |-> m, body |-> b]

Top(s) == calls[s][Len(calls[s])]

InCall(s, at) == calls[s] # <<>> /\ Top(s).at = at

(* Some call of session s is suspended at point at, for message type m. *)
Suspended(s, at, m) ==
    \E k \in DOMAIN calls[s] : calls[s][k].at = at /\ calls[s][k].method = m

Enter(s, f) == /\ Len(calls[s]) < MaxDepth
               /\ calls' = [calls EXCEPT ![s] = Append(@, f)]

Leave(s) == calls' = [calls EXCEPT ![s] = SubSeq(@, 1, Len(@) - 1)]

MoveTo(s, at, b) ==
    calls' = [calls EXCEPT ![s][Len(calls[s])] =
                 Frame(at, Top(s).id, Top(s).method, b)]
-----------------------------------------------------------------------------
(* Configuration: SetSender(), Register() and OnPostSend(). *)

(* Replacing a std::function while it runs is undefined: callers may not. *)
SetSender(s, callable) ==
    /\ \A k \in DOMAIN calls[s] : calls[s][k].at \notin SendingPoints
    /\ sender_' = [sender_ EXCEPT ![s] = callable]
    /\ UNCHANGED <<request_handlers_, notification_handlers_,
                   response_handlers_, next_request_id_, promise, returned,
                   calls>>

(* Register() of a request handler keeps the post_send of an earlier one. *)
RegisterRequest(s, m) ==
    /\ ~Suspended(s, "Request", m)
    /\ request_handlers_' = [request_handlers_ EXCEPT ![s][m].function = TRUE]
    /\ UNCHANGED <<sender_, notification_handlers_, response_handlers_,
                   next_request_id_, promise, returned, calls>>

(* The RegisteredRequestHandler that names the entry comes from Register(). *)
OnPostSend(s, m, callable) ==
    /\ request_handlers_[s][m].function
    /\ ~Suspended(s, "PostSend", m)
    /\ request_handlers_' =
           [request_handlers_ EXCEPT ![s][m].post_send = callable]
    /\ UNCHANGED <<sender_, notification_handlers_, response_handlers_,
                   next_request_id_, promise, returned, calls>>

RegisterNotification(s, m) ==
    /\ ~Suspended(s, "Notification", m)
    /\ notification_handlers_' =
           [notification_handlers_ EXCEPT ![s] = @ \cup {m}]
    /\ UNCHANGED <<sender_, request_handlers_, response_handlers_,
                   next_request_id_, promise, returned, calls>>
-----------------------------------------------------------------------------
(* Sending: SendRequest(), SendNotification() and SendJson(). *)

(* A variant of SpendId: the id is read but not incremented. *)
ReuseId(s) == UNCHANGED next_request_id_

SpendId(s) == next_request_id_' = [next_request_id_ EXCEPT ![s] = @ + 1]

(* A variant of EmplaceHandler: the entry is not there yet when it sends. *)
EmplaceTooLate(s, id, m) == UNCHANGED response_handlers_

EmplaceHandler(s, id, m) ==
    response_handlers_' = [response_handlers_ EXCEPT ![s][id] = m]

(* The parameters do not encode: the id is spent, nothing else happens. *)
SendRequestUnencodable(s, m) ==
    /\ m \in HasParams
    /\ next_request_id_[s] \in Ids
    /\ SpendId(s)
    /\ returned' = [returned EXCEPT ![s][next_request_id_[s]] = "failure"]
    /\ UNCHANGED <<sender_, request_handlers_, notification_handlers_,
                   response_handlers_, promise, calls>>

(* The response handler is in place before the Sender is called, and stays *)
(* there when SendJson() fails because there is none.                      *)
SendRequest(s, m) ==
    LET id == next_request_id_[s]
    IN  /\ id \in Ids
        /\ SpendId(s)
        /\ EmplaceHandler(s, id, m)
        /\ promise' = [promise EXCEPT ![s][id] = "unset"]
        /\ \/ /\ sender_[s]
              /\ Enter(s, Frame("SendRequest", id, m, "none"))
              /\ UNCHANGED returned
           \/ /\ ~sender_[s]
              /\ returned' = [returned EXCEPT ![s][id] = "failure"]
              /\ UNCHANGED calls
        /\ UNCHANGED <<sender_, request_handlers_, notification_handlers_>>

(* Without a Sender, or when the parameters do not encode, it only fails. *)
SendNotification(s, m) ==
    /\ sender_[s]
    /\ Enter(s, Frame("SendNotification", 0, m, "none"))
    /\ UNCHANGED <<sender_, request_handlers_, notification_handlers_,
                   response_handlers_, next_request_id_, promise, returned>>

(* A variant of SendResult: the Sender's failure is ignored. *)
SendResultIgnored(sent) == "future"

SendResult(sent) == IF sent THEN "future" ELSE "failure"

(* The Sender returns to SendRequest(): a future, or the Sender's failure. *)
SendRequestReturns(s, sent) ==
    /\ InCall(s, "SendRequest")
    /\ returned' = [returned EXCEPT ![s][Top(s).id] = SendResult(sent)]
    /\ Leave(s)
    /\ UNCHANGED <<sender_, request_handlers_, notification_handlers_,
                   response_handlers_, next_request_id_, promise>>

SendNotificationReturns(s) ==
    /\ InCall(s, "SendNotification")
    /\ Leave(s)
    /\ UNCHANGED <<sender_, request_handlers_, notification_handlers_,
                   response_handlers_, next_request_id_, promise, returned>>
-----------------------------------------------------------------------------
(* Receiving: Receive() and the handlers it calls. *)

(* Does the response handler of request type m accept such a response? *)
Accepts(m, b, decodes) == decodes /\ (b = "error" => m \notin VoidFailure)

(* A variant of EraseHandler: the entry stays after its handler ran. *)
KeepHandler(s, i) == UNCHANGED response_handlers_

EraseHandler(s, i) ==
    response_handlers_' = [response_handlers_ EXCEPT ![s][i] = None]

(* The entry is erased before the handler runs, accepted or not. *)
ReceiveResponse(s, i, b, decodes) ==
    LET m == response_handlers_[s][i]
    IN  /\ m # None
        /\ EraseHandler(s, i)
        /\ promise' = [promise EXCEPT ![s][i] =
                          IF Accepts(m, b, decodes) THEN b ELSE "broken"]
        /\ UNCHANGED <<sender_, request_handlers_, notification_handlers_,
                       next_request_id_, returned, calls>>

(* Receive() returns a Failure for a response nobody waits for, ...        *)
ResponseRejected(s, i) == response_handlers_[s][i] = None /\ UNCHANGED vars

(* ... a request without a handler or whose parameters do not decode: none *)
(* of these is answered; ...                                               *)
RequestRejected(s, m, decodes) ==
    /\ ~request_handlers_[s][m].function \/ (m \in HasParams /\ ~decodes)
    /\ UNCHANGED vars

(* ... and a notification without a handler or that does not decode.       *)
NotificationRejected(s, m, decodes) ==
    /\ m \notin notification_handlers_[s] \/ (m \in HasParams /\ ~decodes)
    /\ UNCHANGED vars

ReceiveRequest(s, i, m, decodes) ==
    /\ request_handlers_[s][m].function
    /\ m \in HasParams => decodes
    /\ Enter(s, Frame("Request", i, m, "none"))
    /\ UNCHANGED <<sender_, request_handlers_, notification_handlers_,
                   response_handlers_, next_request_id_, promise, returned>>

ReceiveNotification(s, m, decodes) ==
    /\ m \in notification_handlers_[s]
    /\ m \in HasParams => decodes
    /\ Enter(s, Frame("Notification", 0, m, "none"))
    /\ UNCHANGED <<sender_, request_handlers_, notification_handlers_,
                   response_handlers_, next_request_id_, promise, returned>>

(* A variant of MemberKey: both outcomes go under one key. *)
MemberKeyResult(b) == "result"

(* The member of the response object that holds outcome b. *)
MemberKey(b) == b

(* The request handler returns b, it encodes, and there is a Sender: the   *)
(* response goes to it.                                                    *)
RequestHandlerReturns(s, b) ==
    /\ InCall(s, "Request")
    /\ b = "error" => Top(s).method \notin VoidFailure
    /\ sender_[s]
    /\ MoveTo(s, "Respond", MemberKey(b))
    /\ UNCHANGED <<sender_, request_handlers_, notification_handlers_,
                   response_handlers_, next_request_id_, promise, returned>>

(* Its result does not encode, or there is no Sender: Receive() fails.     *)
RequestHandlerFails(s, encodes) ==
    /\ InCall(s, "Request")
    /\ encodes => ~sender_[s]
    /\ Leave(s)
    /\ UNCHANGED <<sender_, request_handlers_, notification_handlers_,
                   response_handlers_, next_request_id_, promise, returned>>

(* A variant of CallsPostSend: the test for an empty function is missing. *)
CallsPostSendUntested(s, sent) == sent

(* A variant of CallsPostSend: it is called although sending failed. *)
CallsPostSendAnyway(s, sent) == request_handlers_[s][Top(s).method].post_send

(* Receive() calls post_send, if there is one, after the Sender's success. *)
CallsPostSend(s, sent) == sent /\ request_handlers_[s][Top(s).method].post_send

RespondReturns(s, sent) ==
    /\ InCall(s, "Respond")
    /\ IF CallsPostSend(s, sent) THEN MoveTo(s, "PostSend", Top(s).body)
                                 ELSE Leave(s)
    /\ UNCHANGED <<sender_, request_handlers_, notification_handlers_,
                   response_handlers_, next_request_id_, promise, returned>>

PostSendReturns(s) ==
    /\ InCall(s, "PostSend")
    /\ Leave(s)
    /\ UNCHANGED <<sender_, request_handlers_, notification_handlers_,
                   response_handlers_, next_request_id_, promise, returned>>

NotificationHandlerReturns(s) ==
    /\ InCall(s, "Notification")
    /\ Leave(s)
    /\ UNCHANGED <<sender_, request_handlers_, notification_handlers_,
                   response_handlers_, next_request_id_, promise, returned>>
-----------------------------------------------------------------------------
Configure(s) ==
    \/ \E callable \in BOOLEAN : SetSender(s, callable)
    \/ \E m \in Requests : RegisterRequest(s, m)
    \/ \E m \in Requests, callable \in BOOLEAN : OnPostSend(s, m, callable)
    \/ \E m \in Notifications : RegisterNotification(s, m)

Send(s) ==
    \/ \E m \in Requests : SendRequestUnencodable(s, m) \/ SendRequest(s, m)
    \/ \E m \in Notifications : SendNotification(s, m)

Receive(s) ==
    \/ \E i \in Ids, b \in Bodies, decodes \in BOOLEAN :
          ReceiveResponse(s, i, b, decodes)
    \/ \E i \in Ids : ResponseRejected(s, i)
    \/ \E i \in Ids, m \in Requests, decodes \in BOOLEAN :
          ReceiveRequest(s, i, m, decodes) \/ RequestRejected(s, m, decodes)
    \/ \E m \in Notifications, decodes \in BOOLEAN :
          \/ ReceiveNotification(s, m, decodes)
          \/ NotificationRejected(s, m, decodes)

Return(s) ==
    \/ \E sent \in BOOLEAN : SendRequestReturns(s, sent) \/ RespondReturns(s, sent)
    \/ SendNotificationReturns(s)
    \/ \E b \in Bodies : RequestHandlerReturns(s, b)
    \/ \E encodes \in BOOLEAN : RequestHandlerFails(s, encodes)
    \/ PostSendReturns(s)
    \/ NotificationHandlerReturns(s)

Next == \E s \in Sessions : Configure(s) \/ Send(s) \/ Receive(s) \/ Return(s)

Spec == Init /\ [][Next]_vars
-----------------------------------------------------------------------------
(* A response handler waits for id i exactly as long as i's promise has no *)
(* value: a handler never calls set_value() twice (which would throw), and *)
(* an unset promise always has the one entry that can still set it.        *)
HandlersMatchPromises ==
    \A s \in Sessions, i \in Ids :
        response_handlers_[s][i] # None <=> promise[s][i] = "unset"

(* next_request_id_ and the ids after it were never used, so emplace() in  *)
(* SendRequest() always inserts and never leaves an older handler in place.*)
FreshIds ==
    \A s \in Sessions : \A i \in Ids :
        i >= next_request_id_[s] =>
            promise[s][i] = "none" /\ returned[s][i] = "none"

(* Every id handed out belongs to one SendRequest() call: either that call *)
(* has returned or it is suspended, once, however deeply calls are nested. *)
InSendRequest(s, i) ==
    {k \in DOMAIN calls[s] : calls[s][k].at = "SendRequest" /\ calls[s][k].id = i}

OneCallPerId ==
    \A s \in Sessions : \A i \in Ids :
        /\ \A k, l \in InSendRequest(s, i) : k = l
        /\ InSendRequest(s, i) # {} <=>
              i \in 1..(next_request_id_[s] - 1) /\ returned[s][i] = "none"

(* Is what suspended call f of session s runs still there to run? *)
Alive(s, f) ==
    /\ f.at \in {"Request", "Respond", "PostSend"} =>
          request_handlers_[s][f.method].function
    /\ f.at = "PostSend" => request_handlers_[s][f.method].post_send
    /\ f.at = "Notification" => f.method \in notification_handlers_[s]
    /\ f.at \in SendingPoints => sender_[s]

(* Receive() and SendJson() call std::functions that are members, and      *)
(* Receive() reads function and post_send of one request_handlers_ entry   *)
(* with callouts between, which may register and empty others in turn:     *)
(* what is running is still registered, and none of them was empty when it *)
(* was called.  (Receive() holds the entry by reference.  That is not in   *)
(* the model: an entry of an unordered_map stays where it is while others  *)
(* are inserted, and no entry is ever erased from this one.)               *)
CalloutsAlive ==
    \A s \in Sessions : \A k \in DOMAIN calls[s] : Alive(s, calls[s][k])

(* What a future reports is settled once, and so is what SendRequest()     *)
(* returned: no later message, failed send or nested call changes either.  *)
SettledOnce ==
    [][\A s \in Sessions, i \in Ids :
          /\ promise[s][i] \in Bodies \cup {"broken"} =>
                promise'[s][i] = promise[s][i]
          /\ returned[s][i] # "none" => returned'[s][i] = returned[s][i]]_vars
=============================================================================
