--------------------------- MODULE Session_proofs ---------------------------
(***************************************************************************)
(* Proofs about Session for any number of sessions, message types, ids and *)
(* nested calls, against any environment, and about RemoteCall, the        *)
(* specification of a call that programs of sessions are shown to meet.    *)
(***************************************************************************)
EXTENDS Session, RemoteCall, TLAPS

(* The stack operations on the sequence of frames of one session. *)
LEMMA PushFrame ==
    ASSUME NEW q \in Seq(Frames), NEW f \in Frames
    PROVE  /\ Append(q, f) \in Seq(Frames)
           /\ Len(Append(q, f)) = Len(q) + 1
           /\ Append(q, f)[Len(q) + 1] = f
           /\ \A k \in DOMAIN q : Append(q, f)[k] = q[k]
           /\ DOMAIN q = 1..Len(q)
           /\ DOMAIN Append(q, f) = 1..(Len(q) + 1)
  OBVIOUS

LEMMA PopFrame ==
    ASSUME NEW q \in Seq(Frames), q # <<>>
    PROVE  /\ SubSeq(q, 1, Len(q) - 1) \in Seq(Frames)
           /\ DOMAIN q = 1..Len(q)
           /\ Len(q) \in Nat \ {0}
           /\ DOMAIN SubSeq(q, 1, Len(q) - 1) = 1..(Len(q) - 1)
           /\ \A k \in 1..(Len(q) - 1) : SubSeq(q, 1, Len(q) - 1)[k] = q[k]
           /\ q[Len(q)] \in Frames
  <1>1. Len(q) \in Nat \ {0} /\ DOMAIN q = 1..Len(q)
    OBVIOUS
  <1>2. \A k \in 1..Len(q) : q[k] \in Frames
    OBVIOUS
  <1>3. /\ SubSeq(q, 1, Len(q) - 1) \in Seq(Frames)
        /\ Len(SubSeq(q, 1, Len(q) - 1)) = Len(q) - 1
        /\ \A k \in 1..(Len(q) - 1) : SubSeq(q, 1, Len(q) - 1)[k] = q[k]
    BY <1>1, <1>2
  <1> QED
    BY <1>1, <1>2, <1>3

LEMMA MoveFrame ==
    ASSUME NEW q \in Seq(Frames), q # <<>>, NEW f \in Frames
    PROVE  /\ [q EXCEPT ![Len(q)] = f] \in Seq(Frames)
           /\ DOMAIN [q EXCEPT ![Len(q)] = f] = 1..Len(q)
           /\ [q EXCEPT ![Len(q)] = f][Len(q)] = f
           /\ \A k \in 1..(Len(q) - 1) : [q EXCEPT ![Len(q)] = f][k] = q[k]
  OBVIOUS
-----------------------------------------------------------------------------
(* What Enter, Leave and MoveTo do to all the stacks. *)
LEMMA NewFrames ==
    /\ \A i \in Ids, m \in Requests :
          /\ Frame("SendRequest", i, m, "none") \in Frames
          /\ Frame("Request", i, m, "none") \in Frames
    /\ \A n \in Notifications :
          /\ Frame("SendNotification", 0, n, "none") \in Frames
          /\ Frame("Notification", 0, n, "none") \in Frames
  BY DEF Frame, Frames, RequestFrames, NotificationFrames

LEMMA TopFrame ==
    ASSUME TypeOK, NEW s \in Sessions, calls[s] # <<>>
    PROVE  /\ Top(s) \in Frames
           /\ Len(calls[s]) \in DOMAIN calls[s]
           /\ Top(s).at \in {"SendRequest", "Request", "Respond", "PostSend"} =>
                 Top(s).id \in Ids /\ Top(s).method \in Requests
           /\ Top(s).at \in {"SendNotification", "Notification"} =>
                 Top(s).id = 0 /\ Top(s).method \in Notifications
           /\ Top(s).at \in {"Respond", "PostSend"} => Top(s).body \in Bodies
  <1>1. Top(s) \in Frames /\ Len(calls[s]) \in DOMAIN calls[s]
    BY PopFrame DEF TypeOK, Top
  <1> QED
    BY <1>1 DEF Frames, RequestFrames, NotificationFrames

(* Receive() goes on: from the handler to sending, from there to post_send.*)
LEMMA NextFrames ==
    ASSUME TypeOK, NEW s \in Sessions, calls[s] # <<>>
    PROVE  /\ Top(s).at = "Request" =>
                 \A b \in Bodies :
                    Frame("Respond", Top(s).id, Top(s).method, b) \in Frames
           /\ Top(s).at = "Respond" =>
                 Frame("PostSend", Top(s).id, Top(s).method, Top(s).body) \in Frames
  BY TopFrame DEF Frame, Frames, RequestFrames

LEMMA EnterCall ==
    ASSUME TypeOK, NEW s \in Sessions, NEW f \in Frames, Enter(s, f)
    PROVE  /\ calls' \in [Sessions -> Seq(Frames)]
           /\ \A t \in Sessions \ {s} : calls'[t] = calls[t]
           /\ Len(calls[s]) \in Nat
           /\ DOMAIN calls[s] = 1..Len(calls[s])
           /\ DOMAIN calls'[s] = 1..(Len(calls[s]) + 1)
           /\ \A k \in DOMAIN calls[s] : calls'[s][k] = calls[s][k]
           /\ calls'[s][Len(calls[s]) + 1] = f
  <1>1. calls[s] \in Seq(Frames) /\ calls' = [calls EXCEPT ![s] = Append(@, f)]
    BY DEF TypeOK, Enter
  <1>2. calls'[s] = Append(calls[s], f) /\ Append(calls[s], f) \in Seq(Frames)
    BY <1>1, PushFrame DEF TypeOK
  <1>3. /\ calls' \in [Sessions -> Seq(Frames)]
        /\ \A t \in Sessions \ {s} : calls'[t] = calls[t]
    BY <1>1, <1>2 DEF TypeOK
  <1> QED
    BY <1>1, <1>2, <1>3, PushFrame

LEMMA LeaveCall ==
    ASSUME TypeOK, NEW s \in Sessions, calls[s] # <<>>, Leave(s)
    PROVE  /\ calls' \in [Sessions -> Seq(Frames)]
           /\ \A t \in Sessions \ {s} : calls'[t] = calls[t]
           /\ Len(calls[s]) \in Nat \ {0}
           /\ DOMAIN calls[s] = 1..Len(calls[s])
           /\ DOMAIN calls'[s] = 1..(Len(calls[s]) - 1)
           /\ \A k \in DOMAIN calls'[s] : calls'[s][k] = calls[s][k]
           /\ Top(s) \in Frames
  <1>1. /\ calls[s] \in Seq(Frames)
        /\ calls' = [calls EXCEPT ![s] = SubSeq(@, 1, Len(@) - 1)]
    BY DEF TypeOK, Leave
  <1>2. calls'[s] = SubSeq(calls[s], 1, Len(calls[s]) - 1)
    BY <1>1 DEF TypeOK
  <1>3. SubSeq(calls[s], 1, Len(calls[s]) - 1) \in Seq(Frames)
    BY <1>1, PopFrame
  <1>4. /\ calls' \in [Sessions -> Seq(Frames)]
        /\ \A t \in Sessions \ {s} : calls'[t] = calls[t]
    BY <1>1, <1>2, <1>3 DEF TypeOK
  <1> QED
    BY <1>1, <1>2, <1>4, PopFrame DEF Top

LEMMA MoveCall ==
    ASSUME TypeOK, NEW s \in Sessions, calls[s] # <<>>,
           NEW at, NEW b, MoveTo(s, at, b),
           Frame(at, Top(s).id, Top(s).method, b) \in Frames
    PROVE  /\ calls' \in [Sessions -> Seq(Frames)]
           /\ \A t \in Sessions \ {s} : calls'[t] = calls[t]
           /\ Len(calls[s]) \in Nat \ {0}
           /\ DOMAIN calls[s] = 1..Len(calls[s])
           /\ DOMAIN calls'[s] = 1..Len(calls[s])
           /\ \A k \in 1..(Len(calls[s]) - 1) : calls'[s][k] = calls[s][k]
           /\ calls'[s][Len(calls[s])].at = at
           /\ calls'[s][Len(calls[s])].id = Top(s).id
           /\ calls'[s][Len(calls[s])].method = Top(s).method
           /\ Top(s) \in Frames
  <1> DEFINE f == Frame(at, Top(s).id, Top(s).method, b)
  <1>1. calls[s] \in Seq(Frames)
    BY DEF TypeOK
  <1>2. Top(s) \in Frames
    BY <1>1, PopFrame DEF Top
  <1>3. f \in Frames /\ f.at = at /\ f.id = Top(s).id /\ f.method = Top(s).method
    BY DEF Frame
  <1>4. calls'[s] = [calls[s] EXCEPT ![Len(calls[s])] = f]
    BY DEF TypeOK, MoveTo
  <1>5. [calls[s] EXCEPT ![Len(calls[s])] = f] \in Seq(Frames)
    BY <1>1, <1>3, MoveFrame
  <1>6. calls' = [calls EXCEPT ![s] = [calls[s] EXCEPT ![Len(calls[s])] = f]]
    BY DEF TypeOK, MoveTo
  <1>7. /\ calls' \in [Sessions -> Seq(Frames)]
        /\ \A t \in Sessions \ {s} : calls'[t] = calls[t]
    BY <1>5, <1>6 DEF TypeOK
  <1> HIDE DEF f
  <1>8. /\ calls'[s][Len(calls[s])] = f
        /\ DOMAIN calls'[s] = 1..Len(calls[s])
        /\ \A k \in 1..(Len(calls[s]) - 1) : calls'[s][k] = calls[s][k]
    BY <1>1, <1>3, <1>4, MoveFrame
  <1>9. Len(calls[s]) \in Nat \ {0} /\ DOMAIN calls[s] = 1..Len(calls[s])
    BY <1>1, PopFrame
  <1> QED
    BY <1>2, <1>3, <1>7, <1>8, <1>9
-----------------------------------------------------------------------------
(* Type correctness. *)
LEMMA TypeInit == Init => TypeOK
  BY BoundsAssumption DEF Init, FirstId, TypeOK, Handlers, Promises, Returns, Ids

LEMMA TypeConfigure ==
    ASSUME TypeOK, NEW s \in Sessions, Configure(s)
    PROVE  TypeOK'
  <1>1. CASE \E callable \in BOOLEAN : SetSender(s, callable)
    BY <1>1 DEF TypeOK, SetSender
  <1>2. CASE \E m \in Requests : RegisterRequest(s, m)
    <2> PICK m \in Requests : RegisterRequest(s, m)
      BY <1>2
    <2>1. request_handlers_[s] \in [Requests -> Handlers]
      BY DEF TypeOK
    <2>2. [request_handlers_[s][m] EXCEPT !.function = TRUE] \in Handlers
      BY <2>1 DEF Handlers
    <2>3. request_handlers_' \in [Sessions -> [Requests -> Handlers]]
      BY <2>1, <2>2 DEF TypeOK, RegisterRequest
    <2> QED
      BY <2>3 DEF TypeOK, RegisterRequest
  <1>3. CASE \E m \in Requests, callable \in BOOLEAN : OnPostSend(s, m, callable)
    <2> PICK m \in Requests, callable \in BOOLEAN : OnPostSend(s, m, callable)
      BY <1>3
    <2>1. request_handlers_[s] \in [Requests -> Handlers]
      BY DEF TypeOK
    <2>2. [request_handlers_[s][m] EXCEPT !.post_send = callable] \in Handlers
      BY <2>1 DEF Handlers
    <2>3. request_handlers_' \in [Sessions -> [Requests -> Handlers]]
      BY <2>1, <2>2 DEF TypeOK, OnPostSend
    <2> QED
      BY <2>3 DEF TypeOK, OnPostSend
  <1>4. CASE \E m \in Notifications : RegisterNotification(s, m)
    BY <1>4 DEF TypeOK, RegisterNotification
  <1> QED
    BY <1>1, <1>2, <1>3, <1>4 DEF Configure

LEMMA TypeSend ==
    ASSUME TypeOK, NEW s \in Sessions, Send(s)
    PROVE  TypeOK'
  <1> DEFINE id == next_request_id_[s]
  <1>1. ASSUME NEW m \in Requests, SendRequestUnencodable(s, m)
        PROVE  TypeOK'
    BY <1>1, BoundsAssumption DEF TypeOK, SendRequestUnencodable, SpendId, Ids, Returns
  <1>2. ASSUME NEW m \in Requests, SendRequest(s, m)
        PROVE  TypeOK'
    <2>1. /\ id \in Ids
          /\ next_request_id_' = [next_request_id_ EXCEPT ![s] = @ + 1]
          /\ response_handlers_' = [response_handlers_ EXCEPT ![s][id] = m]
          /\ promise' = [promise EXCEPT ![s][id] = "unset"]
          /\ UNCHANGED <<sender_, request_handlers_, notification_handlers_>>
      BY <1>2 DEF SendRequest, SpendId, EmplaceHandler
    <2>2. Frame("SendRequest", id, m, "none") \in Frames
      BY <2>1, NewFrames
    <2>3. returned' \in [Sessions -> [Ids -> Returns]]
      <3>1. CASE UNCHANGED returned
        BY <3>1 DEF TypeOK
      <3>2. CASE returned' = [returned EXCEPT ![s][id] = "failure"]
        BY <3>2, <2>1 DEF TypeOK, Returns
      <3> QED
        BY <1>2, <3>1, <3>2 DEF SendRequest
    <2>4. calls' \in [Sessions -> Seq(Frames)]
      BY <1>2, <2>2, EnterCall DEF SendRequest, TypeOK
    <2>5. next_request_id_' \in [Sessions -> 1..(MaxId + 1)]
      BY <2>1, BoundsAssumption DEF TypeOK, Ids
    <2>6. response_handlers_' \in [Sessions -> [Ids -> Requests \cup {None}]]
      BY <2>1 DEF TypeOK
    <2>7. promise' \in [Sessions -> [Ids -> Promises]]
      BY <2>1 DEF TypeOK, Promises
    <2> QED
      BY <2>1, <2>3, <2>4, <2>5, <2>6, <2>7 DEF TypeOK
  <1>3. ASSUME NEW m \in Notifications, SendNotification(s, m)
        PROVE  TypeOK'
    <2>1. Frame("SendNotification", 0, m, "none") \in Frames
      BY NewFrames
    <2>2. calls' \in [Sessions -> Seq(Frames)]
      BY <1>3, <2>1, EnterCall DEF SendNotification
    <2> QED
      BY <1>3, <2>2 DEF TypeOK, SendNotification
  <1> QED
    BY <1>1, <1>2, <1>3 DEF Send

LEMMA TypeReceive ==
    ASSUME TypeOK, NEW s \in Sessions, Receive(s)
    PROVE  TypeOK'
  <1>1. ASSUME NEW i \in Ids, NEW b \in Bodies, NEW decodes \in BOOLEAN,
               ReceiveResponse(s, i, b, decodes)
        PROVE  TypeOK'
    BY <1>1 DEF TypeOK, ReceiveResponse, EraseHandler, Promises
  <1>2. ASSUME NEW i \in Ids, NEW m \in Requests, NEW decodes \in BOOLEAN,
               ReceiveRequest(s, i, m, decodes)
        PROVE  TypeOK'
    <2>1. Frame("Request", i, m, "none") \in Frames
      BY NewFrames
    <2>2. calls' \in [Sessions -> Seq(Frames)]
      BY <1>2, <2>1, EnterCall DEF ReceiveRequest
    <2> QED
      BY <1>2, <2>2 DEF TypeOK, ReceiveRequest
  <1>3. ASSUME NEW m \in Notifications, NEW decodes \in BOOLEAN,
               ReceiveNotification(s, m, decodes)
        PROVE  TypeOK'
    <2>1. Frame("Notification", 0, m, "none") \in Frames
      BY NewFrames
    <2>2. calls' \in [Sessions -> Seq(Frames)]
      BY <1>3, <2>1, EnterCall DEF ReceiveNotification
    <2> QED
      BY <1>3, <2>2 DEF TypeOK, ReceiveNotification
  <1>4. CASE UNCHANGED vars
    BY <1>4 DEF TypeOK, vars
  <1> QED
    BY <1>1, <1>2, <1>3, <1>4
    DEF Receive, ResponseRejected, RequestRejected, NotificationRejected

LEMMA TypeReturn ==
    ASSUME TypeOK, NEW s \in Sessions, Return(s)
    PROVE  TypeOK'
  <1>1. ASSUME NEW sent \in BOOLEAN, SendRequestReturns(s, sent)
        PROVE  TypeOK'
    <2>1. /\ calls[s] # <<>> /\ Leave(s)
          /\ returned' \in [Sessions -> [Ids -> Returns]]
      BY <1>1 DEF SendRequestReturns, SendResult, InCall, TypeOK, Returns
    <2> QED
      BY <1>1, <2>1, LeaveCall DEF TypeOK, SendRequestReturns
  <1>2. ASSUME NEW sent \in BOOLEAN, RespondReturns(s, sent)
        PROVE  TypeOK'
    <2>1. calls[s] # <<>> /\ Top(s).at = "Respond"
      BY <1>2 DEF RespondReturns, InCall
    <2>2. calls' \in [Sessions -> Seq(Frames)]
      BY <1>2, <2>1, NextFrames, LeaveCall, MoveCall DEF RespondReturns
    <2> QED
      BY <1>2, <2>2 DEF TypeOK, RespondReturns
  <1>3. ASSUME NEW b \in Bodies, RequestHandlerReturns(s, b)
        PROVE  TypeOK'
    <2>1. calls[s] # <<>> /\ Top(s).at = "Request" /\ MoveTo(s, "Respond", b)
      BY <1>3 DEF RequestHandlerReturns, MemberKey, InCall
    <2> QED
      BY <1>3, <2>1, NextFrames, MoveCall DEF TypeOK, RequestHandlerReturns
  <1>4. CASE \/ SendNotificationReturns(s) \/ PostSendReturns(s)
             \/ NotificationHandlerReturns(s)
             \/ \E encodes \in BOOLEAN : RequestHandlerFails(s, encodes)
    <2>1. /\ calls[s] # <<>> /\ Leave(s)
          /\ UNCHANGED <<sender_, request_handlers_, notification_handlers_,
                         response_handlers_, next_request_id_, promise, returned>>
      BY <1>4 DEF SendNotificationReturns, PostSendReturns, InCall,
                  NotificationHandlerReturns, RequestHandlerFails
    <2> QED
      BY <2>1, LeaveCall DEF TypeOK
  <1> QED
    BY <1>1, <1>2, <1>3, <1>4 DEF Return

LEMMA TypeStep == TypeOK /\ [Next]_vars => TypeOK'
  <1>1. CASE UNCHANGED vars
    BY <1>1 DEF TypeOK, vars
  <1>2. CASE TypeOK /\ Next
    BY <1>2, TypeConfigure, TypeSend, TypeReceive, TypeReturn DEF Next
  <1> QED
    BY <1>1, <1>2

(* Every variable of the sessions keeps its type. *)
THEOREM TypeCorrect == Spec => []TypeOK
  BY TypeInit, TypeStep, PTL DEF Spec
-----------------------------------------------------------------------------
(* Which actions touch the response handlers and the promises, ... *)
LEMMA PromiseSteps ==
    ASSUME [Next]_vars
    PROVE  \/ \E s \in Sessions, m \in Requests : SendRequest(s, m)
           \/ \E s \in Sessions, i \in Ids, b \in Bodies, decodes \in BOOLEAN :
                 ReceiveResponse(s, i, b, decodes)
           \/ UNCHANGED <<response_handlers_, promise>>
  <1>1. CASE UNCHANGED vars
    BY <1>1 DEF vars
  <1>2. CASE \E s \in Sessions : Configure(s)
    BY <1>2 DEF Configure, SetSender, RegisterRequest, OnPostSend,
                RegisterNotification
  <1>3. CASE \E s \in Sessions : Send(s)
    BY <1>3 DEF Send, SendRequestUnencodable, SendNotification
  <1>4. CASE \E s \in Sessions : Receive(s)
    BY <1>4 DEF Receive, ReceiveRequest, ReceiveNotification, ResponseRejected,
                RequestRejected, NotificationRejected, vars
  <1>5. CASE \E s \in Sessions : Return(s)
    BY <1>5 DEF Return, SendRequestReturns, SendNotificationReturns,
                RequestHandlerReturns, RequestHandlerFails, RespondReturns,
                PostSendReturns, NotificationHandlerReturns
  <1> QED
    BY <1>1, <1>2, <1>3, <1>4, <1>5 DEF Next

LEMMA HandlersInit == Init => HandlersMatchPromises
  BY DEF Init, HandlersMatchPromises

LEMMA HandlersStep ==
    ASSUME TypeOK, HandlersMatchPromises, [Next]_vars
    PROVE  HandlersMatchPromises'
  <1>1. ASSUME NEW s \in Sessions, NEW m \in Requests, SendRequest(s, m)
        PROVE  HandlersMatchPromises'
    <2>1. /\ next_request_id_[s] \in Ids
          /\ response_handlers_' =
                 [response_handlers_ EXCEPT ![s][next_request_id_[s]] = m]
          /\ promise' = [promise EXCEPT ![s][next_request_id_[s]] = "unset"]
      BY <1>1 DEF SendRequest, EmplaceHandler
    <2> QED
      BY <2>1, MessageTypesAssumption DEF TypeOK, HandlersMatchPromises
  <1>2. ASSUME NEW s \in Sessions, NEW i \in Ids, NEW b \in Bodies,
               NEW decodes \in BOOLEAN, ReceiveResponse(s, i, b, decodes)
        PROVE  HandlersMatchPromises'
    <2>1. PICK p \in Bodies \cup {"broken"} :
            /\ response_handlers_' = [response_handlers_ EXCEPT ![s][i] = None]
            /\ promise' = [promise EXCEPT ![s][i] = p]
      BY <1>2 DEF ReceiveResponse, EraseHandler
    <2> QED
      BY <2>1 DEF TypeOK, HandlersMatchPromises, Bodies
  <1>3. CASE UNCHANGED <<response_handlers_, promise>>
    BY <1>3 DEF HandlersMatchPromises
  <1> QED
    BY <1>1, <1>2, <1>3, PromiseSteps

(* A response handler is in place exactly as long as its promise is unset: *)
(* no response, repeated or late, makes a handler call set_value() twice.  *)
THEOREM HandlersMatch == Spec => []HandlersMatchPromises
  <1>1. TypeOK /\ HandlersMatchPromises /\ [Next]_vars => HandlersMatchPromises'
    BY HandlersStep
  <1> QED
    BY HandlersInit, TypeCorrect, <1>1, PTL DEF Spec
-----------------------------------------------------------------------------
(* ... and which touch the ids and the suspended SendRequest() calls. *)
SameRequestCalls ==
    \A t \in Sessions, i \in Ids : InSendRequest(t, i)' = InSendRequest(t, i)

LEMMA EnterOther ==
    ASSUME TypeOK, NEW s \in Sessions, NEW f \in Frames, Enter(s, f),
           f.at # "SendRequest"
    PROVE  SameRequestCalls
  BY EnterCall DEF SameRequestCalls, InSendRequest

LEMMA LeaveOther ==
    ASSUME TypeOK, NEW s \in Sessions, calls[s] # <<>>, Leave(s),
           Top(s).at # "SendRequest"
    PROVE  SameRequestCalls
  <1>1. \A k \in DOMAIN calls[s] : calls[s][k].at = "SendRequest" => k \in DOMAIN calls'[s]
    BY LeaveCall DEF Top
  <1> QED
    BY <1>1, LeaveCall DEF SameRequestCalls, InSendRequest

LEMMA MoveOther ==
    ASSUME TypeOK, NEW s \in Sessions, calls[s] # <<>>,
           NEW at, NEW b, MoveTo(s, at, b),
           Frame(at, Top(s).id, Top(s).method, b) \in Frames,
           Top(s).at # "SendRequest", at # "SendRequest"
    PROVE  SameRequestCalls
  <1>1. /\ DOMAIN calls'[s] = DOMAIN calls[s]
        /\ \A k \in DOMAIN calls[s] : \/ calls'[s][k] = calls[s][k]
                                       \/ /\ calls[s][k].at # "SendRequest"
                                          /\ calls'[s][k].at # "SendRequest"
    BY MoveCall DEF Top
  <1>2. \A i \in Ids : InSendRequest(s, i)' = InSendRequest(s, i)
    BY <1>1 DEF InSendRequest
  <1>3. \A t \in Sessions \ {s}, i \in Ids :
           InSendRequest(t, i)' = InSendRequest(t, i)
    BY MoveCall DEF InSendRequest
  <1> QED
    BY <1>2, <1>3 DEF SameRequestCalls

LEMMA IdSteps ==
    ASSUME TypeOK, [Next]_vars
    PROVE  \/ \E s \in Sessions, m \in Requests : SendRequestUnencodable(s, m)
           \/ \E s \in Sessions, m \in Requests : SendRequest(s, m)
           \/ \E s \in Sessions, sent \in BOOLEAN : SendRequestReturns(s, sent)
           \/ UNCHANGED <<next_request_id_, returned>> /\ SameRequestCalls
  <1>1. CASE UNCHANGED <<next_request_id_, returned, calls>>
    BY <1>1 DEF SameRequestCalls, InSendRequest
  <1>2. ASSUME NEW s \in Sessions, NEW f \in Frames, Enter(s, f),
               f.at # "SendRequest"
        PROVE  SameRequestCalls
    BY <1>2, EnterOther
  <1>3. CASE UNCHANGED vars \/ \E s \in Sessions : Configure(s)
    BY <1>1, <1>3 DEF Configure, SetSender, RegisterRequest, OnPostSend,
                      RegisterNotification, vars
  <1>4. ASSUME NEW s \in Sessions, NEW m \in Notifications, SendNotification(s, m)
        PROVE  UNCHANGED <<next_request_id_, returned>> /\ SameRequestCalls
    <2>1. /\ Frame("SendNotification", 0, m, "none") \in Frames
          /\ Frame("SendNotification", 0, m, "none").at # "SendRequest"
      BY NewFrames DEF Frame
    <2> QED
      BY <1>2, <1>4, <2>1 DEF SendNotification
  <1>5. ASSUME NEW s \in Sessions, Receive(s)
        PROVE  UNCHANGED <<next_request_id_, returned>> /\ SameRequestCalls
    <2>1. ASSUME NEW i \in Ids, NEW m \in Requests, NEW decodes \in BOOLEAN,
                 ReceiveRequest(s, i, m, decodes)
          PROVE  UNCHANGED <<next_request_id_, returned>> /\ SameRequestCalls
      <3>1. /\ Frame("Request", i, m, "none") \in Frames
            /\ Frame("Request", i, m, "none").at # "SendRequest"
        BY NewFrames DEF Frame
      <3> QED
        BY <1>2, <2>1, <3>1 DEF ReceiveRequest
    <2>2. ASSUME NEW m \in Notifications, NEW decodes \in BOOLEAN,
                 ReceiveNotification(s, m, decodes)
          PROVE  UNCHANGED <<next_request_id_, returned>> /\ SameRequestCalls
      <3>1. /\ Frame("Notification", 0, m, "none") \in Frames
            /\ Frame("Notification", 0, m, "none").at # "SendRequest"
        BY NewFrames DEF Frame
      <3> QED
        BY <1>2, <2>2, <3>1 DEF ReceiveNotification
    <2>3. ASSUME UNCHANGED <<next_request_id_, returned, calls>>
          PROVE  UNCHANGED <<next_request_id_, returned>> /\ SameRequestCalls
      BY <2>3 DEF SameRequestCalls, InSendRequest
    <2> QED
      BY <1>5, <2>1, <2>2, <2>3 DEF Receive, ReceiveResponse, ResponseRejected,
                               RequestRejected, NotificationRejected, vars
  <1>6. ASSUME NEW s \in Sessions, Return(s),
               ~ \E sent \in BOOLEAN : SendRequestReturns(s, sent)
        PROVE  UNCHANGED <<next_request_id_, returned>> /\ SameRequestCalls
    <2>1. CASE \/ SendNotificationReturns(s) \/ PostSendReturns(s)
               \/ NotificationHandlerReturns(s)
               \/ \E encodes \in BOOLEAN : RequestHandlerFails(s, encodes)
      BY <2>1, LeaveOther DEF SendNotificationReturns, PostSendReturns, InCall,
                              NotificationHandlerReturns, RequestHandlerFails
    <2>2. CASE \E b \in Bodies : RequestHandlerReturns(s, b)
      BY <2>2, MoveOther, NextFrames DEF RequestHandlerReturns, MemberKey, InCall
    <2>3. ASSUME NEW sent \in BOOLEAN, RespondReturns(s, sent)
          PROVE  UNCHANGED <<next_request_id_, returned>> /\ SameRequestCalls
      <3>1. calls[s] # <<>> /\ Top(s).at = "Respond"
        BY <2>3 DEF RespondReturns, InCall
      <3> QED
        BY <2>3, <3>1, NextFrames, MoveOther, LeaveOther DEF RespondReturns
    <2> QED
      BY <1>6, <2>1, <2>2, <2>3 DEF Return
  <1> QED
    BY <1>3, <1>4, <1>5, <1>6 DEF Next, Send
-----------------------------------------------------------------------------
(* The ids: FreshIds is not inductive alone, since a returning SendRequest *)
(* call must be known to hold an id that was handed out (OneCallPerId) and *)
(* a response to reach only such an id (HandlersMatchPromises).            *)
IdInv == HandlersMatchPromises /\ FreshIds /\ OneCallPerId

LEMMA IdInit == Init => FreshIds /\ OneCallPerId
  BY BoundsAssumption DEF Init, FirstId, FreshIds, OneCallPerId, InSendRequest

LEMMA FreshStep ==
    ASSUME TypeOK, IdInv, [Next]_vars
    PROVE  FreshIds'
  <1> USE BoundsAssumption DEF Ids
  <1>1. ASSUME NEW s \in Sessions, NEW m \in Requests,
               \/ SendRequestUnencodable(s, m)
               \/ SendRequest(s, m)
        PROVE  FreshIds'
    <2> DEFINE id == next_request_id_[s]
    <2>1. /\ id \in Ids
          /\ next_request_id_' = [next_request_id_ EXCEPT ![s] = id + 1]
      BY <1>1 DEF SendRequestUnencodable, SendRequest, SpendId
    <2>2. promise' = promise \/ promise' = [promise EXCEPT ![s][id] = "unset"]
      BY <1>1 DEF SendRequestUnencodable, SendRequest, SpendId
    <2>3. returned' = returned \/ returned' = [returned EXCEPT ![s][id] = "failure"]
      BY <1>1 DEF SendRequestUnencodable, SendRequest, SpendId
    <2>4. \A t \in Sessions, i \in Ids :
             i # id \/ t # s => promise'[t][i] = promise[t][i]
      BY <2>1, <2>2 DEF TypeOK
    <2>5. \A t \in Sessions, i \in Ids :
             i # id \/ t # s => returned'[t][i] = returned[t][i]
      BY <2>1, <2>3 DEF TypeOK
    <2> SUFFICES ASSUME NEW t \in Sessions, NEW i \in Ids, i >= next_request_id_'[t]
                 PROVE  promise'[t][i] = "none" /\ returned'[t][i] = "none"
      BY DEF FreshIds
    <2>6. i >= next_request_id_[t] /\ (i # id \/ t # s)
      BY <2>1 DEF TypeOK
    <2> QED
      BY <2>4, <2>5, <2>6 DEF IdInv, FreshIds
  <1>2. ASSUME NEW s \in Sessions, NEW sent \in BOOLEAN, SendRequestReturns(s, sent)
        PROVE  FreshIds'
    <2> DEFINE id == Top(s).id
    <2>1. calls[s] # <<>> /\ Top(s).at = "SendRequest"
      BY <1>2 DEF SendRequestReturns, InCall
    <2>2. Len(calls[s]) \in DOMAIN calls[s] /\ id \in Ids
      BY <2>1, TopFrame
    <2>3. InSendRequest(s, id) # {}
      BY <2>1, <2>2 DEF InSendRequest, Top
    <2>4. id \in 1..(next_request_id_[s] - 1)
      BY <2>2, <2>3 DEF IdInv, OneCallPerId
    <2>5. PICK r \in Returns : returned' = [returned EXCEPT ![s][id] = r]
      BY <1>2 DEF SendRequestReturns, SendResult, Returns
    <2>6. UNCHANGED <<promise, next_request_id_>>
      BY <1>2 DEF SendRequestReturns
    <2>7. \A t \in Sessions, i \in Ids :
             i # id \/ t # s => returned'[t][i] = returned[t][i]
      BY <2>5 DEF TypeOK
    <2> SUFFICES ASSUME NEW t \in Sessions, NEW i \in Ids, i >= next_request_id_[t]
                 PROVE  promise[t][i] = "none" /\ returned'[t][i] = "none"
      BY <2>6 DEF FreshIds
    <2>8. i # id \/ t # s
      BY <2>4 DEF TypeOK
    <2> QED
      BY <2>7, <2>8 DEF IdInv, FreshIds
  <1>3. CASE UNCHANGED <<next_request_id_, returned>>
    <2>1. ASSUME NEW s \in Sessions, NEW i \in Ids, NEW b \in Bodies,
                 NEW decodes \in BOOLEAN, ReceiveResponse(s, i, b, decodes)
          PROVE  FreshIds'
      <3>1. promise[s][i] = "unset"
        BY <2>1 DEF ReceiveResponse, IdInv, HandlersMatchPromises
      <3>2. \A t \in Sessions, j \in Ids :
               promise[t][j] = "none" => promise'[t][j] = "none"
        BY <2>1, <3>1 DEF ReceiveResponse, TypeOK
      <3> QED
        BY <1>3, <3>2 DEF IdInv, FreshIds
    <2>2. CASE UNCHANGED <<response_handlers_, promise>>
      BY <1>3, <2>2 DEF IdInv, FreshIds
    <2> QED
      BY <1>1, <2>1, <2>2, PromiseSteps
  <1> QED
    BY <1>1, <1>2, <1>3, IdSteps

LEMMA CallsStep ==
    ASSUME TypeOK, IdInv, [Next]_vars
    PROVE  OneCallPerId'
  <1> USE BoundsAssumption DEF Ids
  <1>1. ASSUME NEW s \in Sessions, NEW m \in Requests, SendRequestUnencodable(s, m)
        PROVE  OneCallPerId'
    <2> DEFINE id == next_request_id_[s]
    <2>1. /\ id \in Ids
          /\ next_request_id_' = [next_request_id_ EXCEPT ![s] = id + 1]
          /\ returned' = [returned EXCEPT ![s][id] = "failure"]
          /\ UNCHANGED calls
      BY <1>1 DEF SendRequestUnencodable, SpendId
    <2>2. \A t \in Sessions, i \in Ids : InSendRequest(t, i)' = InSendRequest(t, i)
      BY <2>1 DEF InSendRequest
    <2>3. \A t \in Sessions, i \in Ids :
             i \in 1..(next_request_id_'[t] - 1) /\ returned'[t][i] = "none"
             <=> i \in 1..(next_request_id_[t] - 1) /\ returned[t][i] = "none"
      BY <2>1 DEF TypeOK
    <2> QED
      BY <2>2, <2>3 DEF IdInv, OneCallPerId
  <1>2. ASSUME NEW s \in Sessions, NEW m \in Requests, SendRequest(s, m)
        PROVE  OneCallPerId'
    <2>1. PICK id \in Ids :
            /\ id = next_request_id_[s]
            /\ next_request_id_' = [next_request_id_ EXCEPT ![s] = id + 1]
      BY <1>2 DEF SendRequest, SpendId, EmplaceHandler
    <2>2. InSendRequest(s, id) = {} /\ returned[s][id] = "none"
      BY <2>1 DEF IdInv, OneCallPerId, FreshIds, TypeOK
    <2>3. CASE UNCHANGED calls /\ returned' = [returned EXCEPT ![s][id] = "failure"]
      <3>1. \A t \in Sessions, i \in Ids :
               InSendRequest(t, i)' = InSendRequest(t, i)
        BY <2>3 DEF InSendRequest
      <3>2. \A t \in Sessions, i \in Ids :
               i \in 1..(next_request_id_'[t] - 1) /\ returned'[t][i] = "none"
               <=> i \in 1..(next_request_id_[t] - 1) /\ returned[t][i] = "none"
        BY <2>1, <2>3 DEF TypeOK
      <3> QED
        BY <3>1, <3>2 DEF IdInv, OneCallPerId
    <2>4. CASE UNCHANGED returned /\ Enter(s, Frame("SendRequest", id, m, "none"))
      <3> DEFINE f == Frame("SendRequest", id, m, "none")
                 n == Len(calls[s]) + 1
      <3>1. f \in Frames /\ f.at = "SendRequest" /\ f.id = id
        BY <2>1, NewFrames DEF Frame
      <3> HIDE DEF f
      <3>2. /\ \A t \in Sessions \ {s} : calls'[t] = calls[t]
            /\ Len(calls[s]) \in Nat
            /\ DOMAIN calls[s] = 1..Len(calls[s])
            /\ DOMAIN calls'[s] = 1..n
            /\ \A k \in DOMAIN calls[s] : calls'[s][k] = calls[s][k]
            /\ calls'[s][n] = f
        BY <2>4, <3>1, EnterCall DEF f
      <3>3. \A t \in Sessions, i \in Ids :
               t # s \/ i # id => InSendRequest(t, i)' = InSendRequest(t, i)
        BY <3>1, <3>2 DEF InSendRequest
      <3>4. InSendRequest(s, id)' = {n}
        <4>1. \A k \in DOMAIN calls[s] :
                 ~ (calls[s][k].at = "SendRequest" /\ calls[s][k].id = id)
          BY <2>2 DEF InSendRequest
        <4>2. \A k \in DOMAIN calls'[s] :
                 calls'[s][k].at = "SendRequest" /\ calls'[s][k].id = id <=> k = n
          BY <3>1, <3>2, <4>1
        <4> QED
          BY <3>2, <4>2 DEF InSendRequest
      <3>5. \A t \in Sessions, i \in Ids :
               t # s \/ i # id =>
                 (i \in 1..(next_request_id_'[t] - 1) <=> i \in 1..(next_request_id_[t] - 1))
        BY <2>1 DEF TypeOK
      <3>6. id \in 1..(next_request_id_'[s] - 1) /\ returned'[s][id] = "none"
        BY <2>1, <2>2, <2>4 DEF TypeOK
      <3>7. ASSUME NEW t \in Sessions, NEW i \in Ids, t # s \/ i # id
            PROVE  /\ \A k, l \in InSendRequest(t, i)' : k = l
                   /\ InSendRequest(t, i)' # {} <=>
                         /\ i \in 1..(next_request_id_'[t] - 1)
                         /\ returned'[t][i] = "none"
        BY <2>4, <3>3, <3>5, <3>7 DEF IdInv, OneCallPerId
      <3>8. \A k, l \in InSendRequest(s, id)' : k = l
        BY <3>4
      <3>9. InSendRequest(s, id)' # {}
        BY <3>4
      <3> QED
        BY <3>6, <3>7, <3>8, <3>9 DEF OneCallPerId
    <2> QED
      BY <1>2, <2>1, <2>3, <2>4 DEF SendRequest
  <1>3. ASSUME NEW s \in Sessions, NEW sent \in BOOLEAN, SendRequestReturns(s, sent)
        PROVE  OneCallPerId'
    <2>1. calls[s] # <<>> /\ Leave(s) /\ Top(s).at = "SendRequest"
      BY <1>3 DEF SendRequestReturns, InCall
    <2>2. PICK n \in Nat \ {0}, id \in Ids :
          /\ \A t \in Sessions \ {s} : calls'[t] = calls[t]
          /\ n = Len(calls[s]) /\ id = Top(s).id
          /\ DOMAIN calls[s] = 1..n
          /\ DOMAIN calls'[s] = 1..(n - 1)
          /\ \A k \in DOMAIN calls'[s] : calls'[s][k] = calls[s][k]
      <3>1. Top(s).id \in Ids
        BY <2>1, TopFrame
      <3> QED
        BY <2>1, <3>1, LeaveCall
    <2>3. n \in InSendRequest(s, id)
      BY <2>1, <2>2 DEF InSendRequest, Top
    <2>4. id \in 1..(next_request_id_[s] - 1) /\ \A k \in InSendRequest(s, id) : k = n
      BY <2>2, <2>3 DEF IdInv, OneCallPerId
    <2>5. InSendRequest(s, id)' = {}
      <3>1. \A k \in DOMAIN calls[s] :
               calls[s][k].at = "SendRequest" /\ calls[s][k].id = id => k = n
        BY <2>4 DEF InSendRequest
      <3>2. \A k \in DOMAIN calls'[s] :
               ~ (calls'[s][k].at = "SendRequest" /\ calls'[s][k].id = id)
        BY <2>2, <3>1
      <3> QED
        BY <3>2 DEF InSendRequest
    <2>6. \A t \in Sessions, i \in Ids :
             t # s \/ i # id => InSendRequest(t, i)' = InSendRequest(t, i)
      BY <2>1, <2>2 DEF InSendRequest, Top
    <2>7. PICK r \in {"future", "failure"} : returned' = [returned EXCEPT ![s][id] = r]
      BY <1>3, <2>2 DEF SendRequestReturns, SendResult
    <2>8. /\ returned'[s][id] # "none"
          /\ \A t \in Sessions, i \in Ids :
                t # s \/ i # id => returned'[t][i] = returned[t][i]
      BY <2>4, <2>7 DEF TypeOK
    <2>9. UNCHANGED next_request_id_
      BY <1>3 DEF SendRequestReturns
    <2>10. ASSUME NEW t \in Sessions, NEW i \in Ids, t # s \/ i # id
           PROVE  /\ \A k, l \in InSendRequest(t, i)' : k = l
                  /\ InSendRequest(t, i)' # {} <=>
                        /\ i \in 1..(next_request_id_'[t] - 1)
                        /\ returned'[t][i] = "none"
      <3>1. i \in 1..(next_request_id_[t] - 1) => i \in Ids
        BY DEF TypeOK
      <3> QED
        BY <2>6, <2>8, <2>9, <2>10, <3>1 DEF IdInv, OneCallPerId
    <2> QED
      BY <2>5, <2>8, <2>10 DEF OneCallPerId
  <1>4. CASE UNCHANGED <<next_request_id_, returned>> /\ SameRequestCalls
    BY <1>4 DEF IdInv, OneCallPerId, SameRequestCalls
  <1> QED
    BY <1>1, <1>2, <1>3, <1>4, IdSteps

(* No id is used twice and none is skipped over while its call runs.       *)
THEOREM IdsCorrect == Spec => [](FreshIds /\ OneCallPerId)
  <1>1. TypeOK /\ HandlersMatchPromises /\ (FreshIds /\ OneCallPerId) /\ [Next]_vars
        => (FreshIds /\ OneCallPerId)'
    BY FreshStep, CallsStep DEF IdInv
  <1> QED
    BY IdInit, TypeCorrect, HandlersMatch, <1>1, PTL DEF Spec

(* Each id belongs to one SendRequest(), returned or suspended once.       *)
THEOREM OneCallCorrect == Spec => []OneCallPerId
  BY IdsCorrect, PTL
-----------------------------------------------------------------------------
(* What is running stays registered. *)
LEMMA AliveInit == Init => CalloutsAlive
  BY DEF Init, CalloutsAlive

(* The registrations are left alone and s calls out, returns or goes on to *)
(* the next callout of the same Receive().                                 *)
LEMMA AliveEnter ==
    ASSUME TypeOK, CalloutsAlive, NEW s \in Sessions, NEW f \in Frames, Enter(s, f),
           UNCHANGED <<sender_, request_handlers_, notification_handlers_>>,
           Alive(s, f)
    PROVE  CalloutsAlive'
  <1> USE DEF Alive
  <1>1. ASSUME NEW t \in Sessions, NEW k \in DOMAIN calls'[t]
        PROVE  \/ k \in DOMAIN calls[t] /\ calls'[t][k] = calls[t][k]
               \/ t = s /\ calls'[t][k] = f
    BY EnterCall
  <1> QED
    BY <1>1 DEF CalloutsAlive

LEMMA AliveLeave ==
    ASSUME TypeOK, CalloutsAlive, NEW s \in Sessions, calls[s] # <<>>, Leave(s),
           UNCHANGED <<sender_, request_handlers_, notification_handlers_>>
    PROVE  CalloutsAlive'
  <1>1. ASSUME NEW t \in Sessions, NEW k \in DOMAIN calls'[t]
        PROVE  k \in DOMAIN calls[t] /\ calls'[t][k] = calls[t][k]
    BY LeaveCall
  <1> QED
    BY <1>1 DEF CalloutsAlive, Alive

LEMMA AliveMove ==
    ASSUME TypeOK, CalloutsAlive, NEW s \in Sessions, calls[s] # <<>>,
           NEW at, NEW b, MoveTo(s, at, b),
           Frame(at, Top(s).id, Top(s).method, b) \in Frames,
           UNCHANGED <<sender_, request_handlers_, notification_handlers_>>,
           Top(s).at \in {"Request", "Respond"},
           \/ at = "Respond" /\ sender_[s]
           \/ at = "PostSend" /\ request_handlers_[s][Top(s).method].post_send
    PROVE  CalloutsAlive'
  <1>1. \A k \in DOMAIN calls[s] : Alive(s, calls[s][k])
    BY DEF CalloutsAlive
  <1>2. request_handlers_[s][Top(s).method].function
    BY <1>1, PopFrame, SMTT(30) DEF Alive, Top, TypeOK
  <1>3. PICK n \in Nat : n = Len(calls[s])
    BY MoveCall
  <1>4. Alive(s, calls[s][n])'
    BY <1>2, <1>3, MoveCall DEF Alive, SendingPoints
  <1>5. ASSUME NEW t \in Sessions, NEW k \in DOMAIN calls'[t], t # s \/ k # n
        PROVE  k \in DOMAIN calls[t] /\ calls'[t][k] = calls[t][k]
    BY <1>3, <1>5, MoveCall
  <1>6. ASSUME NEW t \in Sessions, NEW k \in DOMAIN calls'[t], t # s \/ k # n
        PROVE  Alive(t, calls[t][k])'
    BY <1>5, <1>6 DEF Alive, CalloutsAlive
  <1> QED
    BY <1>4, <1>6 DEF CalloutsAlive

LEMMA AliveStep ==
    ASSUME TypeOK, CalloutsAlive, [Next]_vars
    PROVE  CalloutsAlive'
  <1>1. CASE UNCHANGED <<sender_, request_handlers_, notification_handlers_, calls>>
    BY <1>1 DEF CalloutsAlive, Alive
  <1>2. ASSUME NEW s \in Sessions, NEW callable \in BOOLEAN, SetSender(s, callable)
        PROVE  CalloutsAlive'
    BY <1>2 DEF CalloutsAlive, Alive, SetSender, TypeOK
  <1>3. ASSUME NEW s \in Sessions, NEW m \in Requests, RegisterRequest(s, m)
        PROVE  CalloutsAlive'
    <2>1. \A t \in Sessions, n \in Requests :
             /\ request_handlers_[t][n].function =>
                   request_handlers_'[t][n].function
             /\ request_handlers_'[t][n].post_send =
                   request_handlers_[t][n].post_send
      BY <1>3 DEF RegisterRequest, TypeOK, Handlers
    <2> QED
      BY <1>3, <2>1 DEF CalloutsAlive, Alive, RegisterRequest
  <1>4. ASSUME NEW s \in Sessions, NEW m \in Requests, NEW callable \in BOOLEAN,
               OnPostSend(s, m, callable)
        PROVE  CalloutsAlive'
    <2>1. \A t \in Sessions, n \in Requests :
             /\ request_handlers_'[t][n].function =
                   request_handlers_[t][n].function
             /\ t # s \/ n # m => request_handlers_'[t][n].post_send =
                                   request_handlers_[t][n].post_send
      BY <1>4 DEF OnPostSend, TypeOK, Handlers
    <2>2. \A k \in DOMAIN calls[s] :
             ~ (calls[s][k].at = "PostSend" /\ calls[s][k].method = m)
      BY <1>4 DEF OnPostSend, Suspended
    <2> QED
      BY <1>4, <2>1, <2>2 DEF CalloutsAlive, Alive, OnPostSend
  <1>5. ASSUME NEW s \in Sessions, NEW m \in Notifications, RegisterNotification(s, m)
        PROVE  CalloutsAlive'
    BY <1>5 DEF CalloutsAlive, Alive, RegisterNotification, TypeOK
  <1>6. ASSUME NEW s \in Sessions, Send(s)
        PROVE  CalloutsAlive'
    <2>1. ASSUME NEW m \in Requests, SendRequest(s, m)
          PROVE  CalloutsAlive'
      <3> DEFINE f == Frame("SendRequest", next_request_id_[s], m, "none")
      <3>1. f \in Frames /\ (sender_[s] => Alive(s, f))
        BY <2>1, NewFrames DEF SendRequest, Alive, Frame, SendingPoints
      <3> QED
        BY <1>1, <2>1, <3>1, AliveEnter DEF SendRequest
    <2>2. ASSUME NEW m \in Notifications, SendNotification(s, m)
          PROVE  CalloutsAlive'
      <3> DEFINE f == Frame("SendNotification", 0, m, "none")
      <3>1. f \in Frames /\ Alive(s, f)
        BY <2>2, NewFrames DEF SendNotification, Alive, Frame, SendingPoints
      <3> QED
        BY <2>2, <3>1, AliveEnter DEF SendNotification
    <2> QED
      BY <1>1, <1>6, <2>1, <2>2 DEF Send, SendRequestUnencodable
  <1>7. ASSUME NEW s \in Sessions, Receive(s)
        PROVE  CalloutsAlive'
    <2>1. ASSUME NEW i \in Ids, NEW m \in Requests, NEW decodes \in BOOLEAN,
                 ReceiveRequest(s, i, m, decodes)
          PROVE  CalloutsAlive'
      <3> DEFINE f == Frame("Request", i, m, "none")
      <3>1. f \in Frames /\ Alive(s, f)
        BY <2>1, NewFrames DEF ReceiveRequest, Alive, Frame, SendingPoints
      <3> QED
        BY <2>1, <3>1, AliveEnter DEF ReceiveRequest
    <2>2. ASSUME NEW m \in Notifications, NEW decodes \in BOOLEAN,
                 ReceiveNotification(s, m, decodes)
          PROVE  CalloutsAlive'
      <3> DEFINE f == Frame("Notification", 0, m, "none")
      <3>1. f \in Frames /\ Alive(s, f)
        BY <2>2, NewFrames DEF ReceiveNotification, Alive, Frame, SendingPoints
      <3> QED
        BY <2>2, <3>1, AliveEnter DEF ReceiveNotification
    <2> QED
      BY <1>1, <1>7, <2>1, <2>2 DEF Receive, ReceiveResponse, ResponseRejected,
                               RequestRejected, NotificationRejected, vars
  <1>8. ASSUME NEW s \in Sessions, Return(s)
        PROVE  CalloutsAlive'
    <2>1. ASSUME NEW b \in Bodies, RequestHandlerReturns(s, b)
          PROVE  CalloutsAlive'
      BY <2>1, NextFrames, AliveMove DEF RequestHandlerReturns, MemberKey, InCall
    <2>2. ASSUME NEW sent \in BOOLEAN, RespondReturns(s, sent)
          PROVE  CalloutsAlive'
      <3>1. calls[s] # <<>> /\ Top(s).at = "Respond"
        BY <2>2 DEF RespondReturns, InCall
      <3> QED
        BY <2>2, <3>1, NextFrames, AliveMove, AliveLeave
        DEF RespondReturns, CallsPostSend
    <2>3. CASE \/ SendNotificationReturns(s) \/ PostSendReturns(s)
               \/ NotificationHandlerReturns(s)
               \/ \E encodes \in BOOLEAN : RequestHandlerFails(s, encodes)
               \/ \E sent \in BOOLEAN : SendRequestReturns(s, sent)
      <3>1. /\ calls[s] # <<>> /\ Leave(s)
            /\ UNCHANGED <<sender_, request_handlers_, notification_handlers_>>
        BY <2>3 DEF SendRequestReturns, SendNotificationReturns, InCall,
                    RequestHandlerFails, PostSendReturns, NotificationHandlerReturns
      <3> QED
        BY <3>1, AliveLeave
    <2> QED
      BY <1>8, <2>1, <2>2, <2>3 DEF Return
  <1>9. CASE UNCHANGED vars
    BY <1>1, <1>9 DEF vars
  <1> QED
    BY <1>2, <1>3, <1>4, <1>5, <1>6, <1>7, <1>8, <1>9 DEF Next, Configure

(* The function objects that Receive() and SendJson() are calling exist.   *)
THEOREM AliveCorrect == Spec => []CalloutsAlive
  <1>1. TypeOK /\ CalloutsAlive /\ [Next]_vars => CalloutsAlive'
    BY AliveStep
  <1> QED
    BY AliveInit, TypeCorrect, <1>1, PTL DEF Spec
-----------------------------------------------------------------------------
(* A promise or a returned SendRequest() call is settled for good. *)
LEMMA SettledStep ==
    ASSUME TypeOK, IdInv, [Next]_vars, NEW s \in Sessions, NEW i \in Ids
    PROVE  /\ promise[s][i] \in Bodies \cup {"broken"} =>
                 promise'[s][i] = promise[s][i]
           /\ returned[s][i] # "none" => returned'[s][i] = returned[s][i]
  <1>1. promise[s][i] \in Bodies \cup {"broken"} => promise'[s][i] = promise[s][i]
    <2>1. ASSUME NEW t \in Sessions, NEW m \in Requests, SendRequest(t, m)
          PROVE  promise'[s][i] = promise[s][i] \/ promise[s][i] = "none"
      BY <2>1, BoundsAssumption DEF SendRequest, IdInv, FreshIds, TypeOK, Ids
    <2>2. ASSUME NEW t \in Sessions, NEW j \in Ids, NEW b \in Bodies,
                 NEW decodes \in BOOLEAN, ReceiveResponse(t, j, b, decodes)
          PROVE  promise'[s][i] = promise[s][i] \/ promise[s][i] = "unset"
      BY <2>2 DEF ReceiveResponse, IdInv, HandlersMatchPromises, TypeOK
    <2> QED
      BY <2>1, <2>2, PromiseSteps DEF Bodies
  <1>2. returned[s][i] # "none" => returned'[s][i] = returned[s][i]
    <2>1. ASSUME NEW t \in Sessions, NEW m \in Requests,
                 SendRequestUnencodable(t, m) \/ SendRequest(t, m)
          PROVE  returned'[s][i] = returned[s][i] \/ returned[s][i] = "none"
      <3>1. /\ next_request_id_[t] \in Ids
            /\ \/ returned' = returned
               \/ returned' = [returned EXCEPT ![t][next_request_id_[t]] = "failure"]
        BY <2>1 DEF SendRequestUnencodable, SendRequest, SpendId
      <3>2. returned[t][next_request_id_[t]] = "none"
        BY <3>1, BoundsAssumption DEF IdInv, FreshIds, Ids
      <3>3. \/ returned'[s][i] = returned[s][i]
            \/ t = s /\ i = next_request_id_[t]
        <4>1. \A id \in Ids : \/ returned' # [returned EXCEPT ![t][id] = "failure"]
                              \/ returned'[s][i] = returned[s][i]
                              \/ t = s /\ i = id
          BY DEF TypeOK
        <4> QED
          BY <3>1, <4>1
      <3> QED
        BY <3>2, <3>3
    <2>2. ASSUME NEW t \in Sessions, NEW sent \in BOOLEAN, SendRequestReturns(t, sent)
          PROVE  returned'[s][i] = returned[s][i] \/ returned[s][i] = "none"
      <3>1. calls[t] # <<>> /\ Top(t).at = "SendRequest"
        BY <2>2 DEF SendRequestReturns, InCall
      <3>2. Len(calls[t]) \in DOMAIN calls[t] /\ Top(t).id \in Ids
        BY <3>1, TopFrame
      <3>3. InSendRequest(t, Top(t).id) # {}
        BY <3>1, <3>2 DEF InSendRequest, Top
      <3>4. returned[t][Top(t).id] = "none"
        BY <3>2, <3>3 DEF IdInv, OneCallPerId
      <3>5. PICK r : returned' = [returned EXCEPT ![t][Top(t).id] = r]
        BY <2>2 DEF SendRequestReturns
      <3> QED
        BY <3>4, <3>5 DEF TypeOK
    <2> QED
      BY <2>1, <2>2, IdSteps
  <1> QED
    BY <1>1, <1>2

(* No later message or call changes what a future or SendRequest() said.   *)
THEOREM SettledCorrect == Spec => SettledOnce
  <1>1. TypeOK /\ HandlersMatchPromises /\ (FreshIds /\ OneCallPerId) /\ [Next]_vars
        => [\A s \in Sessions, i \in Ids :
               /\ promise[s][i] \in Bodies \cup {"broken"} =>
                     promise'[s][i] = promise[s][i]
               /\ returned[s][i] # "none" => returned'[s][i] = returned[s][i]]_vars
    BY SettledStep DEF IdInv
  <1> QED
    BY TypeCorrect, HandlersMatch, IdsCorrect, <1>1, PTL DEF Spec, SettledOnce

(***************************************************************************)
(* The abstract calls, for any set of them.                                *)
(***************************************************************************)
CallInv == CallTypeOK /\ AnswerIsHandlers

LEMMA CallInvInit == CallInit => CallInv
  BY DEF CallInit, CallInv, CallTypeOK, AnswerIsHandlers, Outcomes

LEMMA CallInvStep == CallInv /\ [CallNext]_callVars => CallInv'
  <1> SUFFICES ASSUME CallInv, [CallNext]_callVars
               PROVE  CallInv'
    OBVIOUS
  <1> USE DEF CallInv, CallTypeOK, AnswerIsHandlers, Outcomes
  <1>1. ASSUME NEW c \in Calls, Ask(c)
        PROVE  CallInv'
    BY <1>1 DEF Ask
  <1>2. ASSUME NEW c \in Calls, Start(c)
        PROVE  CallInv'
    BY <1>2 DEF Start
  <1>3. ASSUME NEW c \in Calls, Finish(c)
        PROVE  CallInv'
    BY <1>3 DEF Finish
  <1>4. ASSUME NEW c \in Calls, Answer(c)
        PROVE  CallInv'
    BY <1>4 DEF Answer
  <1>5. CASE UNCHANGED callVars
    BY <1>5 DEF callVars
  <1> QED
    BY <1>1, <1>2, <1>3, <1>4, <1>5 DEF CallNext

(* A settled future reports the outcome of its own handler's run.          *)
THEOREM AnswerCorrect == CallSpec => []AnswerIsHandlers
  <1>1. CallInv => AnswerIsHandlers
    BY DEF CallInv
  <1> QED
    BY CallInvInit, CallInvStep, <1>1, PTL DEF CallSpec

(* The peer runs the handler of a request once.                            *)
THEOREM HandledOnceCorrect == CallSpec => HandledOnce
  <1>1. CallInv /\ [CallNext]_callVars
        => [\A c \in Calls : callee[c] \notin {"none", "running"} =>
                                callee'[c] = callee[c]]_callVars
    BY DEF CallInv, CallTypeOK, CallNext, Ask, Start, Finish, Answer, Outcomes, callVars
  <1> QED
    BY CallInvInit, CallInvStep, <1>1, PTL DEF CallSpec, HandledOnce

=============================================================================
