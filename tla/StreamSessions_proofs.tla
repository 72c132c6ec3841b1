------------------------ MODULE StreamSessions_proofs ------------------------
(***************************************************************************)
(* Two sessions connected by streams behave as Session allows, so all that *)
(* Session_proofs shows of one session in any environment holds of them.   *)
(* From that, and from where a request can be, follows that the pair       *)
(* implements a remote call.                                               *)
(***************************************************************************)
EXTENDS StreamSessions, Session_proofs, FiniteSetTheorems

(* What travels and what happened at the peer stays well typed. *)
WireTypeOK == wire \in [Sessions -> Seq(Messages)]

LEMMA OutgoingType ==
    ASSUME TypeOK, NEW s \in Sessions, calls[s] # <<>>, Top(s).at \in SendingPoints
    PROVE  Outgoing(s) \in Messages
  <1>1. Top(s) \in Frames
    BY TopFrame
  <1>2. CASE Top(s).at = "SendRequest"
    BY <1>1, <1>2 DEF Outgoing, Messages, Frames, RequestFrames, NotificationFrames
  <1>3. CASE Top(s).at = "SendNotification"
    BY <1>1, <1>3 DEF Outgoing, Messages, Frames, RequestFrames, NotificationFrames
  <1>4. CASE Top(s).at = "Respond"
    BY <1>1, <1>4 DEF Outgoing, Messages, Frames, RequestFrames, NotificationFrames
  <1> QED
    BY <1>2, <1>3, <1>4 DEF SendingPoints

LEMMA WireStep ==
    ASSUME TypeOK, WireTypeOK, [StreamNext]_streamVars
    PROVE  WireTypeOK'
  <1>1. CASE UNCHANGED wire
    BY <1>1 DEF WireTypeOK
  <1>2. ASSUME NEW s \in Sessions, NEW sent \in BOOLEAN, StreamSenderReturns(s, sent)
        PROVE  WireTypeOK'
    <2>1. Outgoing(s) \in Messages /\ Peer[s] \in Sessions
      BY <1>2, OutgoingType, PeerAssumption DEF StreamSenderReturns
    <2>2. Append(wire[Peer[s]], Outgoing(s)) \in Seq(Messages)
      BY <2>1 DEF WireTypeOK
    <2> QED
      BY <1>2, <2>2 DEF WireTypeOK, StreamSenderReturns
  <1>3. ASSUME NEW s \in Sessions, StreamReceive(s)
        PROVE  WireTypeOK'
    <2>1. wire[s] # <<>> /\ wire' = [wire EXCEPT ![s] = Tail(@)]
      BY <1>3 DEF StreamReceive
    <2>2. Tail(wire[s]) \in Seq(Messages)
      BY <2>1 DEF WireTypeOK
    <2> QED
      BY <2>1, <2>2 DEF WireTypeOK
  <1>4. CASE Disconnect
    BY <1>4 DEF Disconnect, WireTypeOK
  <1> QED
    BY <1>1, <1>2, <1>3, <1>4
    DEF StreamNext, StreamSetup, StreamSend, StreamHandlerReturns,
        StreamCallbackReturns, streamVars

LEMMA StreamStepSimulates ==
    ASSUME TypeOK, WireTypeOK, [StreamNext]_streamVars
    PROVE  [Next]_vars
  <1>1. CASE UNCHANGED vars
    BY <1>1
  <1>2. ASSUME NEW s \in Sessions, StreamSetup(s)
        PROVE  Next
    BY <1>2 DEF StreamSetup, Next, Configure
  <1>3. ASSUME NEW s \in Sessions, StreamSend(s)
        PROVE  Next
    BY <1>3 DEF StreamSend, Next, Send
  <1>4. ASSUME NEW s \in Sessions,
               \/ \E sent \in BOOLEAN : StreamSenderReturns(s, sent)
               \/ StreamHandlerReturns(s)
               \/ StreamCallbackReturns(s)
        PROVE  Next
    <2>1. Return(s)
      BY <1>4 DEF StreamSenderReturns, StreamHandlerReturns, StreamCallbackReturns,
                  Return
    <2> QED
      BY <2>1 DEF Next
  <1>5. ASSUME NEW s \in Sessions, StreamReceive(s)
        PROVE  [Next]_vars
    <2> DEFINE m == Head(wire[s])
    <2>1. m \in Messages
      BY <1>5 DEF StreamReceive, WireTypeOK
    <2>2. CASE m.kind = "request"
      <3>1. m.id \in Ids /\ m.method \in Requests
        BY <2>1, <2>2 DEF Messages
      <3>2. \E decodes \in BOOLEAN : \/ ReceiveRequest(s, m.id, m.method, decodes)
                                     \/ RequestRejected(s, m.method, decodes)
        BY <1>5, <2>2 DEF StreamReceive
      <3> QED
        BY <3>1, <3>2 DEF Next, Receive
    <2>3. CASE m.kind = "response"
      <3>1. m.id \in Ids /\ m.body \in Bodies
        BY <2>1, <2>3 DEF Messages, Bodies
      <3>2. \E decodes \in BOOLEAN : ReceiveResponse(s, m.id, m.body, decodes)
        BY <1>5, <2>3 DEF StreamReceive
      <3> QED
        BY <3>1, <3>2 DEF Next, Receive
    <2>4. CASE m.kind = "notification"
      <3>1. m.method \in Notifications
        BY <2>1, <2>4 DEF Messages
      <3>2. \E decodes \in BOOLEAN : \/ ReceiveNotification(s, m.method, decodes)
                                     \/ NotificationRejected(s, m.method, decodes)
        BY <1>5, <2>4 DEF StreamReceive
      <3> QED
        BY <3>1, <3>2 DEF Next, Receive
    <2> QED
      BY <2>1, <2>2, <2>3, <2>4 DEF Messages
  <1>6. CASE Disconnect
    BY <1>6 DEF Disconnect
  <1> QED
    BY <1>1, <1>2, <1>3, <1>4, <1>5, <1>6 DEF StreamNext, streamVars

(* Every step of the pair is a step of one of its sessions, or none.       *)
THEOREM StreamIsSession == StreamSpec => Spec
  <1>1. StreamInit => Init /\ TypeOK /\ WireTypeOK
    BY TypeInit DEF StreamInit, WireTypeOK
  <1>2. TypeOK /\ WireTypeOK /\ [StreamNext]_streamVars
        => [Next]_vars /\ TypeOK' /\ WireTypeOK'
    BY StreamStepSimulates, WireStep, TypeStep
  <1> QED
    BY <1>1, <1>2, PTL DEF StreamSpec, Spec

(* No promise is set twice, whatever crosses or is lost on the streams.    *)
THEOREM StreamHandlersMatch == StreamSpec => []HandlersMatchPromises
  BY StreamIsSession, HandlersMatch, PTL
-----------------------------------------------------------------------------
(***************************************************************************)
(* Where a request is.  What stands for it is a frame of its SendRequest() *)
(* call, a message on the peer's stream, a frame of the peer's Receive()   *)
(* call or a message on the stream back: an element of one of four         *)
(* sequences.                                                              *)
(***************************************************************************)
Elems(q) == {q[k] : k \in DOMAIN q}
Has(q, A) == Elems(q) \cap A
Once(q, A) == \A k, l \in DOMAIN q : q[k] \in A /\ q[l] \in A => k = l

Sending(i) == {f \in Frames : f.at = "SendRequest" /\ f.id = i}
Serving(i) == {f \in Frames : f.at \in {"Request", "Respond"} /\ f.id = i}
Asking(i) == {m \in Messages : m.kind = "request" /\ m.id = i}
Answering(i) == {m \in Messages : m.kind = "response" /\ m.id = i}

(* The rules for the elements C, O, S, B of the four sequences that stand  *)
(* for a request, with its promise pr, its response handler rh and its     *)
(* fate h.  They hold of fewer elements when they hold of more.            *)
Rules(C, O, S, B, pr, rh, h) ==
    /\ pr = "none" => h = "none"
    /\ C \cup O \cup S \cup B # {} => pr = "unset"
    /\ C # {} => O = {} /\ S = {} /\ B = {}
    /\ O # {} => S = {} /\ B = {}
    /\ S # {} => B = {}
    /\ C \cup O # {} => h = "none"
    /\ \A e \in C \cup O \cup S \cup B : e.method = rh
    /\ \A f \in S : h = IF f.at = "Request" THEN "running" ELSE f.body
    /\ \A m \in B : h = m.body

Placed(s, i) ==
    /\ Once(calls[s], Sending(i))
    /\ Once(wire[Peer[s]], Asking(i))
    /\ Once(calls[Peer[s]], Serving(i))
    /\ Once(wire[s], Answering(i))
    /\ Rules(Has(calls[s], Sending(i)), Has(wire[Peer[s]], Asking(i)),
             Has(calls[Peer[s]], Serving(i)), Has(wire[s], Answering(i)),
             promise[s][i], response_handlers_[s][i], handled[Peer[s]][i])

HandledTypeOK == handled \in [Sessions -> [Ids -> Fates]]

(* The inductive invariant, with what Session's proofs provide *)
RequestInv == HandledTypeOK /\ \A s \in Sessions, i \in Ids : Placed(s, i)
SessionInv == TypeOK /\ WireTypeOK /\ HandlersMatchPromises /\ FreshIds

-----------------------------------------------------------------------------
(* A sequence q that becomes r: by one element e more, or by one less.     *)
Less(q, r, A) == Has(r, A) \subseteq Has(q, A) /\ (Once(q, A) => Once(r, A))

Grown(q, r, e) ==
    /\ Elems(r) = Elems(q) \cup {e}
    /\ \A A : Once(q, A) /\ (e \in A => Has(q, A) = {}) => Once(r, A)

Shrunk(q, r, e) ==
    /\ e \in Elems(q)
    /\ Elems(r) \subseteq Elems(q)
    /\ \A A : Once(q, A) => Once(r, A) /\ (e \in A => Has(r, A) = {})

LEMMA AppendGrows ==
    ASSUME NEW T, NEW q \in Seq(T), NEW e \in T
    PROVE  Grown(q, Append(q, e), e)
  <1> DEFINE r == Append(q, e)
  <1>1. /\ DOMAIN q = 1..Len(q) /\ DOMAIN r = 1..(Len(q) + 1) /\ Len(q) \in Nat
        /\ r[Len(q) + 1] = e
        /\ \A k \in 1..Len(q) : r[k] = q[k]
    OBVIOUS
  <1> HIDE DEF r
  <1>2. Elems(r) = Elems(q) \cup {e}
    BY <1>1 DEF Elems
  <1>3. ASSUME NEW A, Once(q, A), e \in A => Has(q, A) = {}
        PROVE  Once(r, A)
    <2> SUFFICES ASSUME NEW k \in DOMAIN r, NEW l \in DOMAIN r, r[k] \in A, r[l] \in A
                 PROVE  k = l
      BY DEF Once
    <2>1. CASE e \in A
      <3>1. \A j \in 1..Len(q) : q[j] \notin A
        BY <1>1, <1>3, <2>1 DEF Has, Elems
      <3> QED
        BY <1>1, <3>1
    <2>2. CASE e \notin A
      BY <1>1, <1>3, <2>2 DEF Once
    <2> QED
      BY <2>1, <2>2
  <1> QED
    BY <1>2, <1>3 DEF Grown, r

LEMMA TailShrinks ==
    ASSUME NEW T, NEW q \in Seq(T), q # <<>>
    PROVE  Shrunk(q, Tail(q), Head(q))
  <1> DEFINE r == Tail(q)
  <1>1. /\ DOMAIN q = 1..Len(q) /\ DOMAIN r = 1..(Len(q) - 1) /\ Len(q) \in Nat \ {0}
        /\ Head(q) = q[1]
        /\ \A k \in 1..(Len(q) - 1) : r[k] = q[k + 1]
    OBVIOUS
  <1> HIDE DEF r
  <1>2. Head(q) \in Elems(q) /\ Elems(r) \subseteq Elems(q)
    BY <1>1 DEF Elems
  <1>3. ASSUME NEW A, Once(q, A)
        PROVE  Once(r, A) /\ (Head(q) \in A => Has(r, A) = {})
    <2>1. ASSUME NEW k \in DOMAIN r, NEW l \in DOMAIN r, r[k] \in A, r[l] \in A
          PROVE  k = l
      <3>1. k + 1 \in DOMAIN q /\ l + 1 \in DOMAIN q /\ q[k + 1] \in A /\ q[l + 1] \in A
        BY <1>1, <2>1
      <3>2. k + 1 = l + 1
        BY <1>3, <3>1 DEF Once
      <3> QED
        BY <1>1, <3>2
    <2>2. ASSUME Head(q) \in A, NEW k \in DOMAIN r, r[k] \in A
          PROVE  FALSE
      <3>1. k + 1 \in DOMAIN q /\ q[k + 1] \in A /\ 1 \in DOMAIN q /\ q[1] \in A /\ k + 1 # 1
        BY <1>1, <2>2
      <3> QED
        BY <1>3, <3>1 DEF Once
    <2> QED
      BY <2>1, <2>2 DEF Once, Has, Elems
  <1> QED
    BY <1>2, <1>3 DEF Shrunk, r

LEMMA FrontShrinks ==
    ASSUME NEW q \in Seq(Frames), q # <<>>
    PROVE  Shrunk(q, SubSeq(q, 1, Len(q) - 1), q[Len(q)])
  <1> DEFINE r == SubSeq(q, 1, Len(q) - 1)
  <1>1. /\ DOMAIN q = 1..Len(q) /\ DOMAIN r = 1..(Len(q) - 1) /\ Len(q) \in Nat \ {0}
        /\ \A k \in 1..(Len(q) - 1) : r[k] = q[k]
    BY PopFrame
  <1> HIDE DEF r
  <1>2. q[Len(q)] \in Elems(q) /\ Elems(r) \subseteq Elems(q)
    BY <1>1 DEF Elems
  <1>3. ASSUME NEW A, Once(q, A)
        PROVE  Once(r, A) /\ (q[Len(q)] \in A => Has(r, A) = {})
    <2>1. Once(r, A)
      BY <1>1, <1>3 DEF Once
    <2>2. ASSUME q[Len(q)] \in A, NEW k \in DOMAIN r, r[k] \in A
          PROVE  FALSE
      <3>1. k \in DOMAIN q /\ Len(q) \in DOMAIN q /\ q[k] \in A /\ k # Len(q)
        BY <1>1, <2>2
      <3> QED
        BY <1>3, <2>2, <3>1 DEF Once
    <2> QED
      BY <2>1, <2>2 DEF Has, Elems
  <1> QED
    BY <1>2, <1>3 DEF Shrunk, r

(* What a change means for a set that the new element is not in, and for   *)
(* one that it is in.                                                      *)
LEMMA GrownLess ==
    ASSUME NEW q, NEW r, NEW e, Grown(q, r, e), NEW A
    PROVE  /\ e \notin A => Less(q, r, A)
           /\ Has(r, A) \subseteq Has(q, A) \cup {e}
           /\ Once(q, A) /\ Has(q, A) = {} => Once(r, A)
  BY DEF Grown, Less, Has

LEMMA ShrunkLess ==
    ASSUME NEW q, NEW r, NEW e, Shrunk(q, r, e), NEW A
    PROVE  /\ Less(q, r, A)
           /\ e \in A => e \in Has(q, A)
           /\ e \in A /\ Once(q, A) => Has(r, A) = {}
  BY DEF Shrunk, Less, Has

(* An element f goes and another one, g, comes. *)
LEMMA TurnedLess ==
    ASSUME NEW q, NEW mid, NEW r, NEW f, NEW g, Shrunk(q, mid, f), Grown(mid, r, g), NEW A
    PROVE  /\ f \in Elems(q)
           /\ g \notin A => Less(q, r, A)
           /\ f \in A /\ Once(q, A) => Once(r, A) /\ Has(r, A) \subseteq {g} \cap A
  <1>1. Less(q, mid, A) /\ (f \in A /\ Once(q, A) => Has(mid, A) = {})
    BY ShrunkLess
  <1>2. /\ g \notin A => Less(mid, r, A)
        /\ Has(r, A) \subseteq (Has(mid, A) \cup {g}) \cap A
        /\ Once(mid, A) /\ Has(mid, A) = {} => Once(r, A)
    BY GrownLess DEF Has
  <1> QED
    BY <1>1, <1>2 DEF Less, Shrunk

LEMMA SameLess == \A q, A : Less(q, q, A)
  BY DEF Less

-----------------------------------------------------------------------------
(* The same of the stacks and the streams                                  *)
LEMMA EnterGrows ==
    ASSUME TypeOK, NEW s \in Sessions, NEW f \in Frames, Enter(s, f)
    PROVE  Grown(calls[s], calls'[s], f) /\ \A u \in Sessions \ {s} : calls'[u] = calls[u]
  <1>1. calls[s] \in Seq(Frames) /\ calls' = [calls EXCEPT ![s] = Append(@, f)]
    BY DEF TypeOK, Enter
  <1>2. calls'[s] = Append(calls[s], f) /\ \A u \in Sessions \ {s} : calls'[u] = calls[u]
    BY <1>1 DEF TypeOK
  <1> QED
    BY <1>1, <1>2, AppendGrows

LEMMA LeaveShrinks ==
    ASSUME TypeOK, NEW s \in Sessions, calls[s] # <<>>, Leave(s)
    PROVE  Shrunk(calls[s], calls'[s], Top(s)) /\ \A u \in Sessions \ {s} : calls'[u] = calls[u]
  <1>1. calls[s] \in Seq(Frames) /\ calls' = [calls EXCEPT ![s] = SubSeq(@, 1, Len(@) - 1)]
    BY DEF TypeOK, Leave
  <1>2. /\ calls'[s] = SubSeq(calls[s], 1, Len(calls[s]) - 1)
        /\ \A u \in Sessions \ {s} : calls'[u] = calls[u]
    BY <1>1 DEF TypeOK
  <1> QED
    BY <1>1, <1>2, FrontShrinks DEF Top

LEMMA MoveTurns ==
    ASSUME TypeOK, NEW s \in Sessions, calls[s] # <<>>, NEW at, NEW b, MoveTo(s, at, b),
           Frame(at, Top(s).id, Top(s).method, b) \in Frames
    PROVE  /\ \E mid : /\ Shrunk(calls[s], mid, Top(s))
                       /\ Grown(mid, calls'[s], Frame(at, Top(s).id, Top(s).method, b))
           /\ \A u \in Sessions \ {s} : calls'[u] = calls[u]
  <1> DEFINE q == calls[s]
             f == Frame(at, Top(s).id, Top(s).method, b)
             mid == SubSeq(q, 1, Len(q) - 1)
  <1>1. q \in Seq(Frames) /\ f \in Frames
    BY DEF TypeOK
  <1>2. calls' = [calls EXCEPT ![s] = [q EXCEPT ![Len(q)] = f]]
    BY DEF TypeOK, MoveTo
  <1>3. /\ calls'[s] = [q EXCEPT ![Len(q)] = f]
        /\ \A u \in Sessions \ {s} : calls'[u] = calls[u]
    BY <1>2 DEF TypeOK
  <1>4. mid \in Seq(Frames) /\ Len(q) \in Nat \ {0} /\ Len(mid) = Len(q) - 1
        /\ \A k \in 1..(Len(q) - 1) : mid[k] = q[k]
    BY <1>1, PopFrame
  <1> HIDE DEF f
  <1>5. [q EXCEPT ![Len(q)] = f] = Append(mid, f)
    <2> DEFINE r == [q EXCEPT ![Len(q)] = f]
               a == Append(mid, f)
    <2>1. /\ r \in Seq(Frames) /\ Len(r) = Len(q) /\ r[Len(q)] = f
          /\ \A k \in 1..(Len(q) - 1) : r[k] = q[k]
      BY <1>1, MoveFrame
    <2> HIDE DEF mid
    <2>2. /\ a \in Seq(Frames) /\ Len(a) = Len(q) /\ a[Len(q)] = f
          /\ \A k \in 1..(Len(q) - 1) : a[k] = q[k]
      BY <1>1, <1>4
    <2>3. \A k \in 1..Len(q) : r[k] = a[k]
      BY <1>4, <2>1, <2>2
    <2> HIDE DEF r, a
    <2>4. r = a
      BY <2>1, <2>2, <2>3
    <2> QED
      BY <2>4 DEF r, a
  <1>6. Shrunk(q, mid, Top(s))
    BY <1>1, FrontShrinks DEF Top
  <1>7. Grown(mid, Append(mid, f), f)
    BY <1>1, <1>4, AppendGrows
  <1> QED
    BY <1>3, <1>5, <1>6, <1>7 DEF f

LEMMA PutGrows ==
    ASSUME WireTypeOK, NEW u \in Sessions, NEW m \in Messages,
           wire' = [wire EXCEPT ![u] = Append(@, m)]
    PROVE  Grown(wire[u], wire'[u], m) /\ \A s \in Sessions \ {u} : wire'[s] = wire[s]
  <1>1. /\ wire[u] \in Seq(Messages) /\ wire'[u] = Append(wire[u], m)
        /\ \A s \in Sessions \ {u} : wire'[s] = wire[s]
    BY DEF WireTypeOK
  <1> QED
    BY <1>1, AppendGrows

LEMMA TakeShrinks ==
    ASSUME WireTypeOK, NEW u \in Sessions, wire[u] # <<>>, wire' = [wire EXCEPT ![u] = Tail(@)]
    PROVE  Shrunk(wire[u], wire'[u], Head(wire[u])) /\ \A s \in Sessions \ {u} : wire'[s] = wire[s]
  <1>1. /\ wire[u] \in Seq(Messages) /\ wire'[u] = Tail(wire[u])
        /\ \A s \in Sessions \ {u} : wire'[s] = wire[s]
    BY DEF WireTypeOK
  <1> QED
    BY <1>1, TailShrinks

LEMMA Peers ==
    \A s \in Sessions : Peer[s] \in Sessions /\ Peer[s] # s /\ Peer[Peer[s]] = s
  BY PeerAssumption

-----------------------------------------------------------------------------
(* A step that adds nothing to where a request is, nor changes what the    *)
(* two sessions know of it, keeps its rules.                               *)
CallsLess(s, i) ==
    Less(calls[s], calls'[s], Sending(i)) /\ Less(calls[s], calls'[s], Serving(i))
WireLess(s, i) ==
    Less(wire[s], wire'[s], Asking(i)) /\ Less(wire[s], wire'[s], Answering(i))
KnowsSame(s, i) ==
    /\ promise'[s][i] = promise[s][i]
    /\ response_handlers_'[s][i] = response_handlers_[s][i]
    /\ handled'[Peer[s]][i] = handled[Peer[s]][i]

LEMMA FewerRules ==
    ASSUME NEW C, NEW O, NEW S, NEW B, NEW pr, NEW rh, NEW h, Rules(C, O, S, B, pr, rh, h),
           NEW C2 \in SUBSET C, NEW O2 \in SUBSET O, NEW S2 \in SUBSET S, NEW B2 \in SUBSET B
    PROVE  Rules(C2, O2, S2, B2, pr, rh, h)
  BY DEF Rules

LEMMA LessPlaced ==
    ASSUME NEW s \in Sessions, NEW i \in Ids, Placed(s, i), KnowsSame(s, i),
           Less(calls[s], calls'[s], Sending(i)),
           Less(wire[Peer[s]], wire'[Peer[s]], Asking(i)),
           Less(calls[Peer[s]], calls'[Peer[s]], Serving(i)),
           Less(wire[s], wire'[s], Answering(i))
    PROVE  Placed(s, i)'
  <1>1. Rules(Has(calls'[s], Sending(i)), Has(wire'[Peer[s]], Asking(i)),
              Has(calls'[Peer[s]], Serving(i)), Has(wire'[s], Answering(i)),
              promise[s][i], response_handlers_[s][i], handled[Peer[s]][i])
    BY FewerRules DEF Placed, Less
  <1> QED
    BY <1>1 DEF Placed, Less, KnowsSame, Has, Elems, Once, Sending, Serving, Asking, Answering

(* The steps that concern no request *)
LEMMA Quiet ==
    ASSUME RequestInv, UNCHANGED <<promise, response_handlers_, handled>>,
           \A s \in Sessions, i \in Ids : CallsLess(s, i) /\ WireLess(s, i)
    PROVE  RequestInv'
  <1>1. ASSUME NEW s \in Sessions, NEW i \in Ids
        PROVE  Placed(s, i)'
    BY LessPlaced, Peers DEF RequestInv, KnowsSame, CallsLess, WireLess
  <1> QED
    BY <1>1 DEF RequestInv, HandledTypeOK

LEMMA PlacedThen ==
    ASSUME NEW s \in Sessions, NEW i \in Ids,
           Once(calls'[s], Sending(i)), Once(wire'[Peer[s]], Asking(i)),
           Once(calls'[Peer[s]], Serving(i)), Once(wire'[s], Answering(i)),
           Rules(Has(calls'[s], Sending(i)), Has(wire'[Peer[s]], Asking(i)),
                 Has(calls'[Peer[s]], Serving(i)), Has(wire'[s], Answering(i)),
                 promise'[s][i], response_handlers_'[s][i], handled'[Peer[s]][i])
    PROVE  Placed(s, i)'
  BY DEF Placed, Has, Elems, Once, Sending, Serving, Asking, Answering

LEMMA StillLess ==
    /\ UNCHANGED calls => \A s \in Sessions, i \in Ids : CallsLess(s, i)
    /\ UNCHANGED wire => \A s \in Sessions, i \in Ids : WireLess(s, i)
  BY SameLess DEF CallsLess, WireLess

LEMMA GrownCallsLess ==
    ASSUME NEW t \in Sessions, NEW f \in Frames, Grown(calls[t], calls'[t], f),
           \A u \in Sessions \ {t} : calls'[u] = calls[u],
           NEW s \in Sessions, NEW i \in Ids,
           s # t \/ (f \notin Sending(i) /\ f \notin Serving(i))
    PROVE  CallsLess(s, i)
  BY SameLess, GrownLess DEF CallsLess

LEMMA ShrunkCallsLess ==
    ASSUME NEW t \in Sessions, NEW f, Shrunk(calls[t], calls'[t], f),
           \A u \in Sessions \ {t} : calls'[u] = calls[u],
           NEW s \in Sessions, NEW i \in Ids
    PROVE  CallsLess(s, i)
  BY SameLess, ShrunkLess DEF CallsLess

LEMMA GrownWireLess ==
    ASSUME NEW t \in Sessions, NEW m \in Messages, Grown(wire[t], wire'[t], m),
           \A u \in Sessions \ {t} : wire'[u] = wire[u],
           NEW s \in Sessions, NEW i \in Ids,
           s # t \/ (m \notin Asking(i) /\ m \notin Answering(i))
    PROVE  WireLess(s, i)
  BY SameLess, GrownLess DEF WireLess

LEMMA ShrunkWireLess ==
    ASSUME NEW t \in Sessions, NEW m, Shrunk(wire[t], wire'[t], m),
           \A u \in Sessions \ {t} : wire'[u] = wire[u],
           NEW s \in Sessions, NEW i \in Ids
    PROVE  WireLess(s, i)
  BY SameLess, ShrunkLess DEF WireLess

-----------------------------------------------------------------------------
(* The actions, one by one *)

(* The request is not in any of the four places before its call. *)
LEMMA RequestSent ==
    ASSUME SessionInv, RequestInv, NEW t \in Sessions, NEW m \in Requests,
           SendRequest(t, m), UNCHANGED <<wire, handled>>
    PROVE  /\ RequestInv'
           /\ \E i \in Ids : /\ promise[t][i] = "none"
                            /\ promise' = [promise EXCEPT ![t][i] = "unset"]
  <1>1. PICK id \in Ids :
          /\ id = next_request_id_[t] /\ promise[t][id] = "none"
          /\ promise' = [promise EXCEPT ![t][id] = "unset"]
          /\ response_handlers_' = [response_handlers_ EXCEPT ![t][id] = m]
    <2> DEFINE n == next_request_id_[t]
    <2>1. /\ n \in Ids
          /\ promise' = [promise EXCEPT ![t][n] = "unset"]
          /\ response_handlers_' = [response_handlers_ EXCEPT ![t][n] = m]
      BY DEF SendRequest, EmplaceHandler
    <2>2. promise[t][n] = "none"
      BY <2>1, BoundsAssumption DEF SessionInv, FreshIds, Ids
    <2> QED
      BY <2>1, <2>2
  <1> DEFINE f == Frame("SendRequest", id, m, "none")
  <1>2. f \in Frames /\ f.at = "SendRequest" /\ f.id = id /\ f.method = m
    BY NewFrames DEF Frame
  <1>3. \/ UNCHANGED calls
        \/ Grown(calls[t], calls'[t], f) /\ \A u \in Sessions \ {t} : calls'[u] = calls[u]
    <2>1. UNCHANGED calls \/ Enter(t, f)
      BY <1>1 DEF SendRequest
    <2> QED
      BY <1>2, <2>1, EnterGrows DEF SessionInv
  <1>4. /\ promise'[t][id] = "unset" /\ response_handlers_'[t][id] = m
        /\ \A s \in Sessions, i \in Ids : s # t \/ i # id =>
              promise'[s][i] = promise[s][i] /\ response_handlers_'[s][i] = response_handlers_[s][i]
    BY <1>1 DEF SessionInv, TypeOK
  <1> HIDE DEF f
  <1>5. \A i \in Ids : f \notin Serving(i) /\ (i # id => f \notin Sending(i))
    BY <1>2 DEF Serving, Sending
  <1>6. ASSUME NEW s \in Sessions, NEW i \in Ids, s # t \/ i # id
        PROVE  Placed(s, i)'
    <2>1. /\ Less(calls[s], calls'[s], Sending(i))
          /\ Less(calls[Peer[s]], calls'[Peer[s]], Serving(i))
      BY <1>2, <1>3, <1>5, <1>6, SameLess, GrownLess, Peers
    <2> QED
      BY <1>4, <1>6, <2>1, SameLess, LessPlaced DEF RequestInv, KnowsSame
  <1>7. Placed(t, id)'
    <2>1. /\ Once(calls[t], Sending(id)) /\ Once(wire[Peer[t]], Asking(id))
          /\ Once(calls[Peer[t]], Serving(id)) /\ Once(wire[t], Answering(id))
          /\ Rules(Has(calls[t], Sending(id)), Has(wire[Peer[t]], Asking(id)),
                   Has(calls[Peer[t]], Serving(id)), Has(wire[t], Answering(id)),
                   promise[t][id], response_handlers_[t][id], handled[Peer[t]][id])
      BY <1>1 DEF RequestInv, Placed
    <2>2. /\ Has(calls[t], Sending(id)) = {} /\ Has(wire[Peer[t]], Asking(id)) = {}
          /\ Has(calls[Peer[t]], Serving(id)) = {} /\ Has(wire[t], Answering(id)) = {}
          /\ handled[Peer[t]][id] = "none"
      BY <1>1, <2>1 DEF Rules
    <2>3. calls'[Peer[t]] = calls[Peer[t]] /\ wire' = wire /\ handled' = handled
      BY <1>3, Peers
    <2>4. Once(calls'[t], Sending(id)) /\ Has(calls'[t], Sending(id)) \subseteq {f}
      BY <1>3, <2>1, <2>2, GrownLess
    <2>5. Rules(Has(calls'[t], Sending(id)), {}, {}, {}, "unset", m, "none")
      BY <1>2, <2>4 DEF Rules
    <2>6. Rules(Has(calls'[t], Sending(id)), Has(wire'[Peer[t]], Asking(id)),
                Has(calls'[Peer[t]], Serving(id)), Has(wire'[t], Answering(id)),
                promise'[t][id], response_handlers_'[t][id], handled'[Peer[t]][id])
      BY <1>4, <2>2, <2>3, <2>5
    <2> QED
      BY <2>1, <2>3, <2>4, <2>6, PlacedThen
  <1> QED
    BY <1>1, <1>6, <1>7 DEF RequestInv, HandledTypeOK

(* The request goes from its call to the stream, or is lost. *)
LEMMA RequestWritten ==
    ASSUME SessionInv, RequestInv, NEW t \in Sessions, NEW sent \in BOOLEAN,
           StreamSenderReturns(t, sent), SendRequestReturns(t, sent)
    PROVE  RequestInv'
  <1> DEFINE f == Top(t)
             m == Outgoing(t)
  <1>1. PICK i0 \in Ids :
          /\ calls[t] # <<>> /\ f.at = "SendRequest" /\ f \in Frames /\ f.id = i0
          /\ UNCHANGED <<promise, response_handlers_, handled>>
    BY TopFrame DEF SendRequestReturns, InCall, StreamSenderReturns, SessionInv
  <1>2. m \in Messages /\ m.kind = "request" /\ m.id = i0 /\ m.method = f.method
    BY <1>1, OutgoingType DEF Outgoing, SessionInv, SendingPoints
  <1>3. Shrunk(calls[t], calls'[t], f) /\ \A u \in Sessions \ {t} : calls'[u] = calls[u]
    BY <1>1, LeaveShrinks DEF SendRequestReturns, SessionInv
  <1>4. \/ UNCHANGED wire
        \/ /\ Grown(wire[Peer[t]], wire'[Peer[t]], m)
           /\ \A u \in Sessions \ {Peer[t]} : wire'[u] = wire[u]
    BY <1>2, PutGrows, Peers DEF StreamSenderReturns, SessionInv
  <1> HIDE DEF f, m
  <1>5. f \in Sending(i0) /\ \A i \in Ids : m \notin Answering(i) /\ (i # i0 => m \notin Asking(i))
    BY <1>1, <1>2 DEF Sending, Asking, Answering
  <1>6. ASSUME NEW s \in Sessions, NEW i \in Ids, s # t \/ i # i0
        PROVE  Placed(s, i)'
    <2>1. /\ Less(calls[s], calls'[s], Sending(i))
          /\ Less(calls[Peer[s]], calls'[Peer[s]], Serving(i))
      BY <1>3, ShrunkCallsLess, Peers DEF CallsLess
    <2>2. /\ Less(wire[Peer[s]], wire'[Peer[s]], Asking(i))
          /\ Less(wire[s], wire'[s], Answering(i))
      BY <1>4, <1>5, <1>6, SameLess, GrownLess, Peers
    <2> QED
      BY <1>1, <2>1, <2>2, LessPlaced DEF RequestInv, KnowsSame
  <1>7. Placed(t, i0)'
    <2> DEFINE p == Peer[t]
    <2>1. /\ Once(calls[t], Sending(i0)) /\ Once(wire[p], Asking(i0))
          /\ Once(calls[p], Serving(i0)) /\ Once(wire[t], Answering(i0))
          /\ Rules(Has(calls[t], Sending(i0)), Has(wire[p], Asking(i0)),
                   Has(calls[p], Serving(i0)), Has(wire[t], Answering(i0)),
                   promise[t][i0], response_handlers_[t][i0], handled[p][i0])
      BY <1>1 DEF RequestInv, Placed
    <2>2. f \in Has(calls[t], Sending(i0))
      BY <1>3, <1>5, ShrunkLess
    <2>3. /\ Has(wire[p], Asking(i0)) = {} /\ Has(calls[p], Serving(i0)) = {}
          /\ Has(wire[t], Answering(i0)) = {}
          /\ promise[t][i0] = "unset" /\ handled[p][i0] = "none"
          /\ f.method = response_handlers_[t][i0]
      BY <2>1, <2>2 DEF Rules
    <2>4. calls'[p] = calls[p] /\ wire'[t] = wire[t]
      BY <1>3, <1>4, Peers
    <2>5. Has(calls'[t], Sending(i0)) = {} /\ Once(calls'[t], Sending(i0))
      BY <1>3, <1>5, <2>1, ShrunkLess DEF Less
    <2>6. Has(wire'[p], Asking(i0)) \subseteq {m} /\ Once(wire'[p], Asking(i0))
      BY <1>4, <2>1, <2>3, GrownLess
    <2>7. Rules({}, Has(wire'[p], Asking(i0)), {}, {}, "unset", response_handlers_[t][i0], "none")
      BY <1>2, <2>3, <2>6 DEF Rules
    <2>8. Rules(Has(calls'[t], Sending(i0)), Has(wire'[p], Asking(i0)),
                Has(calls'[p], Serving(i0)), Has(wire'[t], Answering(i0)),
                promise'[t][i0], response_handlers_'[t][i0], handled'[p][i0])
      BY <1>1, <2>3, <2>4, <2>5, <2>7
    <2> QED
      BY <2>1, <2>4, <2>5, <2>6, <2>8, PlacedThen
  <1> QED
    BY <1>1, <1>6, <1>7 DEF RequestInv, HandledTypeOK

(* The response goes from its call to the stream back, or is lost. *)
LEMMA ResponseWritten ==
    ASSUME SessionInv, RequestInv, NEW t \in Sessions, NEW sent \in BOOLEAN,
           StreamSenderReturns(t, sent), RespondReturns(t, sent)
    PROVE  RequestInv'
  <1> DEFINE f == Top(t)
             m == Outgoing(t)
             c == Peer[t]
  <1>1. PICK i0 \in Ids :
          /\ calls[t] # <<>> /\ f.at = "Respond" /\ f \in Frames /\ f.id = i0
          /\ UNCHANGED <<promise, response_handlers_, handled>>
    BY TopFrame DEF RespondReturns, InCall, StreamSenderReturns, SessionInv
  <1>2. m \in Messages /\ m.kind = "response" /\ m.id = i0 /\ m.method = f.method /\ m.body = f.body
    BY <1>1, OutgoingType DEF Outgoing, SessionInv, SendingPoints
  <1>3. /\ \A u \in Sessions \ {t} : calls'[u] = calls[u]
        /\ \A A : Frame("PostSend", f.id, f.method, f.body) \notin A =>
                     /\ Less(calls[t], calls'[t], A)
                     /\ f \in A => f \in Has(calls[t], A)
                     /\ f \in A /\ Once(calls[t], A) => Has(calls'[t], A) = {}
    <2>1. CASE Leave(t)
      <3>1. Shrunk(calls[t], calls'[t], f) /\ \A u \in Sessions \ {t} : calls'[u] = calls[u]
        BY <1>1, <2>1, LeaveShrinks DEF SessionInv
      <3> HIDE DEF f
      <3> QED
        BY <3>1, ShrunkLess
    <2>2. CASE MoveTo(t, "PostSend", f.body)
      <3> DEFINE g == Frame("PostSend", f.id, f.method, f.body)
      <3>1. g \in Frames
        BY <1>1, NextFrames DEF SessionInv
      <3>2. /\ \E mid : Shrunk(calls[t], mid, f) /\ Grown(mid, calls'[t], g)
            /\ \A u \in Sessions \ {t} : calls'[u] = calls[u]
        BY <1>1, <2>2, <3>1, MoveTurns DEF SessionInv
      <3> HIDE DEF g, f
      <3>3. PICK mid : Shrunk(calls[t], mid, f) /\ Grown(mid, calls'[t], g)
        BY <3>2
      <3>4. ASSUME NEW A, g \notin A
            PROVE  /\ Less(calls[t], calls'[t], A)
                   /\ f \in A => f \in Has(calls[t], A)
                   /\ f \in A /\ Once(calls[t], A) => Has(calls'[t], A) = {}
        BY <3>3, <3>4, TurnedLess DEF Has
      <3> QED
        BY <3>2, <3>4 DEF g
    <2> QED
      BY <2>1, <2>2 DEF RespondReturns
  <1>4. \/ UNCHANGED wire
        \/ Grown(wire[c], wire'[c], m) /\ \A u \in Sessions \ {c} : wire'[u] = wire[u]
    BY <1>2, PutGrows, Peers DEF StreamSenderReturns, SessionInv
  <1>5. \A i \in Ids : /\ Frame("PostSend", f.id, f.method, f.body) \notin Sending(i) \cup Serving(i)
                       /\ m \notin Asking(i) /\ (i # i0 => m \notin Answering(i))
    BY <1>2 DEF Sending, Serving, Asking, Answering, Frame
  <1>6. f \in Serving(i0)
    BY <1>1 DEF Serving
  <1> HIDE DEF f, m
  <1>7. ASSUME NEW s \in Sessions, NEW i \in Ids, s # c \/ i # i0
        PROVE  Placed(s, i)'
    <2>1. /\ Less(calls[s], calls'[s], Sending(i))
          /\ Less(calls[Peer[s]], calls'[Peer[s]], Serving(i))
      BY <1>3, <1>5, SameLess, Peers
    <2>2. /\ Less(wire[Peer[s]], wire'[Peer[s]], Asking(i))
          /\ Less(wire[s], wire'[s], Answering(i))
      BY <1>4, <1>5, <1>7, SameLess, GrownLess, Peers
    <2> QED
      BY <1>1, <2>1, <2>2, LessPlaced DEF RequestInv, KnowsSame
  <1>8. Placed(c, i0)'
    <2>1. c \in Sessions /\ Peer[c] = t /\ c # t
      BY Peers
    <2>2. /\ Once(calls[c], Sending(i0)) /\ Once(wire[t], Asking(i0))
          /\ Once(calls[t], Serving(i0)) /\ Once(wire[c], Answering(i0))
          /\ Rules(Has(calls[c], Sending(i0)), Has(wire[t], Asking(i0)),
                   Has(calls[t], Serving(i0)), Has(wire[c], Answering(i0)),
                   promise[c][i0], response_handlers_[c][i0], handled[t][i0])
      BY <2>1 DEF RequestInv, Placed
    <2>3. f \in Has(calls[t], Serving(i0))
      BY <1>3, <1>5, <1>6
    <2>4. /\ Has(calls[c], Sending(i0)) = {} /\ Has(wire[t], Asking(i0)) = {}
          /\ Has(wire[c], Answering(i0)) = {}
          /\ promise[c][i0] = "unset" /\ handled[t][i0] = f.body
          /\ f.method = response_handlers_[c][i0]
      BY <1>1, <2>2, <2>3 DEF Rules
    <2>5. calls'[c] = calls[c] /\ wire'[t] = wire[t]
      BY <1>3, <1>4, <2>1
    <2>6. Has(calls'[t], Serving(i0)) = {} /\ Once(calls'[t], Serving(i0))
      BY <1>3, <1>5, <1>6, <2>2 DEF Less
    <2>7. Has(wire'[c], Answering(i0)) \subseteq {m} /\ Once(wire'[c], Answering(i0))
      BY <1>4, <2>2, <2>4, GrownLess
    <2>8. Rules({}, {}, {}, Has(wire'[c], Answering(i0)),
                "unset", response_handlers_[c][i0], f.body)
      BY <1>2, <2>4, <2>7 DEF Rules
    <2>9. Rules(Has(calls'[c], Sending(i0)), Has(wire'[t], Asking(i0)),
                Has(calls'[t], Serving(i0)), Has(wire'[c], Answering(i0)),
                promise'[c][i0], response_handlers_'[c][i0], handled'[t][i0])
      BY <1>1, <2>4, <2>5, <2>6, <2>8
    <2> QED
      BY <2>1, <2>2, <2>5, <2>6, <2>7, <2>9, PlacedThen
  <1> QED
    BY <1>1, <1>7, <1>8 DEF RequestInv, HandledTypeOK

(* What a handled request is known to be while its handler runs *)
LEMMA Serves ==
    ASSUME RequestInv, NEW t \in Sessions, NEW i \in Ids, NEW f, f \in Has(calls[t], Serving(i))
    PROVE  /\ Once(calls[t], Serving(i))
           /\ Has(calls[Peer[t]], Sending(i)) = {} /\ Has(wire[t], Asking(i)) = {}
           /\ Has(wire[Peer[t]], Answering(i)) = {}
           /\ promise[Peer[t]][i] = "unset"
           /\ handled[t][i] = IF f.at = "Request" THEN "running" ELSE f.body
           /\ f.method = response_handlers_[Peer[t]][i]
  <1>1. Placed(Peer[t], i) /\ Peer[Peer[t]] = t
    BY Peers DEF RequestInv
  <1> QED
    BY <1>1 DEF Placed, Rules

(* At most g stands where f stood on the stack of t. *)
Replaced(t, f, g) ==
    \A A :
        /\ f \in A => f \in Has(calls[t], A)
        /\ g \notin A => Less(calls[t], calls'[t], A)
        /\ f \in A /\ Once(calls[t], A) =>
              Once(calls'[t], A) /\ Has(calls'[t], A) \subseteq {g} \cap A

(* The handler returns, and Receive() sends its outcome or fails. *)
LEMMA HandlerReturned ==
    ASSUME SessionInv, RequestInv, NEW t \in Sessions, StreamHandlerReturns(t)
    PROVE  /\ RequestInv'
           /\ \E i \in Ids :
                /\ handled[t][i] = "running"
                /\ \E fate \in Bodies \cup {"failed"} : Handled(t, i, fate)
                /\ UNCHANGED promise
  <1> DEFINE f == Top(t)
             c == Peer[t]
  <1>1. PICK i0 \in Ids :
          /\ calls[t] # <<>> /\ f.at = "Request" /\ f \in Frames /\ f.id = i0
          /\ UNCHANGED <<promise, response_handlers_, wire>>
          /\ \/ \E b \in Bodies : MoveTo(t, "Respond", b) /\ Handled(t, i0, b)
             \/ Leave(t) /\ Handled(t, i0, "failed")
    BY TopFrame DEF StreamHandlerReturns, RequestHandlerReturns, RequestHandlerFails, InCall,
                    MemberKey, SessionInv
  <1> DEFINE Outcome(h, g) ==
               /\ Handled(t, i0, h)
               /\ g.at \notin {"SendRequest", "Request"}
               /\ g.method = f.method /\ g.id = i0
               /\ g.at = "Respond" => g.body = h
               /\ \A u \in Sessions \ {t} : calls'[u] = calls[u]
               /\ Replaced(t, f, g)
  <1>2. PICK h \in Bodies \cup {"failed"}, g \in Frames : Outcome(h, g)
    <2>1. ASSUME NEW b \in Bodies, MoveTo(t, "Respond", b), Handled(t, i0, b)
          PROVE  \E h \in Bodies \cup {"failed"}, g \in Frames : Outcome(h, g)
      <3> DEFINE g == Frame("Respond", f.id, f.method, b)
      <3>1. /\ g \in Frames /\ g.at = "Respond" /\ g.method = f.method /\ g.id = i0 /\ g.body = b
            /\ \E mid : Shrunk(calls[t], mid, f) /\ Grown(mid, calls'[t], g)
            /\ \A u \in Sessions \ {t} : calls'[u] = calls[u]
        BY <1>1, <2>1, NextFrames, MoveTurns DEF SessionInv, Frame
      <3> HIDE DEF f, g
      <3>2. PICK mid : Shrunk(calls[t], mid, f) /\ Grown(mid, calls'[t], g)
        BY <3>1
      <3>3. Replaced(t, f, g)
        BY <3>2, TurnedLess DEF Has, Replaced
      <3> QED
        BY <2>1, <3>1, <3>3
    <2>2. ASSUME Leave(t), Handled(t, i0, "failed")
          PROVE  \E h \in Bodies \cup {"failed"}, g \in Frames : Outcome(h, g)
      <3> DEFINE g == Frame("PostSend", f.id, f.method, "result")
      <3>1. /\ g \in Frames /\ g.at = "PostSend" /\ g.method = f.method /\ g.id = i0
        BY <1>1, TopFrame DEF SessionInv, Frame, Frames, RequestFrames, Bodies
      <3>2. Shrunk(calls[t], calls'[t], f) /\ \A u \in Sessions \ {t} : calls'[u] = calls[u]
        BY <1>1, <2>2, LeaveShrinks DEF SessionInv
      <3> HIDE DEF f, g
      <3>3. Replaced(t, f, g)
        BY <3>2, ShrunkLess DEF Less, Replaced
      <3> QED
        BY <2>2, <3>1, <3>2, <3>3
    <2> QED
      BY <1>1, <2>1, <2>2
  <1>3. /\ handled'[t][i0] = h
        /\ \A u \in Sessions, i \in Ids : u # t \/ i # i0 => handled'[u][i] = handled[u][i]
        /\ HandledTypeOK'
    BY <1>2 DEF Handled, RequestInv, HandledTypeOK, Fates
  <1>4. f \in Serving(i0) /\ \A i \in Ids : g \notin Sending(i) /\ (i # i0 => g \notin Serving(i))
    BY <1>1, <1>2 DEF Sending, Serving
  <1> HIDE DEF f
  <1>5. /\ f \in Has(calls[t], Serving(i0))
        /\ Has(calls[c], Sending(i0)) = {} /\ Has(wire[t], Asking(i0)) = {}
        /\ Has(wire[c], Answering(i0)) = {}
        /\ promise[c][i0] = "unset" /\ handled[t][i0] = "running"
        /\ f.method = response_handlers_[c][i0]
    <2>1. f.at = "Request" /\ (f \in Serving(i0) => f \in Has(calls[t], Serving(i0)))
      BY <1>1, <1>2 DEF Replaced
    <2> QED
      BY <1>4, <2>1, Serves
  <1>6. ASSUME NEW s \in Sessions, NEW i \in Ids, s # c \/ i # i0
        PROVE  Placed(s, i)'
    <2>1. handled'[Peer[s]][i] = handled[Peer[s]][i]
      BY <1>3, <1>6, Peers
    <2>2. /\ Less(calls[s], calls'[s], Sending(i))
          /\ Less(calls[Peer[s]], calls'[Peer[s]], Serving(i))
      BY <1>2, <1>4, <1>6, SameLess, Peers DEF Replaced
    <2> QED
      BY <1>1, <2>1, <2>2, SameLess, LessPlaced DEF RequestInv, KnowsSame
  <1>7. Placed(c, i0)'
    <2>1. c \in Sessions /\ Peer[c] = t /\ c # t
      BY Peers
    <2>2. /\ Once(calls[c], Sending(i0)) /\ Once(wire[t], Asking(i0))
          /\ Once(calls[t], Serving(i0)) /\ Once(wire[c], Answering(i0))
      BY <2>1 DEF RequestInv, Placed
    <2>3. Once(calls'[t], Serving(i0)) /\ Has(calls'[t], Serving(i0)) \subseteq {g} \cap Serving(i0)
      BY <1>2, <1>4, <2>2 DEF Replaced
    <2>4. g \in Serving(i0) => g.at = "Respond" /\ g.body = h
      BY <1>2 DEF Serving
    <2>5. Rules({}, {}, Has(calls'[t], Serving(i0)), {}, "unset", response_handlers_[c][i0], h)
      BY <1>2, <1>5, <2>3, <2>4 DEF Rules
    <2>6. Rules(Has(calls'[c], Sending(i0)), Has(wire'[t], Asking(i0)),
                Has(calls'[t], Serving(i0)), Has(wire'[c], Answering(i0)),
                promise'[c][i0], response_handlers_'[c][i0], handled'[t][i0])
      BY <1>1, <1>2, <1>3, <1>5, <2>1, <2>5
    <2> QED
      BY <1>1, <1>2, <2>1, <2>2, <2>3, <2>6, PlacedThen
  <1> QED
    BY <1>1, <1>2, <1>3, <1>5, <1>6, <1>7 DEF RequestInv

(* A request arrives: its handler is called, or nobody will answer it. *)
LEMMA RequestTaken ==
    ASSUME SessionInv, RequestInv, NEW t \in Sessions, StreamReceive(t),
           Head(wire[t]).kind = "request"
    PROVE  /\ RequestInv'
           /\ \E i \in Ids :
                /\ promise[Peer[t]][i] = "unset" /\ handled[t][i] = "none"
                /\ \E fate \in {"running", "rejected"} : Handled(t, i, fate)
                /\ UNCHANGED promise
  <1> DEFINE m == Head(wire[t])
             c == Peer[t]
             f == Frame("Request", m.id, m.method, "none")
  <1>1. /\ Shrunk(wire[t], wire'[t], m) /\ \A s \in Sessions \ {t} : wire'[s] = wire[s]
        /\ m \in Messages
    <2>1. wire[t] \in Seq(Messages) /\ wire[t] # <<>> /\ wire' = [wire EXCEPT ![t] = Tail(@)]
      BY DEF StreamReceive, SessionInv, WireTypeOK
    <2>2. m \in Messages
      BY <2>1
    <2> QED
      BY <2>1, <2>2, TakeShrinks DEF SessionInv
  <1>2. PICK i0 \in Ids : m.id = i0 /\ m \in Asking(i0) /\ m.method \in Requests
    BY <1>1 DEF Messages, Asking
  <1>3. PICK h \in {"running", "rejected"} :
          /\ Handled(t, i0, h)
          /\ UNCHANGED <<promise, response_handlers_>>
          /\ h = "running" => Enter(t, f)
          /\ h = "rejected" => UNCHANGED calls
    <2>1. \E decodes \in BOOLEAN :
             \/ ReceiveRequest(t, m.id, m.method, decodes) /\ Handled(t, m.id, "running")
             \/ RequestRejected(t, m.method, decodes) /\ Handled(t, m.id, "rejected")
      BY DEF StreamReceive
    <2>2. CASE \E decodes \in BOOLEAN :
             ReceiveRequest(t, m.id, m.method, decodes) /\ Handled(t, m.id, "running")
      BY <1>2, <2>2 DEF ReceiveRequest
    <2>3. CASE \E decodes \in BOOLEAN :
             RequestRejected(t, m.method, decodes) /\ Handled(t, m.id, "rejected")
      BY <1>2, <2>3 DEF RequestRejected, vars
    <2> QED
      BY <2>1, <2>2, <2>3
  <1>4. f \in Frames /\ f.at = "Request" /\ f.id = i0 /\ f.method = m.method
    BY <1>2, NewFrames DEF Frame
  <1>5. /\ h = "running" => Grown(calls[t], calls'[t], f)
        /\ h = "rejected" => calls'[t] = calls[t]
        /\ \A s \in Sessions \ {t} : calls'[s] = calls[s]
    BY <1>3, <1>4, EnterGrows DEF SessionInv
  <1>6. f \in Serving(i0) /\ \A i \in Ids : f \notin Sending(i) /\ (i # i0 => f \notin Serving(i))
    BY <1>4 DEF Serving, Sending
  <1>7. /\ handled'[t][i0] = h
        /\ \A u \in Sessions, i \in Ids : u # t \/ i # i0 => handled'[u][i] = handled[u][i]
        /\ HandledTypeOK'
    BY <1>3 DEF Handled, RequestInv, HandledTypeOK, Fates
  <1> HIDE DEF m, f
  <1>8. c \in Sessions /\ Peer[c] = t /\ c # t
    BY Peers
  <1>9. /\ Once(calls[c], Sending(i0)) /\ Once(wire[t], Asking(i0))
        /\ Once(calls[t], Serving(i0)) /\ Once(wire[c], Answering(i0))
        /\ Rules(Has(calls[c], Sending(i0)), Has(wire[t], Asking(i0)),
                 Has(calls[t], Serving(i0)), Has(wire[c], Answering(i0)),
                 promise[c][i0], response_handlers_[c][i0], handled[t][i0])
    BY <1>8 DEF RequestInv, Placed
  <1>10. m \in Has(wire[t], Asking(i0))
    BY <1>1, <1>2, ShrunkLess
  <1>11. /\ Has(calls[c], Sending(i0)) = {} /\ Has(calls[t], Serving(i0)) = {}
         /\ Has(wire[c], Answering(i0)) = {}
         /\ promise[c][i0] = "unset" /\ handled[t][i0] = "none"
         /\ m.method = response_handlers_[c][i0]
    BY <1>9, <1>10 DEF Rules
  <1>12. ASSUME NEW s \in Sessions, NEW i \in Ids, s # c \/ i # i0
         PROVE  Placed(s, i)'
    <2>1. handled'[Peer[s]][i] = handled[Peer[s]][i]
      BY <1>7, <1>12, Peers
    <2>2. Less(wire[Peer[s]], wire'[Peer[s]], Asking(i)) /\ Less(wire[s], wire'[s], Answering(i))
      BY <1>1, ShrunkWireLess, Peers DEF WireLess
    <2>3. Less(calls[s], calls'[s], Sending(i))
      BY <1>3, <1>5, <1>6, SameLess, GrownLess
    <2>4. Less(calls[Peer[s]], calls'[Peer[s]], Serving(i))
      BY <1>3, <1>5, <1>6, <1>12, SameLess, GrownLess, Peers
    <2> QED
      BY <1>3, <2>1, <2>2, <2>3, <2>4, LessPlaced DEF RequestInv, KnowsSame
  <1>13. Placed(c, i0)'
    <2>1. Has(wire'[t], Asking(i0)) = {} /\ Once(wire'[t], Asking(i0))
      BY <1>1, <1>2, <1>9, ShrunkLess DEF Less
    <2>2. /\ Once(calls'[t], Serving(i0))
          /\ Has(calls'[t], Serving(i0)) \subseteq {f}
          /\ h = "rejected" => Has(calls'[t], Serving(i0)) = {}
      BY <1>3, <1>5, <1>9, <1>11, GrownLess
    <2>3. Rules({}, {}, Has(calls'[t], Serving(i0)), {}, "unset", response_handlers_[c][i0], h)
      BY <1>3, <1>4, <1>11, <2>2 DEF Rules
    <2>4. calls'[c] = calls[c] /\ wire'[c] = wire[c]
      BY <1>1, <1>5, <1>8
    <2>5. Rules(Has(calls'[c], Sending(i0)), Has(wire'[t], Asking(i0)),
                Has(calls'[t], Serving(i0)), Has(wire'[c], Answering(i0)),
                promise'[c][i0], response_handlers_'[c][i0], handled'[t][i0])
      BY <1>3, <1>7, <1>11, <2>1, <2>3, <2>4
    <2> QED
      BY <1>8, <1>9, <2>1, <2>2, <2>4, <2>5, PlacedThen
  <1> QED
    BY <1>3, <1>7, <1>11, <1>12, <1>13 DEF RequestInv

(* A response arrives: it finds its response handler, and then the request *)
(* is nowhere.                                                             *)
LEMMA ResponseTaken ==
    ASSUME SessionInv, RequestInv, NEW t \in Sessions, StreamReceive(t),
           Head(wire[t]).kind = "response"
    PROVE  /\ RequestInv'
           /\ \E i \in Ids :
                /\ promise[t][i] = "unset" /\ handled[Peer[t]][i] \in Bodies
                /\ \E answer \in {handled[Peer[t]][i], "broken"} :
                      promise' = [promise EXCEPT ![t][i] = answer]
                /\ UNCHANGED handled
  <1> DEFINE m == Head(wire[t])
             p == Peer[t]
  <1>1. /\ Shrunk(wire[t], wire'[t], m) /\ \A s \in Sessions \ {t} : wire'[s] = wire[s]
        /\ m \in Messages
    <2>1. wire[t] \in Seq(Messages) /\ wire[t] # <<>> /\ wire' = [wire EXCEPT ![t] = Tail(@)]
      BY DEF StreamReceive, SessionInv, WireTypeOK
    <2>2. m \in Messages
      BY <2>1
    <2> QED
      BY <2>1, <2>2, TakeShrinks DEF SessionInv
  <1>2. PICK i0 \in Ids : m.id = i0 /\ m \in Answering(i0) /\ m.body \in Bodies
    BY <1>1 DEF Messages, Answering, Bodies
  <1>3. PICK answer \in {m.body, "broken"} :
          /\ promise' = [promise EXCEPT ![t][i0] = answer]
          /\ response_handlers_' = [response_handlers_ EXCEPT ![t][i0] = None]
          /\ UNCHANGED <<calls, handled>>
    <2>1. PICK decodes \in BOOLEAN :
             ReceiveResponse(t, i0, m.body, decodes) /\ UNCHANGED handled
      BY <1>2 DEF StreamReceive
    <2> DEFINE answer == IF Accepts(response_handlers_[t][i0], m.body, decodes)
                         THEN m.body ELSE "broken"
    <2>2. /\ promise' = [promise EXCEPT ![t][i0] = answer]
          /\ response_handlers_' = [response_handlers_ EXCEPT ![t][i0] = None]
          /\ UNCHANGED <<calls, handled>>
      BY <2>1 DEF ReceiveResponse, EraseHandler
    <2>3. answer \in {m.body, "broken"}
      OBVIOUS
    <2> HIDE DEF m, answer
    <2> QED
      BY <2>2, <2>3
  <1>4. /\ promise'[t][i0] = answer
        /\ \A s \in Sessions, i \in Ids : s # t \/ i # i0 =>
              promise'[s][i] = promise[s][i] /\ response_handlers_'[s][i] = response_handlers_[s][i]
    BY <1>3 DEF SessionInv, TypeOK
  <1> HIDE DEF m
  <1>5. /\ Once(calls[t], Sending(i0)) /\ Once(wire[p], Asking(i0))
        /\ Once(calls[p], Serving(i0)) /\ Once(wire[t], Answering(i0))
        /\ Rules(Has(calls[t], Sending(i0)), Has(wire[p], Asking(i0)),
                 Has(calls[p], Serving(i0)), Has(wire[t], Answering(i0)),
                 promise[t][i0], response_handlers_[t][i0], handled[p][i0])
    BY DEF RequestInv, Placed
  <1>6. m \in Has(wire[t], Answering(i0))
    BY <1>1, <1>2, ShrunkLess
  <1>7. /\ Has(calls[t], Sending(i0)) = {} /\ Has(wire[p], Asking(i0)) = {}
        /\ Has(calls[p], Serving(i0)) = {}
        /\ promise[t][i0] = "unset" /\ handled[p][i0] = m.body
    BY <1>5, <1>6 DEF Rules
  <1>8. ASSUME NEW s \in Sessions, NEW i \in Ids, s # t \/ i # i0
        PROVE  Placed(s, i)'
    <2>1. Less(wire[Peer[s]], wire'[Peer[s]], Asking(i)) /\ Less(wire[s], wire'[s], Answering(i))
      BY <1>1, ShrunkWireLess, Peers DEF WireLess
    <2> QED
      BY <1>3, <1>4, <1>8, <2>1, SameLess, LessPlaced DEF RequestInv, KnowsSame
  <1>9. Placed(t, i0)'
    <2>1. Has(wire'[t], Answering(i0)) = {} /\ Once(wire'[t], Answering(i0))
      BY <1>1, <1>2, <1>5, ShrunkLess DEF Less
    <2>2. wire'[p] = wire[p]
      BY <1>1, Peers
    <2>3. Rules({}, {}, {}, {}, answer, response_handlers_'[t][i0], m.body)
      BY <1>2, <1>3 DEF Rules, Bodies
    <2>4. Rules(Has(calls'[t], Sending(i0)), Has(wire'[p], Asking(i0)),
                Has(calls'[p], Serving(i0)), Has(wire'[t], Answering(i0)),
                promise'[t][i0], response_handlers_'[t][i0], handled'[p][i0])
      BY <1>3, <1>4, <1>7, <2>1, <2>2, <2>3
    <2> QED
      BY <1>3, <1>5, <2>1, <2>2, <2>4, PlacedThen
  <1> QED
    BY <1>2, <1>3, <1>7, <1>8, <1>9 DEF RequestInv, HandledTypeOK

(* The calls about notifications, and the end of a post-send call *)
LEMMA NotificationSent ==
    ASSUME SessionInv, RequestInv, NEW t \in Sessions, NEW m \in Notifications,
           SendNotification(t, m), UNCHANGED <<wire, handled>>
    PROVE  RequestInv' /\ UNCHANGED <<promise, handled>>
  <1> DEFINE f == Frame("SendNotification", 0, m, "none")
  <1>1. f \in Frames /\ \A i \in Ids : f \notin Sending(i) /\ f \notin Serving(i)
    BY NewFrames DEF Frame, Sending, Serving
  <1>2. Enter(t, f) /\ UNCHANGED <<promise, response_handlers_>>
    BY DEF SendNotification
  <1>3. Grown(calls[t], calls'[t], f) /\ \A u \in Sessions \ {t} : calls'[u] = calls[u]
    BY <1>1, <1>2, EnterGrows DEF SessionInv
  <1> HIDE DEF f
  <1>4. \A s \in Sessions, i \in Ids : CallsLess(s, i)
    BY <1>1, <1>3, GrownCallsLess
  <1> QED
    BY <1>2, <1>4, StillLess, Quiet

LEMMA NotificationWritten ==
    ASSUME SessionInv, RequestInv, NEW t \in Sessions, NEW sent \in BOOLEAN,
           StreamSenderReturns(t, sent), SendNotificationReturns(t)
    PROVE  RequestInv' /\ UNCHANGED <<promise, handled>>
  <1> DEFINE m == Outgoing(t)
             p == Peer[t]
  <1>1. /\ calls[t] # <<>> /\ Top(t).at = "SendNotification" /\ Leave(t)
        /\ UNCHANGED <<promise, response_handlers_, handled>>
    BY DEF SendNotificationReturns, InCall, StreamSenderReturns
  <1>2. \A s \in Sessions, i \in Ids : CallsLess(s, i)
    BY <1>1, LeaveShrinks, ShrunkCallsLess DEF SessionInv
  <1>3. m \in Messages /\ m.kind = "notification"
    BY <1>1, OutgoingType DEF Outgoing, SessionInv, SendingPoints
  <1>4. \A i \in Ids : m \notin Asking(i) /\ m \notin Answering(i)
    BY <1>3 DEF Asking, Answering
  <1>5. \/ UNCHANGED wire
        \/ Grown(wire[p], wire'[p], m) /\ \A u \in Sessions \ {p} : wire'[u] = wire[u]
    BY <1>3, PutGrows, Peers DEF StreamSenderReturns, SessionInv
  <1> HIDE DEF m
  <1>6. \A s \in Sessions, i \in Ids : WireLess(s, i)
    BY <1>3, <1>4, <1>5, StillLess, GrownWireLess, Peers
  <1> QED
    BY <1>1, <1>2, <1>6, Quiet

LEMMA CallbackReturned ==
    ASSUME SessionInv, RequestInv, NEW t \in Sessions, StreamCallbackReturns(t)
    PROVE  RequestInv' /\ UNCHANGED <<promise, handled>>
  <1>1. calls[t] # <<>> /\ Leave(t) /\ UNCHANGED <<promise, response_handlers_, handled, wire>>
    BY DEF StreamCallbackReturns, PostSendReturns, NotificationHandlerReturns, InCall
  <1>2. \A s \in Sessions, i \in Ids : CallsLess(s, i)
    BY <1>1, LeaveShrinks, ShrunkCallsLess DEF SessionInv
  <1> QED
    BY <1>1, <1>2, StillLess, Quiet

LEMMA NotificationTaken ==
    ASSUME SessionInv, RequestInv, NEW t \in Sessions, StreamReceive(t),
           Head(wire[t]).kind = "notification"
    PROVE  RequestInv' /\ UNCHANGED <<promise, handled>>
  <1> DEFINE m == Head(wire[t])
             f == Frame("Notification", 0, m.method, "none")
  <1>1. wire[t] \in Seq(Messages) /\ wire[t] # <<>> /\ wire' = [wire EXCEPT ![t] = Tail(@)]
    BY DEF StreamReceive, SessionInv, WireTypeOK
  <1>2. m.method \in Notifications
    <2>1. m \in Messages
      BY <1>1
    <2> QED
      BY <2>1 DEF Messages
  <1>3. \A s \in Sessions, i \in Ids : WireLess(s, i)
    BY <1>1, TakeShrinks, ShrunkWireLess DEF SessionInv
  <1>4. /\ UNCHANGED <<promise, response_handlers_, handled>>
        /\ UNCHANGED calls \/ Enter(t, f)
    <2>1. \E decodes \in BOOLEAN : \/ ReceiveNotification(t, m.method, decodes)
                                   \/ NotificationRejected(t, m.method, decodes)
      BY DEF StreamReceive
    <2>2. UNCHANGED handled
      BY DEF StreamReceive
    <2> QED
      BY <2>1, <2>2 DEF ReceiveNotification, NotificationRejected, vars
  <1>5. f \in Frames /\ \A i \in Ids : f \notin Sending(i) /\ f \notin Serving(i)
    BY <1>2, NewFrames DEF Frame, Sending, Serving
  <1> HIDE DEF m, f
  <1>6. \/ UNCHANGED calls
        \/ Grown(calls[t], calls'[t], f) /\ \A u \in Sessions \ {t} : calls'[u] = calls[u]
    BY <1>4, <1>5, EnterGrows DEF SessionInv
  <1>7. \A s \in Sessions, i \in Ids : CallsLess(s, i)
    BY <1>5, <1>6, StillLess, GrownCallsLess
  <1> QED
    BY <1>3, <1>4, <1>7, Quiet

LEMMA ConnectionLost ==
    ASSUME RequestInv, Disconnect
    PROVE  RequestInv' /\ UNCHANGED <<promise, handled>>
  <1>1. /\ UNCHANGED <<promise, response_handlers_, handled, calls>>
        /\ \A s \in Sessions : wire'[s] = <<>>
    BY DEF Disconnect, vars
  <1>2. \A s \in Sessions : \A A : Less(wire[s], wire'[s], A)
    BY <1>1 DEF Less, Has, Elems, Once
  <1> QED
    BY <1>1, <1>2, StillLess, Quiet DEF WireLess

-----------------------------------------------------------------------------
(* What a step means for the calls: nothing, or one step of RemoteCall *)
Asks == \E s \in Sessions, i \in Ids :
    /\ promise[s][i] = "none"
    /\ promise' = [promise EXCEPT ![s][i] = "unset"]
    /\ UNCHANGED handled
Starts == \E t \in Sessions, i \in Ids :
    /\ promise[Peer[t]][i] = "unset" /\ handled[t][i] = "none"
    /\ \E fate \in {"running", "rejected"} : Handled(t, i, fate)
    /\ UNCHANGED promise
Finishes == \E t \in Sessions, i \in Ids :
    /\ handled[t][i] = "running"
    /\ \E fate \in Bodies \cup {"failed"} : Handled(t, i, fate)
    /\ UNCHANGED promise
Answers == \E t \in Sessions, i \in Ids :
    /\ promise[t][i] = "unset" /\ handled[Peer[t]][i] \in Bodies
    /\ \E answer \in {handled[Peer[t]][i], "broken"} :
          promise' = [promise EXCEPT ![t][i] = answer]
    /\ UNCHANGED handled
CallStep == Asks \/ Starts \/ Finishes \/ Answers \/ UNCHANGED <<promise, handled>>

LEMMA SenderReturned ==
    ASSUME SessionInv, RequestInv, NEW t \in Sessions, NEW sent \in BOOLEAN,
           StreamSenderReturns(t, sent)
    PROVE  RequestInv' /\ UNCHANGED <<promise, handled>>
  <1>1. SendRequestReturns(t, sent) \/ SendNotificationReturns(t) \/ RespondReturns(t, sent)
    BY DEF StreamSenderReturns
  <1>2. UNCHANGED handled
    BY DEF StreamSenderReturns
  <1> QED
    BY <1>1, <1>2, RequestWritten, NotificationWritten, ResponseWritten
    DEF SendRequestReturns, RespondReturns

LEMMA RequestStep ==
    ASSUME SessionInv, RequestInv, [StreamNext]_streamVars
    PROVE  RequestInv' /\ CallStep
  <1>1. CASE UNCHANGED <<promise, response_handlers_, handled, calls, wire>>
    BY <1>1, StillLess, Quiet DEF CallStep
  <1>2. ASSUME NEW t \in Sessions, StreamSetup(t)
        PROVE  UNCHANGED <<promise, response_handlers_, handled, calls, wire>>
    BY <1>2 DEF StreamSetup, SetSender, RegisterRequest, OnPostSend, RegisterNotification
  <1>3. ASSUME NEW t \in Sessions, StreamSend(t)
        PROVE  RequestInv' /\ CallStep
    <2>1. UNCHANGED <<wire, handled>>
      BY <1>3 DEF StreamSend
    <2>2. ASSUME NEW m \in Requests, SendRequest(t, m)
          PROVE  RequestInv' /\ CallStep
      BY <2>1, <2>2, RequestSent DEF CallStep, Asks
    <2>3. ASSUME NEW m \in Requests, SendRequestUnencodable(t, m)
          PROVE  RequestInv' /\ CallStep
      BY <1>1, <2>1, <2>3 DEF SendRequestUnencodable
    <2>4. ASSUME NEW m \in Notifications, SendNotification(t, m)
          PROVE  RequestInv' /\ CallStep
      BY <2>1, <2>4, NotificationSent DEF CallStep
    <2> QED
      BY <1>3, <2>2, <2>3, <2>4 DEF StreamSend
  <1>4. ASSUME NEW t \in Sessions, NEW sent \in BOOLEAN, StreamSenderReturns(t, sent)
        PROVE  RequestInv' /\ CallStep
    BY <1>4, SenderReturned DEF CallStep
  <1>5. ASSUME NEW t \in Sessions, StreamHandlerReturns(t)
        PROVE  RequestInv' /\ CallStep
    BY <1>5, HandlerReturned DEF CallStep, Finishes
  <1>6. ASSUME NEW t \in Sessions, StreamCallbackReturns(t)
        PROVE  RequestInv' /\ CallStep
    BY <1>6, CallbackReturned DEF CallStep
  <1>7. ASSUME NEW t \in Sessions, StreamReceive(t)
        PROVE  RequestInv' /\ CallStep
    <2>1. Head(wire[t]).kind \in {"request", "response", "notification"}
      BY <1>7 DEF StreamReceive
    <2>2. CASE Head(wire[t]).kind = "request"
      BY <1>7, <2>2, RequestTaken DEF CallStep, Starts
    <2>3. CASE Head(wire[t]).kind = "response"
      BY <1>7, <2>3, ResponseTaken DEF CallStep, Answers
    <2>4. CASE Head(wire[t]).kind = "notification"
      BY <1>7, <2>4, NotificationTaken DEF CallStep
    <2> QED
      BY <2>1, <2>2, <2>3, <2>4
  <1>8. CASE Disconnect
    BY <1>8, ConnectionLost DEF CallStep
  <1>9. CASE UNCHANGED streamVars
    BY <1>1, <1>9 DEF streamVars, vars
  <1> QED
    BY <1>1, <1>2, <1>3, <1>4, <1>5, <1>6, <1>7, <1>8, <1>9 DEF StreamNext

LEMMA RequestInit == StreamInit => RequestInv
  <1> SUFFICES ASSUME StreamInit PROVE RequestInv
    OBVIOUS
  <1>1. /\ \A s \in Sessions : calls[s] = <<>> /\ wire[s] = <<>>
        /\ \A s \in Sessions, i \in Ids : promise[s][i] = "none" /\ handled[s][i] = "none"
    BY DEF StreamInit, Init
  <1>2. \A A : Has(<<>>, A) = {} /\ Once(<<>>, A)
    BY DEF Has, Elems, Once
  <1>3. ASSUME NEW s \in Sessions, NEW i \in Ids
        PROVE  Placed(s, i)
    <2>1. Rules({}, {}, {}, {}, "none", response_handlers_[s][i], "none")
      BY DEF Rules
    <2> QED
      BY <1>1, <1>2, <2>1, Peers, ZenonT(40) DEF Placed
  <1> QED
    BY <1>3 DEF StreamInit, RequestInv, HandledTypeOK, Fates

LEMMA AlwaysSessionInv == StreamSpec => []SessionInv
  <1>1. TypeOK /\ HandlersMatchPromises /\ (FreshIds /\ OneCallPerId) /\ WireTypeOK => SessionInv
    BY DEF SessionInv
  <1>2. StreamInit => WireTypeOK
    BY DEF StreamInit, WireTypeOK
  <1>3. TypeOK /\ WireTypeOK /\ [StreamNext]_streamVars => WireTypeOK'
    BY WireStep
  <1> QED
    BY StreamIsSession, TypeCorrect, HandlersMatch, IdsCorrect, <1>1, <1>2, <1>3, PTL DEF StreamSpec

LEMMA AlwaysRequestInv == StreamSpec => [](SessionInv /\ RequestInv)
  <1>1. SessionInv /\ RequestInv /\ [StreamNext]_streamVars => RequestInv'
    BY RequestStep
  <1> QED
    BY AlwaysSessionInv, RequestInit, <1>1, PTL DEF StreamSpec

-----------------------------------------------------------------------------
(* What is in the four places, by its index *)
LEMMA PlacesAre ==
    ASSUME SessionInv, RequestInv, NEW s \in Sessions, NEW i \in Ids
    PROVE  LET p == Peer[s]
               C == InSendRequest(s, i)
               O == {k \in DOMAIN wire[p] : wire[p][k].kind = "request" /\ wire[p][k].id = i}
               S == {k \in DOMAIN calls[p] :
                        calls[p][k].at \in {"Request", "Respond"} /\ calls[p][k].id = i}
               B == {k \in DOMAIN wire[s] : wire[s][k].kind = "response" /\ wire[s][k].id = i}
           IN  /\ \A k \in C : calls[s][k] \in Has(calls[s], Sending(i))
               /\ \A k \in O : wire[p][k] \in Has(wire[p], Asking(i))
               /\ \A k \in S : calls[p][k] \in Has(calls[p], Serving(i))
               /\ \A k \in B : wire[s][k] \in Has(wire[s], Answering(i))
               /\ \A k, l \in C : k = l
               /\ \A k, l \in O : k = l
               /\ \A k, l \in S : k = l
               /\ \A k, l \in B : k = l
  <1> DEFINE p == Peer[s]
  <1>1. p \in Sessions
    BY Peers
  <1>2. \A u \in Sessions : /\ \A k \in DOMAIN calls[u] : calls[u][k] \in Frames
                            /\ \A k \in DOMAIN wire[u] : wire[u][k] \in Messages
    BY DEF SessionInv, TypeOK, WireTypeOK
  <1>3. /\ Once(calls[s], Sending(i)) /\ Once(wire[p], Asking(i))
        /\ Once(calls[p], Serving(i)) /\ Once(wire[s], Answering(i))
    BY DEF RequestInv, Placed
  <1>4. /\ \A k \in InSendRequest(s, i) : calls[s][k] \in Has(calls[s], Sending(i))
        /\ \A k, l \in InSendRequest(s, i) : k = l
    BY <1>2, <1>3 DEF InSendRequest, Sending, Has, Elems, Once
  <1>5. /\ \A k \in DOMAIN wire[p] : wire[p][k].kind = "request" /\ wire[p][k].id = i =>
                wire[p][k] \in Has(wire[p], Asking(i))
        /\ \A k, l \in DOMAIN wire[p] :
              /\ wire[p][k].kind = "request" /\ wire[p][k].id = i
              /\ wire[p][l].kind = "request" /\ wire[p][l].id = i
              => k = l
    BY <1>1, <1>2, <1>3 DEF Asking, Has, Elems, Once
  <1>6. /\ \A k \in DOMAIN calls[p] :
              calls[p][k].at \in {"Request", "Respond"} /\ calls[p][k].id = i =>
                calls[p][k] \in Has(calls[p], Serving(i))
        /\ \A k, l \in DOMAIN calls[p] :
              /\ calls[p][k].at \in {"Request", "Respond"} /\ calls[p][k].id = i
              /\ calls[p][l].at \in {"Request", "Respond"} /\ calls[p][l].id = i
              => k = l
    BY <1>1, <1>2, <1>3 DEF Serving, Has, Elems, Once
  <1>7. /\ \A k \in DOMAIN wire[s] : wire[s][k].kind = "response" /\ wire[s][k].id = i =>
                wire[s][k] \in Has(wire[s], Answering(i))
        /\ \A k, l \in DOMAIN wire[s] :
              /\ wire[s][k].kind = "response" /\ wire[s][k].id = i
              /\ wire[s][l].kind = "response" /\ wire[s][l].id = i
              => k = l
    BY <1>2, <1>3 DEF Answering, Has, Elems, Once
  <1> QED
    BY <1>4, <1>5, <1>6, <1>7

(* A request is in one place at a time, and in none once it is settled.    *)
THEOREM StreamOneStage == StreamSpec => []OneStage
  <1>1. ASSUME SessionInv, RequestInv, NEW s \in Sessions, NEW i \in Ids
        PROVE  Cardinality(Stages(s, i)) <= IF promise[s][i] = "unset" THEN 1 ELSE 0
    <2> DEFINE p == Peer[s]
               C == InSendRequest(s, i)
               O == {k \in DOMAIN wire[p] : wire[p][k].kind = "request" /\ wire[p][k].id = i}
               S == {k \in DOMAIN calls[p] :
                        calls[p][k].at \in {"Request", "Respond"} /\ calls[p][k].id = i}
               B == {k \in DOMAIN wire[s] : wire[s][k].kind = "response" /\ wire[s][k].id = i}
    <2>1. /\ \A k, l \in C : k = l
          /\ \A k, l \in O : k = l
          /\ \A k, l \in S : k = l
          /\ \A k, l \in B : k = l
          /\ C # {} => Has(calls[s], Sending(i)) # {}
          /\ O # {} => Has(wire[p], Asking(i)) # {}
          /\ S # {} => Has(calls[p], Serving(i)) # {}
          /\ B # {} => Has(wire[s], Answering(i)) # {}
      BY <1>1, PlacesAre
    <2>2. Rules(Has(calls[s], Sending(i)), Has(wire[p], Asking(i)),
                Has(calls[p], Serving(i)), Has(wire[s], Answering(i)),
                promise[s][i], response_handlers_[s][i], handled[p][i])
      BY <1>1 DEF RequestInv, Placed
    <2>3. Stages(s, i) = {<<"sending", k>> : k \in C} \cup {<<"out", k>> : k \in O}
                         \cup {<<"handling", k>> : k \in S} \cup {<<"back", k>> : k \in B}
      BY DEF Stages
    <2> HIDE DEF C, O, S, B
    <2>4. /\ C \cup O \cup S \cup B # {} => promise[s][i] = "unset"
          /\ C # {} => O = {} /\ S = {} /\ B = {}
          /\ O # {} => S = {} /\ B = {}
          /\ S # {} => B = {}
      BY <2>1, <2>2 DEF Rules
    <2>5. \A x, y \in Stages(s, i) : x = y
      BY <2>1, <2>3, <2>4
    <2>6. promise[s][i] # "unset" => Stages(s, i) = {}
      BY <2>3, <2>4
    <2>7. Stages(s, i) = {} \/ \E x : Stages(s, i) = {x}
      BY <2>5
    <2>8. CASE Stages(s, i) = {}
      BY <2>8, FS_EmptySet
    <2>9. CASE \E x : Stages(s, i) = {x}
      <3>1. Cardinality(Stages(s, i)) = 1
        BY <2>9, FS_Singleton
      <3>2. promise[s][i] = "unset"
        BY <2>6, <2>9
      <3> QED
        BY <3>1, <3>2
    <2> QED
      BY <2>7, <2>8, <2>9
  <1>2. SessionInv /\ RequestInv => OneStage
    BY <1>1 DEF OneStage
  <1> QED
    BY AlwaysRequestInv, <1>2, PTL

(* No response reaches a session that does not wait for it.                *)
THEOREM StreamResponsesAwaited == StreamSpec => []ResponsesAwaited
  <1>1. ASSUME SessionInv, RequestInv, NEW s \in Sessions, NEW k \in DOMAIN wire[s],
               wire[s][k].kind = "response"
        PROVE  response_handlers_[s][wire[s][k].id] = wire[s][k].method
    <2> DEFINE m == wire[s][k]
    <2>1. wire[s] \in Seq(Messages)
      BY <1>1 DEF SessionInv, WireTypeOK
    <2> m \in Messages
      BY <2>1
    <2>2. PICK i \in Ids : m.id = i
      BY <1>1 DEF Messages
    <2>3. m \in Has(wire[s], Answering(i))
      BY <1>1, <2>2 DEF Answering, Has, Elems
    <2> HIDE DEF m
    <2>4. m.method = response_handlers_[s][i]
      BY <1>1, <2>3 DEF RequestInv, Placed, Rules
    <2> QED
      BY <2>2, <2>4 DEF m
  <1>2. SessionInv /\ RequestInv => ResponsesAwaited
    BY <1>1 DEF ResponsesAwaited
  <1> QED
    BY AlwaysRequestInv, <1>2, PTL

(* The state of the calls *)
Caller == [c \in Sessions \X Ids |-> promise[c[1]][c[2]]]
Callee == [c \in Sessions \X Ids |-> handled[Peer[c[1]]][c[2]]]

LEMMA PromiseSet ==
    ASSUME TypeOK, NEW s \in Sessions, NEW i \in Ids, NEW x, promise' = [promise EXCEPT ![s][i] = x]
    PROVE  /\ Caller' = [Caller EXCEPT ![<<s, i>>] = x]
           /\ Caller[<<s, i>>] = promise[s][i] /\ Callee[<<s, i>>] = handled[Peer[s]][i]
  <1>1. \A u \in Sessions, j \in Ids :
            promise'[u][j] = IF u = s /\ j = i THEN x ELSE promise[u][j]
    BY DEF TypeOK
  <1>2. \A c \in Sessions \X Ids : /\ c[1] \in Sessions /\ c[2] \in Ids
                                  /\ c = <<s, i>> <=> c[1] = s /\ c[2] = i
    OBVIOUS
  <1>3. Caller' = [c \in Sessions \X Ids |-> IF c = <<s, i>> THEN x ELSE promise[c[1]][c[2]]]
    BY <1>1, <1>2 DEF Caller
  <1>4. <<s, i>> \in Sessions \X Ids
    OBVIOUS
  <1> QED
    BY <1>3, <1>4 DEF Caller, Callee

LEMMA FateSet ==
    ASSUME HandledTypeOK, NEW t \in Sessions, NEW i \in Ids, NEW x, Handled(t, i, x)
    PROVE  /\ Callee' = [Callee EXCEPT ![<<Peer[t], i>>] = x]
           /\ Caller[<<Peer[t], i>>] = promise[Peer[t]][i] /\ Callee[<<Peer[t], i>>] = handled[t][i]
  <1>1. \A u \in Sessions, j \in Ids :
            handled'[u][j] = IF u = t /\ j = i THEN x ELSE handled[u][j]
    BY DEF HandledTypeOK, Handled
  <1>2. \A u \in Sessions, j \in Ids :
            handled'[Peer[u]][j] = IF u = Peer[t] /\ j = i THEN x ELSE handled[Peer[u]][j]
    BY <1>1, Peers
  <1> DEFINE c0 == <<Peer[t], i>>
  <1>3. \A c \in Sessions \X Ids : /\ c[1] \in Sessions /\ c[2] \in Ids
                                  /\ c = c0 <=> c[1] = Peer[t] /\ c[2] = i
    OBVIOUS
  <1>4. Callee' = [c \in Sessions \X Ids |-> IF c = c0 THEN x ELSE handled[Peer[c[1]]][c[2]]]
    BY <1>2, <1>3 DEF Callee
  <1>5. c0 \in Sessions \X Ids /\ c0[1] = Peer[t] /\ c0[2] = i /\ Peer[Peer[t]] = t
    BY Peers
  <1> HIDE DEF c0
  <1>6. Callee' = [Callee EXCEPT ![c0] = x]
    BY <1>4 DEF Callee
  <1>7. Caller[c0] = promise[Peer[t]][i] /\ Callee[c0] = handled[t][i]
    BY <1>5 DEF Caller, Callee
  <1> QED
    BY <1>6, <1>7 DEF c0

(* The pair implements a remote call: the peer runs the handler of a       *)
(* request once, and the future gets the outcome of that run or none.      *)
THEOREM StreamImplementsRemoteCall == StreamSpec => ImplementsRemoteCall
  <1>1. StreamInit => Abstract!CallInit
    BY Peers DEF StreamInit, Init, Abstract!CallInit
  <1>2. ASSUME SessionInv, RequestInv, CallStep
        PROVE  Abstract!CallNext \/ UNCHANGED <<Caller, Callee>>
    <2>1. TypeOK /\ HandledTypeOK
      BY <1>2 DEF SessionInv, RequestInv
    <2>2. CASE Asks
      <3>1. PICK s \in Sessions, i \in Ids :
              /\ promise[s][i] = "none" /\ promise' = [promise EXCEPT ![s][i] = "unset"]
              /\ UNCHANGED handled
        BY <2>2 DEF Asks
      <3>2. Caller[<<s, i>>] = "none" /\ Caller' = [Caller EXCEPT ![<<s, i>>] = "unset"]
        <4>1. PICK x : x = "unset" /\ promise' = [promise EXCEPT ![s][i] = x]
          BY <3>1
        <4>2. Caller' = [Caller EXCEPT ![<<s, i>>] = x] /\ Caller[<<s, i>>] = promise[s][i]
          BY <2>1, <4>1, PromiseSet
        <4> QED
          BY <3>1, <4>1, <4>2
      <3> UNCHANGED Callee
        BY <3>1 DEF Callee
      <3>3. Abstract!Ask(<<s, i>>)
        BY <3>2 DEF Abstract!Ask, Caller, Callee
      <3> QED
        BY <3>3 DEF Abstract!CallNext
    <2>3. CASE Starts
      <3>1. PICK t \in Sessions, i \in Ids, fate \in {"running", "rejected"} :
              /\ promise[Peer[t]][i] = "unset" /\ handled[t][i] = "none"
              /\ Handled(t, i, fate) /\ UNCHANGED promise
        BY <2>3 DEF Starts
      <3> DEFINE c == <<Peer[t], i>>
      <3>2. /\ Caller[c] = "unset" /\ Callee[c] = "none"
            /\ Callee' = [Callee EXCEPT ![c] = fate]
        BY <2>1, <3>1, FateSet
      <3> UNCHANGED Caller
        BY <3>1 DEF Caller
      <3>3. Abstract!Start(c)
        BY <3>2 DEF Abstract!Start, Caller, Callee
      <3> QED
        BY <3>3, Peers DEF Abstract!CallNext
    <2>4. CASE Finishes
      <3>1. PICK t \in Sessions, i \in Ids, fate \in Bodies \cup {"failed"} :
              handled[t][i] = "running" /\ Handled(t, i, fate) /\ UNCHANGED promise
        BY <2>4 DEF Finishes
      <3> DEFINE c == <<Peer[t], i>>
      <3>2. Callee[c] = "running" /\ Callee' = [Callee EXCEPT ![c] = fate]
        BY <2>1, <3>1, FateSet
      <3> UNCHANGED Caller
        BY <3>1 DEF Caller
      <3>3. Abstract!Finish(c)
        BY <3>2 DEF Abstract!Finish, Abstract!Outcomes, Bodies, Caller, Callee
      <3> QED
        BY <3>3, Peers DEF Abstract!CallNext
    <2>5. CASE Answers
      <3>1. PICK t \in Sessions, i \in Ids :
              /\ promise[t][i] = "unset" /\ handled[Peer[t]][i] \in Bodies
              /\ \E answer \in {handled[Peer[t]][i], "broken"} :
                    promise' = [promise EXCEPT ![t][i] = answer]
              /\ UNCHANGED handled
        BY <2>5 DEF Answers
      <3> DEFINE c == <<t, i>>
      <3>2. /\ Caller[c] = "unset" /\ Callee[c] \in Bodies
            /\ \E answer \in {Callee[c], "broken"} : Caller' = [Caller EXCEPT ![c] = answer]
        <4>1. PICK answer \in {handled[Peer[t]][i], "broken"} :
                promise' = [promise EXCEPT ![t][i] = answer]
          BY <3>1
        <4>2. /\ Caller' = [Caller EXCEPT ![c] = answer]
              /\ Caller[c] = promise[t][i] /\ Callee[c] = handled[Peer[t]][i]
          BY <2>1, <4>1, PromiseSet
        <4> QED
          BY <3>1, <4>1, <4>2
      <3> UNCHANGED Callee
        BY <3>1 DEF Callee
      <3>3. Abstract!Answer(c)
        BY <3>2 DEF Abstract!Answer, Abstract!Outcomes, Bodies, Caller, Callee
      <3> QED
        BY <3>3 DEF Abstract!CallNext
    <2>6. CASE UNCHANGED <<promise, handled>>
      BY <2>6 DEF Caller, Callee
    <2> QED
      BY <1>2, <2>2, <2>3, <2>4, <2>5, <2>6 DEF CallStep
  <1>3. SessionInv /\ RequestInv /\ [StreamNext]_streamVars
        => [Abstract!CallNext]_(Abstract!callVars)
    BY <1>2, RequestStep DEF Abstract!callVars, Caller, Callee
  <1> QED
    BY <1>1, <1>3, AlwaysRequestInv, PTL DEF StreamSpec, ImplementsRemoteCall, Abstract!CallSpec
=============================================================================
