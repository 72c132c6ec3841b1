------------------------ MODULE DirectSessions_proofs ------------------------
(***************************************************************************)
(* Two directly connected sessions behave as Session allows, so all that   *)
(* Session_proofs shows of one session in any environment holds of them.   *)
(* What only the pair shows comes from where the requests are on the one   *)
(* stack that its thread has: each stage of serving a request stands right *)
(* above the SendRequest() that made it.                                   *)
(***************************************************************************)
EXTENDS DirectSessions, Session_proofs, SequenceTheorems

LEMMA DirectStepSimulates ==
    ASSUME TypeOK, [DirectNext]_directVars
    PROVE  [Next]_vars
  <1>1. CASE UNCHANGED directVars
    BY <1>1 DEF directVars
  <1>2. ASSUME NEW s \in Sessions, Setup(s)
        PROVE  Next
    BY <1>2 DEF Setup, Next, Configure
  <1>3. ASSUME NEW s \in Sessions, DirectSend(s)
        PROVE  Next
    BY <1>3 DEF DirectSend, Next, Send
  <1>4. ASSUME NEW s \in Sessions, DeliverRequest(s)
        PROVE  [Next]_vars
    <2>1. Peer[s] \in Sessions /\ Top(s).id \in Ids /\ Top(s).method \in Requests
      BY <1>4, PeerAssumption, TopFrame DEF DeliverRequest, InCall
    <2>2. \E decodes \in BOOLEAN :
             \/ ReceiveRequest(Peer[s], Top(s).id, Top(s).method, decodes)
             \/ RequestRejected(Peer[s], Top(s).method, decodes)
      BY <1>4 DEF DeliverRequest
    <2> QED
      BY <2>1, <2>2 DEF Next, Receive
  <1>5. ASSUME NEW s \in Sessions, DeliverNotification(s)
        PROVE  [Next]_vars
    <2>1. Peer[s] \in Sessions /\ Top(s).method \in Notifications
      BY <1>5, PeerAssumption, TopFrame DEF DeliverNotification, InCall
    <2>2. \E decodes \in BOOLEAN :
             \/ ReceiveNotification(Peer[s], Top(s).method, decodes)
             \/ NotificationRejected(Peer[s], Top(s).method, decodes)
      BY <1>5 DEF DeliverNotification
    <2> QED
      BY <2>1, <2>2 DEF Next, Receive
  <1>6. ASSUME NEW s \in Sessions, DeliverResponse(s)
        PROVE  Next
    <2>1. Peer[s] \in Sessions /\ Top(s).id \in Ids /\ Top(s).body \in Bodies
      BY <1>6, PeerAssumption, TopFrame DEF DeliverResponse, InCall
    <2>2. \E decodes \in BOOLEAN :
             ReceiveResponse(Peer[s], Top(s).id, Top(s).body, decodes)
      BY <1>6 DEF DeliverResponse
    <2> QED
      BY <2>1, <2>2 DEF Next, Receive
  <1>7. ASSUME NEW s \in Sessions,
               \/ DirectHandlerReturns(s)
               \/ DirectSenderReturns(s)
               \/ DirectCallbackReturns(s)
        PROVE  Next
    <2>1. Return(s)
      BY <1>7 DEF DirectHandlerReturns, DirectSenderReturns, DirectCallbackReturns,
                  Return
    <2> QED
      BY <2>1 DEF Next
  <1> QED
    BY <1>1, <1>2, <1>3, <1>4, <1>5, <1>6, <1>7 DEF DirectNext

(* Every step of the pair is a step of one of its sessions, or none.       *)
THEOREM DirectIsSession == DirectSpec => Spec
  <1>1. DirectInit => Init /\ TypeOK
    BY TypeInit DEF DirectInit
  <1>2. TypeOK /\ [DirectNext]_directVars => [Next]_vars /\ TypeOK'
    BY DirectStepSimulates, TypeStep
  <1> QED
    BY <1>1, <1>2, PTL DEF DirectSpec, Spec

(* No promise of either session is set twice, however the requests nest.   *)
THEOREM DirectHandlersMatch == DirectSpec => []HandlersMatchPromises
  BY DirectIsSession, HandlersMatch, PTL
-----------------------------------------------------------------------------
(***************************************************************************)
(* The inductive invariant: what is suspended where.  An entry of the call *)
(* stack of the thread is the nr-th suspended call of the session who.     *)
(***************************************************************************)
Entries == [who : Sessions, nr : Nat, frame : Frames]

Represents(th, ca, W) ==
    /\ W \in Seq(Entries) /\ th \in Seq(Sessions) /\ Len(th) = Len(W)
    /\ \A j \in 1..Len(W) : /\ th[j] = W[j].who
                            /\ W[j].nr \in DOMAIN ca[W[j].who]
                            /\ W[j].frame = ca[W[j].who][W[j].nr]
    /\ \A s \in Sessions : \A k \in DOMAIN ca[s] :
           \E j \in 1..Len(W) : W[j].who = s /\ W[j].nr = k
    /\ \A j, l \in 1..Len(W) : j < l /\ W[j].who = W[l].who => W[j].nr < W[l].nr

(* What may come above what: a request's stages right above its sending,   *)
(* and sending above foreign code.                                         *)
ServingPoints == {"Request", "Respond", "PostSend"}

IsSend(e, u, i) == e.frame.at = "SendRequest" /\ e.who = u /\ e.frame.id = i

Sits(W, j) ==
    /\ W[j].frame.at \in ServingPoints =>
           j > 1 /\ IsSend(W[j - 1], Peer[W[j].who], W[j].frame.id)
    /\ W[j].frame.at = "Notification" =>
           j > 1 /\ W[j - 1].frame.at = "SendNotification"
    /\ W[j].frame.at \in {"SendRequest", "SendNotification"} /\ j > 1 =>
           W[j - 1].frame.at \in ForeignPoints

Nested(W, co) ==
    /\ co \in {"foreign", "call", "ok", "failed"}
    /\ co = "foreign" <=> Len(W) = 0 \/ W[Len(W)].frame.at \in ForeignPoints
    /\ \A j \in 1..Len(W) : Sits(W, j)

(* How far the request of an entry is *)
Stage(e, pr, ha, co) ==
    LET t == e.who
        f == e.frame
    IN  /\ f.at = "Request" => pr[Peer[t]][f.id] = "unset" /\ ha[t][f.id] = "running"
        /\ f.at = "PostSend" => pr[Peer[t]][f.id] = f.body
        /\ f.at = "Respond" => /\ ha[t][f.id] = f.body
                               /\ co = "call" => pr[Peer[t]][f.id] = "unset"
                               /\ co = "ok" => pr[Peer[t]][f.id] = f.body
                               /\ co = "failed" => pr[Peer[t]][f.id] = "broken"

(* What the innermost call knows when it sends a request *)
Ending(e, pr, ha, co) ==
    LET t == e.who
        i == e.frame.id
    IN  e.frame.at = "SendRequest" =>
            /\ co = "call" => pr[t][i] = "unset" /\ ha[Peer[t]][i] = "none"
            /\ co = "ok" => pr[t][i] \in Bodies
            /\ co = "failed" => pr[t][i] \notin Bodies

Stages(W, pr, ha, co) ==
    /\ \A j \in 1..Len(W) : Stage(W[j], pr, ha, co)
    /\ Len(W) > 0 => Ending(W[Len(W)], pr, ha, co)

Stacked ==
    \E W \in Seq(Entries) :
        Represents(thread, calls, W) /\ Nested(W, control) /\ Stages(W, promise, handled, control)

HandledTypeOK == handled \in [Sessions -> [Ids -> Fates]]

(* No handler has run for an id that was not used. *)
Unasked ==
    \A s \in Sessions, i \in Ids : promise[s][i] = "none" => handled[Peer[s]][i] = "none"

DirectInv == HandledTypeOK /\ Unasked /\ FutureIffAnswered /\ Stacked

SessionInv == TypeOK /\ HandlersMatchPromises /\ FreshIds /\ OneCallPerId
-----------------------------------------------------------------------------
(* How the stack changes *)
Grows(W, e, X) ==
    /\ X \in Seq(Entries) /\ Len(X) = Len(W) + 1
    /\ \A j \in 1..Len(W) : X[j] = W[j]
    /\ X[Len(X)] = e

Shrinks(W, X) ==
    /\ X \in Seq(Entries) /\ Len(W) = Len(X) + 1
    /\ \A j \in 1..Len(X) : X[j] = W[j]

Turns(W, e, X) ==
    /\ X \in Seq(Entries) /\ Len(X) = Len(W) /\ Len(W) > 0
    /\ \A j \in 1..(Len(W) - 1) : X[j] = W[j]
    /\ X[Len(X)] = e

LEMMA GrowsBy ==
    \A W \in Seq(Entries) : \A e \in Entries : Grows(W, e, Append(W, e))
  BY DEF Grows

LEMMA LastLeftOut ==
    ASSUME NEW S, NEW q \in Seq(S), Len(q) > 0
    PROVE  /\ SubSeq(q, 1, Len(q) - 1) \in Seq(S)
           /\ Len(SubSeq(q, 1, Len(q) - 1)) = Len(q) - 1
           /\ \A j \in 1..(Len(q) - 1) : SubSeq(q, 1, Len(q) - 1)[j] = q[j]
  <1>1. Len(q) \in Nat \ {0}
    OBVIOUS
  <1>2. \A k \in 1..Len(q) : q[k] \in S
    OBVIOUS
  <1>3. PICK m \in Nat : Len(q) = m + 1
    <2>1. Len(q) - 1 \in Nat /\ Len(q) = (Len(q) - 1) + 1
      BY <1>1
    <2> QED
      BY <2>1
  <1>4. Len(q) - 1 = m /\ \A k \in 1..m : q[k] \in S
    BY <1>2, <1>3
  <1>5. /\ SubSeq(q, 1, m) \in Seq(S)
        /\ Len(SubSeq(q, 1, m)) = IF 1 <= m THEN m - 1 + 1 ELSE 0
        /\ \A i \in 1..(m - 1 + 1) : SubSeq(q, 1, m)[i] = q[1 + i - 1]
    BY <1>4, SubSeqProperties
  <1>6. Len(SubSeq(q, 1, m)) = m /\ \A i \in 1..m : SubSeq(q, 1, m)[i] = q[i]
    BY <1>5
  <1> QED
    BY <1>4, <1>5, <1>6

LEMMA ShrinksBy ==
    \A W \in Seq(Entries) : Len(W) > 0 => Shrinks(W, SubSeq(W, 1, Len(W) - 1))
  <1> SUFFICES ASSUME NEW W \in Seq(Entries), Len(W) > 0
               PROVE  Shrinks(W, SubSeq(W, 1, Len(W) - 1))
    OBVIOUS
  <1> DEFINE X == SubSeq(W, 1, Len(W) - 1)
  <1>1. X \in Seq(Entries) /\ Len(X) = Len(W) - 1 /\ \A j \in 1..(Len(W) - 1) : X[j] = W[j]
    BY LastLeftOut
  <1> HIDE DEF X
  <1>2. Len(W) \in Nat
    OBVIOUS
  <1>3. Shrinks(W, X)
    BY <1>1, <1>2 DEF Shrinks
  <1> QED
    BY <1>3 DEF X

LEMMA TurnsBy ==
    \A W \in Seq(Entries) : \A e \in Entries :
        Len(W) > 0 => Turns(W, e, [W EXCEPT ![Len(W)] = e])
  BY DEF Turns

LEMMA ThreadGrows ==
    \A th \in Seq(Sessions) : \A s \in Sessions :
        /\ Append(th, s) \in Seq(Sessions) /\ Len(Append(th, s)) = Len(th) + 1
        /\ \A j \in 1..Len(th) : Append(th, s)[j] = th[j]
        /\ Append(th, s)[Len(th) + 1] = s
  OBVIOUS

LEMMA ThreadShrinks ==
    \A th \in Seq(Sessions) : Len(th) > 0 =>
        /\ SubSeq(th, 1, Len(th) - 1) \in Seq(Sessions)
        /\ Len(SubSeq(th, 1, Len(th) - 1)) = Len(th) - 1
        /\ \A j \in 1..(Len(th) - 1) : SubSeq(th, 1, Len(th) - 1)[j] = th[j]
  BY LastLeftOut

LEMMA EntriesAre ==
    ASSUME NEW W, NEW th, NEW ca, Represents(th, ca, W)
    PROVE  /\ W \in Seq(Entries) /\ Len(W) \in Nat
           /\ \A j \in 1..Len(W) : /\ W[j] \in Entries /\ W[j].who \in Sessions
                                   /\ W[j].nr \in Nat /\ W[j].frame \in Frames
  <1>1. W \in Seq(Entries)
    BY DEF Represents
  <1>2. Len(W) \in Nat /\ \A j \in 1..Len(W) : W[j] \in Entries
    BY <1>1
  <1> QED
    BY <1>1, <1>2 DEF Entries

(* The innermost entry is the last call of its session. *)
LEMMA InnermostEntry ==
    ASSUME TypeOK, NEW W, Represents(thread, calls, W), NEW s \in Sessions, Innermost(s)
    PROVE  /\ Len(W) > 0 /\ Len(thread) > 0 /\ calls[s] # <<>>
           /\ W[Len(W)].who = s /\ W[Len(W)].frame = Top(s)
           /\ W[Len(W)].nr = Len(calls[s]) /\ Len(calls[s]) \in Nat \ {0}
  <1>1. thread \in Seq(Sessions) /\ thread # <<>> /\ thread[Len(thread)] = s
        /\ Len(thread) = Len(W)
    BY DEF Represents, Innermost
  <1>2. Len(W) > 0 /\ Len(W) \in Nat /\ Len(thread) > 0
    BY <1>1
  <1> DEFINE n == Len(W)
  <1>3. W[n].who = s /\ W[n].nr \in DOMAIN calls[s] /\ W[n].frame = calls[s][W[n].nr]
    BY <1>1, <1>2 DEF Represents
  <1>4. calls[s] \in Seq(Frames) /\ DOMAIN calls[s] = 1..Len(calls[s]) /\ Len(calls[s]) \in Nat
    BY DEF TypeOK
  <1>5. Len(calls[s]) \in DOMAIN calls[s] /\ calls[s] # <<>> /\ Len(calls[s]) # 0
    BY <1>3, <1>4
  <1>6. PICK j \in 1..Len(W) : W[j].who = s /\ W[j].nr = Len(calls[s])
    BY <1>5, SMTT(30) DEF Represents
  <1>7. j < n => W[j].nr < W[n].nr
    BY <1>2, <1>3, <1>6 DEF Represents
  <1>8. W[n].nr = Len(calls[s])
    BY <1>2, <1>3, <1>4, <1>6, <1>7
  <1> QED
    BY <1>2, <1>3, <1>4, <1>5, <1>8 DEF Top

LEMMA PushedStack ==
    ASSUME TypeOK, NEW W, Represents(thread, calls, W), NEW s \in Sessions, NEW f \in Frames,
           Enter(s, f), thread' = Append(thread, s)
    PROVE  \E e \in Entries : \E X \in Seq(Entries) :
               /\ e.who = s /\ e.frame = f /\ Grows(W, e, X)
               /\ Represents(thread', calls', X)
  <1>1. /\ \A t \in Sessions \ {s} : calls'[t] = calls[t]
        /\ Len(calls[s]) \in Nat
        /\ DOMAIN calls[s] = 1..Len(calls[s])
        /\ DOMAIN calls'[s] = 1..(Len(calls[s]) + 1)
        /\ \A k \in DOMAIN calls[s] : calls'[s][k] = calls[s][k]
        /\ calls'[s][Len(calls[s]) + 1] = f
    BY EnterCall
  <1>2. PICK nr \in Nat : nr = Len(calls[s]) + 1
    BY <1>1
  <1>3. PICK e \in Entries : e = [who |-> s, nr |-> nr, frame |-> f]
    BY <1>2 DEF Entries
  <1>4. e.who = s /\ e.nr = nr /\ e.frame = f
    BY <1>3
  <1>5. W \in Seq(Entries) /\ Len(W) \in Nat
    BY EntriesAre
  <1>6. PICK X \in Seq(Entries) : Grows(W, e, X)
    <2>1. Grows(W, e, Append(W, e))
      BY <1>5, GrowsBy, Zenon
    <2> QED
      BY <2>1 DEF Grows
  <1>7. /\ Len(X) = Len(W) + 1 /\ \A j \in 1..Len(W) : X[j] = W[j]
        /\ X[Len(W) + 1] = e
    BY <1>6 DEF Grows
  <1>8. /\ thread \in Seq(Sessions) /\ Len(thread) = Len(W)
        /\ \A j \in 1..Len(W) : /\ thread[j] = W[j].who
                                /\ W[j].who \in Sessions
                                /\ W[j].nr \in DOMAIN calls[W[j].who]
                                /\ W[j].frame = calls[W[j].who][W[j].nr]
        /\ \A t \in Sessions : \A k \in DOMAIN calls[t] :
               \E j \in 1..Len(W) : W[j].who = t /\ W[j].nr = k
        /\ \A j, l \in 1..Len(W) : j < l /\ W[j].who = W[l].who => W[j].nr < W[l].nr
    BY EntriesAre DEF Represents
  <1>9. /\ thread' \in Seq(Sessions) /\ Len(thread') = Len(X)
        /\ \A j \in 1..Len(W) : thread'[j] = thread[j]
        /\ thread'[Len(W) + 1] = s
    BY <1>7, <1>8, ThreadGrows
  <1>10. \A j \in 1..Len(X) : j \in 1..Len(W) \/ j = Len(W) + 1
    BY <1>5, <1>7
  <1>11. \A t \in Sessions : \A k \in DOMAIN calls[t] :
             k \in DOMAIN calls'[t] /\ calls'[t][k] = calls[t][k]
    <2> SUFFICES ASSUME NEW t \in Sessions, NEW k \in DOMAIN calls[t]
                 PROVE  k \in DOMAIN calls'[t] /\ calls'[t][k] = calls[t][k]
      OBVIOUS
    <2>1. CASE t = s
      BY <1>1, <2>1
    <2>2. CASE t # s
      BY <1>1, <2>2
    <2> QED
      BY <2>1, <2>2
  <1>12. \A j \in 1..Len(X) : /\ thread'[j] = X[j].who
                              /\ X[j].nr \in DOMAIN calls'[X[j].who]
                              /\ X[j].frame = calls'[X[j].who][X[j].nr]
    <2> SUFFICES ASSUME NEW j \in 1..Len(X)
                 PROVE  /\ thread'[j] = X[j].who
                        /\ X[j].nr \in DOMAIN calls'[X[j].who]
                        /\ X[j].frame = calls'[X[j].who][X[j].nr]
      OBVIOUS
    <2>1. CASE j \in 1..Len(W)
      BY <1>7, <1>8, <1>9, <1>11, <2>1
    <2>2. CASE j = Len(W) + 1
      BY <1>1, <1>2, <1>4, <1>7, <1>9, <2>2
    <2> QED
      BY <1>10, <2>1, <2>2
  <1>13. \A t \in Sessions : \A k \in DOMAIN calls'[t] :
             \E j \in 1..Len(X) : X[j].who = t /\ X[j].nr = k
    <2> SUFFICES ASSUME NEW t \in Sessions, NEW k \in DOMAIN calls'[t]
                 PROVE  \E j \in 1..Len(X) : X[j].who = t /\ X[j].nr = k
      OBVIOUS
    <2>1. CASE k \in DOMAIN calls[t]
      <3>1. PICK j \in 1..Len(W) : W[j].who = t /\ W[j].nr = k
        BY <2>1 DEF Represents
      <3>2. j \in 1..Len(X)
        BY <1>5, <1>7
      <3> QED
        BY <1>7, <3>1, <3>2
    <2>2. CASE k \notin DOMAIN calls[t]
      <3>1. t = s /\ k = nr
        BY <1>1, <1>2, <2>2
      <3>2. Len(W) + 1 \in 1..Len(X)
        BY <1>5, <1>7
      <3> QED
        BY <1>4, <1>7, <3>1, <3>2
    <2> QED
      BY <2>1, <2>2
  <1>14. \A j, l \in 1..Len(X) : j < l /\ X[j].who = X[l].who => X[j].nr < X[l].nr
    <2> SUFFICES ASSUME NEW j \in 1..Len(X), NEW l \in 1..Len(X), j < l, X[j].who = X[l].who
                 PROVE  X[j].nr < X[l].nr
      OBVIOUS
    <2>1. j \in 1..Len(W)
      BY <1>5, <1>7
    <2>2. CASE l \in 1..Len(W)
      BY <1>7, <1>8, <2>1, <2>2
    <2>3. CASE l = Len(W) + 1
      <3>1. W[j].who = s /\ W[j].nr \in 1..Len(calls[s])
        BY <1>1, <1>4, <1>7, <1>8, <2>1, <2>3
      <3> QED
        BY <1>1, <1>2, <1>4, <1>7, <2>1, <2>3, <3>1
    <2> QED
      BY <1>10, <2>2, <2>3
  <1>15. Represents(thread', calls', X)
    BY <1>9, <1>12, <1>13, <1>14 DEF Represents
  <1> QED
    BY <1>4, <1>6, <1>15

LEMMA PoppedStack ==
    ASSUME TypeOK, NEW W, Represents(thread, calls, W), NEW s \in Sessions, Innermost(s),
           Leave(s), thread' = SubSeq(thread, 1, Len(thread) - 1)
    PROVE  \E X \in Seq(Entries) : Shrinks(W, X) /\ Represents(thread', calls', X)
  <1>1. /\ Len(W) > 0 /\ Len(thread) > 0 /\ calls[s] # <<>>
        /\ W[Len(W)].who = s /\ W[Len(W)].nr = Len(calls[s])
    BY InnermostEntry
  <1>2. /\ \A t \in Sessions \ {s} : calls'[t] = calls[t]
        /\ Len(calls[s]) \in Nat \ {0}
        /\ DOMAIN calls[s] = 1..Len(calls[s])
        /\ DOMAIN calls'[s] = 1..(Len(calls[s]) - 1)
        /\ \A k \in DOMAIN calls'[s] : calls'[s][k] = calls[s][k]
    BY <1>1, LeaveCall
  <1>3. W \in Seq(Entries) /\ Len(W) \in Nat
    BY EntriesAre
  <1>4. PICK X \in Seq(Entries) : Shrinks(W, X)
    <2>1. Shrinks(W, SubSeq(W, 1, Len(W) - 1))
      BY <1>1, <1>3, ShrinksBy, Zenon
    <2> QED
      BY <2>1 DEF Shrinks
  <1>5. /\ Len(W) = Len(X) + 1 /\ Len(X) \in Nat /\ \A j \in 1..Len(X) : X[j] = W[j]
        /\ \A j \in 1..Len(X) : j \in 1..Len(W) /\ j < Len(W)
    BY <1>4 DEF Shrinks
  <1>6. /\ thread \in Seq(Sessions) /\ Len(thread) = Len(W)
        /\ \A j \in 1..Len(W) : /\ thread[j] = W[j].who
                                /\ W[j].who \in Sessions
                                /\ W[j].nr \in DOMAIN calls[W[j].who]
                                /\ W[j].frame = calls[W[j].who][W[j].nr]
        /\ \A t \in Sessions : \A k \in DOMAIN calls[t] :
               \E j \in 1..Len(W) : W[j].who = t /\ W[j].nr = k
        /\ \A j, l \in 1..Len(W) : j < l /\ W[j].who = W[l].who => W[j].nr < W[l].nr
    BY EntriesAre DEF Represents
  <1>7. /\ thread' \in Seq(Sessions) /\ Len(thread') = Len(X)
        /\ \A j \in 1..Len(X) : thread'[j] = thread[j]
    BY <1>1, <1>5, <1>6, ThreadShrinks
  <1>8. Len(W) \in 1..Len(W)
    BY <1>1, <1>3
  <1>9. \A j \in 1..Len(X) : /\ thread'[j] = X[j].who
                             /\ X[j].nr \in DOMAIN calls'[X[j].who]
                             /\ X[j].frame = calls'[X[j].who][X[j].nr]
    <2> SUFFICES ASSUME NEW j \in 1..Len(X)
                 PROVE  /\ thread'[j] = X[j].who
                        /\ X[j].nr \in DOMAIN calls'[X[j].who]
                        /\ X[j].frame = calls'[X[j].who][X[j].nr]
      OBVIOUS
    <2>1. j \in 1..Len(W) /\ j < Len(W) /\ X[j] = W[j]
      BY <1>5
    <2>2. CASE X[j].who = s
      <3>1. W[j].who = s /\ W[j].who = W[Len(W)].who
        BY <1>1, <2>1, <2>2
      <3>2. W[j].nr < W[Len(W)].nr
        BY <1>6, <1>8, <2>1, <3>1
      <3>3. /\ W[j].nr \in DOMAIN calls[s] /\ W[j].frame = calls[s][W[j].nr]
            /\ thread[j] = s
        BY <1>6, <2>1, <3>1
      <3>4. W[j].nr \in DOMAIN calls'[s]
        BY <1>1, <1>2, <3>2, <3>3
      <3>5. calls'[s][W[j].nr] = W[j].frame
        BY <1>2, <3>3, <3>4
      <3>6. thread'[j] = s
        BY <1>7, <3>3
      <3> QED
        BY <2>1, <3>1, <3>4, <3>5, <3>6
    <2>3. CASE X[j].who # s
      <3>1. PICK t \in Sessions : t = W[j].who
        BY <1>6, <2>1
      <3>2. X[j].who = t /\ X[j].nr = W[j].nr /\ X[j].frame = W[j].frame
        BY <2>1, <3>1
      <3>3. calls'[t] = calls[t]
        BY <1>2, <2>3, <3>1, <3>2
      <3>4. thread[j] = t /\ W[j].nr \in DOMAIN calls[t] /\ W[j].frame = calls[t][W[j].nr]
        BY <1>6, <2>1, <3>1
      <3>5. thread'[j] = t
        BY <1>7, <3>4
      <3> QED
        BY <3>2, <3>3, <3>4, <3>5
    <2> QED
      BY <2>2, <2>3
  <1>10. \A t \in Sessions : \A k \in DOMAIN calls'[t] :
             \E j \in 1..Len(X) : X[j].who = t /\ X[j].nr = k
    <2> SUFFICES ASSUME NEW t \in Sessions, NEW k \in DOMAIN calls'[t]
                 PROVE  \E j \in 1..Len(X) : X[j].who = t /\ X[j].nr = k
      OBVIOUS
    <2>1. k \in DOMAIN calls[t] /\ (t = s => k # Len(calls[s]))
      BY <1>2
    <2>2. PICK j \in 1..Len(W) : W[j].who = t /\ W[j].nr = k
      BY <1>6, <2>1
    <2>3. j # Len(W)
      BY <1>1, <2>1, <2>2
    <2>4. j \in 1..Len(X)
      BY <1>5, <2>3
    <2> QED
      BY <1>5, <2>2, <2>4
  <1>11. \A j, l \in 1..Len(X) : j < l /\ X[j].who = X[l].who => X[j].nr < X[l].nr
    BY <1>5, <1>6
  <1>12. Represents(thread', calls', X)
    BY <1>7, <1>9, <1>10, <1>11 DEF Represents
  <1> QED
    BY <1>4, <1>12

LEMMA TurnedStack ==
    ASSUME TypeOK, NEW W, Represents(thread, calls, W), NEW s \in Sessions, Innermost(s),
           NEW f \in Frames, calls' = [calls EXCEPT ![s][Len(calls[s])] = f], thread' = thread
    PROVE  \E e \in Entries : \E X \in Seq(Entries) :
               /\ e.who = s /\ e.frame = f /\ Turns(W, e, X)
               /\ Represents(thread', calls', X)
  <1>1. /\ Len(W) > 0 /\ calls[s] # <<>> /\ W[Len(W)].who = s
        /\ W[Len(W)].nr = Len(calls[s]) /\ Len(calls[s]) \in Nat \ {0}
    BY InnermostEntry
  <1>2. calls \in [Sessions -> Seq(Frames)] /\ calls[s] \in Seq(Frames)
    BY DEF TypeOK
  <1>3. PICK nr \in Nat : nr = Len(calls[s])
    BY <1>1
  <1>4. /\ \A t \in Sessions : DOMAIN calls'[t] = DOMAIN calls[t]
        /\ \A t \in Sessions : \A k \in DOMAIN calls[t] :
               calls'[t][k] = IF t = s /\ k = nr THEN f ELSE calls[t][k]
    BY <1>2, <1>3
  <1>5. PICK e \in Entries : e = [who |-> s, nr |-> nr, frame |-> f]
    BY <1>3 DEF Entries
  <1>6. e.who = s /\ e.nr = nr /\ e.frame = f
    BY <1>5
  <1>7. W \in Seq(Entries) /\ Len(W) \in Nat
    BY EntriesAre
  <1>8. PICK X \in Seq(Entries) : Turns(W, e, X)
    <2>1. Turns(W, e, [W EXCEPT ![Len(W)] = e])
      BY <1>1, <1>7, TurnsBy, Zenon
    <2> QED
      BY <2>1 DEF Turns
  <1>9. Len(X) = Len(W) /\ X[Len(W)] = e /\ \A j \in 1..(Len(W) - 1) : X[j] = W[j]
    BY <1>8 DEF Turns
  <1>10. /\ thread \in Seq(Sessions) /\ Len(thread) = Len(W)
         /\ \A j \in 1..Len(W) : /\ thread[j] = W[j].who
                                 /\ W[j].who \in Sessions
                                 /\ W[j].nr \in DOMAIN calls[W[j].who]
                                 /\ W[j].frame = calls[W[j].who][W[j].nr]
         /\ \A t \in Sessions : \A k \in DOMAIN calls[t] :
                \E j \in 1..Len(W) : W[j].who = t /\ W[j].nr = k
         /\ \A j, l \in 1..Len(W) : j < l /\ W[j].who = W[l].who => W[j].nr < W[l].nr
    BY EntriesAre DEF Represents
  <1>11. \A j \in 1..Len(W) : /\ j \in 1..(Len(W) - 1) \/ j = Len(W)
                              /\ X[j].who = W[j].who /\ X[j].nr = W[j].nr
    <2>1. \A j \in 1..Len(W) : j \in 1..(Len(W) - 1) \/ j = Len(W)
      BY <1>7
    <2> QED
      BY <1>1, <1>3, <1>6, <1>9, <2>1
  <1>12. \A j \in 1..Len(X) : /\ thread'[j] = X[j].who
                              /\ X[j].nr \in DOMAIN calls'[X[j].who]
                              /\ X[j].frame = calls'[X[j].who][X[j].nr]
    <2> SUFFICES ASSUME NEW j \in 1..Len(W)
                 PROVE  /\ thread[j] = X[j].who
                        /\ X[j].nr \in DOMAIN calls'[X[j].who]
                        /\ X[j].frame = calls'[X[j].who][X[j].nr]
      BY <1>9
    <2>1. thread[j] = X[j].who /\ X[j].nr \in DOMAIN calls'[X[j].who]
      BY <1>4, <1>10, <1>11
    <2>2. CASE j = Len(W)
      BY <1>4, <1>6, <1>9, <1>10, <1>11, <2>1, <2>2
    <2>3. CASE j # Len(W)
      <3>1. X[j] = W[j]
        BY <1>9, <1>11, <2>3
      <3>2. Len(W) \in 1..Len(W) /\ j < Len(W)
        BY <1>1, <1>7, <2>3
      <3>3. ~(W[j].who = s /\ W[j].nr = nr)
        <4>1. W[j].who = s => W[j].nr < nr
          BY <1>1, <1>3, <1>10, <3>2
        <4> QED
          BY <1>3, <4>1
      <3> QED
        BY <1>4, <1>10, <2>1, <3>1, <3>3
    <2> QED
      BY <2>2, <2>3
  <1>13. \A t \in Sessions : \A k \in DOMAIN calls'[t] :
             \E j \in 1..Len(X) : X[j].who = t /\ X[j].nr = k
    BY <1>4, <1>9, <1>10, <1>11, SMTT(30)
  <1>14. \A j, l \in 1..Len(X) : j < l /\ X[j].who = X[l].who => X[j].nr < X[l].nr
    BY <1>9, <1>10, <1>11
  <1>15. Represents(thread', calls', X)
    BY <1>9, <1>10, <1>12, <1>13, <1>14 DEF Represents
  <1> QED
    BY <1>6, <1>8, <1>15
-----------------------------------------------------------------------------
(* What comes above what *)

LEMMA GrownNested ==
    ASSUME NEW W \in Seq(Entries), NEW co, Nested(W, co), NEW e, NEW X, Grows(W, e, X),
           NEW new \in {"foreign", "call"},
           new = "foreign" <=> e.frame.at \in ForeignPoints,
           Sits(X, Len(X))
    PROVE  Nested(X, new)
  <1>1. /\ Len(W) \in Nat /\ Len(X) = Len(W) + 1 /\ X[Len(X)] = e
        /\ \A j \in 1..Len(W) : X[j] = W[j]
    BY DEF Grows
  <1>2. ASSUME NEW j \in 1..Len(X)
        PROVE  Sits(X, j)
    <2>1. CASE j = Len(X)
      BY <2>1
    <2>2. CASE j # Len(X)
      <3>1. j \in 1..Len(W) /\ X[j] = W[j] /\ (j > 1 => X[j - 1] = W[j - 1])
        BY <1>1, <2>2
      <3>2. Sits(W, j)
        BY <3>1 DEF Nested
      <3> QED
        BY <3>1, <3>2 DEF Sits
    <2> QED
      BY <2>1, <2>2
  <1> QED
    BY <1>1, <1>2 DEF Nested

LEMMA ShrunkNested ==
    ASSUME NEW W \in Seq(Entries), NEW co, Nested(W, co), NEW X, Shrinks(W, X),
           NEW new \in {"foreign", "call", "ok", "failed"},
           new = "foreign" <=> Len(X) = 0 \/ W[Len(X)].frame.at \in ForeignPoints
    PROVE  Nested(X, new)
  <1>1. /\ Len(X) \in Nat /\ Len(W) = Len(X) + 1 /\ \A j \in 1..Len(X) : X[j] = W[j]
    BY DEF Shrinks
  <1>2. ASSUME NEW j \in 1..Len(X)
        PROVE  Sits(X, j)
    <2>1. j \in 1..Len(W) /\ X[j] = W[j] /\ (j > 1 => X[j - 1] = W[j - 1])
      BY <1>1
    <2>2. Sits(W, j)
      BY <2>1 DEF Nested
    <2> QED
      BY <2>1, <2>2 DEF Sits
  <1>3. Len(X) # 0 => X[Len(X)] = W[Len(X)]
    BY <1>1
  <1> QED
    BY <1>2, <1>3 DEF Nested

LEMMA TurnedNested ==
    ASSUME NEW W \in Seq(Entries), NEW co, Nested(W, co), NEW e, NEW X, Turns(W, e, X),
           NEW new \in {"foreign", "call"},
           new = "foreign" <=> e.frame.at \in ForeignPoints,
           W[Len(W)].frame.at \in ServingPoints, e.frame.at \in ServingPoints,
           e.who = W[Len(W)].who, e.frame.id = W[Len(W)].frame.id
    PROVE  Nested(X, new)
  <1>1. /\ Len(W) \in Nat \ {0} /\ Len(X) = Len(W) /\ X[Len(W)] = e
        /\ \A j \in 1..(Len(W) - 1) : X[j] = W[j]
    BY DEF Turns
  <1>2. ASSUME NEW j \in 1..Len(X)
        PROVE  Sits(X, j)
    <2>1. Sits(W, j) /\ j \in 1..Len(W)
      BY <1>1 DEF Nested
    <2>2. j > 1 => X[j - 1] = W[j - 1]
      BY <1>1
    <2>3. CASE j = Len(W)
      BY <1>1, <2>1, <2>2, <2>3 DEF Sits, ServingPoints
    <2>4. CASE j # Len(W)
      <3>1. X[j] = W[j]
        BY <1>1, <2>4
      <3> QED
        BY <2>1, <2>2, <3>1 DEF Sits
    <2> QED
      BY <2>3, <2>4
  <1> QED
    BY <1>1, <1>2 DEF Nested

(* Only the control changes, in a call to the peer. *)
LEMMA SameNested ==
    ASSUME NEW W, NEW co, Nested(W, co), co # "foreign", NEW new \in {"ok", "failed"}
    PROVE  Nested(W, new)
  BY DEF Nested

LEMMA RespondLast ==
    ASSUME NEW W \in Seq(Entries), NEW co, Nested(W, co), NEW j \in 1..Len(W),
           W[j].frame.at = "Respond"
    PROVE  j = Len(W)
  <1>1. ASSUME j # Len(W)
        PROVE  FALSE
    <2>1. j + 1 \in 1..Len(W) /\ (j + 1) - 1 = j /\ j + 1 > 1
      BY <1>1
    <2>2. Sits(W, j + 1)
      BY <2>1 DEF Nested
    <2>3. /\ W[j + 1].frame.at \in ServingPoints => W[j].frame.at = "SendRequest"
          /\ W[j + 1].frame.at = "Notification" => W[j].frame.at = "SendNotification"
          /\ W[j + 1].frame.at \in {"SendRequest", "SendNotification"} =>
                W[j].frame.at \in ForeignPoints
      BY <2>1, <2>2 DEF Sits, IsSend
    <2>4. W[j + 1].frame \in Frames
      <3>1. W[j + 1] \in Entries
        BY <2>1
      <3> QED
        BY <3>1 DEF Entries
    <2>5. W[j + 1].frame.at \in ServingPoints \cup {"Notification", "SendRequest", "SendNotification"}
      BY <2>4 DEF Frames, RequestFrames, NotificationFrames, ServingPoints
    <2> QED
      BY <2>3, <2>5 DEF ForeignPoints
  <1> QED
    BY <1>1

(* A request that was sent is on the stack once, and not returned yet. *)
LEMMA SendIsCall ==
    ASSUME TypeOK, OneCallPerId, NEW W, Represents(thread, calls, W), NEW j \in 1..Len(W),
           NEW u \in Sessions, NEW i \in Ids, IsSend(W[j], u, i)
    PROVE  /\ W[j].nr \in InSendRequest(u, i)
           /\ returned[u][i] = "none" /\ i # next_request_id_[u]
  <1>1. W[j].nr \in InSendRequest(u, i)
    BY DEF Represents, IsSend, InSendRequest
  <1>2. i \in 1..(next_request_id_[u] - 1) /\ returned[u][i] = "none"
    BY <1>1 DEF OneCallPerId
  <1>3. next_request_id_[u] \in Nat
    BY BoundsAssumption DEF TypeOK
  <1> QED
    BY <1>1, <1>2, <1>3

LEMMA OneSend ==
    ASSUME TypeOK, OneCallPerId, NEW W, Represents(thread, calls, W),
           NEW j \in 1..Len(W), NEW l \in 1..Len(W),
           NEW u \in Sessions, NEW i \in Ids, IsSend(W[j], u, i), IsSend(W[l], u, i)
    PROVE  j = l
  <1>1. W[j].nr \in InSendRequest(u, i) /\ W[l].nr \in InSendRequest(u, i)
    BY SendIsCall
  <1>2. W[j].nr = W[l].nr /\ W[j].who = W[l].who
    BY <1>1 DEF OneCallPerId, IsSend
  <1>3. W[j].nr \in Nat /\ Len(W) \in Nat
    BY EntriesAre
  <1>4. ~(j < l) /\ ~(l < j)
    BY <1>2, <1>3 DEF Represents
  <1> QED
    BY <1>3, <1>4
-----------------------------------------------------------------------------
(* What is known of the requests on the stack when the stack changes       *)
LEMMA Peers ==
    \A s \in Sessions : Peer[s] \in Sessions /\ Peer[s] # s /\ Peer[Peer[s]] = s
  BY PeerAssumption

(* The request i of session u is the only one that changes. *)
Elsewhere(u, i, pr, ha, pr2, ha2) ==
    \A v \in Sessions : \A k \in Ids :
        v # u \/ k # i => pr2[v][k] = pr[v][k] /\ ha2[Peer[v]][k] = ha[Peer[v]][k]

(* A request that is being served, unless its response is on the way, is   *)
(* where it was when only a request above it changes.                      *)
LEMMA KeptBelow ==
    ASSUME NEW W \in Seq(Entries), NEW co, Nested(W, co), NEW j \in 1..Len(W),
           W[j].frame.at # "Respond",
           NEW u \in Sessions, NEW i \in Ids,
           \A l \in 1..Len(W) : IsSend(W[l], u, i) => j <= l,
           NEW pr, NEW ha, Stage(W[j], pr, ha, co),
           NEW pr2, NEW ha2, NEW co2, Elsewhere(u, i, pr, ha, pr2, ha2)
    PROVE  Stage(W[j], pr2, ha2, co2)
  <1> DEFINE t == W[j].who
             f == W[j].frame
  <1>1. W[j] \in Entries
    OBVIOUS
  <1>2. t \in Sessions /\ f \in Frames
    BY <1>1 DEF Entries
  <1>3. Peer[t] \in Sessions /\ Peer[Peer[t]] = t
    BY <1>2, Peers
  <1>4. CASE f.at \in {"Request", "PostSend"}
    <2>1. f.id \in Ids
      BY <1>2, <1>4 DEF Frames, RequestFrames, NotificationFrames
    <2>2. j > 1 /\ IsSend(W[j - 1], Peer[t], f.id)
      BY <1>4 DEF Nested, Sits, ServingPoints
    <2>3. j - 1 \in 1..Len(W) /\ ~(j <= j - 1)
      BY <2>2
    <2>4. Peer[t] # u \/ f.id # i
      BY <2>2, <2>3
    <2>5. pr2[Peer[t]][f.id] = pr[Peer[t]][f.id] /\ ha2[t][f.id] = ha[t][f.id]
      BY <1>3, <2>1, <2>4 DEF Elsewhere
    <2> QED
      BY <1>4, <2>5 DEF Stage
  <1>5. CASE f.at \notin {"Request", "PostSend"}
    BY <1>5 DEF Stage
  <1> QED
    BY <1>4, <1>5

LEMMA StillThere ==
    \A e, pr, ha, co, co2 : e.frame.at # "Respond" /\ Stage(e, pr, ha, co) => Stage(e, pr, ha, co2)
  BY DEF Stage

(* What the frame f of session s may come above *)
FitsAbove(W, s, f) ==
    /\ f.at \in ServingPoints => Len(W) > 0 /\ IsSend(W[Len(W)], Peer[s], f.id)
    /\ f.at = "Notification" => Len(W) > 0 /\ W[Len(W)].frame.at = "SendNotification"
    /\ f.at \in {"SendRequest", "SendNotification"} /\ Len(W) > 0 =>
           W[Len(W)].frame.at \in ForeignPoints

(* An entry is as far as the variables say. *)
InStage(e, pr, ha, co) == Stage(e, pr, ha, co) /\ Ending(e, pr, ha, co)

LEMMA PushedInv ==
    ASSUME TypeOK, NEW W, Represents(thread, calls, W), Nested(W, control),
           NEW s \in Sessions, NEW f \in Frames, Enter(s, f), thread' = Append(thread, s),
           control' \in {"foreign", "call"}, control' = "foreign" <=> f.at \in ForeignPoints,
           FitsAbove(W, s, f),
           \A j \in 1..Len(W) : Stage(W[j], promise', handled', control'),
           \A e \in Entries : e.who = s /\ e.frame = f => InStage(e, promise', handled', control')
    PROVE  Stacked'
  <1>1. PICK e \in Entries, X \in Seq(Entries) :
           /\ e.who = s /\ e.frame = f /\ Grows(W, e, X)
           /\ Represents(thread', calls', X)
    BY PushedStack
  <1>2. W \in Seq(Entries) /\ Len(W) \in Nat
    BY EntriesAre
  <1>3. Len(X) = Len(W) + 1 /\ X[Len(X)] = e /\ \A j \in 1..Len(W) : X[j] = W[j]
    BY <1>1 DEF Grows
  <1>4. Sits(X, Len(X))
    <2>1. CASE Len(W) = 0
      BY <1>1, <1>3, <2>1 DEF FitsAbove, Sits
    <2>2. CASE Len(W) # 0
      <3>1. Len(X) > 1 /\ Len(X) - 1 = Len(W) /\ X[Len(W)] = W[Len(W)] /\ Len(W) > 0
        BY <1>2, <1>3, <2>2
      <3> QED
        BY <1>1, <1>3, <3>1 DEF FitsAbove, Sits
    <2> QED
      BY <2>1, <2>2
  <1>5. PICK co \in {"foreign", "call"} : co = control'
    OBVIOUS
  <1>6. Nested(X, co)
    <2>1. Grows(W, e, X) /\ (co = "foreign" <=> e.frame.at \in ForeignPoints)
      BY <1>1, <1>5
    <2> QED
      BY <1>2, <1>4, <2>1, GrownNested
  <1>7. Stages(X, promise', handled', control')
    <2>1. Stage(e, promise', handled', control') /\ Ending(e, promise', handled', control')
      BY <1>1 DEF InStage
    <2>2. \A j \in 1..Len(X) : j \in 1..Len(W) \/ j = Len(X)
      BY <1>2, <1>3
    <2>3. \A j \in 1..Len(X) : Stage(X[j], promise', handled', control')
      BY <1>3, <2>1, <2>2
    <2> QED
      BY <1>3, <2>1, <2>3 DEF Stages
  <1> QED
    BY <1>1, <1>5, <1>6, <1>7 DEF Stacked

LEMMA PoppedInv ==
    ASSUME TypeOK, NEW W, Represents(thread, calls, W), Nested(W, control),
           NEW s \in Sessions, Innermost(s), Leave(s),
           thread' = SubSeq(thread, 1, Len(thread) - 1),
           control' \in {"foreign", "ok", "failed"},
           control' = "foreign" <=> Len(W) = 1 \/ W[Len(W) - 1].frame.at \in ForeignPoints,
           \A j \in 1..(Len(W) - 1) : Stage(W[j], promise', handled', control'),
           Len(W) > 1 => Ending(W[Len(W) - 1], promise', handled', control')
    PROVE  Stacked'
  <1>1. PICK X \in Seq(Entries) : Shrinks(W, X) /\ Represents(thread', calls', X)
    BY PoppedStack
  <1>2. W \in Seq(Entries) /\ Len(W) \in Nat
    BY EntriesAre
  <1>3. Len(W) = Len(X) + 1 /\ Len(X) \in Nat /\ \A j \in 1..Len(X) : X[j] = W[j]
    BY <1>1 DEF Shrinks
  <1>4. Len(W) - 1 = Len(X)
    BY <1>3
  <1>5. PICK co \in {"foreign", "call", "ok", "failed"} : co = control'
    OBVIOUS
  <1>6. Nested(X, co)
    <2>1. Shrinks(W, X)
      BY <1>1
    <2>2. co = "foreign" <=> Len(X) = 0 \/ W[Len(X)].frame.at \in ForeignPoints
      BY <1>3, <1>4, <1>5
    <2> QED
      BY <1>2, <2>1, <2>2, ShrunkNested
  <1>7. Stages(X, promise', handled', control')
    <2>1. \A j \in 1..Len(X) : Stage(X[j], promise', handled', control')
      BY <1>3, <1>4
    <2>2. Len(X) > 0 => Ending(X[Len(X)], promise', handled', control')
      BY <1>3, <1>4
    <2> QED
      BY <2>1, <2>2 DEF Stages
  <1> QED
    BY <1>1, <1>5, <1>6, <1>7 DEF Stacked

LEMMA TurnedInv ==
    ASSUME TypeOK, NEW W, Represents(thread, calls, W), Nested(W, control),
           NEW s \in Sessions, Innermost(s), NEW f \in Frames,
           calls' = [calls EXCEPT ![s][Len(calls[s])] = f], thread' = thread,
           Top(s).at \in ServingPoints, f.at \in ServingPoints, f.id = Top(s).id,
           control' \in {"foreign", "call"}, control' = "foreign" <=> f.at \in ForeignPoints,
           \A j \in 1..(Len(W) - 1) : Stage(W[j], promise', handled', control'),
           \A e \in Entries : e.who = s /\ e.frame = f => InStage(e, promise', handled', control')
    PROVE  Stacked'
  <1>1. PICK e \in Entries, X \in Seq(Entries) :
           /\ e.who = s /\ e.frame = f /\ Turns(W, e, X)
           /\ Represents(thread', calls', X)
    BY TurnedStack, ZenonT(40)
  <1>2. W \in Seq(Entries) /\ Len(W) \in Nat
    BY EntriesAre
  <1>3. Len(X) = Len(W) /\ X[Len(X)] = e /\ \A j \in 1..(Len(W) - 1) : X[j] = W[j]
    BY <1>1 DEF Turns
  <1>4. W[Len(W)].who = s /\ W[Len(W)].frame = Top(s)
    BY InnermostEntry
  <1>5. PICK co \in {"foreign", "call"} : co = control'
    OBVIOUS
  <1>6. Nested(X, co)
    <2>1. /\ Turns(W, e, X) /\ (co = "foreign" <=> e.frame.at \in ForeignPoints)
          /\ W[Len(W)].frame.at \in ServingPoints /\ e.frame.at \in ServingPoints
          /\ e.who = W[Len(W)].who /\ e.frame.id = W[Len(W)].frame.id
      BY <1>1, <1>4, <1>5
    <2> QED
      BY <1>2, <2>1, TurnedNested
  <1>7. Stages(X, promise', handled', control')
    <2>1. Stage(e, promise', handled', control') /\ Ending(e, promise', handled', control')
      BY <1>1 DEF InStage
    <2>2. \A j \in 1..Len(X) : j \in 1..(Len(W) - 1) \/ j = Len(X)
      BY <1>2, <1>3
    <2>3. \A j \in 1..Len(X) : Stage(X[j], promise', handled', control')
      BY <1>3, <2>1, <2>2
    <2> QED
      BY <1>3, <2>1, <2>3 DEF Stages
  <1> QED
    BY <1>1, <1>5, <1>6, <1>7 DEF Stacked

(* The stack stays, a call to the peer returns. *)
LEMMA ReturnedInv ==
    ASSUME NEW W \in Seq(Entries), Represents(thread, calls, W), Nested(W, control),
           control # "foreign", UNCHANGED <<thread, calls>>, control' \in {"ok", "failed"},
           \A j \in 1..Len(W) : Stage(W[j], promise', handled', control'),
           Len(W) > 0 => Ending(W[Len(W)], promise', handled', control')
    PROVE  Stacked'
  <1>1. PICK co \in {"ok", "failed"} : co = control'
    OBVIOUS
  <1>2. Nested(W, co)
    BY SameNested
  <1>3. Represents(thread', calls', W)
    OBVIOUS
  <1> QED
    BY <1>1, <1>2, <1>3 DEF Stacked, Stages
-----------------------------------------------------------------------------
(* What the stack says before a step *)
Situation(W) ==
    /\ Represents(thread, calls, W) /\ Nested(W, control)
    /\ Stages(W, promise, handled, control)

LEMMA StackIs ==
    ASSUME NEW W, Situation(W)
    PROVE  /\ W \in Seq(Entries) /\ Len(W) \in Nat
           /\ Represents(thread, calls, W) /\ Nested(W, control)
           /\ \A j \in 1..Len(W) : Stage(W[j], promise, handled, control)
           /\ Len(W) > 0 => Ending(W[Len(W)], promise, handled, control)
  BY EntriesAre DEF Situation, Stages

LEMMA RespondIsInnermost ==
    ASSUME NEW W, Situation(W)
    PROVE  /\ \A j \in 1..(Len(W) - 1) : W[j].frame.at # "Respond"
           /\ Len(W) > 0 /\ W[Len(W)].frame.at # "Respond" =>
                 \A j \in 1..Len(W) : W[j].frame.at # "Respond"
           /\ control = "foreign" => \A j \in 1..Len(W) : W[j].frame.at # "Respond"
  <1>1. W \in Seq(Entries) /\ Len(W) \in Nat /\ Nested(W, control)
    BY StackIs
  <1>2. \A j \in 1..Len(W) : W[j].frame.at = "Respond" => j = Len(W)
    BY <1>1, RespondLast
  <1>3. control = "foreign" => Len(W) = 0 \/ W[Len(W)].frame.at \in ForeignPoints
    BY <1>1 DEF Nested
  <1> QED
    BY <1>1, <1>2, <1>3 DEF ForeignPoints

(* Only the control changes: the requests below the innermost call, and    *)
(* all of them unless that call sends a response, are where they were.     *)
LEMMA BelowStill ==
    ASSUME NEW W, Situation(W), NEW co
    PROVE  /\ \A j \in 1..(Len(W) - 1) : Stage(W[j], promise, handled, co)
           /\ Len(W) > 0 /\ W[Len(W)].frame.at # "Respond" =>
                 \A j \in 1..Len(W) : Stage(W[j], promise, handled, co)
           /\ control = "foreign" => \A j \in 1..Len(W) : Stage(W[j], promise, handled, co)
  <1>1. /\ Len(W) \in Nat
        /\ \A j \in 1..Len(W) : Stage(W[j], promise, handled, control)
    BY StackIs
  <1>2. \A j \in 1..Len(W) : W[j].frame.at # "Respond" => Stage(W[j], promise, handled, co)
    BY <1>1, StillThere, Zenon
  <1>3. \A j \in 1..(Len(W) - 1) : j \in 1..Len(W)
    BY <1>1
  <1> QED
    BY <1>2, <1>3, RespondIsInnermost

(* The innermost call serves a request: its sender is right below it. *)
LEMMA SenderBelow ==
    ASSUME TypeOK, NEW W, Situation(W), NEW s \in Sessions, Innermost(s),
           Top(s).at \in ServingPoints
    PROVE  /\ Len(W) > 1 /\ Len(W) - 1 \in 1..Len(W) /\ Len(W) \in 1..Len(W)
           /\ IsSend(W[Len(W) - 1], Peer[s], Top(s).id)
           /\ Top(s).id \in Ids /\ Peer[s] \in Sessions /\ Peer[Peer[s]] = s
           /\ Stage(W[Len(W)], promise, handled, control)
           /\ W[Len(W)].who = s /\ W[Len(W)].frame = Top(s)
  <1>1. /\ Len(W) > 0 /\ calls[s] # <<>>
        /\ W[Len(W)].who = s /\ W[Len(W)].frame = Top(s)
    BY StackIs, InnermostEntry
  <1>2. /\ Len(W) \in Nat /\ Nested(W, control)
        /\ \A j \in 1..Len(W) : Stage(W[j], promise, handled, control)
    BY StackIs
  <1>3. Len(W) \in 1..Len(W)
    BY <1>1, <1>2
  <1>4. Sits(W, Len(W))
    BY <1>2, <1>3 DEF Nested
  <1>5. Len(W) > 1 /\ IsSend(W[Len(W) - 1], Peer[s], Top(s).id)
    BY <1>1, <1>4 DEF Sits
  <1>6. Top(s).id \in Ids
    BY <1>1, TopFrame DEF ServingPoints
  <1>7. Len(W) - 1 \in 1..Len(W)
    BY <1>2, <1>5
  <1> QED
    BY <1>1, <1>2, <1>3, <1>5, <1>6, <1>7, Peers

(* When only that request changes, the ones below are where they were.     *)
LEMMA ServedKept ==
    ASSUME TypeOK, OneCallPerId, NEW W, Situation(W), NEW s \in Sessions, Innermost(s),
           Top(s).at \in ServingPoints, NEW pr2, NEW ha2, NEW co2,
           Elsewhere(Peer[s], Top(s).id, promise, handled, pr2, ha2)
    PROVE  \A j \in 1..(Len(W) - 1) : Stage(W[j], pr2, ha2, co2)
  <1>1. /\ Len(W) > 1 /\ Len(W) - 1 \in 1..Len(W)
        /\ IsSend(W[Len(W) - 1], Peer[s], Top(s).id)
        /\ Top(s).id \in Ids /\ Peer[s] \in Sessions
    BY SenderBelow
  <1>2. /\ W \in Seq(Entries) /\ Len(W) \in Nat /\ Represents(thread, calls, W)
        /\ Nested(W, control)
        /\ \A j \in 1..Len(W) : Stage(W[j], promise, handled, control)
    BY StackIs
  <1>3. \A l \in 1..Len(W) : IsSend(W[l], Peer[s], Top(s).id) => l = Len(W) - 1
    <2> SUFFICES ASSUME NEW l \in 1..Len(W), IsSend(W[l], Peer[s], Top(s).id)
                 PROVE  l = Len(W) - 1
      OBVIOUS
    <2> QED
      BY <1>1, <1>2, OneSend
  <1>4. ASSUME NEW j \in 1..(Len(W) - 1)
        PROVE  Stage(W[j], pr2, ha2, co2)
    <2>1. j \in 1..Len(W) /\ W[j].frame.at # "Respond"
      BY <1>2, RespondIsInnermost
    <2>2. Stage(W[j], promise, handled, control)
      BY <1>2, <2>1
    <2>3. \A l \in 1..Len(W) : IsSend(W[l], Peer[s], Top(s).id) => j <= l
      BY <1>3
    <2> QED
      BY <1>1, <1>2, <2>1, <2>2, <2>3, KeptBelow
  <1> QED
    BY <1>4

(* The part of the invariant that is not about the stack *)
Records == HandledTypeOK /\ Unasked /\ FutureIffAnswered

LEMMA Quiet ==
    ASSUME Records, UNCHANGED <<promise, handled, returned>>
    PROVE  Records'
  BY DEF Records, HandledTypeOK, Unasked, FutureIffAnswered

LEMMA InvParts == DirectInv <=> Records /\ \E W : Situation(W)
  BY StackIs DEF DirectInv, Records, Stacked, Situation

(* A fate is set. *)
LEMMA FateChanged ==
    ASSUME HandledTypeOK, NEW t \in Sessions, NEW i \in Ids, NEW fate \in Fates,
           Handled(t, i, fate)
    PROVE  /\ HandledTypeOK' /\ handled'[t][i] = fate
           /\ \A v \in Sessions : \A k \in Ids :
                 v # t \/ k # i => handled'[v][k] = handled[v][k]
           /\ \A v \in Sessions : \A k \in Ids :
                 v # Peer[t] \/ k # i => handled'[Peer[v]][k] = handled[Peer[v]][k]
  <1>1. /\ HandledTypeOK' /\ handled'[t][i] = fate
        /\ \A v \in Sessions : \A k \in Ids :
              v # t \/ k # i => handled'[v][k] = handled[v][k]
    BY DEF HandledTypeOK, Handled
  <1>2. \A v \in Sessions : v # Peer[t] => Peer[v] # t /\ Peer[v] \in Sessions
    BY Peers
  <1>3. \A v \in Sessions : Peer[v] \in Sessions
    BY Peers
  <1> QED
    BY <1>1, <1>2, <1>3

LEMMA FateRecords ==
    ASSUME Records, NEW t \in Sessions, NEW i \in Ids, NEW fate \in Fates,
           Handled(t, i, fate), UNCHANGED <<promise, returned>>, promise[Peer[t]][i] # "none"
    PROVE  /\ Records'
           /\ Elsewhere(Peer[t], i, promise, handled, promise', handled')
  <1>1. HandledTypeOK
    BY DEF Records
  <1>2. /\ HandledTypeOK'
        /\ \A v \in Sessions : \A k \in Ids :
              v # Peer[t] \/ k # i => handled'[Peer[v]][k] = handled[Peer[v]][k]
    BY <1>1, FateChanged
  <1>3. Unasked'
    BY <1>2 DEF Records, Unasked
  <1>4. FutureIffAnswered'
    BY DEF Records, FutureIffAnswered
  <1> QED
    BY <1>2, <1>3, <1>4 DEF Records, Elsewhere

(* A promise is set of which SendRequest() has not returned the future.    *)
LEMMA PromiseRecords ==
    ASSUME TypeOK, Records, NEW t \in Sessions, NEW i \in Ids, NEW x, x # "none",
           promise' = [promise EXCEPT ![t][i] = x], UNCHANGED handled,
           returned[t][i] = "none",
           \A v \in Sessions : \A k \in Ids :
               \/ returned'[v][k] = returned[v][k]
               \/ v = t /\ k = i /\ returned'[v][k] = "failure" /\ x \notin Bodies
    PROVE  /\ Records' /\ promise'[t][i] = x
           /\ Elsewhere(t, i, promise, handled, promise', handled')
  <1>1. /\ promise'[t][i] = x
        /\ \A v \in Sessions : \A k \in Ids :
              v # t \/ k # i => promise'[v][k] = promise[v][k]
    BY DEF TypeOK
  <1>2. HandledTypeOK'
    BY DEF Records, HandledTypeOK
  <1>3. Unasked'
    <2> SUFFICES ASSUME NEW v \in Sessions, NEW k \in Ids, promise'[v][k] = "none"
                 PROVE  handled[Peer[v]][k] = "none"
      BY DEF Unasked
    <2>1. promise[v][k] = "none"
      BY <1>1
    <2> QED
      BY <2>1 DEF Records, Unasked
  <1>4. FutureIffAnswered'
    <2> SUFFICES ASSUME NEW v \in Sessions, NEW k \in Ids, returned'[v][k] # "none"
                 PROVE  returned'[v][k] = "future" <=> promise'[v][k] \in Bodies
      BY DEF FutureIffAnswered
    <2>1. CASE v = t /\ k = i
      BY <1>1, <2>1
    <2>2. CASE v # t \/ k # i
      BY <1>1, <2>2 DEF Records, FutureIffAnswered
    <2> QED
      BY <2>1, <2>2
  <1> QED
    BY <1>1, <1>2, <1>3, <1>4 DEF Records, Elsewhere
-----------------------------------------------------------------------------
(* The steps, with what each does to a request: it is asked, its handler   *)
(* starts or finishes, or its promise is set, or none of these.            *)
Asks == \E s \in Sessions, i \in Ids :
    /\ promise[s][i] = "none"
    /\ promise' = [promise EXCEPT ![s][i] = "unset"]
    /\ UNCHANGED handled
Starts == \E t \in Sessions, i \in Ids :
    /\ promise[Peer[t]][i] = "unset" /\ handled[t][i] = "none"
    /\ \E fate \in {"running", "rejected"} : Handled(t, i, fate)
    /\ UNCHANGED promise
Finishes == \E t \in Sessions, i \in Ids :
    /\ handled[t][i] = "running"
    /\ \E fate \in Bodies \cup {"failed"} : Handled(t, i, fate)
    /\ UNCHANGED promise
Answers == \E t \in Sessions, i \in Ids :
    /\ promise[t][i] = "unset" /\ handled[Peer[t]][i] \in Bodies
    /\ \E answer \in {handled[Peer[t]][i], "broken"} :
          promise' = [promise EXCEPT ![t][i] = answer]
    /\ UNCHANGED handled

CallStep == Asks \/ Starts \/ Finishes \/ Answers \/ UNCHANGED <<promise, handled>>

Kept == DirectInv' /\ CallStep

(* Nothing happens to the stack or to a request. *)
LEMMA StillKept ==
    ASSUME DirectInv, UNCHANGED <<promise, handled, returned, calls, thread, control>>
    PROVE  Kept
  BY DEF Kept, CallStep, DirectInv, HandledTypeOK, Unasked, FutureIffAnswered, Stacked

LEMMA ShownBy == Records' /\ Stacked' => DirectInv'
  BY DEF Records, DirectInv

(* A request that is about to be made is not on the stack. *)
LEMMA AboutToSend ==
    ASSUME SessionInv, Records, NEW W, Situation(W), control = "foreign", NEW s \in Sessions,
           NEW id \in Ids, id = next_request_id_[s]
    PROVE  /\ promise[s][id] = "none" /\ returned[s][id] = "none"
           /\ handled[Peer[s]][id] = "none"
           /\ \A pr2, ha2, co2 : Elsewhere(s, id, promise, handled, pr2, ha2) =>
                 \A j \in 1..Len(W) : Stage(W[j], pr2, ha2, co2)
  <1>1. TypeOK /\ OneCallPerId
    BY DEF SessionInv
  <1>2. next_request_id_[s] \in Nat
    BY <1>1, BoundsAssumption DEF TypeOK
  <1>3. promise[s][id] = "none" /\ returned[s][id] = "none"
    BY <1>2 DEF SessionInv, FreshIds
  <1>4. handled[Peer[s]][id] = "none"
    BY <1>3 DEF Records, Unasked
  <1>5. /\ W \in Seq(Entries) /\ Represents(thread, calls, W) /\ Nested(W, control)
        /\ \A j \in 1..Len(W) : Stage(W[j], promise, handled, control)
    BY StackIs
  <1>6. \A l \in 1..Len(W) : ~IsSend(W[l], s, id)
    BY <1>1, <1>5, SendIsCall
  <1>7. ASSUME NEW pr2, NEW ha2, NEW co2, Elsewhere(s, id, promise, handled, pr2, ha2),
               NEW j \in 1..Len(W)
        PROVE  Stage(W[j], pr2, ha2, co2)
    <2>1. W[j].frame.at # "Respond" /\ Stage(W[j], promise, handled, control)
      BY <1>5, RespondIsInnermost
    <2>2. \A l \in 1..Len(W) : IsSend(W[l], s, id) => j <= l
      BY <1>6
    <2> QED
      BY <1>5, <1>7, <2>1, <2>2, KeptBelow
  <1> QED
    BY <1>3, <1>4, <1>7

LEMMA RequestUnencodable ==
    ASSUME SessionInv, Records, NEW W, Situation(W), control = "foreign", NEW s \in Sessions,
           NEW m \in Requests, SendRequestUnencodable(s, m), UNCHANGED <<thread, control, handled>>
    PROVE  Kept
  <1>1. PICK id \in Ids : id = next_request_id_[s]
    BY DEF SendRequestUnencodable
  <1>2. /\ returned' = [returned EXCEPT ![s][id] = "failure"]
        /\ UNCHANGED <<promise, calls>>
    BY <1>1 DEF SendRequestUnencodable
  <1>3. promise[s][id] = "none"
    BY <1>1, AboutToSend
  <1>4. FutureIffAnswered'
    <2>1. returned \in [Sessions -> [Ids -> Returns]]
      BY DEF SessionInv, TypeOK
    <2>2. \A v \in Sessions : \A k \in Ids :
              returned'[v][k] = IF v = s /\ k = id THEN "failure" ELSE returned[v][k]
      BY <1>2, <2>1
    <2> QED
      BY <1>2, <1>3, <2>2 DEF Records, FutureIffAnswered, Bodies
  <1>5. HandledTypeOK' /\ Unasked'
    BY <1>2 DEF Records, HandledTypeOK, Unasked
  <1>6. Stacked'
    BY <1>2, StackIs DEF Stacked, Situation
  <1> QED
    BY <1>2, <1>4, <1>5, <1>6 DEF Kept, CallStep, DirectInv

LEMMA RequestMade ==
    ASSUME SessionInv, Records, NEW W, Situation(W), control = "foreign", NEW s \in Sessions,
           NEW m \in Requests, SendRequest(s, m),
           IF sender_[s] THEN CallsOut(s) ELSE UNCHANGED threadVars,
           UNCHANGED handled
    PROVE  Kept
  <1>1. PICK id \in Ids : id = next_request_id_[s]
    BY DEF SendRequest
  <1>2. TypeOK /\ Peer[s] \in Sessions
    BY Peers DEF SessionInv
  <1>3. promise' = [promise EXCEPT ![s][id] = "unset"]
    BY <1>1 DEF SendRequest
  <1>4. /\ promise[s][id] = "none" /\ returned[s][id] = "none"
        /\ handled[Peer[s]][id] = "none"
    BY <1>1, AboutToSend
  <1>5. \A v \in Sessions : \A k \in Ids :
            \/ returned'[v][k] = returned[v][k]
            \/ v = s /\ k = id /\ returned'[v][k] = "failure"
    <2>1. returned' = returned \/ returned' = [returned EXCEPT ![s][id] = "failure"]
      BY <1>1 DEF SendRequest
    <2> QED
      BY <1>2, <2>1 DEF TypeOK
  <1>6. /\ Records' /\ promise'[s][id] = "unset"
        /\ Elsewhere(s, id, promise, handled, promise', handled')
    <2>1. PICK x : x = "unset"
      OBVIOUS
    <2>2. /\ x # "none" /\ x \notin Bodies
          /\ promise' = [promise EXCEPT ![s][id] = x]
          /\ \A v \in Sessions : \A k \in Ids :
               \/ returned'[v][k] = returned[v][k]
               \/ v = s /\ k = id /\ returned'[v][k] = "failure" /\ x \notin Bodies
      BY <1>3, <1>5, <2>1 DEF Bodies
    <2> HIDE <2>1
    <2>3. /\ Records' /\ promise'[s][id] = x
          /\ Elsewhere(s, id, promise, handled, promise', handled')
      BY <1>2, <1>4, <2>2, PromiseRecords
    <2> QED
      BY <2>1, <2>3
  <1>7. \A j \in 1..Len(W) : Stage(W[j], promise', handled', control')
    BY <1>1, <1>6, AboutToSend
  <1>8. Asks
    BY <1>3, <1>4 DEF Asks
  <1>9. CASE sender_[s]
    <2>1. PICK f \in Frames : f = Frame("SendRequest", id, m, "none")
      BY NewFrames
    <2>2. f.at = "SendRequest" /\ f.id = id
      BY <2>1 DEF Frame
    <2>3. Enter(s, f)
      BY <1>1, <1>9, <2>1 DEF SendRequest
    <2>4. thread' = Append(thread, s) /\ control' = "call"
      BY <1>9 DEF CallsOut
    <2>5. Represents(thread, calls, W) /\ Nested(W, control)
      BY StackIs
    <2>6. FitsAbove(W, s, f)
      BY <2>2, <2>5 DEF FitsAbove, Nested, ServingPoints
    <2>7. ASSUME NEW e \in Entries, e.who = s, e.frame = f
          PROVE  InStage(e, promise', handled', control')
      BY <1>4, <1>6, <2>2, <2>4, <2>7 DEF InStage, Stage, Ending
    <2>8. control' \in {"foreign", "call"} /\ (control' = "foreign" <=> f.at \in ForeignPoints)
      BY <2>2, <2>4 DEF ForeignPoints
    <2>9. Stacked'
      BY <1>2, <1>7, <2>3, <2>4, <2>5, <2>6, <2>7, <2>8, PushedInv
    <2> QED
      BY <1>6, <1>8, <2>9, ShownBy DEF Kept, CallStep
  <1>10. CASE ~sender_[s]
    <2>1. UNCHANGED <<thread, control, calls>>
      BY <1>10 DEF SendRequest, threadVars
    <2>2. W \in Seq(Entries) /\ Represents(thread', calls', W) /\ Nested(W, control')
      BY <2>1, StackIs
    <2>3. Stages(W, promise', handled', control')
      BY <1>7, <2>1 DEF Stages, Ending
    <2>4. Stacked'
      BY <2>2, <2>3 DEF Stacked
    <2> QED
      BY <1>6, <1>8, <2>4, ShownBy DEF Kept, CallStep
  <1> QED
    BY <1>9, <1>10

LEMMA NotificationMade ==
    ASSUME SessionInv, Records, NEW W, Situation(W), control = "foreign", NEW s \in Sessions,
           NEW m \in Notifications, SendNotification(s, m), CallsOut(s), UNCHANGED handled
    PROVE  Kept
  <1>1. PICK f \in Frames : f = Frame("SendNotification", 0, m, "none")
    BY NewFrames
  <1>2. f.at = "SendNotification"
    BY <1>1 DEF Frame
  <1>3. /\ Enter(s, f) /\ UNCHANGED <<promise, returned>> /\ TypeOK
        /\ thread' = Append(thread, s) /\ control' = "call"
    BY <1>1 DEF SendNotification, CallsOut, SessionInv
  <1>4. Represents(thread, calls, W) /\ Nested(W, control)
    BY StackIs
  <1>5. FitsAbove(W, s, f)
    BY <1>2, <1>4 DEF FitsAbove, Nested, ServingPoints
  <1>6. \A j \in 1..Len(W) : Stage(W[j], promise', handled', control')
    BY <1>3, BelowStill
  <1>7. ASSUME NEW e \in Entries, e.who = s, e.frame = f
        PROVE  InStage(e, promise', handled', control')
    BY <1>2, <1>7 DEF InStage, Stage, Ending
  <1>8. control' \in {"foreign", "call"} /\ (control' = "foreign" <=> f.at \in ForeignPoints)
    BY <1>2, <1>3 DEF ForeignPoints
  <1>9. Stacked'
    BY <1>3, <1>4, <1>5, <1>6, <1>7, <1>8, PushedInv
  <1> QED
    BY <1>3, <1>9, Quiet, ShownBy DEF Kept, CallStep

(* The innermost call of s sends a request i to its peer. *)
LEMMA SentRequest ==
    ASSUME SessionInv, NEW W, Situation(W), NEW s \in Sessions,
           Innermost(s), InCall(s, "SendRequest")
    PROVE  /\ Len(W) > 0 /\ Top(s).id \in Ids /\ Top(s).method \in Requests
           /\ IsSend(W[Len(W)], s, Top(s).id)
           /\ returned[s][Top(s).id] = "none"
           /\ Ending(W[Len(W)], promise, handled, control)
           /\ \A pr2, ha2, co2 : Elsewhere(s, Top(s).id, promise, handled, pr2, ha2) =>
                 \A j \in 1..Len(W) : Stage(W[j], pr2, ha2, co2)
  <1>1. TypeOK /\ OneCallPerId
    BY DEF SessionInv
  <1>2. /\ W \in Seq(Entries) /\ Len(W) \in Nat
        /\ Represents(thread, calls, W) /\ Nested(W, control)
        /\ \A j \in 1..Len(W) : Stage(W[j], promise, handled, control)
        /\ Len(W) > 0 => Ending(W[Len(W)], promise, handled, control)
    BY StackIs
  <1>3. Len(W) > 0 /\ W[Len(W)].who = s /\ W[Len(W)].frame = Top(s) /\ calls[s] # <<>>
    BY <1>1, <1>2, InnermostEntry
  <1>4. Top(s).at = "SendRequest"
    BY DEF InCall
  <1>5. Top(s).id \in Ids /\ Top(s).method \in Requests
    BY <1>1, <1>3, <1>4, TopFrame
  <1>6. IsSend(W[Len(W)], s, Top(s).id) /\ Len(W) \in 1..Len(W)
    BY <1>2, <1>3, <1>4 DEF IsSend
  <1>7. returned[s][Top(s).id] = "none"
    BY <1>1, <1>2, <1>5, <1>6, SendIsCall
  <1>8. \A l \in 1..Len(W) : IsSend(W[l], s, Top(s).id) => l = Len(W)
    <2> SUFFICES ASSUME NEW l \in 1..Len(W), IsSend(W[l], s, Top(s).id)
                 PROVE  l = Len(W)
      OBVIOUS
    <2> QED
      BY <1>1, <1>2, <1>5, <1>6, OneSend
  <1>9. ASSUME NEW pr2, NEW ha2, NEW co2,
               Elsewhere(s, Top(s).id, promise, handled, pr2, ha2),
               NEW j \in 1..Len(W)
        PROVE  Stage(W[j], pr2, ha2, co2)
    <2>1. W[j].frame.at # "Respond"
      BY <1>3, <1>4, RespondIsInnermost
    <2>2. Stage(W[j], promise, handled, control)
      BY <1>2
    <2>3. \A l \in 1..Len(W) : IsSend(W[l], s, Top(s).id) => j <= l
      BY <1>2, <1>8
    <2> QED
      BY <1>2, <1>5, <1>9, <2>1, <2>2, <2>3, KeptBelow
  <1> QED
    BY <1>2, <1>3, <1>5, <1>6, <1>7, <1>9

LEMMA RequestDelivered ==
    ASSUME SessionInv, Records, NEW W, Situation(W), NEW s \in Sessions, DeliverRequest(s)
    PROVE  Kept
  <1>1. control = "call" /\ Innermost(s) /\ InCall(s, "SendRequest")
    BY DEF DeliverRequest
  <1>2. PICK p \in Sessions : p = Peer[s] /\ Peer[p] = s
    BY Peers
  <1>3. PICK id \in Ids, m \in Requests : id = Top(s).id /\ m = Top(s).method
    BY <1>1, SentRequest
  <1>4. /\ Len(W) > 0 /\ IsSend(W[Len(W)], s, id)
        /\ Ending(W[Len(W)], promise, handled, control)
    BY <1>1, <1>3, SentRequest
  <1>5. promise[s][id] = "unset" /\ handled[p][id] = "none"
    BY <1>1, <1>2, <1>4 DEF Ending, IsSend
  <1>6. /\ W \in Seq(Entries) /\ Represents(thread, calls, W) /\ Nested(W, control)
        /\ TypeOK /\ HandledTypeOK
    BY StackIs DEF SessionInv, Records
  <1>7. ASSUME NEW fate \in {"running", "rejected"}, Handled(p, id, fate),
               UNCHANGED <<promise, returned>>
        PROVE  /\ Records' /\ Starts /\ handled'[p][id] = fate
               /\ \A j \in 1..Len(W) : Stage(W[j], promise', handled', control')
    <2>1. fate \in Fates /\ promise[Peer[p]][id] # "none"
      BY <1>2, <1>5 DEF Fates
    <2>2. Records' /\ Elsewhere(Peer[p], id, promise, handled, promise', handled')
      BY <1>7, <2>1, FateRecords
    <2>3. handled'[p][id] = fate
      BY <1>6, <1>7, <2>1, FateChanged
    <2>4. Starts
      BY <1>2, <1>5, <1>7 DEF Starts
    <2> QED
      BY <1>1, <1>2, <1>3, <2>2, <2>3, <2>4, SentRequest
  <1>8. PICK decodes \in BOOLEAN :
          \/ /\ ReceiveRequest(p, id, m, decodes)
             /\ Enters(p)
             /\ Handled(p, id, "running")
          \/ /\ RequestRejected(p, m, decodes)
             /\ control' = "failed"
             /\ Handled(p, id, "rejected")
             /\ UNCHANGED thread
    BY <1>2, <1>3 DEF DeliverRequest
  <1>9. CASE ReceiveRequest(p, id, m, decodes) /\ Enters(p) /\ Handled(p, id, "running")
    <2>1. PICK f \in Frames : f = Frame("Request", id, m, "none")
      BY NewFrames
    <2>2. f.at = "Request" /\ f.id = id
      BY <2>1 DEF Frame
    <2>3. /\ Enter(p, f) /\ thread' = Append(thread, p) /\ control' = "foreign"
          /\ UNCHANGED <<promise, returned>>
      BY <1>9, <2>1 DEF ReceiveRequest, Enters
    <2>4. /\ Records' /\ Starts /\ handled'[p][id] = "running"
          /\ \A j \in 1..Len(W) : Stage(W[j], promise', handled', control')
      BY <1>7, <1>9, <2>3
    <2>5. FitsAbove(W, p, f)
      BY <1>2, <1>4, <2>2 DEF FitsAbove
    <2>6. ASSUME NEW e \in Entries, e.who = p, e.frame = f
          PROVE  InStage(e, promise', handled', control')
      BY <1>2, <1>5, <2>2, <2>3, <2>4, <2>6 DEF InStage, Stage, Ending
    <2>7. control' \in {"foreign", "call"} /\ (control' = "foreign" <=> f.at \in ForeignPoints)
      BY <2>2, <2>3 DEF ForeignPoints
    <2>8. Stacked'
      BY <1>6, <2>3, <2>4, <2>5, <2>6, <2>7, PushedInv
    <2> QED
      BY <2>4, <2>8, ShownBy DEF Kept, CallStep
  <1>10. CASE /\ RequestRejected(p, m, decodes) /\ control' = "failed"
              /\ Handled(p, id, "rejected") /\ UNCHANGED thread
    <2>1. UNCHANGED <<promise, returned, calls, thread>>
      BY <1>10 DEF RequestRejected, vars
    <2>2. /\ Records' /\ Starts
          /\ \A j \in 1..Len(W) : Stage(W[j], promise', handled', control')
      BY <1>7, <1>10, <2>1
    <2>3. Ending(W[Len(W)], promise', handled', control')
      BY <1>4, <1>5, <1>10, <2>1 DEF Ending, IsSend, Bodies
    <2>4. Stacked'
      BY <1>1, <1>6, <1>10, <2>1, <2>2, <2>3, ReturnedInv
    <2> QED
      BY <2>2, <2>4, ShownBy DEF Kept, CallStep
  <1> QED
    BY <1>8, <1>9, <1>10

LEMMA NotificationDelivered ==
    ASSUME SessionInv, Records, NEW W, Situation(W), NEW s \in Sessions, DeliverNotification(s)
    PROVE  Kept
  <1>1. /\ control = "call" /\ Innermost(s) /\ InCall(s, "SendNotification")
        /\ UNCHANGED handled
    BY DEF DeliverNotification
  <1>2. PICK p \in Sessions : p = Peer[s]
    BY Peers
  <1>3. /\ W \in Seq(Entries) /\ Represents(thread, calls, W) /\ Nested(W, control) /\ TypeOK
    BY StackIs DEF SessionInv
  <1>4. /\ Len(W) > 0 /\ W[Len(W)].frame = Top(s) /\ calls[s] # <<>>
    BY <1>1, <1>3, InnermostEntry
  <1>5. Top(s).at = "SendNotification"
    BY <1>1 DEF InCall
  <1>6. PICK m \in Notifications : m = Top(s).method
    BY <1>3, <1>4, <1>5, TopFrame
  <1>7. PICK decodes \in BOOLEAN :
          \/ ReceiveNotification(p, m, decodes) /\ Enters(p)
          \/ /\ NotificationRejected(p, m, decodes)
             /\ control' = "failed"
             /\ UNCHANGED thread
    BY <1>2, <1>6 DEF DeliverNotification
  <1>8. UNCHANGED <<promise, returned>>
    BY <1>7 DEF ReceiveNotification, NotificationRejected, vars
  <1>9. \A j \in 1..Len(W) : Stage(W[j], promise', handled', control')
    BY <1>1, <1>4, <1>5, <1>8, BelowStill
  <1>10. CASE ReceiveNotification(p, m, decodes) /\ Enters(p)
    <2>1. PICK f \in Frames : f = Frame("Notification", 0, m, "none")
      BY NewFrames
    <2>2. f.at = "Notification"
      BY <2>1 DEF Frame
    <2>3. Enter(p, f) /\ thread' = Append(thread, p) /\ control' = "foreign"
      BY <1>10, <2>1 DEF ReceiveNotification, Enters
    <2>4. FitsAbove(W, p, f)
      BY <1>4, <1>5, <2>2 DEF FitsAbove, ServingPoints
    <2>5. ASSUME NEW e \in Entries, e.who = p, e.frame = f
          PROVE  InStage(e, promise', handled', control')
      BY <2>2, <2>5 DEF InStage, Stage, Ending
    <2>6. control' \in {"foreign", "call"} /\ (control' = "foreign" <=> f.at \in ForeignPoints)
      BY <2>2, <2>3 DEF ForeignPoints
    <2>7. Stacked'
      BY <1>3, <1>9, <2>3, <2>4, <2>5, <2>6, PushedInv
    <2> QED
      BY <1>1, <1>8, <2>7, Quiet, ShownBy DEF Kept, CallStep
  <1>11. CASE /\ NotificationRejected(p, m, decodes) /\ control' = "failed"
              /\ UNCHANGED thread
    <2>1. UNCHANGED <<calls, thread>>
      BY <1>11 DEF NotificationRejected, vars
    <2>2. Ending(W[Len(W)], promise', handled', control')
      BY <1>4, <1>5 DEF Ending
    <2>3. Stacked'
      BY <1>1, <1>3, <1>9, <1>11, <2>1, <2>2, ReturnedInv
    <2> QED
      BY <1>1, <1>8, <2>3, Quiet, ShownBy DEF Kept, CallStep
  <1> QED
    BY <1>7, <1>10, <1>11

LEMMA ResponseDelivered ==
    ASSUME SessionInv, Records, NEW W, Situation(W), NEW s \in Sessions, DeliverResponse(s)
    PROVE  Kept
  <1>1. /\ control = "call" /\ Innermost(s) /\ InCall(s, "Respond") /\ TypeOK /\ OneCallPerId
        /\ UNCHANGED <<thread, handled>>
    BY DEF DeliverResponse, SessionInv
  <1>2. Top(s).at = "Respond" /\ Top(s).at \in ServingPoints /\ calls[s] # <<>>
    BY <1>1 DEF InCall, ServingPoints
  <1>3. PICK p \in Sessions : p = Peer[s] /\ Peer[p] = s
    BY Peers
  <1>4. PICK id \in Ids : id = Top(s).id
    BY <1>1, <1>2, SenderBelow
  <1>5. PICK b \in Bodies : b = Top(s).body
    BY <1>1, <1>2, TopFrame
  <1>6. /\ Len(W) > 1 /\ Len(W) - 1 \in 1..Len(W) /\ IsSend(W[Len(W) - 1], p, id)
        /\ Stage(W[Len(W)], promise, handled, control)
        /\ W[Len(W)].who = s /\ W[Len(W)].frame = Top(s)
    BY <1>1, <1>2, <1>3, <1>4, SenderBelow
  <1>7. handled[s][id] = b /\ promise[p][id] = "unset"
    BY <1>1, <1>2, <1>3, <1>4, <1>5, <1>6 DEF Stage
  <1>8. /\ W \in Seq(Entries) /\ Len(W) \in Nat
        /\ Represents(thread, calls, W) /\ Nested(W, control)
    BY StackIs
  <1>9. returned[p][id] = "none"
    BY <1>1, <1>6, <1>8, SendIsCall
  <1>10. PICK decodes \in BOOLEAN :
           /\ ReceiveResponse(p, id, b, decodes)
           /\ control' = Result(Accepts(response_handlers_[p][id], b, decodes))
    BY <1>3, <1>4, <1>5 DEF DeliverResponse
  <1>11. PICK x \in {b, "broken"} :
           /\ promise' = [promise EXCEPT ![p][id] = x]
           /\ \/ x = b /\ control' = "ok"
              \/ x = "broken" /\ control' = "failed"
    BY <1>10 DEF ReceiveResponse, Result
  <1>12. UNCHANGED <<returned, calls>>
    BY <1>10 DEF ReceiveResponse
  <1>13. /\ Records' /\ promise'[p][id] = x
         /\ Elsewhere(p, id, promise, handled, promise', handled')
    <2>1. x # "none"
      BY <1>11 DEF Bodies
    <2>2. \A v \in Sessions : \A k \in Ids :
            \/ returned'[v][k] = returned[v][k]
            \/ v = p /\ k = id /\ returned'[v][k] = "failure" /\ x \notin Bodies
      BY <1>12
    <2>3. promise' = [promise EXCEPT ![p][id] = x] /\ UNCHANGED handled
      BY <1>1, <1>11
    <2> QED
      BY <1>1, <1>9, <2>1, <2>2, <2>3, PromiseRecords
  <1>14. \A j \in 1..(Len(W) - 1) : Stage(W[j], promise', handled', control')
    BY <1>1, <1>2, <1>3, <1>4, <1>13, ServedKept
  <1>15. Stage(W[Len(W)], promise', handled', control')
    BY <1>1, <1>2, <1>3, <1>4, <1>5, <1>6, <1>7, <1>11, <1>13 DEF Stage
  <1>16. \A j \in 1..Len(W) : Stage(W[j], promise', handled', control')
    <2>1. \A j \in 1..Len(W) : j \in 1..(Len(W) - 1) \/ j = Len(W)
      BY <1>8
    <2> QED
      BY <1>14, <1>15, <2>1
  <1>17. Ending(W[Len(W)], promise', handled', control')
    BY <1>2, <1>6 DEF Ending
  <1>18. Stacked'
    <2>1. control # "foreign" /\ control' \in {"ok", "failed"}
      BY <1>1, <1>11
    <2> QED
      BY <1>1, <1>8, <1>12, <1>16, <1>17, <2>1, ReturnedInv
  <1>19. Answers
    BY <1>1, <1>3, <1>7, <1>11 DEF Answers
  <1> QED
    BY <1>13, <1>18, <1>19, ShownBy DEF Kept, CallStep

(* The handler of a request of s has returned to Receive(). *)
LEMMA HandlerDone ==
    ASSUME SessionInv, Records, NEW W, Situation(W), NEW s \in Sessions, DirectHandlerReturns(s)
    PROVE  Kept
  <1>1. control = "foreign" /\ Innermost(s) /\ InCall(s, "Request") /\ TypeOK /\ OneCallPerId
    BY DEF DirectHandlerReturns, RequestHandlerReturns, RequestHandlerFails, SessionInv
  <1>2. Top(s).at = "Request" /\ Top(s).at \in ServingPoints /\ calls[s] # <<>>
    BY <1>1 DEF InCall, ServingPoints
  <1>3. PICK p \in Sessions : p = Peer[s] /\ Peer[p] = s
    BY Peers
  <1>4. PICK id \in Ids : id = Top(s).id
    BY <1>1, <1>2, SenderBelow
  <1>5. /\ Len(W) > 1 /\ Len(W) - 1 \in 1..Len(W) /\ IsSend(W[Len(W) - 1], p, id)
        /\ Stage(W[Len(W)], promise, handled, control)
        /\ W[Len(W)].who = s /\ W[Len(W)].frame = Top(s)
    BY <1>1, <1>2, <1>3, <1>4, SenderBelow
  <1>6. handled[s][id] = "running" /\ promise[p][id] = "unset"
    BY <1>2, <1>3, <1>4, <1>5 DEF Stage
  <1>7. /\ W \in Seq(Entries) /\ Len(W) \in Nat
        /\ Represents(thread, calls, W) /\ Nested(W, control)
    BY StackIs
  <1>8. UNCHANGED <<promise, returned>>
    BY DEF DirectHandlerReturns, RequestHandlerReturns, RequestHandlerFails
  <1>9. ASSUME NEW fate \in Bodies \cup {"failed"}, Handled(s, id, fate)
        PROVE  /\ Records' /\ Finishes /\ handled'[s][id] = fate
               /\ \A j \in 1..(Len(W) - 1) : Stage(W[j], promise', handled', control')
    <2>1. fate \in Fates /\ promise[Peer[s]][id] # "none" /\ HandledTypeOK
      BY <1>3, <1>6 DEF Fates, Records
    <2>2. Records' /\ Elsewhere(Peer[s], id, promise, handled, promise', handled')
      BY <1>8, <1>9, <2>1, FateRecords
    <2>3. handled'[s][id] = fate
      BY <1>9, <2>1, FateChanged
    <2>4. Finishes
      BY <1>6, <1>8, <1>9 DEF Finishes
    <2> QED
      BY <1>1, <1>2, <1>4, <2>2, <2>3, <2>4, ServedKept
  <1>10. ASSUME NEW b \in Bodies, RequestHandlerReturns(s, b), Handled(s, id, b),
                control' = "call", UNCHANGED thread
         PROVE  Kept
    <2>1. PICK f \in Frames : f = Frame("Respond", Top(s).id, Top(s).method, b)
      BY <1>1, <1>2, NextFrames
    <2>2. f.at = "Respond" /\ f.id = id /\ f.body = b
      BY <1>4, <2>1 DEF Frame
    <2>3. calls' = [calls EXCEPT ![s][Len(calls[s])] = f]
      BY <1>10, <2>1 DEF RequestHandlerReturns, MoveTo, MemberKey
    <2>4. /\ Records' /\ Finishes /\ handled'[s][id] = b
          /\ \A j \in 1..(Len(W) - 1) : Stage(W[j], promise', handled', control')
      BY <1>9, <1>10
    <2>5. ASSUME NEW e \in Entries, e.who = s, e.frame = f
          PROVE  InStage(e, promise', handled', control')
      <3>1. promise'[p][id] = "unset" /\ handled'[s][id] = b /\ control' = "call"
        BY <1>6, <1>8, <1>10, <2>4
      <3>2. /\ e.who = s /\ Peer[s] = p
            /\ e.frame.at = "Respond" /\ e.frame.id = id /\ e.frame.body = b
        BY <1>3, <2>2, <2>5
      <3> QED
        BY <3>1, <3>2 DEF InStage, Stage, Ending
    <2>6. /\ control' \in {"foreign", "call"} /\ (control' = "foreign" <=> f.at \in ForeignPoints)
          /\ f.at \in ServingPoints /\ f.id = Top(s).id
      BY <1>4, <1>10, <2>2 DEF ForeignPoints, ServingPoints
    <2>7. thread' = thread /\ Innermost(s) /\ TypeOK /\ Top(s).at \in ServingPoints
      BY <1>1, <1>2, <1>10
    <2>8. Represents(thread, calls, W) /\ Nested(W, control)
      BY <1>7
    <2>9. \A j \in 1..(Len(W) - 1) : Stage(W[j], promise', handled', control')
      BY <2>4
    <2>10. Stacked'
      BY <2>3, <2>5, <2>6, <2>7, <2>8, <2>9, TurnedInv, ZenonT(40)
    <2> QED
      BY <2>4, <2>10, ShownBy DEF Kept, CallStep
  <1>11. ASSUME NEW encodes \in BOOLEAN, RequestHandlerFails(s, encodes),
                Handled(s, id, "failed"), ReturnsTo("failed")
         PROVE  Kept
    <2>1. /\ Leave(s) /\ control' = "failed"
          /\ thread' = SubSeq(thread, 1, Len(thread) - 1)
      BY <1>11 DEF RequestHandlerFails, ReturnsTo
    <2>2. /\ Records' /\ Finishes
          /\ \A j \in 1..(Len(W) - 1) : Stage(W[j], promise', handled', control')
      BY <1>9, <1>11
    <2>3. Ending(W[Len(W) - 1], promise', handled', control')
      BY <1>5, <1>6, <1>8, <2>1 DEF Ending, IsSend, Bodies
    <2>4. /\ control' \in {"foreign", "ok", "failed"}
          /\ control' = "foreign" <=> Len(W) = 1 \/ W[Len(W) - 1].frame.at \in ForeignPoints
      BY <1>5, <2>1 DEF ForeignPoints, IsSend
    <2>5. Stacked'
      BY <1>1, <1>7, <2>1, <2>2, <2>3, <2>4, PoppedInv
    <2> QED
      BY <2>2, <2>5, ShownBy DEF Kept, CallStep
  <1> QED
    BY <1>4, <1>10, <1>11 DEF DirectHandlerReturns

(* SendRequest() returns. *)
LEMMA RequestReturned ==
    ASSUME SessionInv, Records, NEW W, Situation(W), NEW s \in Sessions, Innermost(s),
           control \in {"ok", "failed"}, SendRequestReturns(s, control = "ok"),
           ReturnsTo("foreign"), UNCHANGED handled
    PROVE  Kept
  <1>1. TypeOK /\ InCall(s, "SendRequest")
    BY DEF SessionInv, SendRequestReturns
  <1>2. PICK id \in Ids : id = Top(s).id
    BY <1>1, SentRequest
  <1>3. Len(W) > 0 /\ IsSend(W[Len(W)], s, id) /\ Ending(W[Len(W)], promise, handled, control)
    BY <1>1, <1>2, SentRequest
  <1>4. /\ W \in Seq(Entries) /\ Len(W) \in Nat
        /\ Represents(thread, calls, W) /\ Nested(W, control)
    BY StackIs
  <1>5. PICK r \in {"future", "failure"} :
          /\ returned' = [returned EXCEPT ![s][id] = r]
          /\ r = "future" <=> control = "ok"
    BY <1>2 DEF SendRequestReturns, SendResult
  <1>6. /\ UNCHANGED promise /\ Leave(s) /\ control' = "foreign"
        /\ thread' = SubSeq(thread, 1, Len(thread) - 1)
    BY DEF SendRequestReturns, ReturnsTo
  <1>7. r = "future" <=> promise[s][id] \in Bodies
    BY <1>3, <1>5 DEF Ending, IsSend
  <1>8. FutureIffAnswered'
    <2>1. \A v \in Sessions : \A k \in Ids :
              returned'[v][k] = IF v = s /\ k = id THEN r ELSE returned[v][k]
      BY <1>1, <1>5 DEF TypeOK
    <2> QED
      BY <1>6, <1>7, <2>1 DEF Records, FutureIffAnswered
  <1>9. Records'
    BY <1>6, <1>8 DEF Records, HandledTypeOK, Unasked
  <1>10. \A j \in 1..(Len(W) - 1) : Stage(W[j], promise', handled', control')
    BY <1>6, BelowStill
  <1>11. Ending(W[Len(W) - 1], promise', handled', control')
    BY <1>6 DEF Ending
  <1>12. /\ control' \in {"foreign", "ok", "failed"}
         /\ control' = "foreign" <=> Len(W) = 1 \/ W[Len(W) - 1].frame.at \in ForeignPoints
    <2>1. Len(W) \in 1..Len(W)
      BY <1>3, <1>4
    <2>2. Sits(W, Len(W))
      BY <1>4, <2>1 DEF Nested
    <2>3. Len(W) > 1 => W[Len(W) - 1].frame.at \in ForeignPoints
      BY <1>3, <2>2 DEF Sits, IsSend
    <2>4. Len(W) = 1 \/ Len(W) > 1
      <3>1. PICK n \in Nat : n = Len(W)
        BY StackIs
      <3>2. n > 0
        BY <1>3, <3>1
      <3>3. n = 1 \/ n > 1
        BY <3>2
      <3> QED
        BY <3>1, <3>3
    <2>5. Len(W) = 1 \/ W[Len(W) - 1].frame.at \in ForeignPoints
      BY <2>3, <2>4
    <2>6. control' = "foreign" /\ control' \in {"foreign", "ok", "failed"}
      BY <1>6
    <2> QED
      BY <2>5, <2>6
  <1>13. Stacked'
    BY <1>1, <1>4, <1>6, <1>10, <1>11, <1>12, PoppedInv
  <1> QED
    BY <1>6, <1>9, <1>13, ShownBy DEF Kept, CallStep

LEMMA NotificationReturned ==
    ASSUME SessionInv, Records, NEW W, Situation(W), NEW s \in Sessions, Innermost(s),
           SendNotificationReturns(s), ReturnsTo("foreign"), UNCHANGED handled
    PROVE  Kept
  <1>1. TypeOK /\ Top(s).at = "SendNotification"
    BY DEF SessionInv, SendNotificationReturns, InCall
  <1>2. /\ W \in Seq(Entries) /\ Len(W) \in Nat
        /\ Represents(thread, calls, W) /\ Nested(W, control)
    BY StackIs
  <1>3. Len(W) > 0 /\ W[Len(W)].frame = Top(s)
    BY <1>1, <1>2, InnermostEntry
  <1>4. /\ UNCHANGED <<promise, returned>> /\ Leave(s) /\ control' = "foreign"
        /\ thread' = SubSeq(thread, 1, Len(thread) - 1)
    BY DEF SendNotificationReturns, ReturnsTo
  <1>5. \A j \in 1..(Len(W) - 1) : Stage(W[j], promise', handled', control')
    BY <1>4, BelowStill
  <1>6. Ending(W[Len(W) - 1], promise', handled', control')
    BY <1>4 DEF Ending
  <1>7. /\ control' \in {"foreign", "ok", "failed"}
        /\ control' = "foreign" <=> Len(W) = 1 \/ W[Len(W) - 1].frame.at \in ForeignPoints
    <2>1. Len(W) \in 1..Len(W)
      BY <1>2, <1>3
    <2>2. Sits(W, Len(W))
      BY <1>2, <2>1 DEF Nested
    <2>3. Len(W) > 1 => W[Len(W) - 1].frame.at \in ForeignPoints
      BY <1>1, <1>3, <2>2 DEF Sits
    <2>4. Len(W) = 1 \/ Len(W) > 1
      <3>1. PICK n \in Nat : n = Len(W)
        BY StackIs
      <3>2. n > 0
        BY <1>3, <3>1
      <3>3. n = 1 \/ n > 1
        BY <3>2
      <3> QED
        BY <3>1, <3>3
    <2>5. Len(W) = 1 \/ W[Len(W) - 1].frame.at \in ForeignPoints
      BY <2>3, <2>4
    <2>6. control' = "foreign" /\ control' \in {"foreign", "ok", "failed"}
      BY <1>4
    <2> QED
      BY <2>5, <2>6
  <1>8. Stacked'
    BY <1>1, <1>2, <1>4, <1>5, <1>6, <1>7, PoppedInv
  <1> QED
    BY <1>4, <1>8, Quiet, ShownBy DEF Kept, CallStep

(* The Sender that sent the response of a request of s returns. *)
LEMMA ResponseReturned ==
    ASSUME SessionInv, Records, NEW W, Situation(W), NEW s \in Sessions, Innermost(s),
           control \in {"ok", "failed"}, RespondReturns(s, control = "ok"),
           IF CallsPostSend(s, control = "ok")
           THEN control' = "foreign" /\ UNCHANGED thread
           ELSE ReturnsTo(control),
           UNCHANGED handled
    PROVE  Kept
  <1>1. /\ Top(s).at = "Respond" /\ Top(s).at \in ServingPoints /\ calls[s] # <<>> /\ TypeOK
        /\ UNCHANGED <<promise, returned>>
    BY DEF RespondReturns, InCall, ServingPoints, SessionInv
  <1>2. PICK p \in Sessions : p = Peer[s] /\ Peer[p] = s
    BY Peers
  <1>3. PICK id \in Ids : id = Top(s).id
    BY <1>1, SenderBelow
  <1>4. PICK b \in Bodies : b = Top(s).body
    BY <1>1, TopFrame
  <1>5. /\ Len(W) > 1 /\ Len(W) - 1 \in 1..Len(W) /\ IsSend(W[Len(W) - 1], p, id)
        /\ Stage(W[Len(W)], promise, handled, control)
        /\ W[Len(W)].who = s /\ W[Len(W)].frame = Top(s)
    BY <1>1, <1>2, <1>3, SenderBelow
  <1>6. /\ control = "ok" => promise[p][id] = b
        /\ control = "failed" => promise[p][id] = "broken"
    BY <1>1, <1>2, <1>3, <1>4, <1>5 DEF Stage
  <1>7. /\ W \in Seq(Entries) /\ Len(W) \in Nat
        /\ Represents(thread, calls, W) /\ Nested(W, control)
    BY StackIs
  <1>8. \A j \in 1..(Len(W) - 1) : Stage(W[j], promise', handled', control')
    BY <1>1, BelowStill
  <1>9. CASE CallsPostSend(s, control = "ok")
    <2>1. control = "ok" /\ control' = "foreign" /\ UNCHANGED thread
      BY <1>9 DEF CallsPostSend
    <2>2. PICK f \in Frames : f = Frame("PostSend", Top(s).id, Top(s).method, Top(s).body)
      BY <1>1, NextFrames
    <2>3. f.at = "PostSend" /\ f.id = id /\ f.body = b
      BY <1>3, <1>4, <2>2 DEF Frame
    <2>4. calls' = [calls EXCEPT ![s][Len(calls[s])] = f]
      BY <1>9, <2>2 DEF RespondReturns, MoveTo
    <2>5. ASSUME NEW e \in Entries, e.who = s, e.frame = f
          PROVE  InStage(e, promise', handled', control')
      BY <1>1, <1>2, <1>6, <2>1, <2>3, <2>5 DEF InStage, Stage, Ending
    <2>6. /\ control' \in {"foreign", "call"} /\ (control' = "foreign" <=> f.at \in ForeignPoints)
          /\ f.at \in ServingPoints /\ f.id = Top(s).id
      BY <1>3, <2>1, <2>3 DEF ForeignPoints, ServingPoints
    <2>7. Stacked'
      BY <1>1, <1>7, <1>8, <2>1, <2>4, <2>5, <2>6, TurnedInv
    <2> QED
      BY <1>1, <2>7, Quiet, ShownBy DEF Kept, CallStep
  <1>10. CASE ~CallsPostSend(s, control = "ok")
    <2>1. /\ Leave(s) /\ control' = control
          /\ thread' = SubSeq(thread, 1, Len(thread) - 1)
      BY <1>10 DEF RespondReturns, ReturnsTo
    <2>2. Ending(W[Len(W) - 1], promise', handled', control')
      BY <1>1, <1>5, <1>6, <2>1 DEF Ending, IsSend, Bodies
    <2>3. /\ control' \in {"foreign", "ok", "failed"}
          /\ control' = "foreign" <=> Len(W) = 1 \/ W[Len(W) - 1].frame.at \in ForeignPoints
      BY <1>5, <2>1 DEF ForeignPoints, IsSend
    <2>4. Stacked'
      BY <1>1, <1>7, <1>8, <2>1, <2>2, <2>3, PoppedInv
    <2> QED
      BY <1>1, <2>4, Quiet, ShownBy DEF Kept, CallStep
  <1> QED
    BY <1>9, <1>10

(* A post-send callback or a notification handler of s returns. *)
LEMMA CallbackDone ==
    ASSUME SessionInv, Records, NEW W, Situation(W), NEW s \in Sessions,
           DirectCallbackReturns(s)
    PROVE  Kept
  <1>1. /\ control = "foreign" /\ Innermost(s) /\ TypeOK /\ Leave(s)
        /\ UNCHANGED <<promise, returned, handled>>
        /\ thread' = SubSeq(thread, 1, Len(thread) - 1)
        /\ calls[s] # <<>>
    BY DEF DirectCallbackReturns, PostSendReturns, NotificationHandlerReturns, ReturnsTo,
           SessionInv, InCall
  <1>2. /\ W \in Seq(Entries) /\ Len(W) \in Nat
        /\ Represents(thread, calls, W) /\ Nested(W, control)
    BY StackIs
  <1>3. Len(W) > 0 /\ W[Len(W)].frame = Top(s)
    BY <1>1, <1>2, InnermostEntry
  <1>4. \A j \in 1..(Len(W) - 1) : Stage(W[j], promise', handled', control')
    BY <1>1, BelowStill
  <1>5. ASSUME control' \in {"ok", "failed"}, Len(W) > 1,
               W[Len(W) - 1].frame.at \in {"SendRequest", "SendNotification"},
               Ending(W[Len(W) - 1], promise', handled', control')
        PROVE  Kept
    <2>1. /\ control' \in {"foreign", "ok", "failed"}
          /\ control' = "foreign" <=> Len(W) = 1 \/ W[Len(W) - 1].frame.at \in ForeignPoints
      <3>1. Len(W) # 1
        <4>1. PICK n \in Nat : n = Len(W)
          BY <1>2
        <4>2. n > 1
          BY <1>5, <4>1
        <4>3. n # 1
          BY <4>2
        <4> QED
          BY <4>1, <4>3
      <3>2. W[Len(W) - 1].frame.at \notin ForeignPoints /\ control' # "foreign"
        BY <1>5 DEF ForeignPoints
      <3>3. control' \in {"foreign", "ok", "failed"}
        BY <1>5
      <3> QED
        BY <3>1, <3>2, <3>3
    <2>2. Stacked'
      BY <1>1, <1>2, <1>4, <1>5, <2>1, PoppedInv
    <2> QED
      BY <1>1, <2>2, Quiet, ShownBy DEF Kept, CallStep
  <1>6. CASE PostSendReturns(s) /\ ReturnsTo("ok")
    <2>1. Top(s).at = "PostSend" /\ Top(s).at \in ServingPoints /\ control' = "ok"
      BY <1>6 DEF PostSendReturns, InCall, ServingPoints, ReturnsTo
    <2>2. PICK b \in Bodies : b = Top(s).body
      BY <1>1, <2>1, TopFrame
    <2>3. /\ Len(W) > 1 /\ IsSend(W[Len(W) - 1], Peer[s], Top(s).id)
          /\ Stage(W[Len(W)], promise, handled, control)
          /\ W[Len(W)].who = s
      BY <1>1, <2>1, SenderBelow
    <2>4. promise[Peer[s]][Top(s).id] = b
      BY <1>3, <2>1, <2>2, <2>3 DEF Stage
    <2>5. Ending(W[Len(W) - 1], promise', handled', control')
      BY <1>1, <2>1, <2>3, <2>4 DEF Ending, IsSend
    <2>6. W[Len(W) - 1].frame.at \in {"SendRequest", "SendNotification"}
      BY <2>3 DEF IsSend
    <2> QED
      BY <1>5, <2>1, <2>3, <2>5, <2>6
  <1>7. CASE NotificationHandlerReturns(s) /\ \E c \in {"ok", "failed"} : ReturnsTo(c)
    <2>1. Top(s).at = "Notification" /\ control' \in {"ok", "failed"}
      BY <1>7 DEF NotificationHandlerReturns, InCall, ReturnsTo
    <2>2. Len(W) \in 1..Len(W)
      BY <1>2, <1>3
    <2>3. Sits(W, Len(W))
      BY <1>2, <2>2 DEF Nested
    <2>4. Len(W) > 1 /\ W[Len(W) - 1].frame.at = "SendNotification"
      BY <1>3, <2>1, <2>3 DEF Sits
    <2>5. Ending(W[Len(W) - 1], promise', handled', control')
      BY <2>4 DEF Ending
    <2> QED
      BY <1>5, <2>1, <2>4, <2>5
  <1> QED
    BY <1>6, <1>7 DEF DirectCallbackReturns
-----------------------------------------------------------------------------
(* The invariant holds of the first state and of every next one.           *)
LEMMA DirectStart == DirectInit => DirectInv
  <1> SUFFICES ASSUME DirectInit
               PROVE  DirectInv
    OBVIOUS
  <1>1. HandledTypeOK /\ Unasked /\ FutureIffAnswered
    BY Peers DEF DirectInit, Init, HandledTypeOK, Unasked, FutureIffAnswered, Fates
  <1>2. PICK W \in Seq(Entries) : Len(W) = 0
    <2>1. <<>> \in Seq(Entries) /\ Len(<<>>) = 0
      OBVIOUS
    <2> QED
      BY <2>1
  <1>3. Represents(thread, calls, W)
    <2>1. \A j : j \notin 1..Len(W)
      BY <1>2
    <2>2. /\ thread \in Seq(Sessions) /\ Len(thread) = Len(W)
          /\ \A s \in Sessions : DOMAIN calls[s] = {}
      BY <1>2 DEF DirectInit, Init
    <2> QED
      BY <1>2, <2>1, <2>2 DEF Represents
  <1>4. Nested(W, control) /\ Stages(W, promise, handled, control)
    <2>1. (\A j : j \notin 1..Len(W)) /\ ~(Len(W) > 0)
      BY <1>2
    <2> QED
      BY <1>2, <2>1 DEF DirectInit, Nested, Stages
  <1> QED
    BY <1>1, <1>2, <1>3, <1>4 DEF DirectInv, Stacked

LEMMA DirectStep ==
    ASSUME SessionInv, DirectInv, [DirectNext]_directVars
    PROVE  Kept
  <1>1. Records /\ \E W : Situation(W)
    BY InvParts
  <1>2. PICK W : Situation(W)
    BY <1>1
  <1>3. CASE UNCHANGED directVars
    BY <1>3, StillKept DEF directVars, vars
  <1>4. ASSUME NEW s \in Sessions, Setup(s)
        PROVE  Kept
    BY <1>4, StillKept
    DEF Setup, SetSender, RegisterRequest, OnPostSend, RegisterNotification, threadVars
  <1>5. ASSUME NEW s \in Sessions, DirectSend(s)
        PROVE  Kept
    <2>1. control = "foreign" /\ UNCHANGED handled
      BY <1>5 DEF DirectSend
    <2>2. ASSUME NEW m \in Requests, SendRequestUnencodable(s, m), UNCHANGED threadVars
          PROVE  Kept
      BY <1>1, <1>2, <2>1, <2>2, RequestUnencodable DEF threadVars
    <2>3. ASSUME NEW m \in Requests, SendRequest(s, m),
                 IF sender_[s] THEN CallsOut(s) ELSE UNCHANGED threadVars
          PROVE  Kept
      BY <1>1, <1>2, <2>1, <2>3, RequestMade
    <2>4. ASSUME NEW m \in Notifications, SendNotification(s, m), CallsOut(s)
          PROVE  Kept
      BY <1>1, <1>2, <2>1, <2>4, NotificationMade
    <2> QED
      BY <1>5, <2>2, <2>3, <2>4 DEF DirectSend
  <1>6. ASSUME NEW s \in Sessions, DeliverRequest(s)
        PROVE  Kept
    BY <1>1, <1>2, <1>6, RequestDelivered
  <1>7. ASSUME NEW s \in Sessions, DeliverNotification(s)
        PROVE  Kept
    BY <1>1, <1>2, <1>7, NotificationDelivered
  <1>8. ASSUME NEW s \in Sessions, DeliverResponse(s)
        PROVE  Kept
    BY <1>1, <1>2, <1>8, ResponseDelivered
  <1>9. ASSUME NEW s \in Sessions, DirectHandlerReturns(s)
        PROVE  Kept
    BY <1>1, <1>2, <1>9, HandlerDone
  <1>10. ASSUME NEW s \in Sessions, DirectSenderReturns(s)
         PROVE  Kept
    <2>1. control \in {"ok", "failed"} /\ Innermost(s) /\ UNCHANGED handled
      BY <1>10 DEF DirectSenderReturns
    <2>2. CASE SendRequestReturns(s, control = "ok") /\ ReturnsTo("foreign")
      BY <1>1, <1>2, <2>1, <2>2, RequestReturned
    <2>3. CASE SendNotificationReturns(s) /\ ReturnsTo("foreign")
      BY <1>1, <1>2, <2>1, <2>3, NotificationReturned
    <2>4. CASE /\ RespondReturns(s, control = "ok")
               /\ IF CallsPostSend(s, control = "ok")
                  THEN control' = "foreign" /\ UNCHANGED thread
                  ELSE ReturnsTo(control)
      BY <1>1, <1>2, <2>1, <2>4, ResponseReturned
    <2> QED
      BY <1>10, <2>2, <2>3, <2>4 DEF DirectSenderReturns
  <1>11. ASSUME NEW s \in Sessions, DirectCallbackReturns(s)
         PROVE  Kept
    BY <1>1, <1>2, <1>11, CallbackDone
  <1> QED
    BY <1>3, <1>4, <1>5, <1>6, <1>7, <1>8, <1>9, <1>10, <1>11 DEF DirectNext

LEMMA AlwaysDirectInv == DirectSpec => [](SessionInv /\ DirectInv)
  <1>1. DirectSpec => []SessionInv
    BY DirectIsSession, TypeCorrect, HandlersMatch, IdsCorrect, PTL DEF SessionInv
  <1>2. SessionInv /\ DirectInv /\ [DirectNext]_directVars => DirectInv'
    BY DirectStep DEF Kept
  <1> QED
    BY <1>1, <1>2, DirectStart, PTL DEF DirectSpec
-----------------------------------------------------------------------------
(* SendRequest() returns a future exactly when the answer has come and was *)
(* accepted, so that get() on the same thread never waits                  *)
(* (session_test.cc:78-82), however deeply the calls are nested.           *)
THEOREM DirectFutures == DirectSpec => []FutureIffAnswered
  <1>1. SessionInv /\ DirectInv => FutureIffAnswered
    BY DEF DirectInv
  <1> QED
    BY AlwaysDirectInv, <1>1, PTL

(* A post-send callback (session.cc:87-89) runs when the peer's promise is *)
(* already set to what the handler returned and before the peer's          *)
(* SendRequest() has returned.                                             *)
THEOREM DirectPostSend == DirectSpec => []PostSendAfterAnswer
  <1>1. ASSUME SessionInv, DirectInv, NEW s \in Sessions, NEW k \in DOMAIN calls[s],
               calls[s][k].at = "PostSend"
        PROVE  /\ promise[Peer[s]][calls[s][k].id] = calls[s][k].body
               /\ returned[Peer[s]][calls[s][k].id] = "none"
    <2>1. PICK W : Situation(W)
      BY <1>1, InvParts
    <2>2. /\ W \in Seq(Entries) /\ Len(W) \in Nat
          /\ Represents(thread, calls, W) /\ Nested(W, control)
          /\ \A j \in 1..Len(W) : Stage(W[j], promise, handled, control)
      BY <2>1, StackIs
    <2>3. PICK j \in 1..Len(W) : W[j].who = s /\ W[j].nr = k
      BY <2>2 DEF Represents
    <2>4. PICK f \in Frames : f = W[j].frame /\ f = calls[s][k]
      <3>1. W[j].frame = calls[W[j].who][W[j].nr]
        BY <2>2 DEF Represents
      <3>2. W[j].frame \in Frames
        BY <2>2, EntriesAre
      <3> QED
        BY <2>3, <3>1, <3>2
    <2>5. f.at = "PostSend" /\ f.id \in Ids
      BY <1>1, <2>4 DEF Frames, RequestFrames, NotificationFrames
    <2>6. promise[Peer[s]][f.id] = f.body
      BY <2>2, <2>3, <2>4, <2>5 DEF Stage
    <2>7. j > 1 /\ IsSend(W[j - 1], Peer[s], f.id)
      BY <2>2, <2>3, <2>4, <2>5 DEF Nested, Sits, ServingPoints
    <2>8. j - 1 \in 1..Len(W) /\ Peer[s] \in Sessions /\ TypeOK /\ OneCallPerId
      BY <1>1, <2>2, <2>7, Peers DEF SessionInv
    <2>9. returned[Peer[s]][f.id] = "none"
      BY <2>2, <2>5, <2>7, <2>8, SendIsCall
    <2> QED
      BY <2>4, <2>6, <2>9
  <1>2. SessionInv /\ DirectInv => PostSendAfterAnswer
    BY <1>1 DEF PostSendAfterAnswer
  <1> QED
    BY AlwaysDirectInv, <1>2, PTL

(* A response that a session sends finds its response handler at the peer, *)
(* so that Receive() never takes the branch for an unknown id              *)
(* (session.cc:49-52).                                                     *)
THEOREM DirectResponsesAwaited == DirectSpec => []ResponsesAwaited
  <1>1. ASSUME SessionInv, DirectInv, NEW s \in Sessions, control = "call",
               Innermost(s), InCall(s, "Respond")
        PROVE  response_handlers_[Peer[s]][Top(s).id] # None
    <2>1. PICK W : Situation(W)
      BY <1>1, InvParts
    <2>2. TypeOK /\ Top(s).at = "Respond" /\ Top(s).at \in ServingPoints
      BY <1>1 DEF SessionInv, InCall, ServingPoints
    <2>3. /\ Top(s).id \in Ids /\ Peer[s] \in Sessions
          /\ Stage(W[Len(W)], promise, handled, control)
          /\ W[Len(W)].who = s /\ W[Len(W)].frame = Top(s)
      BY <1>1, <2>1, <2>2, SenderBelow
    <2>4. promise[Peer[s]][Top(s).id] = "unset"
      BY <1>1, <2>2, <2>3 DEF Stage
    <2> QED
      BY <1>1, <2>3, <2>4 DEF SessionInv, HandlersMatchPromises
  <1>2. SessionInv /\ DirectInv => ResponsesAwaited
    BY <1>1 DEF ResponsesAwaited
  <1> QED
    BY AlwaysDirectInv, <1>2, PTL

(* The state of the calls *)
Caller == [c \in Sessions \X Ids |-> promise[c[1]][c[2]]]
Callee == [c \in Sessions \X Ids |-> handled[Peer[c[1]]][c[2]]]

LEMMA PromiseSet ==
    ASSUME TypeOK, NEW s \in Sessions, NEW i \in Ids, NEW x, promise' = [promise EXCEPT ![s][i] = x]
    PROVE  /\ Caller' = [Caller EXCEPT ![<<s, i>>] = x]
           /\ Caller[<<s, i>>] = promise[s][i] /\ Callee[<<s, i>>] = handled[Peer[s]][i]
  <1>1. \A u \in Sessions, j \in Ids :
            promise'[u][j] = IF u = s /\ j = i THEN x ELSE promise[u][j]
    BY DEF TypeOK
  <1>2. \A c \in Sessions \X Ids : /\ c[1] \in Sessions /\ c[2] \in Ids
                                  /\ c = <<s, i>> <=> c[1] = s /\ c[2] = i
    OBVIOUS
  <1>3. Caller' = [c \in Sessions \X Ids |-> IF c = <<s, i>> THEN x ELSE promise[c[1]][c[2]]]
    BY <1>1, <1>2 DEF Caller
  <1>4. <<s, i>> \in Sessions \X Ids
    OBVIOUS
  <1> QED
    BY <1>3, <1>4 DEF Caller, Callee

LEMMA FateSet ==
    ASSUME HandledTypeOK, NEW t \in Sessions, NEW i \in Ids, NEW x, Handled(t, i, x)
    PROVE  /\ Callee' = [Callee EXCEPT ![<<Peer[t], i>>] = x]
           /\ Caller[<<Peer[t], i>>] = promise[Peer[t]][i] /\ Callee[<<Peer[t], i>>] = handled[t][i]
  <1>1. \A u \in Sessions, j \in Ids :
            handled'[u][j] = IF u = t /\ j = i THEN x ELSE handled[u][j]
    BY DEF HandledTypeOK, Handled
  <1>2. \A u \in Sessions, j \in Ids :
            handled'[Peer[u]][j] = IF u = Peer[t] /\ j = i THEN x ELSE handled[Peer[u]][j]
    BY <1>1, Peers
  <1> DEFINE c0 == <<Peer[t], i>>
  <1>3. \A c \in Sessions \X Ids : /\ c[1] \in Sessions /\ c[2] \in Ids
                                  /\ c = c0 <=> c[1] = Peer[t] /\ c[2] = i
    OBVIOUS
  <1>4. Callee' = [c \in Sessions \X Ids |-> IF c = c0 THEN x ELSE handled[Peer[c[1]]][c[2]]]
    BY <1>2, <1>3 DEF Callee
  <1>5. c0 \in Sessions \X Ids /\ c0[1] = Peer[t] /\ c0[2] = i /\ Peer[Peer[t]] = t
    BY Peers
  <1> HIDE DEF c0
  <1>6. Callee' = [Callee EXCEPT ![c0] = x]
    BY <1>4 DEF Callee
  <1>7. Caller[c0] = promise[Peer[t]][i] /\ Callee[c0] = handled[t][i]
    BY <1>5 DEF Caller, Callee
  <1> QED
    BY <1>6, <1>7 DEF c0

(* The pair implements a remote call: the peer runs the handler of a       *)
(* request once, and the future gets the outcome of that run or none.      *)
THEOREM DirectImplementsRemoteCall == DirectSpec => ImplementsRemoteCall
  <1>1. DirectInit => Abstract!CallInit
    BY Peers DEF DirectInit, Init, Abstract!CallInit
  <1>2. ASSUME SessionInv, DirectInv, CallStep
        PROVE  Abstract!CallNext \/ UNCHANGED <<Caller, Callee>>
    <2>1. TypeOK /\ HandledTypeOK
      BY <1>2 DEF SessionInv, DirectInv
    <2>2. CASE Asks
      <3>1. PICK s \in Sessions, i \in Ids :
              /\ promise[s][i] = "none" /\ promise' = [promise EXCEPT ![s][i] = "unset"]
              /\ UNCHANGED handled
        BY <2>2 DEF Asks
      <3>2. Caller[<<s, i>>] = "none" /\ Caller' = [Caller EXCEPT ![<<s, i>>] = "unset"]
        <4>1. PICK x : x = "unset" /\ promise' = [promise EXCEPT ![s][i] = x]
          BY <3>1
        <4>2. Caller' = [Caller EXCEPT ![<<s, i>>] = x] /\ Caller[<<s, i>>] = promise[s][i]
          BY <2>1, <4>1, PromiseSet
        <4> QED
          BY <3>1, <4>1, <4>2
      <3> UNCHANGED Callee
        BY <3>1 DEF Callee
      <3>3. Abstract!Ask(<<s, i>>)
        BY <3>2 DEF Abstract!Ask, Caller, Callee
      <3> QED
        BY <3>3 DEF Abstract!CallNext
    <2>3. CASE Starts
      <3>1. PICK t \in Sessions, i \in Ids, fate \in {"running", "rejected"} :
              /\ promise[Peer[t]][i] = "unset" /\ handled[t][i] = "none"
              /\ Handled(t, i, fate) /\ UNCHANGED promise
        BY <2>3 DEF Starts
      <3> DEFINE c == <<Peer[t], i>>
      <3>2. /\ Caller[c] = "unset" /\ Callee[c] = "none"
            /\ Callee' = [Callee EXCEPT ![c] = fate]
        BY <2>1, <3>1, FateSet
      <3> UNCHANGED Caller
        BY <3>1 DEF Caller
      <3>3. Abstract!Start(c)
        BY <3>2 DEF Abstract!Start, Caller, Callee
      <3> QED
        BY <3>3, Peers DEF Abstract!CallNext
    <2>4. CASE Finishes
      <3>1. PICK t \in Sessions, i \in Ids, fate \in Bodies \cup {"failed"} :
              handled[t][i] = "running" /\ Handled(t, i, fate) /\ UNCHANGED promise
        BY <2>4 DEF Finishes
      <3> DEFINE c == <<Peer[t], i>>
      <3>2. Callee[c] = "running" /\ Callee' = [Callee EXCEPT ![c] = fate]
        BY <2>1, <3>1, FateSet
      <3> UNCHANGED Caller
        BY <3>1 DEF Caller
      <3>3. Abstract!Finish(c)
        BY <3>2 DEF Abstract!Finish, Abstract!Outcomes, Bodies, Caller, Callee
      <3> QED
        BY <3>3, Peers DEF Abstract!CallNext
    <2>5. CASE Answers
      <3>1. PICK t \in Sessions, i \in Ids :
              /\ promise[t][i] = "unset" /\ handled[Peer[t]][i] \in Bodies
              /\ \E answer \in {handled[Peer[t]][i], "broken"} :
                    promise' = [promise EXCEPT ![t][i] = answer]
              /\ UNCHANGED handled
        BY <2>5 DEF Answers
      <3> DEFINE c == <<t, i>>
      <3>2. /\ Caller[c] = "unset" /\ Callee[c] \in Bodies
            /\ \E answer \in {Callee[c], "broken"} : Caller' = [Caller EXCEPT ![c] = answer]
        <4>1. PICK answer \in {handled[Peer[t]][i], "broken"} :
                promise' = [promise EXCEPT ![t][i] = answer]
          BY <3>1
        <4>2. /\ Caller' = [Caller EXCEPT ![c] = answer]
              /\ Caller[c] = promise[t][i] /\ Callee[c] = handled[Peer[t]][i]
          BY <2>1, <4>1, PromiseSet
        <4> QED
          BY <3>1, <4>1, <4>2
      <3> UNCHANGED Callee
        BY <3>1 DEF Callee
      <3>3. Abstract!Answer(c)
        BY <3>2 DEF Abstract!Answer, Abstract!Outcomes, Bodies, Caller, Callee
      <3> QED
        BY <3>3 DEF Abstract!CallNext
    <2>6. CASE UNCHANGED <<promise, handled>>
      BY <2>6 DEF Caller, Callee
    <2> QED
      BY <1>2, <2>2, <2>3, <2>4, <2>5, <2>6 DEF CallStep
  <1>3. SessionInv /\ DirectInv /\ [DirectNext]_directVars
        => [Abstract!CallNext]_(Abstract!callVars)
    BY <1>2, DirectStep DEF Kept, Abstract!callVars, Caller, Callee
  <1> QED
    BY <1>1, <1>3, AlwaysDirectInv, PTL DEF DirectSpec, ImplementsRemoteCall, Abstract!CallSpec
=============================================================================
