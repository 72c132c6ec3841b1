----------------------------- MODULE RemoteCall -----------------------------
(***************************************************************************)
(* What a pair of connected sessions promises about each request: the      *)
(* peer's handler runs at most once, and if the caller's std::future gets  *)
(* a value it is the outcome of that very run.  There are no ids, messages,*)
(* handler tables or stacks here: DirectSessions and StreamSessions are    *)
(* shown to implement this specification with                              *)
(*     caller <- the promise of each request,                              *)
(*     callee <- the fate of the request at the peer.                      *)
(***************************************************************************)
CONSTANT Calls   \* the requests that are ever made

VARIABLES
    caller,      \* what the caller's future reports
    callee       \* what happened at the peer

callVars == <<caller, callee>>

Outcomes == {"result", "error"}

CallTypeOK ==
    /\ caller \in [Calls -> {"none", "unset", "broken"} \cup Outcomes]
    /\ callee \in [Calls -> {"none", "running", "rejected", "failed"} \cup Outcomes]

CallInit ==
    /\ caller = [c \in Calls |-> "none"]
    /\ callee = [c \in Calls |-> "none"]

(* SendRequest() makes the promise. *)
Ask(c) ==
    /\ caller[c] = "none"
    /\ caller' = [caller EXCEPT ![c] = "unset"]
    /\ UNCHANGED callee

(* The peer's Receive() calls the handler, or does not. *)
Start(c) ==
    /\ caller[c] = "unset" /\ callee[c] = "none"
    /\ \E fate \in {"running", "rejected"} :
          callee' = [callee EXCEPT ![c] = fate]
    /\ UNCHANGED caller

(* The handler returns an outcome that can be encoded, or not. *)
Finish(c) ==
    /\ callee[c] = "running"
    /\ \E fate \in Outcomes \cup {"failed"} :
          callee' = [callee EXCEPT ![c] = fate]
    /\ UNCHANGED caller

(* The caller's Receive() passes the outcome on, or cannot decode it. *)
Answer(c) ==
    /\ caller[c] = "unset" /\ callee[c] \in Outcomes
    /\ \E answer \in {callee[c], "broken"} :
          caller' = [caller EXCEPT ![c] = answer]
    /\ UNCHANGED callee

CallNext == \E c \in Calls : Ask(c) \/ Start(c) \/ Finish(c) \/ Answer(c)

CallSpec == CallInit /\ [][CallNext]_callVars
-----------------------------------------------------------------------------
(* A future that is settled reports what the handler of the same call      *)
(* returned, and a handler that never ran or failed settles none.          *)
AnswerIsHandlers ==
    \A c \in Calls :
        /\ caller[c] \in Outcomes => callee[c] = caller[c]
        /\ caller[c] = "broken" => callee[c] \in Outcomes

(* A handler's outcome is final: no run of it is repeated or replaced. *)
HandledOnce ==
    [][\A c \in Calls : callee[c] \notin {"none", "running"} =>
                            callee'[c] = callee[c]]_callVars
=============================================================================
