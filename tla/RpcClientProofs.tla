-------------------------- MODULE RpcClientProofs --------------------------
(***************************************************************************)
(* For all calls, retry limits and restarts of the node: a call makes at   *)
(* most max_retries + 1 attempts, one more with the cookie, and with a     *)
(* fixed password a call of `Retries::Unsent` runs at most once on the     *)
(* node.                                                                   *)
(*                                                                         *)
(* The first follows from a count (Counted): an attempt that is or will be *)
(* made is the first one, or paid for by a retry or by the one reload of   *)
(* the cookie.  The second follows from what a call that can still send    *)
(* knows (Sendable): the node got none of its requests.  With the cookie   *)
(* it is false: the reload sends again what was sent.                      *)
(***************************************************************************)
EXTENDS RpcClient, TLAPS

Pc == {"idle", "send", "waiting", "failed", "reloading", "decide", "ok", "err"}
Late == {"Rpc", "Protocol", "Http", "Unavailable", "Transport", "InWarmup", "Unauthorized",
         "ConnectionClosed", "Timeout"}
Error == Late \cup {"none", "Unsent"}
CallType ==
    [pc : Pc, attempt : Nat, retry_count : Nat, reloaded : BOOLEAN, header : Nat,
     error : Error, fresh : Nat, begun : Nat]
RequestType == [call : Calls, attempt : Nat, header : Nat, ran : BOOLEAN]

Typed ==
    /\ cookie \in Nat /\ auth_header \in Nat
    /\ call \in [Calls -> CallType]
    /\ wire \subseteq RequestType
    /\ runs \in [Calls -> Nat]

\* The attempts that are made, and the one that comes.
Counted ==
    \A c \in Calls :
      /\ call[c].retry_count <= max_retries
      /\ call[c].attempt + (IF call[c].pc \in {"idle", "send", "reloading"} THEN 1 ELSE 0)
           <= 1 + call[c].retry_count + (IF call[c].reloaded THEN 1 ELSE 0)
      /\ call[c].pc = "reloading" => call[c].reloaded
      /\ call[c].reloaded => IsCookie

\* A call that can still send was not sent: the node has no request of it and ran none.
CanSend(c) == \/ call[c].pc \in {"idle", "send"}
              \/ call[c].pc = "failed" /\ call[c].error = "Unsent"
Sendable ==
    \A c \in UnsentCalls :
      /\ call[c].pc \notin {"reloading", "decide"}
      /\ CanSend(c) => runs[c] = 0 /\ \A r \in wire : r.call # c
      /\ \A r, s \in wire : r.call = c /\ s.call = c => r = s
      /\ \A r \in wire : r.call = c /\ ~r.ran => runs[c] = 0
      /\ runs[c] <= 1

LEMMA InitLemma == Init => Typed /\ Counted /\ Sendable
  BY RpcBounds
  DEF Init, Idle, Typed, Counted, Sendable, CanSend, CallType, Pc, Error, Late, RequestType

-----------------------------------------------------------------------------
(* What each action does to the fields of a call that the invariants read.  *)

Changed(c, pc, attempt, retry_count, reloaded, error) ==
    /\ call' \in [Calls -> CallType]
    /\ \A d \in Calls \ {c} : call'[d] = call[d]
    /\ call'[c].pc = pc /\ call'[c].attempt = attempt
    /\ call'[c].retry_count = retry_count /\ call'[c].reloaded = reloaded
    /\ call'[c].error = error

LEMMA SetLemma ==
  ASSUME Typed, NEW c \in Calls, NEW x \in CallType, Set(c, x)
  PROVE  Changed(c, x.pc, x.attempt, x.retry_count, x.reloaded, x.error)
  BY DEF Set, Typed, Changed

LEMMA SendLemma ==
  ASSUME Typed, NEW c \in Calls, Send(c)
  PROVE  /\ call[c].pc \in {"idle", "send"}
         /\ \/ /\ Changed(c, "waiting", call[c].attempt + 1, call[c].retry_count,
                          call[c].reloaded, call[c].error)
               /\ \E r \in RequestType : r.call = c /\ ~r.ran /\ wire' = wire \cup {r}
            \/ /\ Changed(c, "failed", call[c].attempt + 1, call[c].retry_count,
                          call[c].reloaded, "Unsent")
               /\ wire' = wire
         /\ runs' = runs /\ cookie' = cookie /\ auth_header' = auth_header
<1> DEFINE attempt == call[c].attempt + 1
           begun == IF attempt = 1 THEN cookie ELSE call[c].begun
           sent == [call[c] EXCEPT !.pc = "waiting", !.attempt = attempt,
                                   !.header = auth_header, !.begun = begun]
           unsent == [call[c] EXCEPT !.pc = "failed", !.attempt = attempt,
                                     !.header = auth_header, !.error = "Unsent",
                                     !.begun = begun]
           r == [call |-> c, attempt |-> attempt, header |-> auth_header, ran |-> FALSE]
<1>1. call[c] \in CallType /\ attempt \in Nat /\ begun \in Nat /\ auth_header \in Nat
  BY DEF Typed, CallType
<1>2. r \in RequestType /\ r.call = c /\ ~r.ran
  BY <1>1 DEF RequestType
<1>3. "waiting" \in Pc /\ "failed" \in Pc
  BY DEF Pc
<1> HIDE DEF attempt, begun
<1>4. /\ sent \in CallType /\ sent.pc = "waiting" /\ sent.attempt = attempt
      /\ sent.retry_count = call[c].retry_count /\ sent.reloaded = call[c].reloaded
      /\ sent.error = call[c].error
  BY ONLY <1>1, <1>3 DEF CallType, Error
<1>5. /\ unsent \in CallType /\ unsent.pc = "failed" /\ unsent.attempt = attempt
      /\ unsent.retry_count = call[c].retry_count /\ unsent.reloaded = call[c].reloaded
      /\ unsent.error = "Unsent"
  BY ONLY <1>1, <1>3 DEF CallType, Error
<1>6. /\ call[c].pc \in {"idle", "send"}
      /\ \/ Set(c, sent) /\ wire' = wire \cup {r}
         \/ Set(c, unsent) /\ wire' = wire
      /\ runs' = runs /\ cookie' = cookie /\ auth_header' = auth_header
  BY DEF Send, attempt, begun
<1> HIDE DEF sent, unsent, r
<1>7. CASE Set(c, sent) /\ wire' = wire \cup {r}
  BY <1>2, <1>4, <1>6, <1>7, SetLemma DEF attempt
<1>8. CASE Set(c, unsent) /\ wire' = wire
  BY <1>5, <1>6, <1>8, SetLemma DEF attempt
<1> QED
  BY <1>6, <1>7, <1>8 DEF attempt

LEMMA ReadCookieLemma ==
  ASSUME Typed, NEW c \in Calls, ReadCookie(c)
  PROVE  /\ IsCookie /\ call[c].pc = "failed" /\ ~call[c].reloaded
         /\ \E pc \in {"reloading", "decide"} :
              Changed(c, pc, call[c].attempt, call[c].retry_count, TRUE, call[c].error)
         /\ UNCHANGED <<wire, runs, cookie, auth_header>>
<1> DEFINE read == [call[c] EXCEPT !.pc = "reloading", !.reloaded = TRUE, !.fresh = cookie]
           unread == [call[c] EXCEPT !.pc = "decide", !.reloaded = TRUE]
<1>1. call[c] \in CallType /\ "reloading" \in Pc /\ "decide" \in Pc /\ cookie \in Nat
  BY DEF Typed, Pc
<1>2. /\ read \in CallType /\ read.pc = "reloading" /\ read.attempt = call[c].attempt
      /\ read.retry_count = call[c].retry_count /\ read.reloaded = TRUE
      /\ read.error = call[c].error
  BY ONLY <1>1 DEF CallType
<1>3. /\ unread \in CallType /\ unread.pc = "decide" /\ unread.attempt = call[c].attempt
      /\ unread.retry_count = call[c].retry_count /\ unread.reloaded = TRUE
      /\ unread.error = call[c].error
  BY ONLY <1>1 DEF CallType
<1>4. /\ IsCookie /\ call[c].pc = "failed" /\ ~call[c].reloaded
      /\ Set(c, read) \/ Set(c, unread)
      /\ UNCHANGED <<wire, runs, cookie, auth_header>>
  BY DEF ReadCookie, ReadsCookie
<1> HIDE DEF read, unread
<1>5. CASE Set(c, read)
  BY <1>2, <1>4, <1>5, SetLemma
<1>6. CASE Set(c, unread)
  BY <1>3, <1>4, <1>6, SetLemma
<1> QED
  BY <1>4, <1>5, <1>6

LEMMA ReloadCookieLemma ==
  ASSUME Typed, NEW c \in Calls, ReloadCookie(c)
  PROVE  /\ call[c].pc = "reloading"
         /\ \E pc \in {"send", "decide"} :
              Changed(c, pc, call[c].attempt, call[c].retry_count, call[c].reloaded,
                      call[c].error)
         /\ UNCHANGED <<wire, runs, cookie>> /\ auth_header' \in Nat
<1>1. PICK pc \in {"send", "decide"} : Set(c, [call[c] EXCEPT !.pc = pc])
  BY DEF ReloadCookie
<1> DEFINE new == [call[c] EXCEPT !.pc = pc]
<1>2. call[c] \in CallType /\ pc \in Pc
  BY DEF Typed, Pc
<1>3. /\ new \in CallType /\ new.pc = pc /\ new.attempt = call[c].attempt
      /\ new.retry_count = call[c].retry_count /\ new.reloaded = call[c].reloaded
      /\ new.error = call[c].error
  BY ONLY <1>2 DEF CallType
<1> HIDE DEF new
<1>4. Changed(c, pc, call[c].attempt, call[c].retry_count, call[c].reloaded, call[c].error)
  BY <1>1, <1>3, SetLemma DEF new
<1>5. call[c].pc = "reloading" /\ UNCHANGED <<wire, runs, cookie>> /\ auth_header' \in Nat
  BY <1>2 DEF ReloadCookie, CallType
<1> QED
  BY <1>4, <1>5

LEMMA DecideLemma ==
  ASSUME Typed, NEW c \in Calls, Decide(c)
  PROVE  /\ call[c].pc \in {"decide", "failed"}
         /\ \/ /\ Retry(c) /\ HasRetry(c)
               /\ Changed(c, "send", call[c].attempt, call[c].retry_count + 1,
                          call[c].reloaded, call[c].error)
            \/ Changed(c, "err", call[c].attempt, call[c].retry_count, call[c].reloaded,
                       call[c].error)
         /\ UNCHANGED <<wire, runs, cookie, auth_header>>
<1> DEFINE again == [call[c] EXCEPT !.pc = "send", !.retry_count = call[c].retry_count + 1]
           ends == [call[c] EXCEPT !.pc = "err"]
<1>1. call[c] \in CallType /\ "send" \in Pc /\ "err" \in Pc /\ call[c].retry_count + 1 \in Nat
  BY DEF Typed, Pc, CallType
<1>2. /\ again \in CallType /\ again.pc = "send" /\ again.attempt = call[c].attempt
      /\ again.retry_count = call[c].retry_count + 1 /\ again.reloaded = call[c].reloaded
      /\ again.error = call[c].error
  BY ONLY <1>1 DEF CallType
<1>3. /\ ends \in CallType /\ ends.pc = "err" /\ ends.attempt = call[c].attempt
      /\ ends.retry_count = call[c].retry_count /\ ends.reloaded = call[c].reloaded
      /\ ends.error = call[c].error
  BY ONLY <1>1 DEF CallType
<1>4. /\ call[c].pc \in {"decide", "failed"}
      /\ (Retry(c) /\ HasRetry(c) /\ Set(c, again)) \/ Set(c, ends)
      /\ UNCHANGED <<wire, runs, cookie, auth_header>>
  BY DEF Decide
<1> HIDE DEF again, ends
<1>5. CASE Retry(c) /\ HasRetry(c) /\ Set(c, again)
  BY <1>2, <1>4, <1>5, SetLemma
<1>6. CASE Set(c, ends)
  BY <1>3, <1>4, <1>6, SetLemma
<1> QED
  BY <1>4, <1>5, <1>6

LEMMA FailLemma ==
  ASSUME Typed, NEW c \in Calls, NEW error \in Late, call[c].pc = "waiting",
         Set(c, [call[c] EXCEPT !.pc = "failed", !.error = error])
  PROVE  Changed(c, "failed", call[c].attempt, call[c].retry_count, call[c].reloaded, error)
<1> DEFINE new == [call[c] EXCEPT !.pc = "failed", !.error = error]
<1>1. call[c] \in CallType /\ "failed" \in Pc /\ error \in Error
  BY DEF Typed, Pc, Error
<1>2. /\ new \in CallType /\ new.pc = "failed" /\ new.attempt = call[c].attempt
      /\ new.retry_count = call[c].retry_count /\ new.reloaded = call[c].reloaded
      /\ new.error = error
  BY ONLY <1>1 DEF CallType
<1> HIDE DEF new
<1> QED
  BY <1>2, SetLemma DEF new

\* The answer of a request, good or bad: at most the call that waits ends.
Ended(c) ==
    /\ call[c].pc = "waiting"
    /\ \/ \E error \in Late :
            Changed(c, "failed", call[c].attempt, call[c].retry_count, call[c].reloaded, error)
       \/ Changed(c, "ok", call[c].attempt, call[c].retry_count, call[c].reloaded,
                  call[c].error)

LEMMA AnswerLemma ==
  ASSUME Typed, NEW r \in wire, Answer(r) \/ Refuse(r)
  PROVE  /\ call' = call \/ (r.call \in Calls /\ Ended(r.call))
         /\ wire' = wire \ {r}
         /\ UNCHANGED <<runs, cookie, auth_header>>
<1>1. r.call \in Calls
  BY DEF Typed, RequestType
<1>2. CASE \E error \in Late : Fail(r, error)
  BY <1>1, <1>2, FailLemma DEF Fail, Waits, Ended, Answer, Refuse
<1>3. CASE IF Waits(r) THEN Set(r.call, [call[r.call] EXCEPT !.pc = "ok"]) ELSE UNCHANGED call
  <2> DEFINE c == r.call
             new == [call[c] EXCEPT !.pc = "ok"]
  <2>1. call[c] \in CallType /\ "ok" \in Pc
    BY <1>1 DEF Typed, Pc
  <2>2. /\ new \in CallType /\ new.pc = "ok" /\ new.attempt = call[c].attempt
        /\ new.retry_count = call[c].retry_count /\ new.reloaded = call[c].reloaded
        /\ new.error = call[c].error
    BY ONLY <2>1 DEF CallType
  <2>3. UNCHANGED call \/ (call[c].pc = "waiting" /\ Set(c, new))
    BY <1>3 DEF Waits
  <2> HIDE DEF new
  <2>4. CASE call[c].pc = "waiting" /\ Set(c, new)
    BY <1>1, <2>2, <2>4, SetLemma DEF Ended, Answer, Refuse
  <2> QED
    BY <2>3, <2>4 DEF Answer, Refuse
<1> QED
  BY <1>2, <1>3 DEF Answer, Refuse, Late

LEMMA TimeoutLemma ==
  ASSUME Typed, NEW c \in Calls, Timeout(c)
  PROVE  Ended(c) /\ UNCHANGED <<wire, runs, cookie, auth_header>>
<1>1. "Timeout" \in Late /\ call[c].pc = "waiting"
      /\ Set(c, [call[c] EXCEPT !.pc = "failed", !.error = "Timeout"])
  BY DEF Timeout, Late
<1> QED
  BY <1>1, FailLemma DEF Timeout, Ended

LEMMA StopLemma ==
  ASSUME Typed, NodeStops
  PROVE  /\ call' \in [Calls -> CallType]
         /\ \A c \in Calls :
              \/ call'[c] = call[c]
              \/ /\ call[c].pc = "waiting" /\ call'[c].pc = "failed"
                 /\ call'[c].attempt = call[c].attempt
                 /\ call'[c].retry_count = call[c].retry_count
                 /\ call'[c].reloaded = call[c].reloaded
                 /\ call'[c].error = "ConnectionClosed"
<1> DEFINE new(c) == [call[c] EXCEPT !.pc = "failed", !.error = "ConnectionClosed"]
<1>1. \A c \in Calls :
        /\ new(c) \in CallType /\ new(c).pc = "failed" /\ new(c).attempt = call[c].attempt
        /\ new(c).retry_count = call[c].retry_count /\ new(c).reloaded = call[c].reloaded
        /\ new(c).error = "ConnectionClosed"
  <2> TAKE c \in Calls
  <2>1. call[c] \in CallType /\ "failed" \in Pc /\ "ConnectionClosed" \in Error
    BY DEF Typed, Pc, Error, Late
  <2> QED
    BY ONLY <2>1 DEF CallType
<1>2. call' = [c \in Calls |-> IF \E r \in wire : r.call = c /\ Waits(r) THEN new(c) ELSE call[c]]
  BY DEF NodeStops
<1>3. \A c \in Calls : (\E r \in wire : r.call = c /\ Waits(r)) => call[c].pc = "waiting"
  BY DEF Waits
<1> HIDE DEF new
<1> QED
  BY <1>1, <1>2, <1>3 DEF Typed

LEMMA RunLemma ==
  ASSUME Typed, NEW r \in wire, Run(r)
  PROVE  /\ ~r.ran /\ r.call \in Calls
         /\ \E s \in RequestType : s.call = r.call /\ s.ran /\ wire' = (wire \ {r}) \cup {s}
         /\ runs' = [runs EXCEPT ![r.call] = runs[r.call] + 1]
         /\ UNCHANGED <<call, cookie, auth_header>>
<1> DEFINE s == [r EXCEPT !.ran = TRUE]
<1>1. r \in RequestType
  BY DEF Typed
<1>2. s \in RequestType /\ s.call = r.call /\ s.ran /\ r.call \in Calls
  BY ONLY <1>1 DEF RequestType
<1>3. wire' = (wire \ {r}) \cup {s}
  BY DEF Run
<1> HIDE DEF s
<1> QED
  BY <1>2, <1>3 DEF Run

-----------------------------------------------------------------------------
(* The invariants *)

LEMMA TypedStep == Typed /\ [Next]_vars => Typed'
<1> SUFFICES ASSUME Typed, [Next]_vars PROVE Typed'
  OBVIOUS
<1> USE RpcBounds DEF Changed, Ended
<1>1. CASE UNCHANGED vars
  BY <1>1 DEF vars, Typed
<1>2. ASSUME NEW c \in Calls, Send(c) PROVE Typed'
  BY <1>2, SendLemma DEF Typed
<1>3. ASSUME NEW c \in Calls, ReadCookie(c) PROVE Typed'
  BY <1>3, ReadCookieLemma DEF Typed
<1>4. ASSUME NEW c \in Calls, ReloadCookie(c) PROVE Typed'
  BY <1>4, ReloadCookieLemma DEF Typed
<1>5. ASSUME NEW c \in Calls, Decide(c) PROVE Typed'
  BY <1>5, DecideLemma DEF Typed
<1>6. ASSUME NEW r \in wire, Run(r) PROVE Typed'
  BY <1>6, RunLemma DEF Typed
<1>7. ASSUME NEW r \in wire, Answer(r) \/ Refuse(r) PROVE Typed'
  BY <1>7, AnswerLemma DEF Typed
<1>8. ASSUME NEW c \in Calls, Timeout(c) PROVE Typed'
  BY <1>8, TimeoutLemma DEF Typed
<1>9. CASE NodeStops
  BY <1>9, StopLemma DEF NodeStops, Typed
<1>10. CASE NodeStarts
  BY <1>10 DEF NodeStarts, Typed
<1> QED
  BY <1>1, <1>2, <1>3, <1>4, <1>5, <1>6, <1>7, <1>8, <1>9, <1>10 DEF Next, Client, Node

LEMMA CountedStep == Typed /\ Counted /\ [Next]_vars => Counted'
<1> SUFFICES ASSUME Typed, Counted, [Next]_vars PROVE Counted'
  OBVIOUS
<1> USE RpcBounds DEF Changed, Ended, Counted
<1>0. \A c \in Calls : call[c].attempt \in Nat /\ call[c].retry_count \in Nat
                       /\ call[c].reloaded \in BOOLEAN
  BY DEF Typed, CallType
<1>1. CASE UNCHANGED vars
  BY <1>1 DEF vars
<1>2. ASSUME NEW c \in Calls, Send(c) PROVE Counted'
  BY <1>0, <1>2, SendLemma
<1>3. ASSUME NEW c \in Calls, ReadCookie(c) PROVE Counted'
  <2>1. PICK pc \in {"reloading", "decide"} :
          Changed(c, pc, call[c].attempt, call[c].retry_count, TRUE, call[c].error)
    BY <1>3, ReadCookieLemma
  <2>2. IsCookie /\ ~call[c].reloaded /\ call[c].pc = "failed"
    BY <1>3, ReadCookieLemma
  <2> QED
    BY <1>0, <2>1, <2>2
<1>4. ASSUME NEW c \in Calls, ReloadCookie(c) PROVE Counted'
  BY <1>0, <1>4, ReloadCookieLemma
<1>5. ASSUME NEW c \in Calls, Decide(c) PROVE Counted'
  BY <1>0, <1>5, DecideLemma DEF HasRetry
<1>6. ASSUME NEW r \in wire, Run(r) PROVE Counted'
  BY <1>6 DEF Run
<1>7. ASSUME NEW r \in wire, Answer(r) \/ Refuse(r) PROVE Counted'
  BY <1>0, <1>7, AnswerLemma
<1>8. ASSUME NEW c \in Calls, Timeout(c) PROVE Counted'
  BY <1>0, <1>8, TimeoutLemma
<1>9. CASE NodeStops
  BY <1>0, <1>9, StopLemma
<1>10. CASE NodeStarts
  BY <1>10 DEF NodeStarts
<1> QED
  BY <1>1, <1>2, <1>3, <1>4, <1>5, <1>6, <1>7, <1>8, <1>9, <1>10 DEF Next, Client, Node

LEMMA SendableStep ==
  ASSUME IsCookie = FALSE
  PROVE  Typed /\ Sendable /\ [Next]_vars => Sendable'
<1> SUFFICES ASSUME Typed, Sendable, [Next]_vars PROVE Sendable'
  OBVIOUS
<1> USE RpcBounds DEF Changed, Ended, Sendable, CanSend
<1>1. CASE UNCHANGED vars
  BY <1>1 DEF vars
<1>2. ASSUME NEW c \in Calls, Send(c) PROVE Sendable'
  BY <1>2, SendLemma DEF RequestType
<1>3. ASSUME NEW c \in Calls, ReadCookie(c) PROVE Sendable'
  BY <1>3, ReadCookieLemma
<1>4. ASSUME NEW c \in Calls, ReloadCookie(c) PROVE Sendable'
  BY <1>4, ReloadCookieLemma
<1>5. ASSUME NEW c \in Calls, Decide(c) PROVE Sendable'
  BY <1>5, DecideLemma DEF Retry, IsUnsent
<1>6. ASSUME NEW r \in wire, Run(r) PROVE Sendable'
  <2>1. PICK s \in RequestType : s.call = r.call /\ s.ran /\ wire' = (wire \ {r}) \cup {s}
    BY <1>6, RunLemma
  <2>2. ~r.ran /\ runs' = [runs EXCEPT ![r.call] = runs[r.call] + 1] /\ call' = call
    BY <1>6, RunLemma
  <2>3. runs \in [Calls -> Nat]
    BY DEF Typed
  <2> QED
    BY <2>1, <2>2, <2>3
<1>7. ASSUME NEW r \in wire, Answer(r) \/ Refuse(r) PROVE Sendable'
  BY <1>7, AnswerLemma DEF Late
<1>8. ASSUME NEW c \in Calls, Timeout(c) PROVE Sendable'
  BY <1>8, TimeoutLemma DEF Late
<1>9. CASE NodeStops
  <2>1. wire' = {} /\ runs' = runs
    BY <1>9 DEF NodeStops
  <2>2. \A c \in Calls : /\ CanSend(c)' => CanSend(c)
                         /\ call'[c].pc \in {"reloading", "decide"} => call'[c] = call[c]
    BY <1>9, StopLemma
  <2> QED
    BY <2>1, <2>2
<1>10. CASE NodeStarts
  BY <1>10 DEF NodeStarts
<1> QED
  BY <1>1, <1>2, <1>3, <1>4, <1>5, <1>6, <1>7, <1>8, <1>9, <1>10 DEF Next, Client, Node

\* A call makes at most max_retries + 1 attempts, one more with the cookie,
\* however often the node restarts, rejects or drops it (RpcClient::attempts).
THEOREM AttemptsCorrect == Spec => []AttemptsAreBounded
<1>1. Typed /\ Counted => AttemptsAreBounded
  BY RpcBounds DEF Typed, Counted, CallType, AttemptsAreBounded
<1> QED
  BY <1>1, InitLemma, TypedStep, CountedStep, PTL DEF Spec

\* With a fixed password, a call that must not run twice on the node runs
\* there at most once, whatever is lost, late or repeated
\* (Retries::Unsent in RpcClient::attempts).
THEOREM UnsentCorrect ==
  ASSUME IsCookie = FALSE
  PROVE  Spec => []UnsentRunsOnce
<1>1. Sendable => UnsentRunsOnce
  BY DEF Sendable, UnsentRunsOnce
<1>2. Sendable /\ Typed /\ [Next]_vars => Sendable'
  BY SendableStep
<1> QED
  BY <1>1, <1>2, InitLemma, TypedStep, PTL DEF Spec
=============================================================================
