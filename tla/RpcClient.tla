------------------------------ MODULE RpcClient ------------------------------
(***************************************************************************)
(* The JSON-RPC client of the remote node: the attempts of a call, its     *)
(* retries, and the credentials that all calls share and that a rejected   *)
(* call reads again.  The node can restart at each step, and writes a new  *)
(* cookie when it does.                                                    *)
(***************************************************************************)
EXTENDS Naturals, FiniteSets

CONSTANTS
    Calls,          \* the calls
    UnsentCalls,    \* the calls with `Retries::Unsent`: sendrawtransaction
    IsCookie,       \* the auth is the cookie file
    max_retries,    \* RetryPolicy::max_retries
    MaxRestarts     \* bound: restarts of the node

ASSUME RpcBounds ==
    /\ UnsentCalls \subseteq Calls /\ IsCookie \in BOOLEAN
    /\ max_retries \in Nat /\ MaxRestarts \in Nat

VARIABLES
    up,         \* the node accepts connections
    cookie,     \* the cookie of the node, and of its file
    auth_header,\* the credentials of the client
    call,       \* the state of each call
    wire,       \* the requests that the node has not finished
    runs,       \* how often the node ran each call
    restarts,   \* restarts of the node
    readFailed  \* a read of the cookie file failed

vars == <<up, cookie, auth_header, call, wire, runs, restarts, readFailed>>

\* pc: where the call is.  error: of the last attempt.  fresh: what it read from the file.
\* begun: the cookie of the node at its first attempt.
Idle == [pc |-> "idle", attempt |-> 0, retry_count |-> 0, reloaded |-> FALSE,
         header |-> 0, error |-> "none", fresh |-> 0, begun |-> 0]

\* RpcClient::new reads the credentials once.
Init ==
    /\ up = TRUE /\ cookie = 0 /\ auth_header = 0
    /\ call = [c \in Calls |-> Idle]
    /\ wire = {} /\ runs = [c \in Calls |-> 0] /\ restarts = 0 /\ readFailed = FALSE

Set(c, new) == call' = [call EXCEPT ![c] = new]

\* RpcError::is_retryable and RpcError::is_unsent.
IsRetryable(error) ==
    error \in {"Unsent", "Transport", "ConnectionClosed", "Timeout", "Unavailable", "InWarmup"}
IsUnsent(error) == error = "Unsent"

-----------------------------------------------------------------------------
(* RpcClient::once: one attempt.                                            *)

\* The attempt takes the header that the client has now. No connection: it is not sent.
Send(c) ==
    /\ call[c].pc \in {"idle", "send"}
    /\ LET attempt == call[c].attempt + 1
           begun == IF attempt = 1 THEN cookie ELSE call[c].begun
       IN
       \/ /\ up
          /\ Set(c, [call[c] EXCEPT !.pc = "waiting", !.attempt = attempt, !.header = auth_header,
                                    !.begun = begun])
          /\ wire' = wire \cup {[call |-> c, attempt |-> attempt, header |-> auth_header,
                                 ran |-> FALSE]}
       \/ /\ Set(c, [call[c] EXCEPT !.pc = "failed", !.attempt = attempt, !.header = auth_header,
                                    !.error = "Unsent", !.begun = begun])
          /\ UNCHANGED wire
    /\ UNCHANGED <<up, cookie, auth_header, runs, restarts, readFailed>>

\* The node runs a request with good credentials.
Run(r) ==
    /\ up /\ ~r.ran /\ r.header = cookie
    /\ wire' = (wire \ {r}) \cup {[r EXCEPT !.ran = TRUE]}
    /\ runs' = [runs EXCEPT ![r.call] = @ + 1]
    /\ UNCHANGED <<up, cookie, auth_header, call, restarts, readFailed>>

\* Who still waits for the answer of request r.
Waits(r) == call[r.call].pc = "waiting" /\ call[r.call].attempt = r.attempt

Fail(r, error) ==
    IF Waits(r) THEN Set(r.call, [call[r.call] EXCEPT !.pc = "failed", !.error = error]) ELSE UNCHANGED call

\* The answer of a request that ran: a result, a node error, or a body that breaks off.
Answer(r) ==
    /\ up /\ r.ran
    /\ \/ IF Waits(r) THEN Set(r.call, [call[r.call] EXCEPT !.pc = "ok"]) ELSE UNCHANGED call
       \/ \E error \in {"Rpc", "Protocol", "Http", "Unavailable", "Transport"} : Fail(r, error)
    /\ wire' = wire \ {r}
    /\ UNCHANGED <<up, cookie, auth_header, runs, restarts, readFailed>>

\* A refusal: bad credentials give a status or a closed connection, and a node in warm-up or
\* behind a busy proxy refuses a good request.
Refuse(r) ==
    /\ up /\ ~r.ran
    /\ \E error \in IF r.header = cookie THEN {"InWarmup", "Unavailable"}
                    ELSE {"Unauthorized", "ConnectionClosed"} : Fail(r, error)
    /\ wire' = wire \ {r}
    /\ UNCHANGED <<up, cookie, auth_header, runs, restarts, readFailed>>

\* The time of the method is over. The node may still run the request.
Timeout(c) ==
    /\ call[c].pc = "waiting"
    /\ Set(c, [call[c] EXCEPT !.pc = "failed", !.error = "Timeout"])
    /\ UNCHANGED <<up, cookie, auth_header, wire, runs, restarts, readFailed>>

-----------------------------------------------------------------------------
(* RpcClient::attempts: what a failed attempt leads to.                     *)

\* A rejected or dropped request with cookie auth: read the file again, once for each call.
ReadsCookie(c) ==
    ~call[c].reloaded /\ IsCookie /\ call[c].error \in {"Unauthorized", "ConnectionClosed"}

\* Auth::header reads the file. The read can fail.
ReadCookie(c) ==
    /\ call[c].pc = "failed" /\ ReadsCookie(c)
    /\ \/ /\ Set(c, [call[c] EXCEPT !.pc = "reloading", !.reloaded = TRUE, !.fresh = cookie])
          /\ UNCHANGED readFailed
       \/ /\ Set(c, [call[c] EXCEPT !.pc = "decide", !.reloaded = TRUE])
          /\ readFailed' = TRUE
    /\ UNCHANGED <<up, cookie, auth_header, wire, runs, restarts>>

\* A mutant: the call goes on with the old header.
ReloadCookieUnset(c) ==
    /\ call[c].pc = "reloading"
    /\ Set(c, [call[c] EXCEPT !.pc = IF auth_header = call[c].fresh THEN "decide" ELSE "send"])
    /\ UNCHANGED <<up, cookie, auth_header, wire, runs, restarts, readFailed>>

\* reload_cookie, with the lock: a header that changed sends the call again at once.
ReloadCookie(c) ==
    /\ call[c].pc = "reloading"
    /\ auth_header' = call[c].fresh
    /\ Set(c, [call[c] EXCEPT !.pc = IF auth_header = call[c].fresh THEN "decide" ELSE "send"])
    /\ UNCHANGED <<up, cookie, wire, runs, restarts, readFailed>>

\* A mutant: each call repeats each failure that may go away.
RetriesAll(c) == IsRetryable(call[c].error)

Retry(c) ==
    IF c \in UnsentCalls THEN IsUnsent(call[c].error) ELSE IsRetryable(call[c].error)

\* A mutant: the count of the retries is off by one.
HasRetryLate(c) == call[c].retry_count <= max_retries

HasRetry(c) == call[c].retry_count < max_retries

\* Wait for the backoff and send again, or give the error.
Decide(c) ==
    /\ call[c].pc = "decide" \/ (call[c].pc = "failed" /\ ~ReadsCookie(c))
    /\ Set(c, IF Retry(c) /\ HasRetry(c)
              THEN [call[c] EXCEPT !.pc = "send", !.retry_count = @ + 1]
              ELSE [call[c] EXCEPT !.pc = "err"])
    /\ UNCHANGED <<up, cookie, auth_header, wire, runs, restarts, readFailed>>

-----------------------------------------------------------------------------
(* The node.  It closes its connections when it stops: the calls that wait  *)
(* get no response.  It writes a new cookie before it listens; a password   *)
(* stays the same.                                                          *)

NodeStops ==
    /\ up /\ restarts < MaxRestarts
    /\ up' = FALSE /\ wire' = {}
    /\ call' = [c \in Calls |->
                  IF \E r \in wire : r.call = c /\ Waits(r)
                  THEN [call[c] EXCEPT !.pc = "failed", !.error = "ConnectionClosed"]
                  ELSE call[c]]
    /\ UNCHANGED <<cookie, auth_header, runs, restarts, readFailed>>

NodeStarts ==
    /\ ~up
    /\ up' = TRUE /\ restarts' = restarts + 1
    /\ cookie' = IF IsCookie THEN cookie + 1 ELSE cookie
    /\ UNCHANGED <<auth_header, call, wire, runs, readFailed>>

Client == \E c \in Calls : Send(c) \/ ReadCookie(c) \/ ReloadCookie(c) \/ Decide(c)
Node == \E r \in wire : Run(r) \/ Answer(r) \/ Refuse(r)

Next == Client \/ Node \/ (\E c \in Calls : Timeout(c)) \/ NodeStops \/ NodeStarts

(* Fairness: the runtime polls each call, and its timer fires.  Nothing is  *)
(* asked of the node.                                                       *)
Fairness ==
    \A c \in Calls :
        WF_vars(Send(c) \/ ReadCookie(c) \/ ReloadCookie(c) \/ Decide(c)) /\ WF_vars(Timeout(c))

Spec == Init /\ [][Next]_vars
FairSpec == Spec /\ Fairness

-----------------------------------------------------------------------------
Done(c) == call[c].pc \in {"ok", "err"}

(* A call that must not run twice on the node runs there at most once,      *)
(* whatever is lost, times out or runs late: `Retries::Unsent` repeats only *)
(* what the node did not get.                                               *)
UnsentRunsOnce == \A c \in UnsentCalls : runs[c] <= 1

(* A call makes one attempt, one for each retry of the policy, and with the *)
(* cookie one more: restarts of the node and rejections give no more.       *)
AttemptsAreBounded ==
    \A c \in Calls : call[c].attempt <= max_retries + (IF IsCookie THEN 2 ELSE 1)

Rejected(c) == call[c].pc = "err" /\ call[c].error = "Unauthorized"

(* A call that begins after the last restart of the node does not fail for  *)
(* its credentials: it is rejected with the old cookie, reads the file      *)
(* again, and is sent again with the new one.                               *)
CallAfterRestartHasTheCookie ==
    \A c \in Calls : Rejected(c) /\ call[c].begun = cookie => readFailed

(* One restart of the node, which changes the cookie, makes no call fail    *)
(* for its credentials, also not a call in work during the restart: a       *)
(* rejected call reads the file again.  It does not hold: a closed          *)
(* connection uses up the one read of the call before the file is new.      *)
RestartNeedsNoNewClient ==
    \A c \in Calls : Rejected(c) => readFailed \/ restarts > 1

(* A call always ends, also when the node stops, hangs or refuses it.       *)
CallsEnd == \A c \in Calls : <>[]Done(c)
=============================================================================
