---------------------------- MODULE BrokerSession ----------------------------
(***************************************************************************)
(* The broker session and the app token it authenticates with: the token   *)
(* client's GetAccessToken / retryWithBackoff / getAppToken (dstsclient),  *)
(* and the broker adapter's callbacks, reconnect under connMutex and       *)
(* publishers waiting for a connection (mqtt/init.go, callbacks.go,        *)
(* send_task.go).                                                          *)
(*                                                                         *)
(* Tokens are numbered in the order the DSTS issues them; an older token   *)
(* expires first.  The broker accepts a connection whose username carries  *)
(* a token that has not expired.  A connection manager (autopaho) keeps    *)
(* the username it was created with and retries connecting on its own      *)
(* goroutine, which is also the goroutine that runs its callbacks; so the  *)
(* manager makes no attempt while a callback of it is running.             *)
(*                                                                         *)
(* The state starts after mqtt.Init succeeded: a first token was fetched   *)
(* and the first manager created with it.  If Init fails the process exits *)
(* before any of this runs.                                                *)
(***************************************************************************)
EXTENDS Naturals, FiniteSets, FiniteSetsExt

CONSTANTS
    Publishers,    \* dispatch workers calling SendTaskToBroker
    MaxAttempts,   \* dstsOperationRetryCount
    MaxTokens,     \* bound on the tokens the DSTS issues in one behaviour
    MaxFailures    \* bound on transient DSTS and broker failures

ASSUME MaxAttempts >= 1 /\ MaxTokens >= 1

VARIABLES
    appToken,      \* gAppToken: the number of the token held, 0 for ""
    tokenExpired,  \* IsAppTokenExpired(): now is after gAppTokenExpiresAt
    issued,        \* the number of the last token the DSTS issued
    valid,         \* the tokens that have not expired yet
    username,      \* the token in clientConfig's username
    mgrUser,       \* the token the current connection manager connects with
    conn,          \* the current manager: "connecting" or "up"
    cb,            \* the manager's callback: "idle", "token" (in
                   \* updateMqttUsername) or "lock" (in reconnect, waiting
                   \* for connMutex)
    attempt,       \* the retry loop's index i in retryWithBackoff
    readers,       \* publishers holding connMutex.RLock
    ppc,           \* publisher: "idle" or "await" (in AwaitConnection)
    crashed,       \* the process panicked after every retry failed
    failures

vars == <<appToken, tokenExpired, issued, valid, username, mgrUser, conn, cb,
          attempt, readers, ppc, crashed, failures>>

Fail == failures < MaxFailures /\ failures' = failures + 1

Init ==
    /\ appToken = 1 /\ tokenExpired = FALSE
    /\ issued = 1 /\ valid = {1}
    /\ username = 1 /\ mgrUser = 1
    /\ conn = "connecting" /\ cb = "idle" /\ attempt = 0
    /\ readers = {} /\ ppc = [p \in Publishers |-> "idle"]
    /\ crashed = FALSE /\ failures = 0

(***************************************************************************)
(* The environment: the broker stops accepting the oldest unexpired token  *)
(* (it judges the token's exp claim by its own clock).  The process judges *)
(* it by gAppTokenExpiresAt and its own clock, which may lag: then         *)
(* IsAppTokenExpired() is still false for a token the broker refuses,      *)
(* until ClientClockPasses.  A refresh must stay possible, so expiry stops *)
(* before the token bound is reached.                                      *)
(***************************************************************************)
ExpireToken ==
    /\ valid # {} /\ issued < MaxTokens
    /\ valid' = valid \ {Min(valid)}
    /\ tokenExpired' \in {tokenExpired, tokenExpired \/ Min(valid) = appToken}
    /\ UNCHANGED <<appToken, issued, username, mgrUser, conn, cb, attempt,
                   readers, ppc, crashed, failures>>

ClientClockPasses ==
    /\ appToken \notin valid /\ ~tokenExpired
    /\ tokenExpired' = TRUE
    /\ UNCHANGED <<appToken, issued, valid, username, mgrUser, conn, cb, attempt,
                   readers, ppc, crashed, failures>>

(***************************************************************************)
(* updateMqttUsername -> GetAccessToken, while the token has expired: one  *)
(* attempt of retryWithBackoff(getAppToken).  An attempt either gets a new *)
(* token, or fails with an RPC error (the loop goes on; after the last     *)
(* attempt the callback calls Shutdown and panics), or gets a response     *)
(* with a non-OK status, where getAppToken returns the nil err: the loop   *)
(* stops as if it had succeeded and GetAccessToken returns the old token.  *)
(***************************************************************************)
TokenStillValid ==
    /\ cb = "token" /\ ~tokenExpired /\ ~crashed
    /\ username' = appToken /\ cb' = "lock"
    /\ UNCHANGED <<appToken, tokenExpired, issued, valid, mgrUser, conn,
                   attempt, readers, ppc, crashed, failures>>

AttemptSucceeds ==
    /\ cb = "token" /\ tokenExpired /\ ~crashed
    /\ issued < MaxTokens
    /\ issued' = issued + 1
    /\ valid' = valid \cup {issued + 1}
    /\ appToken' = issued + 1 /\ tokenExpired' = FALSE
    /\ username' = issued + 1 /\ cb' = "lock" /\ attempt' = 0
    /\ UNCHANGED <<mgrUser, conn, readers, ppc, crashed, failures>>

AttemptNotOK ==
    /\ cb = "token" /\ tokenExpired /\ ~crashed
    /\ Fail
    /\ username' = appToken /\ cb' = "lock" /\ attempt' = 0
    /\ UNCHANGED <<appToken, tokenExpired, issued, valid, mgrUser, conn,
                   readers, ppc, crashed>>

\* The loop's bound: i < dstsOperationRetryCount.
LastAttemptPastBound(i) == i = MaxAttempts
LastAttempt(i) == i + 1 = MaxAttempts

AttemptFails ==
    /\ cb = "token" /\ tokenExpired /\ ~crashed
    /\ Fail
    /\ IF LastAttempt(attempt)
       THEN crashed' = TRUE /\ attempt' = attempt
       ELSE attempt' = attempt + 1 /\ UNCHANGED crashed
    /\ UNCHANGED <<appToken, tokenExpired, issued, valid, username, mgrUser,
                   conn, cb, readers, ppc>>

(***************************************************************************)
(* reconnect: take connMutex for writing (Go's RWMutex lets no new reader  *)
(* in while a writer waits), disconnect the manager and create a new one   *)
(* with clientConfig's current username; the callback then returns.        *)
(* Disconnect, called from the old manager's own callback, gives up after  *)
(* its timeout; either way the old manager makes no further attempt.       *)
(***************************************************************************)
Reconnect ==
    /\ cb = "lock" /\ readers = {} /\ ~crashed
    /\ mgrUser' = username /\ conn' = "connecting" /\ cb' = "idle"
    /\ UNCHANGED <<appToken, tokenExpired, issued, valid, username, attempt,
                   readers, ppc, crashed, failures>>

(***************************************************************************)
(* connectionErrorCallback: refresh the token first only if it has         *)
(* expired, then reconnect.                                                *)
(***************************************************************************)
ConnErrorNextNoRefresh(expired) == "lock"
ConnErrorNext(expired) == IF expired THEN "token" ELSE "lock"

\* The manager's connection attempt: the broker accepts an unexpired token
\* (connectionUpCallback then subscribes); it rejects an expired one, and
\* any attempt may fail on the network.  A failure runs the callback.
ManagerConnect ==
    /\ conn = "connecting" /\ cb = "idle" /\ ~crashed
    /\ \/ mgrUser \in valid /\ conn' = "up" /\ UNCHANGED <<cb, failures>>
       \/ /\ mgrUser \notin valid
          /\ cb' = ConnErrorNext(tokenExpired) /\ UNCHANGED <<conn, failures>>
       \/ /\ mgrUser \in valid /\ Fail
          /\ cb' = ConnErrorNext(tokenExpired) /\ UNCHANGED conn
    /\ UNCHANGED <<appToken, tokenExpired, issued, valid, username, mgrUser,
                   attempt, readers, ppc, crashed>>

\* serverDisconnectCallback with reason 135: the broker drops a session
\* whose token expired; the callback calls updateMqttUsername whatever
\* the token's state, then reconnect.
ServerDisconnect ==
    /\ conn = "up" /\ mgrUser \notin valid /\ cb = "idle" /\ ~crashed
    /\ conn' = "connecting" /\ cb' = "token"
    /\ UNCHANGED <<appToken, tokenExpired, issued, valid, username, mgrUser,
                   attempt, readers, ppc, crashed, failures>>

(***************************************************************************)
(* SendTaskToBroker: RLock, AwaitConnection bounded by                     *)
(* mqttConnectionTimeout, publish if connected, RUnlock.                   *)
(***************************************************************************)
PublishStart(p) ==
    /\ ppc[p] = "idle" /\ cb # "lock" /\ ~crashed
    /\ readers' = readers \cup {p} /\ ppc' = [ppc EXCEPT ![p] = "await"]
    /\ UNCHANGED <<appToken, tokenExpired, issued, valid, username, mgrUser,
                   conn, cb, attempt, crashed, failures>>

AwaitConnection(p) == TRUE

\* AwaitConnection returns when the connection is up or its context times
\* out; either way the read lock is released.
PublishEnd(p) ==
    /\ ppc[p] = "await" /\ ~crashed
    /\ conn = "up" \/ AwaitConnection(p)
    /\ readers' = readers \ {p} /\ ppc' = [ppc EXCEPT ![p] = "idle"]
    /\ UNCHANGED <<appToken, tokenExpired, issued, valid, username, mgrUser,
                   conn, cb, attempt, crashed, failures>>

CallbackStep ==
    \/ TokenStillValid \/ AttemptSucceeds \/ AttemptNotOK \/ AttemptFails
    \/ Reconnect

Next ==
    \/ ExpireToken \/ ClientClockPasses
    \/ CallbackStep
    \/ ManagerConnect
    \/ ServerDisconnect
    \/ \E p \in Publishers : PublishStart(p) \/ PublishEnd(p)

\* The manager goroutine retries and runs its callbacks to completion, and
\* a publisher's wait ends at its timeout; the process clock keeps
\* running; expiry and new publishes come from outside.
Spec ==
    /\ Init /\ [][Next]_vars
    /\ WF_vars(CallbackStep) /\ WF_vars(ManagerConnect)
    /\ WF_vars(ServerDisconnect) /\ WF_vars(ClientClockPasses)
    /\ \A p \in Publishers : WF_vars(PublishEnd(p))

-----------------------------------------------------------------------------
TypeOK ==
    /\ appToken \in 0..MaxTokens /\ tokenExpired \in BOOLEAN
    /\ issued \in 1..MaxTokens /\ valid \subseteq 1..issued
    /\ username \in 0..MaxTokens /\ mgrUser \in 0..MaxTokens
    /\ conn \in {"connecting", "up"} /\ cb \in {"idle", "token", "lock"}
    /\ attempt \in 0..(MaxAttempts - 1)
    /\ readers \subseteq Publishers
    /\ ppc \in [Publishers -> {"idle", "await"}]
    /\ crashed \in BOOLEAN /\ failures \in 0..MaxFailures

\* Spec 4.6: after a connection error or a not-authorized disconnect the
\* adapter refreshes the credential and forces a fresh connection, so a
\* session that is down comes back up, unless every retry to the identity
\* service failed and the process terminated.  This depends on
\* connectionErrorCallback refreshing an expired token, and on the manager
\* being free to retry once reconnect has replaced it.
SessionRecovers == conn = "connecting" ~> (conn = "up" \/ crashed)

=============================================================================
