--------------------------- MODULE DeviceMessages ---------------------------
(***************************************************************************)
(* Device and app tokens checked against the DSTS signing keys, and the    *)
(* device-to-service messages forwarded once their token is valid.         *)
(* getSigningKey (dstsclient/jwks.go) looks the token's kid up in the      *)
(* package-level signingKeyTable; on a miss getJWKSSigningKey              *)
(* (get_jwk.go) fetches the JWKS, replaces the table by a new empty map    *)
(* and inserts the keys one by one, and the kid is looked up again.        *)
(* Nothing locks the table.                                                *)
(*                                                                         *)
(* Validators are the goroutines that run that code: the MQTT router, on a *)
(* device-to-service message the broker delivers (handleDeviceToService-   *)
(* Message, scheduler/device_message.go), and REST handlers checking an    *)
(* app token (rest/validate_token.go) when REST authentication is on.      *)
(* The connection that delivers the messages is BrokerSession's; here a    *)
(* message may arrive whenever the router is free.  The DSTS rotates its   *)
(* keys on its own.                                                        *)
(*                                                                         *)
(* A read or write of the map while another goroutine inserts into it is a *)
(* data race: the access completes on the map as it is, or the Go runtime  *)
(* aborts the process ("concurrent map read and map write").               *)
(***************************************************************************)
EXTENDS Naturals

CONSTANTS
    Kids,          \* key IDs the DSTS may sign with
    Validators,    \* goroutines that validate tokens
    Router,        \* the MQTT router's goroutine, one of Validators
    MaxFailures    \* bound on DSTS, parse and SQS failures

ASSUME Router \in Validators

VARIABLES
    published,     \* the keys the DSTS JWKS endpoint returns now
    everPub,       \* every key the DSTS has published (tokens may carry any)
    table,         \* the kids in signingKeyTable
    call,          \* each validator's call in progress and its locals
    crashed,       \* the process was aborted
    failures

vars == <<published, everPub, table, call, crashed, failures>>

Fail == failures < MaxFailures /\ failures' = failures + 1

(***************************************************************************)
(* A call: where it is ("idle", "lookup", "fetch", "fill", "relookup",     *)
(* "forward" or "dcm"), the kid in the token's header, the kids of its own *)
(* successful JWKS response and those not inserted yet, and for the router *)
(* whether the message is a CFG.E event and has a service queue topic.     *)
(* The locals die with the call.                                           *)
(***************************************************************************)
IdleCall == [pc |-> "idle", kid |-> "none", resp |-> {}, pending |-> {},
             cfg |-> FALSE, routed |-> FALSE]

\* The call of g moves to pc.
Goto(g, pc) ==
    call' = [call EXCEPT ![g] = IF pc = "idle" THEN IdleCall ELSE [@ EXCEPT !.pc = pc]]

Init ==
    /\ \E k \in Kids : published = {k} /\ everPub = {k}
    /\ table = {}
    /\ call = [g \in Validators |-> IdleCall]
    /\ crashed = FALSE /\ failures = 0

-----------------------------------------------------------------------------
(* The DSTS: a new key is published, an old one withdrawn.                 *)

PublishKey(k) ==
    /\ k \notin everPub
    /\ published' = published \cup {k} /\ everPub' = everPub \cup {k}
    /\ UNCHANGED <<crashed, failures, table, call>>

RetireKey(k) ==
    /\ k \in published /\ published # {k}
    /\ published' = published \ {k}
    /\ UNCHANGED <<crashed, failures, everPub, table, call>>

-----------------------------------------------------------------------------
(* Entry points                                                            *)

\* DeviceToServiceMessageHandler: the router gets a message whose envelope
\* decodes; handleDeviceToServiceMessage calls
\* ValidateDeviceAccessToken.
ReceiveDeviceMessage ==
    /\ call[Router].pc = "idle" /\ ~crashed
    /\ \E k \in everPub, c \in BOOLEAN, r \in BOOLEAN :
          call' = [call EXCEPT ![Router] =
                     [IdleCall EXCEPT !.pc = "lookup", !.kid = k, !.cfg = c,
                                      !.routed = r]]
    /\ UNCHANGED <<crashed, failures, published, everPub, table>>

\* isValidAppAccessToken: a REST request's bearer token is validated.
ValidateAppToken(g) ==
    /\ g # Router /\ call[g].pc = "idle" /\ ~crashed
    /\ \E k \in everPub :
          call' = [call EXCEPT ![g] = [IdleCall EXCEPT !.pc = "lookup", !.kid = k]]
    /\ UNCHANGED <<crashed, failures, published, everPub, table>>

-----------------------------------------------------------------------------
(* getSigningKey and getJWKSSigningKey                                     *)

\* Where a validated token goes: the router forwards the message, a REST
\* handler goes on to serve the request.
AfterAccept(g) == IF g = Router THEN "forward" ELSE "idle"

\* The first lookup: a hit returns the key, a miss refetches.
LookupKey(g) ==
    /\ call[g].pc = "lookup" /\ ~crashed
    /\ Goto(g, IF call[g].kid \in table THEN AfterAccept(g) ELSE "fetch")
    /\ UNCHANGED <<crashed, failures, published, everPub, table>>

\* GetSigningKey: an RPC error is returned; a non-OK status returns the nil
\* err with the table untouched; an OK response replaces the table by an
\* empty map sized for the response's keys.
FetchSigningKeys(g) ==
    /\ call[g].pc = "fetch" /\ ~crashed
    /\ \/ Fail /\ Goto(g, "idle") /\ UNCHANGED table
       \/ Fail /\ Goto(g, "relookup") /\ UNCHANGED table
       \/ /\ table' = {}
          /\ call' = [call EXCEPT ![g].pc = "fill", ![g].resp = published,
                                  ![g].pending = published]
          /\ UNCHANGED failures
    /\ UNCHANGED <<crashed, published, everPub>>

\* k is the response's last key: the loop ends after inserting it.
LastKey(g, k) == call[g].pending = {k}

\* One iteration of the loop over response.SigningKey: the key is parsed
\* and stored in signingKeyTable, the package variable, which by now may
\* be another goroutine's new map.  A parse error returns it, the table
\* left partly filled.
InsertKey(g) ==
    /\ call[g].pc = "fill" /\ ~crashed
    /\ \E k \in call[g].pending :
          \/ /\ table' = table \cup {k}
             /\ call' = [call EXCEPT ![g].pending = @ \ {k},
                                     ![g].pc = IF LastKey(g, k)
                                               THEN "relookup" ELSE "fill"]
             /\ UNCHANGED failures
          \/ Fail /\ Goto(g, "idle") /\ UNCHANGED table
    /\ UNCHANGED <<crashed, published, everPub>>

\* The second lookup, after getJWKSSigningKey returned nil; a miss fails
\* with "no public key to validate kid".
Relookup(g) ==
    /\ call[g].pc = "relookup" /\ ~crashed
    /\ Goto(g, IF call[g].kid \in table THEN AfterAccept(g) ELSE "idle")
    /\ UNCHANGED <<crashed, failures, published, everPub, table>>

\* The race on signingKeyTable: this goroutine reads or writes the map
\* while another inserts into it, and the runtime aborts the process.
MapAccessRace(g) ==
    /\ call[g].pc \in {"lookup", "fill", "relookup"} /\ ~crashed
    /\ \E h \in Validators \ {g} : call[h].pc = "fill"
    /\ crashed' = TRUE
    /\ UNCHANGED <<published, everPub, table, call, failures>>

-----------------------------------------------------------------------------
(* handleDeviceToServiceMessage after the token                            *)

\* The queue topic is looked up by the token's service claim; the
\* DeviceEvent is sent to it; a CFG.E event then goes to the DCM too.  An
\* error is returned to the router, which logs it; the message is not
\* delivered again.
ForwardToService ==
    /\ call[Router].pc = "forward" /\ ~crashed
    /\ \/ ~call[Router].routed /\ Goto(Router, "idle") /\ UNCHANGED failures
       \/ call[Router].routed /\ Fail /\ Goto(Router, "idle")
       \/ /\ call[Router].routed /\ UNCHANGED failures
          /\ Goto(Router, IF call[Router].cfg THEN "dcm" ELSE "idle")
    /\ UNCHANGED <<crashed, published, everPub, table>>

\* sendConfigEventMessageToDcm: the send succeeds or its error is returned.
SendConfigEventToDcm ==
    /\ call[Router].pc = "dcm" /\ ~crashed
    /\ Goto(Router, "idle")
    /\ \/ UNCHANGED failures
       \/ Fail
    /\ UNCHANGED <<crashed, published, everPub, table>>

ValidatorStep(g) ==
    \/ LookupKey(g) \/ FetchSigningKeys(g) \/ InsertKey(g) \/ Relookup(g)
    \/ MapAccessRace(g)

RouterStep == ForwardToService \/ SendConfigEventToDcm

Next ==
    \/ \E k \in Kids : PublishKey(k) \/ RetireKey(k)
    \/ ReceiveDeviceMessage
    \/ \E g \in Validators : ValidateAppToken(g) \/ ValidatorStep(g)
    \/ RouterStep

\* Every validating goroutine runs on: the JWKS fetch is bounded by
\* dstsRequestTimeout and the SQS sends by the SDK's timeouts.  Messages,
\* requests and key rotation come from outside.
Spec ==
    /\ Init /\ [][Next]_vars
    /\ \A g \in Validators : WF_vars(ValidatorStep(g))
    /\ WF_vars(RouterStep)

-----------------------------------------------------------------------------
TypeOK ==
    /\ crashed \in BOOLEAN /\ failures \in 0..MaxFailures
    /\ published \subseteq everPub /\ published # {} /\ everPub \subseteq Kids
    /\ table \subseteq everPub
    /\ \A g \in Validators :
          /\ call[g].pc \in {"idle", "lookup", "fetch", "fill", "relookup",
                              "forward", "dcm"}
          /\ call[g].kid \in everPub \cup {"none"}
          /\ call[g].pending \subseteq call[g].resp /\ call[g].resp \subseteq everPub
          /\ call[g].pc = "fill" => call[g].pending # {}
          /\ call[g].cfg \in BOOLEAN /\ call[g].routed \in BOOLEAN

\* Spec 4.7: on a miss the JWKS is refetched, so a token whose kid the
\* refetch returned is verified: getSigningKey's second lookup finds the
\* kid its own getJWKSSigningKey call inserted.  The code assumes the table
\* it just filled is the table it reads; another validator's refetch may
\* have replaced signingKeyTable by a new empty map in between.
KeyFoundAfterOwnRefetch ==
    \A g \in Validators :
        call[g].pc = "relookup" /\ call[g].kid \in call[g].resp
            => call[g].kid \in table

=============================================================================
