-------------------------- MODULE MCRequestHandler ---------------------------
(***************************************************************************)
(* Requests for checking RequestHandler, on the queue or posted.  The     *)
(* schedule inputs are MCScheduleGrammar's; every one of them is sent to  *)
(* one device.  The device lists, tenants and the invalid requests are    *)
(* sent with "now".                                                        *)
(***************************************************************************)
EXTENDS RequestHandler, MCScheduleGrammar

CONSTANTS r1, r2, rest, d1, d2, all, bcastUuid, tenantA, badTenant, svc1, svcX

MCReplicas == {r1, r2}

Request(w, l, tn) ==
    [authorized |-> TRUE, decodes |-> TRUE, svc |-> svc1, cons |-> TRUE, devices |-> l,
     tenant |-> tn, payload |-> TRUE, schedule |-> w]

Now == <<Kw("now")>>

\* No devices, "@all" alone, first and second, two devices, and the
\* reserved UUID spelled out, alone and after a device.
MCDeviceLists ==
    {<<>>, <<all>>, <<all, d1>>, <<d1, all>>, <<d1, d2>>,
     <<bcastUuid>>, <<d1, bcastUuid>>}

\* A POST without a valid app token, a message that does not decode, an
\* unregistered service, no consignment ID and a nil payload.
MCInvalid ==
    {[Request(Now, <<d1>>, tenantA) EXCEPT !.authorized = FALSE],
     [Request(Now, <<d1>>, tenantA) EXCEPT !.decodes = FALSE],
     [Request(Now, <<d1>>, tenantA) EXCEPT !.svc = svcX],
     [Request(Now, <<d1>>, tenantA) EXCEPT !.cons = FALSE],
     [Request(Now, <<d1>>, tenantA) EXCEPT !.payload = FALSE]}

MCRequests ==
    {Request(w, <<d1>>, tenantA) : w \in Inputs}
    \cup {Request(Now, l, tn) : l \in MCDeviceLists, tn \in {tenantA, badTenant}}
    \cup MCInvalid

=============================================================================
