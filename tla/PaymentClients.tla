--------------------------- MODULE PaymentClients ---------------------------
(***************************************************************************)
(* The clients of the repository over one facilitator.  The gateway and    *)
(* the harness never share a payment, so a behaviour has one of the two.   *)
(***************************************************************************)
EXTENDS DemoGateway, AgentHarness

VARIABLE client

vars == <<zpayVars, gatewayVars, run, client>>

Init ==
    /\ FacilitatorInit
    /\ GatewayInit
    /\ HarnessInit
    /\ client \in {"demo", "harness"}
    /\ client = "demo" => run.flow = "run" /\ run.completion = "mined"

Zpay == ((\E a \in Txs : CallStep(a)) \/ ChainStep) /\ UNCHANGED <<gatewayVars, run>>

Next ==
    /\ \/ Zpay
       \/ client = "demo" /\ GatewayNext /\ UNCHANGED run
       \/ client = "harness" /\ HarnessNext /\ UNCHANGED gatewayVars
    /\ UNCHANGED client

(* The handlers of zpay and of the clients run on; confirmations keep       *)
(* arriving and the settled tip keeps moving; a stream ticks for as long as *)
(* it is open.  Nothing forces a fault or a request of the browser.         *)
Progress ==
    /\ \A a \in Txs : WF_vars(CallStep(a) /\ UNCHANGED <<gatewayVars, run, client>>)
    /\ \A a \in Attempts :
          WF_vars(/\ client = "demo" /\ attempts[a].pc # "idle" /\ AttemptStep(a)
                  /\ UNCHANGED <<run, client>>)
    /\ \A p \in Payments : WF_vars(Confirm(p) /\ UNCHANGED <<gatewayVars, run, client>>)
    /\ WF_vars(AdvanceSettled /\ UNCHANGED <<gatewayVars, run, client>>)
    /\ \A s \in Streams :
          WF_vars(client = "demo" /\ StreamStep(s) /\ UNCHANGED <<run, client>>)

Spec == Init /\ [][Next]_vars /\ Progress

-----------------------------------------------------------------------------
(* Type correctness of the facilitator, the gateway and the harness. *)
TypeOK ==
    /\ prepared \subseteq Payments
    /\ ledger \in [DOMAIN ledger -> Row] /\ DOMAIN ledger \subseteq Payments
    /\ taken \subseteq Payments \X Txs /\ irreversible \subseteq taken
    /\ calls \in [Txs -> [pc : CallPcs, payment : Payments \cup {NoTx},
                          route : {"x402", "lifecycle"}, kind : Kinds]]
    /\ faults \in 0 .. MaxFaults
    /\ TypeOKGateway
    /\ run \in [pc : RunSteps, flow : Flows, completion : Completions,
                payment : Payments \cup {NoTx}, exit : Exits]

(* The browser learns how a payment ends: a stream that is open on a payment *)
(* the gateway has recorded as settled ends, unless a settle request for it  *)
(* failed (its override hides the status for good), zpay lost the row, or    *)
(* the gateway restarted.                                                    *)
Undisturbed(p) ==
    /\ p \in DOMAIN stored /\ stored[p].tx # NoTx
    /\ p \in DOMAIN ledger /\ ledger[p].tx = stored[p].tx
    /\ ~Ended(p, "failed")

StreamsEnd ==
    \A s \in Streams, p \in Payments :
        (streams[s].pc # "none" /\ streams[s].payment = p /\ Undisturbed(p))
            ~> (streams[s].pc \in {"closed", "none"} \/ ~Undisturbed(p))
=============================================================================
