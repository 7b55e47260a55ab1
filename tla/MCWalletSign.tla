----------------------------- MODULE MCWalletSign -----------------------------
(* One honest request, and every request that is off in one place: its      *)
(* headers, token, proof, number of authorizations, authorization or body;  *)
(* authorization and body are also off together.                            *)
EXTENDS WalletSign

Auth(reference, recipient, amount, expires, hashed) ==
    PaymentAuthorization("zcash", reference, recipient, amount, "pay", expires,
                         <<"zcash", reference, hashed, amount, "pay", expires.value>>)

Height(h) == [kind |-> "block_height", value |-> h]
To(recipient, amount) == [recipient |-> recipient, amount |-> amount]

HonestAuth == Auth("test", "alice", 2, Height(7), "alice")
Auths == {HonestAuth, Auth("test", "alice", 3, Height(7), "alice"),
          Auth("main", "alice", 2, Height(7), "alice"),
          Auth("test", "alice", 2, [kind |-> "slot", value |-> 7], "alice"),
          Auth("test", "alice", 2, Height(7), "bob")}

HonestBody == SignPaymentRequest("testnet", <<To("alice", 2)>>, "pay", 7, "zip321")
Bodies == {HonestBody,
           [HonestBody EXCEPT !.network = "mainnet"], [HonestBody EXCEPT !.payment = "other"],
           [HonestBody EXCEPT !.expiry = 8], [HonestBody EXCEPT !.scheme = "bip21"],
           [HonestBody EXCEPT !.uri = <<>>], [HonestBody EXCEPT !.uri = <<To("bob", 2)>>],
           [HonestBody EXCEPT !.uri = <<To("alice", 1)>>],
           [HonestBody EXCEPT !.uri = <<To("alice", 3)>>],
           [HonestBody EXCEPT !.uri = <<To("bob", 2), To("alice", 2)>>]}

Honest == [headers |-> "ok", token |-> "ok", proofFault |-> "none", entries |-> 1,
           auth |-> HonestAuth, body |-> HonestBody]

SmallerIntent == [Honest EXCEPT !.auth = Auth("test", "alice", 1, Height(7), "alice"),
                                !.body = [HonestBody EXCEPT !.uri = <<To("alice", 1)>>]]

MCInputs(r) ==
    IF r = "second" THEN {Honest, SmallerIntent}
    ELSE {[Honest EXCEPT !.auth = a, !.body = b] : a \in Auths, b \in Bodies}
         \cup {[Honest EXCEPT !.headers = h] : h \in {"no_authorization", "no_proof"}}
         \cup {[Honest EXCEPT !.token = t] :
                  t \in {"malformed", "no_kid", "unknown_kid", "unsupported_key",
                         "alg_confusion", "bad_signature", "expired", "other_audience"}}
         \cup {[Honest EXCEPT !.proofFault = f] :
                  f \in {"typ", "alg", "key", "signature", "htm", "htu", "skew", "ath"}}
         \cup {[Honest EXCEPT !.entries = n] : n \in {0, 2}}

Snap(network, phase, age, known, lag) ==
    [network |-> network, phase |-> phase, age |-> age, known |-> known, lag |-> lag]

(* Fresh with the age and the lag at their limits; one block too far behind; not    *)
(* yet scanned; in recovery.                                                        *)
MCSnapshots == {Snap("test", "syncing", 1, TRUE, 1), Snap("test", "waiting", 0, TRUE, 2),
                Snap("test", "waiting", 0, FALSE, 0), Snap("test", "recovering", 0, TRUE, 0)}
=============================================================================
