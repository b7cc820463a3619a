------------------------------ MODULE Intents ------------------------------
(***************************************************************************)
(* Signed capital intents: what is signed and what the verifiers accept.   *)
(* Constant-level operators translated from                                *)
(* src/src/model_routing/intents.py and .../lifecycle.py; every            *)
(* module with a verifier in it extends this one.                          *)
(*                                                                         *)
(* A JSON object is a record, and a key the object lacks is absent from    *)
(* the record's DOMAIN.  An Ed25519 signature is ideal: the pair of the    *)
(* signing key and the payload it was made over.                           *)
(***************************************************************************)
EXTENDS Naturals

CONSTANTS GatekeeperKey,   \* the key pair of the gatekeeper host
          NoKey,           \* the public key file cannot be read or parsed
          NoNonce          \* the empty nonce ""

ASSUME IntentsAssumption == NoKey # GatekeeperKey

SIGNATURE_ALG == "ed25519"

\* dict.get
Get(dict, key, default) == IF key \in DOMAIN dict THEN dict[key] ELSE default

sign_intent(payload, key) ==
    [payload       |-> payload,
     signature     |-> <<key, payload>>,
     signature_alg |-> SIGNATURE_ALG]

\* A classified call that may run only with a signed intent.
requires_approval(c) == c.is_capital /\ ~c.is_read_only

\* The seven fields an intent must share with the call it authorises.
expected_from_classification(c) ==
    [action_type  |-> c.action_type,
     exact_action |-> c.exact_action,
     cwd          |-> c.cwd,
     repo_id      |-> IF c.repo_id = "" THEN "unknown" ELSE c.repo_id,
     host         |-> c.host,
     target       |-> c.target,
     risk_class   |-> c.risk_class]

\* Mutated: the pushed commit is not compared.
prereceive_expected_AnyCommit(push) ==
    [action_type |-> "git-push",
     repo_id     |-> push.repo_id,
     target      |-> push.ref_name,
     host        |-> push.host]

\* The five fields a git-push intent must share with the push.
prereceive_expected(push) ==
    [action_type |-> "git-push",
     repo_id     |-> push.repo_id,
     target      |-> push.ref_name,
     tree_sha    |-> push.new_sha,
     host        |-> push.host]

Binds(payload, expected) ==
    \A key \in DOMAIN expected :
        key \in DOMAIN payload /\ payload[key] = expected[key]

\* _verify_signed_payload: the first check that fails names the reason.
verify_signed_payload(signed_intent, public_key, expected, now) ==
    IF "payload" \notin DOMAIN signed_intent
    THEN "missing-payload"
    ELSE LET payload == signed_intent.payload IN
         IF Get(signed_intent, "signature_alg", "") # SIGNATURE_ALG
         THEN "bad-signature-alg"
         ELSE IF ~Binds(payload, expected)
         THEN "binding-mismatch"
         ELSE IF public_key = NoKey
         THEN "key-error"
         ELSE IF Get(signed_intent, "signature", << >>) # <<public_key, payload>>
         THEN "bad-signature"
         ELSE IF Get(payload, "expires_at", 0) < now
         THEN "expired"
         ELSE "ok"

\* verify_peek; also what verify_intent decides before it touches the store.
verify_peek(signed_intent, public_key, expected, now) ==
    LET reason == verify_signed_payload(signed_intent, public_key, expected, now)
    IN  IF reason = "ok" /\ Get(signed_intent.payload, "nonce", NoNonce) = NoNonce
        THEN "missing-nonce"
        ELSE reason

Reasons == {"missing-payload", "bad-signature-alg", "binding-mismatch", "key-error",
            "bad-signature", "expired", "missing-nonce", "ok"}
============================================================================
