------------------------------ MODULE MCBroker ------------------------------
(***************************************************************************)
(* The instance of Broker that TLC checks.  Two nonces: n1 in an intent    *)
(* for a deploy command, which the local peek and the broker see, and n2   *)
(* in an intent for a push, which the pre-receive check sees.  Around them *)
(* the ways a check refuses: the intent of another call, of another commit,*)
(* expired, of another signer, without nonce, payload, or intent.          *)
(***************************************************************************)
EXTENDS Broker, TLC

CONSTANTS c1, c2, n1, n2, OtherKey

Deploy == [action_type |-> "shell", exact_action |-> "deploy", cwd |-> "repo",
           repo_id |-> "", host |-> "local", target |-> "repo",
           risk_class |-> "capital-high", is_capital |-> TRUE, is_read_only |-> FALSE]

Restart == [Deploy EXCEPT !.exact_action = "restart"]

Status == [Deploy EXCEPT !.exact_action = "status", !.is_read_only = TRUE]

Push == [repo_id |-> "repo", ref_name |-> "main", new_sha |-> "s1", host |-> "gatekeeper"]

\* A signed record has the bound fields, the tree, the nonce and the expiry.
Payload(action_type, action, host, target, repo, sha, nonce, expires_at) ==
    [action_type |-> action_type, exact_action |-> action, cwd |-> "repo",
     repo_id |-> repo, host |-> host, target |-> target, risk_class |-> "capital-high",
     tree_sha |-> sha, nonce |-> nonce, expires_at |-> expires_at]

DeployPayload == Payload("shell", "deploy", "local", "repo", "unknown", "s1", n1, 1)
PushPayload   == Payload("git-push", "push", "gatekeeper", "main", "repo", "s1", n2, 1)

DeployIntent  == sign_intent(DeployPayload, GatekeeperKey)
PushIntent    == sign_intent(PushPayload, GatekeeperKey)
AlienIntent   == sign_intent(DeployPayload, OtherKey)
NoNonceIntent == sign_intent([DeployPayload EXCEPT !.nonce = NoNonce], GatekeeperKey)
OldAlgIntent  == [DeployIntent EXCEPT !.signature_alg = "rsa"]
EmptyIntent   == [signature |-> << >>]

Ask(stage, c, si) == [stage |-> stage, classification |-> c, signed_intent |-> si]
AskPush(push, si) ==
    [stage |-> "authoritative-pre-receive", push |-> push, signed_intent |-> si]

MCChecks ==
    {Ask("local-peek", Deploy, DeployIntent),
     Ask("authoritative-consume", Deploy, DeployIntent),
     Ask("authoritative-consume", Restart, DeployIntent),
     Ask("authoritative-consume", Deploy, AlienIntent),
     Ask("authoritative-consume", Deploy, NoNonceIntent),
     Ask("authoritative-consume", Deploy, OldAlgIntent),
     Ask("authoritative-consume", Deploy, EmptyIntent),
     [stage |-> "local-peek", classification |-> Deploy],
     [stage |-> "authoritative-consume", classification |-> Status],
     AskPush(Push, PushIntent),
     AskPush([Push EXCEPT !.new_sha = "s2"], PushIntent),
     AskPush(Push, DeployIntent)}
============================================================================
