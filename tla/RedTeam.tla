------------------------------ MODULE RedTeam ------------------------------
(***************************************************************************)
(* The replay of a corpus, src/scripts/redteam_harness.py and              *)
(* shadow_runner.py, through replay_case of runner_support.py and          *)
(* calculate_recall of src/src/model_routing/redteam.py: every case is     *)
(* detected, signed with a throwaway key, peeked at and consumed in a      *)
(* nonce store of the run's own.  One run is one process; what may go      *)
(* wrong in the middle is an exception in a case, a key that cannot be     *)
(* read, or the death of the process.                                      *)
(***************************************************************************)
EXTENDS Intents, FiniteSets, SequencesExt

CONSTANTS Programs,    \* the scripts: "redteam_harness" and "shadow_runner"
          Corpora,     \* the corpora they may be given: sequences of cases
          Faults       \* may a step raise, a key be unreadable, the run be killed?

ASSUME RedTeamAssumption ==
    /\ Programs \subseteq {"redteam_harness", "shadow_runner"}
    /\ Faults \in BOOLEAN
    /\ \A cases \in Corpora :
        /\ Len(cases) \in Nat /\ DOMAIN cases = 1..Len(cases)
        /\ \A i \in DOMAIN cases :
            cases[i].case_id # NoNonce /\ cases[i].should_block \in BOOLEAN

VARIABLES program,     \* the script that runs
          corpus,      \* its cases
          pc,          \* the next step
          temps,       \* the temporary directories on disk
          store,       \* the nonces of its NonceStore
          signed,      \* the intent signed for the case in hand
          decisions,   \* the decisions so far, in the order of the cases
          result,      \* the RecallResult
          rc           \* the exit code

vars == <<program, corpus, pc, temps, store, signed, decisions, result, rc>>

NoIntent == << >>
NoResult == << >>

\* The clock of a replay stands still.
FIXED_NOW == 0

Init ==
    /\ program \in Programs
    /\ corpus \in Corpora
    /\ pc = "prepare"
    /\ temps = {}
    /\ store = {}
    /\ signed = NoIntent
    /\ decisions = << >>
    /\ result = NoResult
    /\ rc = "none"

\* The temporary directories of the heredoc fixture and of the key pair.
Prepare ==
    /\ pc = "prepare"
    /\ pc' = "replay"
    /\ temps' = {"keys"} \cup (IF program = "redteam_harness" THEN {"fixture"} ELSE {})
    /\ UNCHANGED <<program, corpus, store, signed, decisions, result, rc>>

----------------------------------------------------------------------------
\* replay_case, for the first case that has no decision yet.
Case == corpus[Len(decisions) + 1]

Decide(blocked, reason) ==
    /\ decisions' = Append(decisions, [blocked |-> blocked, reason |-> reason])
    /\ signed' = NoIntent
    /\ pc' = "replay"

\* detect_capital_action, and the refusal of what the corpus does not approve.
Detect ==
    /\ pc = "replay"
    /\ Len(decisions) < Len(corpus)
    /\ IF ~requires_approval(Case.call)
       THEN Decide(FALSE, "not-capital-mutation")
       ELSE IF ~Case.opus_approved
       THEN Decide(TRUE, "would-request-opus-approval")
       ELSE pc' = "sign" /\ UNCHANGED <<signed, decisions>>
    /\ UNCHANGED <<program, corpus, temps, store, result, rc>>

\* Mutated: the nonce is the same for every case.
action_intent_OneNonce(case) ==
    LET b == expected_from_classification(case.call) IN
    [action_type |-> b.action_type, exact_action |-> b.exact_action, cwd |-> b.cwd,
     repo_id |-> b.repo_id, host |-> b.host, target |-> b.target,
     risk_class |-> b.risk_class,
     nonce |-> "action-intent", expires_at |-> FIXED_NOW + 300]

\* build_approval_request and build_signing_request: the nonce is the case's id.
action_intent(case) ==
    LET b == expected_from_classification(case.call) IN
    [action_type |-> b.action_type, exact_action |-> b.exact_action, cwd |-> b.cwd,
     repo_id |-> b.repo_id, host |-> b.host, target |-> b.target,
     risk_class |-> b.risk_class,
     nonce |-> case.case_id, expires_at |-> FIXED_NOW + 300]

\* gatekeeper_sign_action, with the throwaway key; attach_signed_intent.
Sign ==
    /\ pc = "sign"
    /\ signed' = sign_intent(action_intent(Case), GatekeeperKey)
    /\ pc' = "peek"
    /\ UNCHANGED <<program, corpus, temps, store, decisions, result, rc>>

\* The public key is read from its file at each check.
PublicKeys == {GatekeeperKey} \cup (IF Faults THEN {NoKey} ELSE {})

Judged(public_key) ==
    verify_peek(signed, public_key, expected_from_classification(Case.call), FIXED_NOW + 2)

\* local_pretooluse_check
Peek ==
    /\ pc = "peek"
    /\ \E public_key \in PublicKeys :
        IF Judged(public_key) = "ok"
        THEN pc' = "consume" /\ UNCHANGED <<signed, decisions>>
        ELSE Decide(TRUE, Judged(public_key))
    /\ UNCHANGED <<program, corpus, temps, store, result, rc>>

\* Mutated: the broker peeks too.
Consume_Peeks ==
    /\ pc = "consume"
    /\ \E public_key \in PublicKeys :
        IF Judged(public_key) # "ok"
        THEN Decide(TRUE, Judged(public_key))
        ELSE Decide(FALSE, "signed-intent-valid")
    /\ UNCHANGED <<program, corpus, temps, store, result, rc>>

\* authoritative_broker_check: mark_seen, which nobody else calls here.
Consume ==
    /\ pc = "consume"
    /\ \E public_key \in PublicKeys :
        IF Judged(public_key) # "ok"
        THEN Decide(TRUE, Judged(public_key)) /\ UNCHANGED store
        ELSE IF signed.payload.nonce \in store
        THEN Decide(TRUE, "nonce-replay") /\ UNCHANGED store
        ELSE /\ Decide(FALSE, "signed-intent-valid")
             /\ store' = store \cup {signed.payload.nonce}
    /\ UNCHANGED <<program, corpus, temps, result, rc>>

----------------------------------------------------------------------------
NoCounts == [known_bad |-> 0, detected_bad |-> 0, known_good |-> 0, allowed_good |-> 0,
             false_negative |-> 0, false_positive |-> 0, misses |-> << >>]

\* Mutated: what was blocked is counted as bad, what was not as good.
Count_BlockedFirst(so_far, case) ==
    IF case.blocked
    THEN [so_far EXCEPT !.known_bad = @ + 1, !.detected_bad = @ + 1]
    ELSE [so_far EXCEPT !.known_good = @ + 1, !.allowed_good = @ + 1]

\* The body of the loop of calculate_recall.
Count(so_far, case) ==
    IF case.should_block
    THEN IF case.blocked
         THEN [so_far EXCEPT !.known_bad = @ + 1, !.detected_bad = @ + 1]
         ELSE [so_far EXCEPT !.known_bad = @ + 1, !.false_negative = @ + 1,
                             !.misses = Append(@, case.case_id)]
    ELSE IF case.blocked
         THEN [so_far EXCEPT !.known_good = @ + 1, !.false_positive = @ + 1,
                             !.misses = Append(@, case.case_id)]
         ELSE [so_far EXCEPT !.known_good = @ + 1, !.allowed_good = @ + 1]

calculate_recall(cases) == FoldLeft(Count, NoCounts, cases)

\* The recall is 1.0, which a corpus without bad cases has too.
FullRecall(counts) == counts.known_bad = 0 \/ counts.detected_bad = counts.known_bad

\* The RecallCase of each case of the corpus.
RecallCases ==
    [i \in DOMAIN corpus |-> [case_id      |-> corpus[i].case_id,
                              should_block |-> corpus[i].should_block,
                              blocked      |-> decisions[i].blocked]]

\* The cases are over: the directories go, the decisions are counted, and only a
\* missed bad case makes the exit code of the red-team harness nonzero.
Report ==
    /\ pc = "replay"
    /\ Len(decisions) = Len(corpus)
    /\ pc' = "done"
    /\ temps' = {}
    /\ IF program = "shadow_runner"
       THEN rc' = "0" /\ UNCHANGED result
       ELSE /\ result' = calculate_recall(RecallCases)
            /\ rc' = IF result'.false_negative = 0 THEN "0" ELSE "1"
    /\ UNCHANGED <<program, corpus, store, signed, decisions>>

\* Mutated: nothing cleans up behind an exception.
Raise_Leaves ==
    /\ Faults
    /\ pc # "done"
    /\ pc' = "done"
    /\ rc' = "raised"
    /\ UNCHANGED <<program, corpus, temps, store, signed, decisions, result>>

\* A step raises: the finally clause removes the directories, as the finalizer of
\* a temporary directory does before the try.
Raise ==
    /\ Faults
    /\ pc # "done"
    /\ pc' = "done"
    /\ temps' = {}
    /\ rc' = "raised"
    /\ UNCHANGED <<program, corpus, store, signed, decisions, result>>

Kill ==
    /\ Faults
    /\ pc # "done"
    /\ pc' = "done"
    /\ rc' = "killed"
    /\ UNCHANGED <<program, corpus, temps, store, signed, decisions, result>>

Step == Prepare \/ Detect \/ Sign \/ Peek \/ Consume \/ Report

Next == Step \/ Raise \/ Kill

\* A run that is not interrupted is running code.
Spec == Init /\ [][Next]_vars /\ WF_vars(Step)
----------------------------------------------------------------------------
\* Types; nothing is decided twice, and a signed intent is for the case in hand.
TypeOK ==
    /\ program \in Programs
    /\ corpus \in Corpora
    /\ pc \in {"prepare", "replay", "sign", "peek", "consume", "done"}
    /\ temps \subseteq {"keys", "fixture"}
    /\ Len(decisions) <= Len(corpus)
    /\ store \subseteq {corpus[i].case_id : i \in DOMAIN corpus}
    /\ rc \in {"none", "0", "1", "raised", "killed"}
    /\ pc \in {"peek", "consume"} => signed.payload.nonce = Case.case_id

Approved(case) == requires_approval(case.call) /\ case.opus_approved

\* The pipeline decides every case on its own merits, wherever in the corpus it
\* stands: what is not capital goes through, what is not approved does not, and
\* what is approved is refused only if its key cannot be read or an earlier
\* approved case had the same id and was allowed.
CasesAreIndependent ==
    \A i \in DOMAIN decisions :
        LET case == corpus[i]
            used == \E j \in 1..(i - 1) :
                        /\ Approved(corpus[j]) /\ ~decisions[j].blocked
                        /\ corpus[j].case_id = case.case_id IN
        decisions[i].blocked <=>
            \/ requires_approval(case.call) /\ ~case.opus_approved
            \/ Approved(case) /\ (used \/ decisions[i].reason = "key-error")

\* The report can be trusted: exit code 0 means that every bad case of the corpus
\* was replayed and blocked, with full recall, and any other corpus that was
\* replayed to its end exits 1; the counts are those of the cases, and the misses
\* name the wrongly decided ones, each as often as it occurs.
ExitCodeIsEarned ==
    result # NoResult =>
        LET Those(bad, blocked) == {i \in DOMAIN corpus : /\ corpus[i].should_block = bad
                                                          /\ decisions[i].blocked = blocked}
            wrong == Those(TRUE, FALSE) \cup Those(FALSE, TRUE) IN
        /\ rc = "0" <=> Those(TRUE, FALSE) = {}
        /\ rc = "0" <=> FullRecall(result)
        /\ result.detected_bad = Cardinality(Those(TRUE, TRUE))
        /\ result.known_bad = result.detected_bad + result.false_negative
        /\ result.false_positive = Cardinality(Those(FALSE, TRUE))
        /\ result.allowed_good = Cardinality(Those(FALSE, FALSE))
        /\ result.known_good = result.allowed_good + result.false_positive
        /\ Len(result.misses) = Cardinality(wrong)
        /\ {corpus[i].case_id : i \in wrong} = ToSet(result.misses)

\* The run ends, and unless it is killed the private key it signed with does not
\* outlive it, whichever case raised (the finally clauses).
KeysDoNotOutlive == <>[](pc = "done" /\ (temps = {} \/ rc = "killed"))
=============================================================================
