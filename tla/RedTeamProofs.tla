--------------------------- MODULE RedTeamProofs ---------------------------
(***************************************************************************)
(* The replay of any corpus, of any length: its types, that the pipeline   *)
(* decides every case on its own merits, that the report counts what was   *)
(* decided and earns its exit code, and that an ended run leaves no key.   *)
(***************************************************************************)
EXTENDS RedTeam, SequenceFacts

DecisionReasons == {"not-capital-mutation", "would-request-opus-approval", "key-error",
                    "nonce-replay", "signed-intent-valid"}

Decision == [blocked : BOOLEAN, reason : DecisionReasons]

\* The decision on case i is the one its merits ask for.
OnItsMerits(i) ==
    LET case == corpus[i]
        used == \E j \in 1..(i - 1) :
                    /\ Approved(corpus[j]) /\ ~decisions[j].blocked
                    /\ corpus[j].case_id = case.case_id IN
    decisions[i].blocked <=>
        \/ requires_approval(case.call) /\ ~case.opus_approved
        \/ Approved(case) /\ (used \/ decisions[i].reason = "key-error")

\* The cases that were allowed on an intent: their ids fill the store.
Spent == {i \in DOMAIN decisions : Approved(corpus[i]) /\ ~decisions[i].blocked}

\* The report is on all the cases, and the exit code is that of the report.
Reported ==
    /\ Len(decisions) = Len(corpus)
    /\ result = calculate_recall(RecallCases)
    /\ rc = IF result.false_negative = 0 THEN "0" ELSE "1"

RInv ==
    /\ program \in Programs
    /\ corpus \in Corpora
    /\ pc \in {"prepare", "replay", "sign", "peek", "consume", "done"}
    /\ temps \subseteq {"keys", "fixture"}
    /\ rc \in {"none", "0", "1", "raised", "killed"}
    /\ decisions \in Seq(Decision)
    /\ Len(decisions) <= Len(corpus)
    /\ store = {corpus[i].case_id : i \in Spent}
    /\ \A i \in DOMAIN decisions : OnItsMerits(i)
    /\ pc \in {"sign", "peek", "consume"} => Len(decisions) < Len(corpus) /\ Approved(Case)
    /\ pc \in {"peek", "consume"} => signed = sign_intent(action_intent(Case), GatekeeperKey)
    /\ pc = "done" => temps = {} \/ rc = "killed"
    /\ pc # "done" => result = NoResult
    /\ result # NoResult => Reported

----------------------------------------------------------------------------
\* What the harness signed fits, unless the key cannot be read.
LEMMA JudgedIs ==
    ASSUME RInv, pc \in {"peek", "consume"}, NEW public_key \in PublicKeys
    PROVE  Judged(public_key) \in {"ok", "key-error"}
<1> DEFINE p == action_intent(Case)
<1> DEFINE e == expected_from_classification(Case.call)
<1>1. signed = sign_intent(p, GatekeeperKey)
    BY DEF RInv
<1>2. /\ "payload" \in DOMAIN signed /\ signed.payload = p
      /\ "signature" \in DOMAIN signed /\ signed.signature = <<GatekeeperKey, p>>
      /\ "signature_alg" \in DOMAIN signed /\ signed.signature_alg = SIGNATURE_ALG
    <2> HIDE DEF p
    <2> QED
        BY <1>1 DEF sign_intent
<1>3. Binds(p, e)
    <2>1. DOMAIN e = {"action_type", "exact_action", "cwd", "repo_id", "host", "target",
                      "risk_class"}
        BY DEF expected_from_classification
    <2>2. DOMAIN p = DOMAIN e \cup {"nonce", "expires_at"}
        BY <2>1 DEF action_intent
    <2> DEFINE b == e
    <2>3. p = [action_type |-> b.action_type, exact_action |-> b.exact_action, cwd |-> b.cwd,
               repo_id |-> b.repo_id, host |-> b.host, target |-> b.target,
               risk_class |-> b.risk_class,
               nonce |-> Case.case_id, expires_at |-> FIXED_NOW + 300]
        BY DEF action_intent
    <2> HIDE DEF p, e
    <2>4. \A key \in DOMAIN e : key \in DOMAIN p /\ p[key] = e[key]
        BY <2>1, <2>2, <2>3
    <2> QED
        BY <2>4 DEF Binds
<1>4. /\ "expires_at" \in DOMAIN p /\ p.expires_at = FIXED_NOW + 300
      /\ "nonce" \in DOMAIN p /\ p.nonce = Case.case_id
    BY DEF action_intent
<1>5. ~ Get(p, "expires_at", 0) < FIXED_NOW + 2
    BY <1>4 DEF Get, FIXED_NOW
<1>6. Get(p, "nonce", NoNonce) # NoNonce
    <2>1. Len(decisions) \in Nat /\ Len(corpus) \in Nat /\ DOMAIN corpus = 1..Len(corpus)
        BY RedTeamAssumption DEF RInv
    <2>2. Len(decisions) + 1 \in DOMAIN corpus
        BY <2>1 DEF RInv
    <2>3. Case.case_id # NoNonce
        BY <2>2, RedTeamAssumption DEF RInv, Case
    <2> QED
        BY <1>4, <2>3 DEF Get
<1>7. public_key \in {GatekeeperKey, NoKey}
    BY DEF PublicKeys
<1> HIDE DEF p, e
<1>8. verify_signed_payload(signed, public_key, e, FIXED_NOW + 2) \in {"ok", "key-error"}
    BY <1>2, <1>3, <1>5, <1>7 DEF verify_signed_payload, Get
<1> QED
    BY <1>2, <1>6, <1>8 DEF Judged, verify_peek, e

LEMMA ADecision ==
    ASSUME NEW reason \in DecisionReasons
    PROVE  /\ [blocked |-> TRUE, reason |-> reason] \in Decision
           /\ [blocked |-> FALSE, reason |-> reason] \in Decision
BY Zenon DEF Decision

\* The decision is the one that the case in hand deserves, after the nonces used so far.
Deserved(d) ==
    d.blocked <=>
        \/ requires_approval(Case.call) /\ ~Case.opus_approved
        \/ Approved(Case) /\ (Case.case_id \in store \/ d.reason = "key-error")

\* Its nonce is used if it is approved and allowed.
Uses(d) ==
    store' = IF Approved(Case) /\ ~d.blocked THEN store \cup {Case.case_id} ELSE store

Decides(d) == decisions' = Append(decisions, d) /\ pc' = "replay"

\* A case is decided: one more decision, and those before it stand.
LEMMA Decided ==
    ASSUME RInv, Len(decisions) < Len(corpus), pc # "done",
           UNCHANGED <<program, corpus, temps, rc, result>>,
           NEW d \in Decision, Decides(d), Deserved(d), Uses(d)
    PROVE  RInv'
<1>1. decisions \in Seq(Decision) /\ Len(decisions) \in Nat /\ d \in Decision
    BY DEF RInv
<1>2. PICK n \in Nat : n = Len(decisions) + 1
    BY <1>1
<1>3. decisions' = Append(decisions, d) /\ pc' = "replay" /\ corpus' = corpus
    BY DEF Decides
<1>4. /\ decisions' \in Seq(Decision) /\ Len(decisions') = n
      /\ DOMAIN decisions' = 1..n /\ decisions'[n] = d
      /\ \A i \in 1..(n - 1) : decisions'[i] = decisions[i]
      /\ DOMAIN decisions = 1..(n - 1) /\ n \in Nat /\ n - 1 = Len(decisions)
    BY <1>1, <1>3, <1>2
<1>5. Case = corpus[n]
    BY <1>2 DEF Case
<1>6. Len(decisions') <= Len(corpus')
    <2>1. Len(corpus) \in Nat
        BY RedTeamAssumption DEF RInv
    <2> QED
        BY <1>1, <1>3, <1>4, <1>2, <2>1
<1>7. Case.case_id \in store <=>
        \E j \in 1..(n - 1) : /\ Approved(corpus[j]) /\ ~decisions[j].blocked
                             /\ corpus[j].case_id = Case.case_id
    BY <1>4 DEF RInv, Spent
<1>8. ASSUME NEW i \in DOMAIN decisions'
      PROVE  OnItsMerits(i)'
    <2>1. \A j \in 1..(i - 1) : decisions'[j] = decisions[j]
        <3>1. \A j \in 1..(i - 1) : j \in 1..(n - 1)
            BY <1>4
        <3> QED
            BY <1>4, <3>1
    <2>2. CASE i = n
        <3>1. d.blocked <=>
                \/ requires_approval(corpus[n].call) /\ ~corpus[n].opus_approved
                \/ /\ Approved(corpus[n])
                   /\ \/ \E j \in 1..(n - 1) :
                            /\ Approved(corpus[j]) /\ ~decisions[j].blocked
                            /\ corpus[j].case_id = corpus[n].case_id
                      \/ d.reason = "key-error"
            BY <1>5, <1>7 DEF Deserved
        <3>2. \A j \in 1..(n - 1) : decisions'[j].blocked = decisions[j].blocked
            BY <1>4
        <3>3. decisions'[n] = d /\ corpus' = corpus
            BY <1>3, <1>4
        <3> QED
            BY ONLY <2>2, <3>1, <3>2, <3>3 DEF OnItsMerits, Approved
    <2>3. CASE i # n
        <3>1. i \in DOMAIN decisions /\ decisions'[i] = decisions[i]
            BY <1>4, <2>3
        <3>2. OnItsMerits(i)
            BY <3>1 DEF RInv
        <3> QED
            BY ONLY <1>3, <2>1, <3>1, <3>2 DEF OnItsMerits, Approved
    <2> QED
        BY <2>2, <2>3
<1>9. Spent' = IF Approved(Case) /\ ~d.blocked THEN Spent \cup {n} ELSE Spent
    <2>1. \A i \in 1..n : i = n \/ i \in 1..(n - 1)
        BY <1>4
    <2>2. n \notin 1..(n - 1) /\ n \in 1..n /\ \A i \in 1..(n - 1) : i \in 1..n
        BY <1>1, <1>4, <1>2
    <2> QED
        BY <1>3, <1>4, <1>5, <2>1, <2>2 DEF Spent, Approved
<1>10. store' = {corpus'[i].case_id : i \in Spent'}
    BY <1>3, <1>5, <1>9 DEF RInv, Uses
<1>11. result' = NoResult
    BY DEF RInv
<1> QED
    BY <1>3, <1>4, <1>6, <1>8, <1>10, <1>11 DEF RInv

LEMMA RStep ==
    ASSUME RInv, [Next]_vars
    PROVE  RInv'
<1>1. Len(decisions) \in Nat /\ Len(corpus) \in Nat /\ DOMAIN decisions = 1..Len(decisions)
    BY RedTeamAssumption DEF RInv
<1>2. CASE Prepare
    BY <1>2 DEF Prepare, RInv, OnItsMerits, Spent, Case, Approved
<1>3. CASE Detect
    <2>1. Len(decisions) < Len(corpus) /\ UNCHANGED <<program, corpus, temps, store, rc, result>>
          /\ pc = "replay"
        BY <1>3 DEF Detect
    <2>2. CASE ~requires_approval(Case.call)
        <3>1. Decide(FALSE, "not-capital-mutation")
            BY <1>3, <2>2 DEF Detect
        <3> DEFINE d == [blocked |-> FALSE, reason |-> "not-capital-mutation"]
        <3>2. d \in Decision
            BY ADecision, Zenon DEF DecisionReasons
        <3>3. Decides(d)
            BY <3>1, Zenon DEF Decide, Decides
        <3>4. Deserved(d) /\ Uses(d)
            BY <2>1, <2>2, <3>1 DEF Deserved, Uses, Approved
        <3> HIDE DEF d
        <3> QED
            BY <2>1, <3>2, <3>3, <3>4, Decided
    <2>3. CASE requires_approval(Case.call) /\ ~Case.opus_approved
        <3>1. Decide(TRUE, "would-request-opus-approval")
            BY <1>3, <2>3 DEF Detect
        <3> DEFINE d == [blocked |-> TRUE, reason |-> "would-request-opus-approval"]
        <3>2. d \in Decision
            BY ADecision, Zenon DEF DecisionReasons
        <3>3. Decides(d)
            BY <3>1, Zenon DEF Decide, Decides
        <3>4. Deserved(d) /\ Uses(d)
            BY <2>1, <2>3, <3>1 DEF Deserved, Uses, Approved
        <3> HIDE DEF d
        <3> QED
            BY <2>1, <3>2, <3>3, <3>4, Decided
    <2>4. CASE requires_approval(Case.call) /\ Case.opus_approved
        <3>1. pc' = "sign" /\ UNCHANGED <<signed, decisions>>
            BY <1>3, <2>4 DEF Detect
        <3> QED
            BY <2>1, <2>4, <3>1 DEF RInv, OnItsMerits, Spent, Case, Approved
    <2> QED
        BY <2>2, <2>3, <2>4
<1>4. CASE Sign
    BY <1>4 DEF Sign, RInv, OnItsMerits, Spent, Case, Approved
<1>5. CASE Peek
    <2>1. /\ pc = "peek" /\ Len(decisions) < Len(corpus) /\ Approved(Case)
          /\ UNCHANGED <<program, corpus, temps, store, rc, result>>
        BY <1>5 DEF Peek, RInv
    <2>2. PICK public_key \in PublicKeys :
            IF Judged(public_key) = "ok"
            THEN pc' = "consume" /\ UNCHANGED <<signed, decisions>>
            ELSE Decide(TRUE, Judged(public_key))
        BY <1>5 DEF Peek
    <2>3. Judged(public_key) \in {"ok", "key-error"}
        BY <2>1, JudgedIs
    <2>4. CASE Judged(public_key) = "ok"
        BY <2>1, <2>2, <2>4 DEF RInv, OnItsMerits, Spent, Case, Approved
    <2>5. CASE Judged(public_key) = "key-error"
        <3>1. Decide(TRUE, "key-error")
            BY <2>2, <2>5
        <3> DEFINE d == [blocked |-> TRUE, reason |-> "key-error"]
        <3>2. d \in Decision
            BY ADecision, Zenon DEF DecisionReasons
        <3>3. Decides(d)
            BY <3>1, Zenon DEF Decide, Decides
        <3>4. Deserved(d) /\ Uses(d)
            BY <2>1, <3>1 DEF Deserved, Uses, Approved
        <3> HIDE DEF d
        <3> QED
            BY <2>1, <3>2, <3>3, <3>4, Decided
    <2> QED
        BY <2>3, <2>4, <2>5
<1>6. CASE Consume
    <2>1. /\ pc = "consume" /\ Len(decisions) < Len(corpus) /\ Approved(Case)
          /\ UNCHANGED <<program, corpus, temps, rc, result>>
        BY <1>6 DEF Consume, RInv
    <2>2. PICK public_key \in PublicKeys :
            IF Judged(public_key) # "ok"
            THEN Decide(TRUE, Judged(public_key)) /\ UNCHANGED store
            ELSE IF signed.payload.nonce \in store
            THEN Decide(TRUE, "nonce-replay") /\ UNCHANGED store
            ELSE /\ Decide(FALSE, "signed-intent-valid")
                 /\ store' = store \cup {signed.payload.nonce}
        BY <1>6 DEF Consume
    <2>3. Judged(public_key) \in {"ok", "key-error"}
        BY <2>1, JudgedIs
    <2>4. signed.payload.nonce = Case.case_id
        BY <2>1 DEF RInv, sign_intent, action_intent
    <2>5. CASE Judged(public_key) = "key-error"
        <3>1. Decide(TRUE, "key-error") /\ UNCHANGED store
            BY <2>2, <2>5
        <3> DEFINE d == [blocked |-> TRUE, reason |-> "key-error"]
        <3>2. d \in Decision
            BY ADecision, Zenon DEF DecisionReasons
        <3>3. Decides(d)
            BY <3>1, Zenon DEF Decide, Decides
        <3>4. Deserved(d) /\ Uses(d)
            BY <2>1, <3>1 DEF Deserved, Uses, Approved
        <3> HIDE DEF d
        <3> QED
            BY <2>1, <3>2, <3>3, <3>4, Decided
    <2>6. CASE Judged(public_key) = "ok" /\ Case.case_id \in store
        <3>1. Decide(TRUE, "nonce-replay") /\ UNCHANGED store
            BY <2>2, <2>4, <2>6
        <3> DEFINE d == [blocked |-> TRUE, reason |-> "nonce-replay"]
        <3>2. d \in Decision
            BY ADecision, Zenon DEF DecisionReasons
        <3>3. Decides(d)
            BY <3>1, Zenon DEF Decide, Decides
        <3>4. Deserved(d) /\ Uses(d)
            BY <2>1, <2>6, <3>1 DEF Deserved, Uses, Approved
        <3> HIDE DEF d
        <3> QED
            BY <2>1, <3>2, <3>3, <3>4, Decided
    <2>7. CASE Judged(public_key) = "ok" /\ Case.case_id \notin store
        <3>1. Decide(FALSE, "signed-intent-valid") /\ store' = store \cup {Case.case_id}
            BY <2>2, <2>4, <2>7
        <3> DEFINE d == [blocked |-> FALSE, reason |-> "signed-intent-valid"]
        <3>2. d \in Decision
            BY ADecision, Zenon DEF DecisionReasons
        <3>3. Decides(d)
            BY <3>1, Zenon DEF Decide, Decides
        <3>4. Deserved(d) /\ Uses(d)
            BY <2>1, <2>7, <3>1 DEF Deserved, Uses, Approved
        <3> HIDE DEF d
        <3> QED
            BY <2>1, <3>2, <3>3, <3>4, Decided
    <2> QED
        BY <2>3, <2>5, <2>6, <2>7
<1>7. CASE Report \/ Raise \/ Kill
    <2>1. /\ pc # "done" /\ pc' = "done" /\ UNCHANGED <<program, corpus, store, decisions>>
          /\ temps' \subseteq {"keys", "fixture"}
          /\ rc' \in {"0", "1", "raised", "killed"}
          /\ temps' = {} \/ rc' = "killed"
        BY <1>7 DEF Report, Raise, Kill, RInv
    <2>2. result = NoResult
        BY <2>1 DEF RInv
    <2>3. result' # NoResult => Reported'
        <3>1. RecallCases' = RecallCases
            BY <2>1 DEF RecallCases
        <3>2. CASE Raise \/ Kill
            BY <2>2, <3>2 DEF Raise, Kill
        <3>3. CASE Report /\ program = "shadow_runner"
            BY <2>2, <3>3 DEF Report
        <3>4. CASE Report /\ program # "shadow_runner"
            <4>1. /\ result' = calculate_recall(RecallCases) /\ Len(decisions) = Len(corpus)
                  /\ rc' = IF result'.false_negative = 0 THEN "0" ELSE "1"
                BY <3>4 DEF Report
            <4>2. calculate_recall(RecallCases)' = calculate_recall(RecallCases)
                BY <3>1 DEF calculate_recall
            <4> QED
                BY <2>1, <4>1, <4>2 DEF Reported
        <3> QED
            BY <1>7, <3>2, <3>3, <3>4
    <2> QED
        BY <2>1, <2>3 DEF RInv, OnItsMerits, Spent, Approved
<1>8. CASE UNCHANGED vars
    BY <1>8 DEF vars, RInv, Reported, RecallCases, calculate_recall, OnItsMerits, Spent, Case, Approved
<1> QED
    BY <1>2, <1>3, <1>4, <1>5, <1>6, <1>7, <1>8 DEF Next, Step

----------------------------------------------------------------------------
\* The cases of a report by what they should be and what they were decided.
Caught(cases, n) == {i \in 1..n : cases[i].should_block /\ cases[i].blocked}
Missed(cases, n) == {i \in 1..n : cases[i].should_block /\ ~cases[i].blocked}
Alarms(cases, n) == {i \in 1..n : ~cases[i].should_block /\ cases[i].blocked}
Passed(cases, n) == {i \in 1..n : ~cases[i].should_block /\ ~cases[i].blocked}

\* What the counters are after the first n cases.
Counted(r, cases, n) ==
    /\ DOMAIN r = {"known_bad", "detected_bad", "known_good", "allowed_good",
                   "false_negative", "false_positive", "misses"}
    /\ r.detected_bad = Cardinality(Caught(cases, n))
    /\ r.false_negative = Cardinality(Missed(cases, n))
    /\ r.false_positive = Cardinality(Alarms(cases, n))
    /\ r.allowed_good = Cardinality(Passed(cases, n))
    /\ r.known_bad = r.detected_bad + r.false_negative
    /\ r.known_good = r.allowed_good + r.false_positive
    /\ Len(r.misses) = Cardinality(Missed(cases, n) \cup Alarms(cases, n))
    /\ r.misses \in Seq({cases[i].case_id : i \in DOMAIN cases})
    /\ ToSet(r.misses) = {cases[i].case_id : i \in Missed(cases, n) \cup Alarms(cases, n)}

\* A fold is a function of the set of the indices that are still to be folded.
Folding(f, cases, n) ==
    f = [s \in SUBSET (1..n) |->
            IF s = {} THEN NoCounts ELSE Count(f[s \ {Max(s)}], cases[Max(s)])]

LEMMA FoldExists ==
    ASSUME NEW cases, NEW n \in Nat
    PROVE  \E f : Folding(f, cases, n)
<1> DEFINE Fold(f, k) == Folding(f, cases, k)
<1>1. Fold([s \in SUBSET (1..0) |-> NoCounts], 0)
    <2>1. 1..0 = {}
        OBVIOUS
    <2> QED
        BY <2>1 DEF Folding
<1>2. ASSUME NEW k \in Nat, NEW g, Fold(g, k)
      PROVE  \E f : Fold(f, k + 1)
    <2> DEFINE m == k + 1
    <2> DEFINE f == [s \in SUBSET (1..m) |->
                        IF m \in s THEN Count(g[s \ {m}], cases[m]) ELSE g[s]]
    <2>1. \A s \in SUBSET (1..m) : m \notin s => s \in SUBSET (1..k)
        OBVIOUS
    <2>2. \A s \in SUBSET (1..k) : s \in SUBSET (1..m) /\ m \notin s
        OBVIOUS
    <2>3. \A s \in SUBSET (1..k) : f[s] = g[s]
        BY <2>2
    <2>4. \A s \in SUBSET (1..k) :
            g[s] = IF s = {} THEN NoCounts ELSE Count(g[s \ {Max(s)}], cases[Max(s)])
        BY <1>2 DEF Folding
    <2>5. ASSUME NEW s \in SUBSET (1..m)
          PROVE  f[s] = IF s = {} THEN NoCounts ELSE Count(f[s \ {Max(s)}], cases[Max(s)])
        <3>1. CASE m \in s
            <4>1. Max(s) \in s /\ \A i \in s : i <= Max(s)
                <5>1. m \in Nat /\ s \in SUBSET (0..m) /\ s # {}
                    BY <3>1
                <5> HIDE DEF m
                <5> QED
                    BY <5>1, MaxIsIn
            <4>2. Max(s) = m
                <5>1. m \in Nat
                    OBVIOUS
                <5> HIDE DEF m
                <5>2. Max(s) \in 1..m
                    BY <4>1
                <5>3. m <= Max(s)
                    BY <3>1, <4>1
                <5> QED
                    BY <5>1, <5>2, <5>3
            <4>3. s \ {m} \in SUBSET (1..k)
                BY <2>1
            <4>4. f[s] = Count(g[s \ {m}], cases[m]) /\ f[s \ {m}] = g[s \ {m}]
                BY <2>3, <3>1, <4>3
            <4> HIDE DEF f, m
            <4> QED
                BY <3>1, <4>2, <4>4
        <3>2. CASE m \notin s /\ s # {}
            <4>1. s \in SUBSET (1..k) /\ s \ {Max(s)} \in SUBSET (1..k)
                BY <2>1, <3>2
            <4> HIDE DEF f, m
            <4> QED
                BY <2>3, <2>4, <3>2, <4>1
        <3>3. CASE s = {}
            <4>1. s \in SUBSET (1..k)
                BY <3>3
            <4> HIDE DEF f, m
            <4> QED
                BY <2>3, <2>4, <3>3, <4>1
        <3> QED
            BY <3>1, <3>2, <3>3
    <2>6. f = [s \in SUBSET (1..m) |-> f[s]]
        OBVIOUS
    <2>7. Fold(f, m)
        <3> HIDE DEF f
        <3> QED
            BY <2>5, <2>6 DEF Folding
    <2> QED
        BY <2>7
<1>3. CASE n = 0
    BY <1>1, <1>3
<1>4. CASE n # 0
    <2> DEFINE G == {k \in 1..n : \E f : Fold(f, k)}
    <2>1. 1 \in 1..n => 1 \in G
        <3>1. \E f : Fold(f, 0 + 1)
            BY <1>1, <1>2
        <3> QED
            BY <3>1
    <2>2. ASSUME NEW k \in 2..n, k - 1 \in G
          PROVE  k \in G
        <3>1. k - 1 \in Nat /\ (k - 1) + 1 = k /\ k \in 1..n
            OBVIOUS
        <3>2. \E f : Fold(f, (k - 1) + 1)
            <4>1. PICK g : Fold(g, k - 1)
                BY <2>2
            <4> HIDE DEF Fold
            <4> QED
                BY <1>2, <3>1, <4>1
        <3> QED
            BY <3>1, <3>2
    <2>3. 1..n \subseteq G
        <3> HIDE DEF G
        <3> QED
            BY <2>1, <2>2, Climb
    <2> QED
        BY <1>4, <2>3
<1> QED
    BY <1>3, <1>4

LEMMA RecallIsFold ==
    ASSUME NEW cases, NEW n \in Nat, DOMAIN cases = 1..n
    PROVE  \E f : Folding(f, cases, n) /\ calculate_recall(cases) = f[1..n]
<1>1. \E f : f = [s \in SUBSET (1..n) |->
                    IF s = {} THEN NoCounts ELSE Count(f[s \ {Max(s)}], cases[Max(s)])]
    BY FoldExists DEF Folding
<1> QED
    BY <1>1 DEF calculate_recall, FoldLeft, MapThenFoldSet, Folding

\* One set of indices more or less.
LEMMA OneMore ==
    ASSUME NEW m \in Nat \ {0}, NEW A \in SUBSET (1..m), NEW B \in SUBSET (1..(m - 1)),
           \A i \in 1..(m - 1) : i \in A <=> i \in B
    PROVE  /\ Cardinality(B) \in Nat
           /\ A = (IF m \in A THEN B \cup {m} ELSE B)
           /\ Cardinality(A) = Cardinality(B) + (IF m \in A THEN 1 ELSE 0)
<1>1. IsFiniteSet(B)
    <2>1. m - 1 \in Int /\ 1 \in Int
        OBVIOUS
    <2>2. IsFiniteSet(1..(m - 1))
        BY <2>1, FS_Interval
    <2> QED
        BY <2>2, FS_Subset
<1>2. m \notin B /\ \A i \in A : i = m \/ i \in B
    <2>1. m \notin 1..(m - 1) /\ \A i \in 1..m : i = m \/ i \in 1..(m - 1)
        OBVIOUS
    <2> QED
        BY <2>1
<1>3. Cardinality(B) \in Nat
    BY <1>1, FS_CardinalityType
<1>4. B \subseteq A
    OBVIOUS
<1>5. CASE m \in A
    <2>1. A = B \cup {m}
        BY <1>2, <1>4, <1>5
    <2>2. Cardinality(B \cup {m}) = Cardinality(B) + 1
        BY <1>1, <1>2, FS_AddElement
    <2> QED
        BY <1>3, <1>5, <2>1, <2>2
<1>6. CASE m \notin A
    <2>1. A = B
        BY <1>2, <1>4, <1>6
    <2> QED
        BY <1>3, <1>6, <2>1
<1> QED
    BY <1>5, <1>6

RecallCase(Ids) == [case_id : Ids, should_block : BOOLEAN, blocked : BOOLEAN]

\* One turn of the loop counts one more case.
LEMMA CountStep ==
    ASSUME NEW Ids, NEW n \in Nat, NEW cases \in [1..n -> RecallCase(Ids)], NEW m \in 1..n,
           NEW r, Counted(r, cases, m - 1)
    PROVE  Counted(Count(r, cases[m]), cases, m)
<1> DEFINE C == Caught(cases, m)
<1> DEFINE M == Missed(cases, m)
<1> DEFINE A == Alarms(cases, m)
<1> DEFINE P == Passed(cases, m)
<1> DEFINE C0 == Caught(cases, m - 1)
<1> DEFINE M0 == Missed(cases, m - 1)
<1> DEFINE A0 == Alarms(cases, m - 1)
<1> DEFINE P0 == Passed(cases, m - 1)
<1> DEFINE q == Count(r, cases[m])
<1>0. m \in Nat \ {0}
    OBVIOUS
<1>1. m \in 1..m /\ cases[m] \in RecallCase(Ids)
      /\ \A i \in 1..(m - 1) : i \in 1..m
    OBVIOUS
<1>2. /\ Cardinality(C0) \in Nat
      /\ C = (IF m \in C THEN C0 \cup {m} ELSE C0)
      /\ Cardinality(C) = Cardinality(C0) + (IF m \in C THEN 1 ELSE 0)
    <2>1. C \in SUBSET (1..m) /\ C0 \in SUBSET (1..(m - 1))
          /\ \A i \in 1..(m - 1) : i \in C <=> i \in C0
        BY <1>1 DEF Caught
    <2> HIDE DEF C, C0
    <2> QED
        BY <1>0, <2>1, OneMore
<1>3. /\ Cardinality(M0) \in Nat
      /\ M = (IF m \in M THEN M0 \cup {m} ELSE M0)
      /\ Cardinality(M) = Cardinality(M0) + (IF m \in M THEN 1 ELSE 0)
    <2>1. M \in SUBSET (1..m) /\ M0 \in SUBSET (1..(m - 1))
          /\ \A i \in 1..(m - 1) : i \in M <=> i \in M0
        BY <1>1 DEF Missed
    <2> HIDE DEF M, M0
    <2> QED
        BY <1>0, <2>1, OneMore
<1>4. /\ Cardinality(A0) \in Nat
      /\ A = (IF m \in A THEN A0 \cup {m} ELSE A0)
      /\ Cardinality(A) = Cardinality(A0) + (IF m \in A THEN 1 ELSE 0)
    <2>1. A \in SUBSET (1..m) /\ A0 \in SUBSET (1..(m - 1))
          /\ \A i \in 1..(m - 1) : i \in A <=> i \in A0
        BY <1>1 DEF Alarms
    <2> HIDE DEF A, A0
    <2> QED
        BY <1>0, <2>1, OneMore
<1>5. /\ Cardinality(P0) \in Nat
      /\ P = (IF m \in P THEN P0 \cup {m} ELSE P0)
      /\ Cardinality(P) = Cardinality(P0) + (IF m \in P THEN 1 ELSE 0)
    <2>1. P \in SUBSET (1..m) /\ P0 \in SUBSET (1..(m - 1))
          /\ \A i \in 1..(m - 1) : i \in P <=> i \in P0
        BY <1>1 DEF Passed
    <2> HIDE DEF P, P0
    <2> QED
        BY <1>0, <2>1, OneMore
<1>6. /\ Cardinality(M0 \cup A0) \in Nat
      /\ M \cup A = (IF m \in M \cup A THEN (M0 \cup A0) \cup {m} ELSE M0 \cup A0)
      /\ Cardinality(M \cup A) = Cardinality(M0 \cup A0) + (IF m \in M \cup A THEN 1 ELSE 0)
    <2>1. M \cup A \in SUBSET (1..m) /\ M0 \cup A0 \in SUBSET (1..(m - 1))
          /\ \A i \in 1..(m - 1) : i \in M \cup A <=> i \in M0 \cup A0
        BY <1>1 DEF Missed, Alarms
    <2> DEFINE W == M \cup A
    <2> DEFINE W0 == M0 \cup A0
    <2>2. W \in SUBSET (1..m) /\ W0 \in SUBSET (1..(m - 1))
          /\ \A i \in 1..(m - 1) : i \in W <=> i \in W0
        BY <2>1
    <2> HIDE DEF W, W0
    <2>3. /\ Cardinality(W0) \in Nat
          /\ W = (IF m \in W THEN W0 \cup {m} ELSE W0)
          /\ Cardinality(W) = Cardinality(W0) + (IF m \in W THEN 1 ELSE 0)
        BY <1>0, <2>2, OneMore
    <2> QED
        BY <2>3 DEF W, W0
<1>7. /\ m \in C <=> cases[m].should_block /\ cases[m].blocked
      /\ m \in M <=> cases[m].should_block /\ ~cases[m].blocked
      /\ m \in A <=> ~cases[m].should_block /\ cases[m].blocked
      /\ m \in P <=> ~cases[m].should_block /\ ~cases[m].blocked
    BY <1>1 DEF Caught, Missed, Alarms, Passed
<1> DEFINE ids == {cases[i].case_id : i \in DOMAIN cases}
<1>8. cases[m].case_id \in ids
    OBVIOUS
<1>9. /\ DOMAIN r = {"known_bad", "detected_bad", "known_good", "allowed_good",
                     "false_negative", "false_positive", "misses"}
      /\ r.detected_bad = Cardinality(C0) /\ r.false_negative = Cardinality(M0)
      /\ r.false_positive = Cardinality(A0) /\ r.allowed_good = Cardinality(P0)
      /\ r.known_bad = r.detected_bad + r.false_negative
      /\ r.known_good = r.allowed_good + r.false_positive
      /\ Len(r.misses) = Cardinality(M0 \cup A0)
      /\ r.misses \in Seq(ids)
      /\ ToSet(r.misses) = {cases[i].case_id : i \in M0 \cup A0}
    BY DEF Counted
<1> DEFINE ms == Append(r.misses, cases[m].case_id)
<1>10. /\ ms \in Seq(ids) /\ Len(ms) = Len(r.misses) + 1
       /\ ToSet(ms) = ToSet(r.misses) \cup {cases[m].case_id}
    <2> DEFINE x == r.misses
    <2> DEFINE id == cases[m].case_id
    <2>1. x \in Seq(ids) /\ id \in ids
        BY <1>8, <1>9
    <2> HIDE DEF x, id, ids
    <2>2. /\ Append(x, id) \in Seq(ids) /\ Len(Append(x, id)) = Len(x) + 1
          /\ DOMAIN Append(x, id) = 1..(Len(x) + 1) /\ Len(x) \in Nat /\ DOMAIN x = 1..Len(x)
          /\ Append(x, id)[Len(x) + 1] = id
          /\ \A i \in 1..Len(x) : Append(x, id)[i] = x[i]
        BY <2>1
    <2>3. \A i \in 1..(Len(x) + 1) : i = Len(x) + 1 \/ i \in 1..Len(x)
        BY <2>2
    <2>4. Len(x) + 1 \in 1..(Len(x) + 1) /\ \A i \in 1..Len(x) : i \in 1..(Len(x) + 1)
        BY <2>2
    <2>5. ToSet(Append(x, id)) = ToSet(x) \cup {id}
        BY <2>2, <2>3, <2>4 DEF ToSet
    <2> QED
        BY <2>2, <2>5 DEF x, id
<1> HIDE DEF ms, ids, C, M, A, P, C0, M0, A0, P0
<1>15. m \in M \cup A => /\ ToSet(ms) = {cases[i].case_id : i \in M \cup A}
                        /\ Len(ms) = Cardinality(M \cup A)
    <2> SUFFICES ASSUME m \in M \cup A
                 PROVE  /\ ToSet(ms) = {cases[i].case_id : i \in M \cup A}
                        /\ Len(ms) = Cardinality(M \cup A)
        OBVIOUS
    <2>1. /\ M \cup A = (M0 \cup A0) \cup {m}
          /\ Cardinality(M \cup A) = Cardinality(M0 \cup A0) + 1
        BY ONLY <1>6, m \in M \cup A
    <2>2. {cases[i].case_id : i \in M \cup A}
            = {cases[i].case_id : i \in M0 \cup A0} \cup {cases[m].case_id}
        BY ONLY <2>1
    <2>3. ToSet(ms) = {cases[i].case_id : i \in M \cup A}
        BY ONLY <1>9, <1>10, <2>2
    <2>4. Len(ms) = Cardinality(M \cup A)
        BY ONLY <1>9, <1>10, <2>1
    <2> QED
        BY ONLY <2>3, <2>4
<1>11. CASE cases[m].should_block /\ cases[m].blocked
    <2>1. q = [r EXCEPT !.known_bad = @ + 1, !.detected_bad = @ + 1]
        BY <1>11 DEF Count
    <2>2. /\ DOMAIN q = DOMAIN r
          /\ q.known_bad = r.known_bad + 1 /\ q.detected_bad = r.detected_bad + 1
          /\ q.known_good = r.known_good /\ q.allowed_good = r.allowed_good
          /\ q.false_negative = r.false_negative /\ q.false_positive = r.false_positive
          /\ q.misses = r.misses
        BY ONLY <1>9, <2>1
    <2> HIDE DEF q
    <2>3. M = M0 /\ A = A0 /\ P = P0 /\ Cardinality(C) = Cardinality(C0) + 1
        BY <1>2, <1>3, <1>4, <1>5, <1>7, <1>11
    <2>4. q.known_bad = q.detected_bad + q.false_negative
        BY <1>2, <1>3, <1>9, <2>2
    <2>5. /\ q.misses \in Seq(ids) /\ ToSet(q.misses) = {cases[i].case_id : i \in M \cup A}
          /\ Len(q.misses) = Cardinality(M \cup A)
        BY ONLY <1>9, <2>2, <2>3
    <2>6. /\ q.detected_bad = Cardinality(C) /\ q.false_negative = Cardinality(M)
          /\ q.false_positive = Cardinality(A) /\ q.allowed_good = Cardinality(P)
          /\ q.known_bad = q.detected_bad + q.false_negative
          /\ q.known_good = q.allowed_good + q.false_positive
        BY ONLY <1>9, <2>2, <2>3, <2>4
    <2>7. Counted(q, cases, m)
        BY <1>9, <2>2, <2>5, <2>6 DEF Counted, C, M, A, P, ids
    <2> QED
        BY <2>7 DEF q
<1>12. CASE cases[m].should_block /\ ~cases[m].blocked
    <2>1. q = [r EXCEPT !.known_bad = @ + 1, !.false_negative = @ + 1, !.misses = ms]
        BY <1>12 DEF Count, ms
    <2>2. /\ DOMAIN q = DOMAIN r
          /\ q.known_bad = r.known_bad + 1 /\ q.detected_bad = r.detected_bad
          /\ q.known_good = r.known_good /\ q.allowed_good = r.allowed_good
          /\ q.false_negative = r.false_negative + 1 /\ q.false_positive = r.false_positive
          /\ q.misses = ms
        BY ONLY <1>9, <2>1
    <2> HIDE DEF q
    <2>3. C = C0 /\ A = A0 /\ P = P0 /\ Cardinality(M) = Cardinality(M0) + 1 /\ m \in M
        BY <1>2, <1>3, <1>4, <1>5, <1>7, <1>12
    <2>4. q.known_bad = q.detected_bad + q.false_negative
        BY <1>2, <1>3, <1>9, <2>2
    <2>5. /\ q.misses \in Seq(ids) /\ ToSet(q.misses) = {cases[i].case_id : i \in M \cup A}
          /\ Len(q.misses) = Cardinality(M \cup A)
        BY ONLY <1>10, <1>15, <2>2, <2>3
    <2>6. /\ q.detected_bad = Cardinality(C) /\ q.false_negative = Cardinality(M)
          /\ q.false_positive = Cardinality(A) /\ q.allowed_good = Cardinality(P)
          /\ q.known_bad = q.detected_bad + q.false_negative
          /\ q.known_good = q.allowed_good + q.false_positive
        BY ONLY <1>9, <2>2, <2>3, <2>4
    <2>7. Counted(q, cases, m)
        BY <1>9, <2>2, <2>5, <2>6 DEF Counted, C, M, A, P, ids
    <2> QED
        BY <2>7 DEF q
<1>13. CASE ~cases[m].should_block /\ cases[m].blocked
    <2>1. q = [r EXCEPT !.known_good = @ + 1, !.false_positive = @ + 1, !.misses = ms]
        BY <1>13 DEF Count, ms
    <2>2. /\ DOMAIN q = DOMAIN r
          /\ q.known_bad = r.known_bad /\ q.detected_bad = r.detected_bad
          /\ q.known_good = r.known_good + 1 /\ q.allowed_good = r.allowed_good
          /\ q.false_negative = r.false_negative /\ q.false_positive = r.false_positive + 1
          /\ q.misses = ms
        BY ONLY <1>9, <2>1
    <2> HIDE DEF q
    <2>3. C = C0 /\ M = M0 /\ P = P0 /\ Cardinality(A) = Cardinality(A0) + 1 /\ m \in A
        BY <1>2, <1>3, <1>4, <1>5, <1>7, <1>13
    <2>4. q.known_good = q.allowed_good + q.false_positive
        BY <1>4, <1>5, <1>9, <2>2
    <2>5. /\ q.misses \in Seq(ids) /\ ToSet(q.misses) = {cases[i].case_id : i \in M \cup A}
          /\ Len(q.misses) = Cardinality(M \cup A)
        BY ONLY <1>10, <1>15, <2>2, <2>3
    <2>6. /\ q.detected_bad = Cardinality(C) /\ q.false_negative = Cardinality(M)
          /\ q.false_positive = Cardinality(A) /\ q.allowed_good = Cardinality(P)
          /\ q.known_bad = q.detected_bad + q.false_negative
          /\ q.known_good = q.allowed_good + q.false_positive
        BY ONLY <1>9, <2>2, <2>3, <2>4
    <2>7. Counted(q, cases, m)
        BY <1>9, <2>2, <2>5, <2>6 DEF Counted, C, M, A, P, ids
    <2> QED
        BY <2>7 DEF q
<1>14. CASE ~cases[m].should_block /\ ~cases[m].blocked
    <2>1. q = [r EXCEPT !.known_good = @ + 1, !.allowed_good = @ + 1]
        BY <1>14 DEF Count
    <2>2. /\ DOMAIN q = DOMAIN r
          /\ q.known_bad = r.known_bad /\ q.detected_bad = r.detected_bad
          /\ q.known_good = r.known_good + 1 /\ q.allowed_good = r.allowed_good + 1
          /\ q.false_negative = r.false_negative /\ q.false_positive = r.false_positive
          /\ q.misses = r.misses
        BY ONLY <1>9, <2>1
    <2> HIDE DEF q
    <2>3. C = C0 /\ M = M0 /\ A = A0 /\ Cardinality(P) = Cardinality(P0) + 1
        BY <1>2, <1>3, <1>4, <1>5, <1>7, <1>14
    <2>4. q.known_good = q.allowed_good + q.false_positive
        BY <1>4, <1>5, <1>9, <2>2
    <2>5. /\ q.misses \in Seq(ids) /\ ToSet(q.misses) = {cases[i].case_id : i \in M \cup A}
          /\ Len(q.misses) = Cardinality(M \cup A)
        BY ONLY <1>9, <2>2, <2>3
    <2>6. /\ q.detected_bad = Cardinality(C) /\ q.false_negative = Cardinality(M)
          /\ q.false_positive = Cardinality(A) /\ q.allowed_good = Cardinality(P)
          /\ q.known_bad = q.detected_bad + q.false_negative
          /\ q.known_good = q.allowed_good + q.false_positive
        BY ONLY <1>9, <2>2, <2>3, <2>4
    <2>7. Counted(q, cases, m)
        BY <1>9, <2>2, <2>5, <2>6 DEF Counted, C, M, A, P, ids
    <2> QED
        BY <2>7 DEF q
<1> QED
    BY <1>11, <1>12, <1>13, <1>14

LEMMA RecallCounts ==
    ASSUME NEW Ids, NEW n \in Nat, NEW cases \in [1..n -> RecallCase(Ids)]
    PROVE  Counted(calculate_recall(cases), cases, n)
<1>1. PICK f : Folding(f, cases, n) /\ calculate_recall(cases) = f[1..n]
    BY RecallIsFold
<1>2. \A s \in SUBSET (1..n) :
        f[s] = IF s = {} THEN NoCounts ELSE Count(f[s \ {Max(s)}], cases[Max(s)])
    BY <1>1 DEF Folding
<1> DEFINE Good(k) == Counted(f[1..k], cases, k)
<1>3. Good(0)
    <2>1. f[1..0] = NoCounts
        <3>1. 1..0 = {} /\ 1..0 \in SUBSET (1..n)
            OBVIOUS
        <3> QED
            BY <1>2, <3>1
    <2>2. /\ Caught(cases, 0) = {} /\ Missed(cases, 0) = {} /\ Alarms(cases, 0) = {}
          /\ Passed(cases, 0) = {} /\ Missed(cases, 0) \cup Alarms(cases, 0) = {}
        BY DEF Caught, Missed, Alarms, Passed
    <2>3. Cardinality({}) = 0
        BY FS_EmptySet
    <2>4. ToSet(<< >>) = {}
        BY DEF ToSet
    <2>5. << >> \in Seq({cases[i].case_id : i \in DOMAIN cases}) /\ Len(<< >>) = 0
        OBVIOUS
    <2>6. {cases[i].case_id : i \in {}} = {}
        OBVIOUS
    <2> DEFINE r == NoCounts
    <2>7. /\ DOMAIN r = {"known_bad", "detected_bad", "known_good", "allowed_good",
                         "false_negative", "false_positive", "misses"}
          /\ r.detected_bad = 0 /\ r.false_negative = 0 /\ r.false_positive = 0
          /\ r.allowed_good = 0 /\ r.known_bad = 0 /\ r.known_good = 0 /\ r.misses = << >>
        BY DEF NoCounts
    <2> HIDE DEF r
    <2>8. /\ r.misses \in Seq({cases[i].case_id : i \in DOMAIN cases})
          /\ Len(r.misses) = Cardinality(Missed(cases, 0) \cup Alarms(cases, 0))
        BY <2>2, <2>3, <2>5, <2>7
    <2>9. ToSet(r.misses) = {cases[i].case_id : i \in Missed(cases, 0) \cup Alarms(cases, 0)}
        BY <2>2, <2>4, <2>6, <2>7
    <2>10. /\ r.detected_bad = Cardinality(Caught(cases, 0))
           /\ r.false_negative = Cardinality(Missed(cases, 0))
           /\ r.false_positive = Cardinality(Alarms(cases, 0))
           /\ r.allowed_good = Cardinality(Passed(cases, 0))
           /\ r.known_bad = r.detected_bad + r.false_negative
           /\ r.known_good = r.allowed_good + r.false_positive
        <3> HIDE DEF r
        <3>1. 0 = 0 + 0
            OBVIOUS
        <3> QED
            BY ONLY <2>2, <2>3, <2>7, <3>1
    <2>11. Counted(r, cases, 0)
        BY <2>7, <2>8, <2>9, <2>10 DEF Counted
    <2> QED
        BY <2>1, <2>11 DEF r
<1>4. ASSUME NEW k \in 1..n, Good(k - 1)
      PROVE  Good(k)
    <2>1. Max(1..k) = k
        <3>1. k \in Nat /\ 1..k \in SUBSET (0..k) /\ k \in 1..k
            OBVIOUS
        <3>2. Max(1..k) \in 1..k /\ k <= Max(1..k)
            BY <3>1, MaxIsIn
        <3> QED
            BY <3>1, <3>2
    <2>2. (1..k) \ {k} = 1..(k - 1) /\ 1..k \in SUBSET (1..n) /\ 1..k # {}
        <3>1. k \in Nat /\ k \in 1..k /\ \A i \in 1..k : i \in 1..n
            OBVIOUS
        <3>2. \A i : i \in (1..k) \ {k} <=> i \in 1..(k - 1)
            BY <3>1
        <3> QED
            BY <3>1, <3>2
    <2>3. f[1..k] = Count(f[1..(k - 1)], cases[k])
        BY <1>2, <2>1, <2>2
    <2> QED
        BY <1>4, <2>3, CountStep
<1>5. CASE n = 0
    BY <1>1, <1>3, <1>5
<1>6. CASE n # 0
    <2> DEFINE G == {k \in 1..n : Good(k)}
    <2>1. 1 \in 1..n => 1 \in G
        <3>1. 1 - 1 = 0
            OBVIOUS
        <3> HIDE DEF Good
        <3> QED
            BY <1>3, <1>4, <3>1
    <2>2. \A k \in 2..n : k - 1 \in G => k \in G
        <3>1. \A k \in 2..n : k \in 1..n
            OBVIOUS
        <3> HIDE DEF Good
        <3> QED
            BY <1>4, <3>1
    <2>3. 1..n \subseteq G
        <3> HIDE DEF G
        <3> QED
            BY <2>1, <2>2, Climb
    <2>4. n \in 1..n
        BY <1>6
    <2> QED
        BY <1>1, <2>3, <2>4
<1> QED
    BY <1>5, <1>6

----------------------------------------------------------------------------
\* The invariant of a replay.
THEOREM ReplayInvariance == Spec => []RInv
<1>1. Init => RInv
    BY RedTeamAssumption DEF Init, RInv, Spent, NoIntent
<1>2. RInv /\ [Next]_vars => RInv'
    BY RStep
<1> QED
    BY <1>1, <1>2, PTL DEF Spec

\* Types, and that a signed intent is for the case in hand (runner_support.py:110-164).
THEOREM ReplayTypeCorrect == Spec => []TypeOK
<1>1. ASSUME RInv
      PROVE  TypeOK
    <2>1. Len(decisions) \in Nat /\ Len(corpus) \in Nat /\ DOMAIN corpus = 1..Len(corpus)
          /\ DOMAIN decisions = 1..Len(decisions)
        BY <1>1, RedTeamAssumption DEF RInv
    <2>2. \A i \in DOMAIN decisions : i \in DOMAIN corpus
        BY <1>1, <2>1 DEF RInv
    <2>3. store \subseteq {corpus[i].case_id : i \in DOMAIN corpus}
        BY <1>1, <2>2 DEF RInv, Spent
    <2>4. pc \in {"peek", "consume"} => signed.payload.nonce = Case.case_id
        BY <1>1 DEF RInv, sign_intent, action_intent
    <2> QED
        BY <1>1, <2>3, <2>4 DEF RInv, TypeOK
<1> QED
    BY <1>1, ReplayInvariance, PTL

\* Each case of a corpus of any length is decided on its own merits
\* (runner_support.py:110-193).
THEOREM CasesDecidedAlone == Spec => []CasesAreIndependent
<1>1. RInv => CasesAreIndependent
    BY DEF RInv, OnItsMerits, CasesAreIndependent
<1> QED
    BY <1>1, ReplayInvariance, PTL

\* What a report says of a corpus is so, and exit code 0 is given only to a full recall
\* (redteam.py:41-74, redteam_harness.py:43-75).
THEOREM ExitCodeEarned == Spec => []ExitCodeIsEarned
<1>1. ASSUME RInv, result # NoResult
      PROVE  ExitCodeIsEarned
    <2> DEFINE n == Len(corpus)
    <2> DEFINE cases == RecallCases
    <2> DEFINE Those(bad, blocked) == {i \in DOMAIN corpus : /\ corpus[i].should_block = bad
                                                             /\ decisions[i].blocked = blocked}
    <2>1. /\ n \in Nat /\ DOMAIN corpus = 1..n /\ DOMAIN decisions = 1..n
          /\ \A i \in 1..n : corpus[i].should_block \in BOOLEAN /\ decisions[i].blocked \in BOOLEAN
          /\ result = calculate_recall(cases)
          /\ rc = IF result.false_negative = 0 THEN "0" ELSE "1"
        <3>1. Len(decisions) = n /\ decisions \in Seq(Decision)
              /\ result = calculate_recall(cases)
              /\ rc = IF result.false_negative = 0 THEN "0" ELSE "1"
            BY <1>1 DEF RInv, Reported
        <3>2. n \in Nat /\ DOMAIN corpus = 1..n
              /\ \A i \in 1..n : corpus[i].should_block \in BOOLEAN
            BY <1>1, RedTeamAssumption DEF RInv
        <3>3. DOMAIN decisions = 1..n /\ \A i \in 1..n : decisions[i] \in Decision
            BY <3>1, <3>2
        <3>4. \A i \in 1..n : decisions[i].blocked \in BOOLEAN
            BY <3>3, Zenon DEF Decision
        <3> HIDE DEF cases
        <3> QED
            BY <3>1, <3>2, <3>3, <3>4
    <2> DEFINE Ids == {corpus[i].case_id : i \in 1..n}
    <2>2. cases \in [1..n -> RecallCase(Ids)]
          /\ \A i \in 1..n : /\ cases[i].case_id = corpus[i].case_id
                              /\ cases[i].should_block = corpus[i].should_block
                              /\ cases[i].blocked = decisions[i].blocked
        BY <2>1 DEF RecallCases, RecallCase
    <2> HIDE DEF cases, n
    <2>3. Counted(result, cases, n)
        BY <2>1, <2>2, RecallCounts
    <2>4. /\ Those(TRUE, TRUE) = Caught(cases, n) /\ Those(TRUE, FALSE) = Missed(cases, n)
          /\ Those(FALSE, TRUE) = Alarms(cases, n) /\ Those(FALSE, FALSE) = Passed(cases, n)
        BY <2>1, <2>2 DEF Caught, Missed, Alarms, Passed
    <2> DEFINE C == Caught(cases, n)
    <2> DEFINE M == Missed(cases, n)
    <2> DEFINE A == Alarms(cases, n)
    <2> DEFINE P == Passed(cases, n)
    <2>5. /\ Cardinality(C) \in Nat /\ Cardinality(M) \in Nat
          /\ Cardinality(M) = 0 <=> M = {}
        <3>1. IsFiniteSet(1..n)
            BY <2>1, FS_Interval
        <3>2. C \in SUBSET (1..n) /\ M \in SUBSET (1..n)
            BY DEF Caught, Missed
        <3> HIDE DEF C, M
        <3>3. IsFiniteSet(C) /\ IsFiniteSet(M)
            BY <3>1, <3>2, FS_Subset
        <3> QED
            BY <3>3, FS_CardinalityType, FS_EmptySet
    <2>6. /\ result.detected_bad = Cardinality(C) /\ result.false_negative = Cardinality(M)
          /\ result.false_positive = Cardinality(A) /\ result.allowed_good = Cardinality(P)
          /\ result.known_bad = result.detected_bad + result.false_negative
          /\ result.known_good = result.allowed_good + result.false_positive
          /\ Len(result.misses) = Cardinality(M \cup A)
          /\ ToSet(result.misses) = {cases[i].case_id : i \in M \cup A}
        BY <2>3 DEF Counted
    <2>7. {cases[i].case_id : i \in M \cup A} = {corpus[i].case_id : i \in M \cup A}
        <3>1. \A i \in M \cup A : cases[i].case_id = corpus[i].case_id
            BY <2>2 DEF Missed, Alarms
        <3> HIDE DEF M, A
        <3> QED
            BY <3>1
    <2> HIDE DEF C, M, A, P
    <2>8. rc = "0" <=> M = {}
        BY <2>1, <2>5, <2>6
    <2>9. FullRecall(result) <=> M = {}
        BY <2>5, <2>6 DEF FullRecall
    <2>10. /\ Those(TRUE, TRUE) = C /\ Those(TRUE, FALSE) = M
           /\ Those(FALSE, TRUE) = A /\ Those(FALSE, FALSE) = P
        BY <2>4 DEF C, M, A, P
    <2> HIDE DEF Those
    <2>11. LET wrong == Those(TRUE, FALSE) \cup Those(FALSE, TRUE) IN
           /\ rc = "0" <=> Those(TRUE, FALSE) = {}
           /\ rc = "0" <=> FullRecall(result)
           /\ result.detected_bad = Cardinality(Those(TRUE, TRUE))
           /\ result.known_bad = result.detected_bad + result.false_negative
           /\ result.false_positive = Cardinality(Those(FALSE, TRUE))
           /\ result.allowed_good = Cardinality(Those(FALSE, FALSE))
           /\ result.known_good = result.allowed_good + result.false_positive
           /\ Len(result.misses) = Cardinality(wrong)
           /\ {corpus[i].case_id : i \in wrong} = ToSet(result.misses)
        BY <2>6, <2>7, <2>8, <2>9, <2>10
    <2> QED
        BY <2>11 DEF ExitCodeIsEarned, Those
<1>2. RInv => ExitCodeIsEarned
    BY <1>1 DEF ExitCodeIsEarned
<1> QED
    BY <1>2, ReplayInvariance, PTL

\* A run that ends leaves no key behind unless it is killed, and what has ended stays
\* so: of KeysDoNotOutlive only the termination rests on fairness
\* (redteam_harness.py:34-41).
THEOREM KeysGoWithTheRun == Spec => (<>(pc = "done") => KeysDoNotOutlive)
<1> DEFINE Over == pc = "done" /\ (temps = {} \/ rc = "killed")
<1>1. RInv /\ pc = "done" => Over
    BY DEF RInv
<1>2. Over /\ [Next]_vars => Over'
    BY DEF Next, Step, Prepare, Detect, Sign, Peek, Consume, Report, Raise, Kill, vars
<1> HIDE DEF Over
<1>3. KeysDoNotOutlive <=> <>[]Over
    BY PTL DEF KeysDoNotOutlive, Over
<1> QED
    BY <1>1, <1>2, <1>3, ReplayInvariance, PTL DEF Spec
=============================================================================
