---------------------------- MODULE BrokerProofs ----------------------------
(***************************************************************************)
(* What Broker guarantees for any number of callers, checks and nonces,    *)
(* whatever fails.  The inductive invariant is the conservation law of the *)
(* nonce files, SpentIsAccounted, with the types and the bound on uses:    *)
(* AtMostOnce alone is not inductive, because it says nothing of a caller  *)
(* that has created the file and not answered yet.                         *)
(***************************************************************************)
EXTENDS Broker, TLAPS

IInv == TypeOK /\ SpentIsAccounted /\ AtMostOnce

\* verify_peek answers one of the listed reasons.
LEMMA PeekReason ==
    ASSUME NEW si, NEW key, NEW expected, NEW now
    PROVE  verify_peek(si, key, expected, now) \in Reasons
<1> DEFINE r == verify_signed_payload(si, key, expected, now)
<1>1. r \in Reasons
    BY DEF verify_signed_payload, Reasons
<1>2. verify_peek(si, key, expected, now) \in {"missing-nonce", r}
    BY DEF verify_peek
<1> QED
    BY <1>1, <1>2 DEF Reasons

\* "ok" of verify_peek means: a payload with a nonce, bound to what was
\* expected, signed with the key and not expired.
LEMMA PeekOk ==
    ASSUME NEW si, NEW key, NEW expected, NEW now,
           verify_peek(si, key, expected, now) = "ok"
    PROVE  /\ "payload" \in DOMAIN si
           /\ Binds(si.payload, expected)
           /\ Get(si, "signature", << >>) = <<key, si.payload>>
           /\ ~ Get(si.payload, "expires_at", 0) < now
           /\ Get(si.payload, "nonce", NoNonce) # NoNonce
<1> DEFINE r == verify_signed_payload(si, key, expected, now)
<1>1. r = "ok"
    BY DEF verify_peek
<1>2. Get(si.payload, "nonce", NoNonce) # NoNonce
    BY <1>1 DEF verify_peek
<1>3. "payload" \in DOMAIN si
    BY <1>1 DEF verify_signed_payload
<1>4. Binds(si.payload, expected)
    BY <1>1, <1>3 DEF verify_signed_payload
<1>5. Get(si, "signature", << >>) = <<key, si.payload>>
    BY <1>1, <1>3, <1>4 DEF verify_signed_payload
<1>6. ~ Get(si.payload, "expires_at", 0) < now
    BY <1>1, <1>3, <1>4, <1>5 DEF verify_signed_payload
<1> QED
    BY <1>2, <1>3, <1>4, <1>5, <1>6

\* A verdict is an answer, and never the one of a caller still at work.
LEMMA VerdictAnswer ==
    ASSUME NEW k, NEW key, NEW now
    PROVE  /\ Verdict(k, key, now) \in Answers
           /\ Verdict(k, key, now) # "in-progress"
<1>1. Verdict(k, key, now) \in Reasons \cup {"not-capital-mutation", "missing-capital-intent"}
    BY PeekReason DEF Verdict
<1> QED
    BY <1>1 DEF Answers, Reasons

\* A check that goes on to spend a nonce carries one of the nonces.
LEMMA SpendsNonce ==
    ASSUME NEW k \in Checks, NEW key, NEW now, Spends(k, Verdict(k, key, now))
    PROVE  NonceOf(k) \in Nonces
<1> DEFINE si == k.signed_intent
<1>1. Verdict(k, key, now) = "ok"
    BY DEF Spends
<1>2. "signed_intent" \in DOMAIN k
    BY <1>1 DEF Verdict
<1>3. verify_peek(si, key, Expected(k), now) = "ok"
    BY <1>1, <1>2 DEF Verdict
<1>4. "payload" \in DOMAIN si /\ Get(si.payload, "nonce", NoNonce) # NoNonce
    BY <1>3, PeekOk
<1>5. Get(si.payload, "nonce", NoNonce) \in Nonces
    BY <1>2, <1>4, BrokerAssumption
<1>6. Get(si.payload, "nonce", NoNonce) = si.payload.nonce
    BY <1>4 DEF Get
<1> QED
    BY <1>5, <1>6 DEF NonceOf

LEMMA InitIInv == Init => IInv
<1> SUFFICES ASSUME Init PROVE IInv
    OBVIOUS
<1>1. TypeOK
    BY BrokerAssumption DEF Init, TypeOK, Call, Answers
<1>2. SpentIsAccounted /\ AtMostOnce
    BY DEF Init, SpentIsAccounted, AtMostOnce, Writers
<1> QED
    BY <1>1, <1>2 DEF IInv

\* A step preserves the types.
LEMMA StepTypeOK ==
    ASSUME TypeOK, [Next]_vars
    PROVE  TypeOK'
<1>1. CASE Tick
    BY <1>1, BrokerAssumption DEF TypeOK, Tick, Call, Nonce
<1>2. ASSUME NEW c \in Callers, Step(c)
      PROVE  TypeOK'
    <2>1. ASSUME NEW k \in Checks, Answer(c, k)
          PROVE  TypeOK'
        <3>1. PICK key \in PublicKeys :
                caller' = [caller EXCEPT ![c] =
                    [pc |-> "idle", check |-> k, now |-> clock,
                     ans |-> Verdict(k, key, clock)]]
            BY <2>1 DEF Answer
        <3>2. caller' \in [Callers -> Call]
            BY <3>1, VerdictAnswer DEF TypeOK, Call
        <3> QED
            BY <2>1, <3>1, <3>2, VerdictAnswer DEF TypeOK, Answer, Nonce
    <2>2. ASSUME NEW k \in Checks, Proceed(c, k)
          PROVE  TypeOK'
        <3>1. NonceOf(k) \in Nonces
            BY <2>2, SpendsNonce DEF Proceed
        <3>2. caller' \in [Callers -> Call]
            BY <2>2 DEF Proceed, TypeOK, Call, Answers
        <3> QED
            BY <2>2, <3>1, <3>2, BrokerAssumption DEF TypeOK, Proceed, Nonce
    <2>3. CASE Claim(c)
        BY <2>3 DEF TypeOK, Claim, Call, Nonce
    <2>4. CASE Replay(c)
        BY <2>4 DEF TypeOK, Replay, Return, Call, Nonce, Answers
    <2>5. CASE Finish(c)
        BY <2>5 DEF TypeOK, Finish, Return, Call, Nonce, Answers, Reasons
    <2>6. CASE RaiseBeforeClaim(c)
        BY <2>6 DEF TypeOK, RaiseBeforeClaim, Return, Call, Nonce, Answers
    <2>7. CASE RaiseAfterClaim(c)
        BY <2>7 DEF TypeOK, RaiseAfterClaim, Return, Call, Nonce, Answers
    <2> QED
        BY <1>2, <2>1, <2>2, <2>3, <2>4, <2>5, <2>6, <2>7 DEF Step
<1>3. CASE UNCHANGED vars
    BY <1>3 DEF TypeOK, vars, Nonce
<1> QED
    BY <1>1, <1>2, <1>3 DEF Next

\* No caller but c changes what it is doing.
OnlyMoves(c) == \A d \in Callers : d # c => caller'[d] = caller[d]

\* The callers between create and answer change only by the caller that moves.
LEMMA WritersOf ==
    ASSUME NEW c \in Callers, OnlyMoves(c), NEW n \in Nonces
    PROVE  Writers(n)' = (Writers(n) \ {c}) \cup
                         (IF caller'[c].pc = "write" /\ Nonce(c)' = n THEN {c} ELSE {})
    BY DEF Writers, Nonce, OnlyMoves

\* A step of a caller that is outside create and answer, before and after.
LEMMA OutsideAccounted ==
    ASSUME SpentIsAccounted, AtMostOnce, NEW c \in Callers, OnlyMoves(c),
           caller[c].pc # "write", caller'[c].pc # "write",
           UNCHANGED <<store, uses, burnt>>
    PROVE  SpentIsAccounted' /\ AtMostOnce'
<1>1. \A n \in Nonces : Writers(n)' = Writers(n)
    BY WritersOf DEF Writers
<1> QED
    BY <1>1 DEF SpentIsAccounted, AtMostOnce

\* A caller that is about to answer is the only writer of its nonce.
LEMMA WriterLeaves ==
    ASSUME TypeOK, SpentIsAccounted, NEW c \in Callers, OnlyMoves(c),
           caller[c].pc = "write", caller'[c].pc = "idle"
    PROVE  /\ Nonce(c) \in Nonces
           /\ Nonce(c) \in store
           /\ Nonce(c) \notin burnt
           /\ uses[Nonce(c)] = 0
           /\ \A n \in Nonces : Writers(n)' = IF n = Nonce(c) THEN {} ELSE Writers(n)
<1>1. Nonce(c) \in Nonces /\ c \in Writers(Nonce(c))
    BY DEF TypeOK, Writers
<1>2. \A n \in Nonces : n # Nonce(c) => c \notin Writers(n)
    BY DEF Writers
<1>3. /\ Nonce(c) \in store /\ Nonce(c) \notin burnt /\ uses[Nonce(c)] = 0
      /\ \A d \in Writers(Nonce(c)) : d = c
    BY <1>1 DEF SpentIsAccounted
<1>4. \A n \in Nonces : Writers(n)' = Writers(n) \ {c}
    BY WritersOf
<1> QED
    BY <1>1, <1>2, <1>3, <1>4

\* A step preserves the conservation law, and with it the bound on uses.
LEMMA StepAccounted ==
    ASSUME IInv, [Next]_vars
    PROVE  SpentIsAccounted' /\ AtMostOnce'
<1> USE DEF IInv
<1>1. CASE Tick
    BY <1>1 DEF Tick, SpentIsAccounted, AtMostOnce, Writers, Nonce
<1>2. ASSUME NEW c \in Callers, Step(c)
      PROVE  SpentIsAccounted' /\ AtMostOnce'
    <2>1. ASSUME NEW k \in Checks, Answer(c, k)
          PROVE  SpentIsAccounted' /\ AtMostOnce'
        <3>1. OnlyMoves(c) /\ caller[c].pc # "write" /\ caller'[c].pc # "write"
            BY <2>1 DEF Answer, TypeOK, Call, OnlyMoves
        <3> QED
            BY <2>1, <3>1, OutsideAccounted DEF Answer
    <2>2. ASSUME NEW k \in Checks, Proceed(c, k)
          PROVE  SpentIsAccounted' /\ AtMostOnce'
        <3>1. OnlyMoves(c) /\ caller[c].pc # "write" /\ caller'[c].pc # "write"
            BY <2>2 DEF Proceed, TypeOK, Call, OnlyMoves
        <3> QED
            BY <2>2, <3>1, OutsideAccounted DEF Proceed
    <2>3. CASE Claim(c)
        <3>1. /\ OnlyMoves(c) /\ caller'[c].pc = "write" /\ Nonce(c)' = Nonce(c)
              /\ Nonce(c) \in Nonces
            BY <2>3 DEF Claim, TypeOK, Call, OnlyMoves, Nonce
        <3>2. \A n \in Nonces : n # Nonce(c) => Writers(n)' = Writers(n)
            BY <2>3, <3>1, WritersOf DEF Claim, Writers
        <3>3. Writers(Nonce(c)) = {} /\ uses[Nonce(c)] = 0 /\ Nonce(c) \notin burnt
            BY <2>3, <3>1 DEF Claim, TypeOK, SpentIsAccounted
        <3>4. \A n \in Nonces : n = Nonce(c) => Writers(n)' = {c}
            BY <3>1, <3>3, WritersOf
        <3>5. AtMostOnce'
            BY <2>3 DEF Claim, AtMostOnce
        <3>6. SpentIsAccounted'
            BY <2>3, <3>2, <3>3, <3>4 DEF Claim, SpentIsAccounted
        <3> QED
            BY <3>5, <3>6
    <2>4. CASE Replay(c)
        <3>1. OnlyMoves(c) /\ caller[c].pc # "write" /\ caller'[c].pc # "write"
            BY <2>4 DEF Replay, Return, TypeOK, Call, OnlyMoves
        <3> QED
            BY <2>4, <3>1, OutsideAccounted DEF Replay
    <2>5. CASE RaiseBeforeClaim(c)
        <3>1. OnlyMoves(c) /\ caller[c].pc # "write" /\ caller'[c].pc # "write"
            BY <2>5 DEF RaiseBeforeClaim, Return, TypeOK, Call, OnlyMoves
        <3> QED
            BY <2>5, <3>1, OutsideAccounted DEF RaiseBeforeClaim
    <2>6. CASE Finish(c)
        <3>1. OnlyMoves(c) /\ caller[c].pc = "write" /\ caller'[c].pc = "idle"
            BY <2>6 DEF Finish, Return, TypeOK, Call, OnlyMoves
        <3>2. uses[Nonce(c)] = 0
            BY <3>1, WriterLeaves
        <3>3. \A n \in Nonces : uses'[n] = IF n = Nonce(c) THEN 1 ELSE uses[n]
            BY <2>6, <3>2 DEF Finish, TypeOK
        <3>4. AtMostOnce'
            BY <3>3 DEF AtMostOnce
        <3>5. SpentIsAccounted'
            BY <2>6, <3>1, <3>3, WriterLeaves DEF Finish, SpentIsAccounted
        <3> QED
            BY <3>4, <3>5
    <2>7. CASE RaiseAfterClaim(c)
        <3>1. OnlyMoves(c) /\ caller[c].pc = "write" /\ caller'[c].pc = "idle"
            BY <2>7 DEF RaiseAfterClaim, Return, TypeOK, Call, OnlyMoves
        <3>2. AtMostOnce'
            BY <2>7 DEF RaiseAfterClaim, AtMostOnce
        <3>3. SpentIsAccounted'
            BY <2>7, <3>1, WriterLeaves DEF RaiseAfterClaim, SpentIsAccounted
        <3> QED
            BY <3>2, <3>3
    <2> QED
        BY <1>2, <2>1, <2>2, <2>3, <2>4, <2>5, <2>6, <2>7 DEF Step
<1>3. CASE UNCHANGED vars
    BY <1>3 DEF vars, SpentIsAccounted, AtMostOnce, Writers, Nonce
<1> QED
    BY <1>1, <1>2, <1>3 DEF Next

\* The inductive invariant holds in every reachable state.
THEOREM Invariance == Spec => []IInv
<1>1. IInv /\ [Next]_vars => IInv'
    BY StepTypeOK, StepAccounted DEF IInv
<1> QED
    BY <1>1, InitIInv, PTL DEF Spec

\* Types of the verifiers' state, for any number of callers and checks.
THEOREM TypeCorrect == Spec => []TypeOK
    BY Invariance, PTL DEF IInv

\* No nonce ever authorises two actions, through any mixture of broker and
\* pre-receive checks, with any exceptions and process deaths.
THEOREM NonceUsedOnce == Spec => []AtMostOnce
    BY Invariance, PTL DEF IInv

\* Every nonce file is accounted for by exactly one caller, for ever.
THEOREM NonceConserved == Spec => []SpentIsAccounted
    BY Invariance, PTL DEF IInv
----------------------------------------------------------------------------
\* A verdict of "ok" means the intent authorises the very thing checked.
LEMMA VerdictOk ==
    ASSUME NEW k \in Checks, NEW now, Verdict(k, GatekeeperKey, now) = "ok"
    PROVE  Authorises(k, now)
<1> DEFINE si == k.signed_intent
<1>1. verify_peek(si, GatekeeperKey, Expected(k), now) = "ok"
    BY DEF Verdict
<1>2. /\ Binds(si.payload, Expected(k))
      /\ Get(si, "signature", << >>) = <<GatekeeperKey, si.payload>>
      /\ ~ Get(si.payload, "expires_at", 0) < now
    BY <1>1, PeekOk
<1>3. ASSUME k.stage = "authoritative-pre-receive"
      PROVE  /\ si.payload.action_type = "git-push"
             /\ si.payload.target = k.push.ref_name
             /\ si.payload.tree_sha = k.push.new_sha
    <2>1. Binds(si.payload, prereceive_expected(k.push))
        BY <1>2, <1>3 DEF Expected
    <2> QED
        BY <2>1 DEF Binds, prereceive_expected
<1>4. ASSUME k.stage # "authoritative-pre-receive"
      PROVE  /\ si.payload.exact_action = k.classification.exact_action
             /\ si.payload.cwd = k.classification.cwd
             /\ si.payload.host = k.classification.host
    <2>1. Binds(si.payload, expected_from_classification(k.classification))
        BY <1>2, <1>4 DEF Expected
    <2> QED
        BY <2>1 DEF Binds, expected_from_classification
<1> QED
    BY <1>2, <1>3, <1>4 DEF Authorises

\* The unreadable public key accepts nothing: an "ok" needs the signature of a
\* key pair, and no intent is signed with NoKey.
LEMMA NoKeyRefuses ==
    ASSUME NEW k, NEW now
    PROVE  Verdict(k, NoKey, now) # "ok"
<1> SUFFICES ASSUME Verdict(k, NoKey, now) = "ok" PROVE FALSE
    OBVIOUS
<1> DEFINE r == verify_signed_payload(k.signed_intent, NoKey, Expected(k), now)
<1>1. verify_peek(k.signed_intent, NoKey, Expected(k), now) = "ok"
    BY DEF Verdict
<1>2. r = "ok"
    BY <1>1 DEF verify_peek
<1>3. r # "ok"
    BY DEF verify_signed_payload
<1> QED
    BY <1>2, <1>3

\* What AcceptedMatches needs of a caller that has not answered yet: the
\* intent it is about to be told "ok" for already authorises its check.
MatchInv ==
    \A c \in Callers :
        (caller[c].pc # "idle" \/ caller[c].ans = "ok")
            => Authorises(caller[c].check, caller[c].now)

\* A step preserves MatchInv: verdicts establish it, mark_seen only carries it.
LEMMA StepMatch ==
    ASSUME TypeOK, MatchInv, [Next]_vars
    PROVE  MatchInv'
<1>1. CASE Tick
    BY <1>1 DEF Tick, MatchInv
<1>2. ASSUME NEW c \in Callers, Step(c)
      PROVE  MatchInv'
    <2>1. ASSUME NEW k \in Checks, Answer(c, k)
          PROVE  MatchInv'
        <3>1. PICK key \in PublicKeys :
                caller' = [caller EXCEPT ![c] =
                    [pc |-> "idle", check |-> k, now |-> clock,
                     ans |-> Verdict(k, key, clock)]]
            BY <2>1 DEF Answer
        <3>2. Verdict(k, key, clock) = "ok" => Authorises(k, clock)
            BY VerdictOk, NoKeyRefuses DEF PublicKeys
        <3> QED
            BY <3>1, <3>2 DEF MatchInv, TypeOK
    <2>2. ASSUME NEW k \in Checks, Proceed(c, k)
          PROVE  MatchInv'
        <3>1. Authorises(k, clock)
            BY <2>2, VerdictOk DEF Proceed, Spends
        <3> QED
            BY <2>2, <3>1 DEF Proceed, MatchInv, TypeOK
    <2>3. CASE Claim(c)
        BY <2>3 DEF Claim, MatchInv, TypeOK
    <2>4. CASE Replay(c)
        BY <2>4 DEF Replay, Return, MatchInv, TypeOK
    <2>5. CASE Finish(c)
        BY <2>5 DEF Finish, Return, MatchInv, TypeOK
    <2>6. CASE RaiseBeforeClaim(c)
        BY <2>6 DEF RaiseBeforeClaim, Return, MatchInv, TypeOK
    <2>7. CASE RaiseAfterClaim(c)
        BY <2>7 DEF RaiseAfterClaim, Return, MatchInv, TypeOK
    <2> QED
        BY <1>2, <2>1, <2>2, <2>3, <2>4, <2>5, <2>6, <2>7 DEF Step
<1>3. CASE UNCHANGED vars
    BY <1>3 DEF vars, MatchInv
<1> QED
    BY <1>1, <1>2, <1>3 DEF Next

\* Whatever a verifier accepts was signed by the gatekeeper for that very call
\* or push and had not expired at the clock it read, however long it then
\* took to spend the nonce.
THEOREM AcceptedWasAuthorised == Spec => []AcceptedMatches
<1>1. Init => MatchInv
    BY DEF Init, MatchInv
<1>2. TypeOK /\ MatchInv /\ [Next]_vars => MatchInv'
    BY StepMatch
<1>3. MatchInv => AcceptedMatches
    BY DEF MatchInv, AcceptedMatches
<1> QED
    BY <1>1, <1>2, <1>3, TypeCorrect, PTL DEF Spec

----------------------------------------------------------------------------
\* Checks that neither finish nor fail a spending leave the abstract token alone.
LEMMA StepRefines ==
    ASSUME IInv, IInv', [Next]_vars
    PROVE  [Abstract!Next]_NonceState
<1> USE DEF IInv
<1>1. ASSUME UNCHANGED <<uses, burnt>>
      PROVE  UNCHANGED NonceState
    BY <1>1 DEF NonceState, StateOf
<1>2. ASSUME NEW c \in Callers, Finish(c)
      PROVE  Abstract!Use(Nonce(c)) /\ Nonce(c) \in Nonces
    <2>1. OnlyMoves(c) /\ caller[c].pc = "write" /\ caller'[c].pc = "idle"
        BY <1>2 DEF Finish, Return, TypeOK, Call, OnlyMoves
    <2>2. Nonce(c) \in Nonces /\ uses[Nonce(c)] = 0 /\ Nonce(c) \notin burnt
        BY <2>1, WriterLeaves
    <2>3. burnt' = burnt /\ \A n \in Nonces : uses'[n] = IF n = Nonce(c) THEN 1 ELSE uses[n]
        BY <1>2, <2>2 DEF Finish, TypeOK
    <2>4. NonceState[Nonce(c)] = "live"
        BY <2>2 DEF NonceState, StateOf
    <2>5. \A n \in Nonces : StateOf(n)' = IF n = Nonce(c) THEN "used" ELSE StateOf(n)
        BY <2>2, <2>3 DEF StateOf
    <2>6. NonceState' = [NonceState EXCEPT ![Nonce(c)] = "used"]
        BY <2>5 DEF NonceState
    <2> QED
        BY <2>2, <2>4, <2>6 DEF Abstract!Use, Abstract!Move
<1>3. ASSUME NEW c \in Callers, RaiseAfterClaim(c)
      PROVE  Abstract!Void(Nonce(c)) /\ Nonce(c) \in Nonces
    <2>1. OnlyMoves(c) /\ caller[c].pc = "write" /\ caller'[c].pc = "idle"
        BY <1>3 DEF RaiseAfterClaim, Return, TypeOK, Call, OnlyMoves
    <2>2. Nonce(c) \in Nonces /\ uses[Nonce(c)] = 0 /\ Nonce(c) \notin burnt
        BY <2>1, WriterLeaves
    <2>3. uses' = uses /\ burnt' = burnt \cup {Nonce(c)}
        BY <1>3 DEF RaiseAfterClaim
    <2>4. NonceState[Nonce(c)] = "live"
        BY <2>2 DEF NonceState, StateOf
    <2>5. \A n \in Nonces : StateOf(n)' = IF n = Nonce(c) THEN "void" ELSE StateOf(n)
        BY <2>2, <2>3 DEF StateOf
    <2>6. NonceState' = [NonceState EXCEPT ![Nonce(c)] = "void"]
        BY <2>5 DEF NonceState
    <2> QED
        BY <2>2, <2>4, <2>6 DEF Abstract!Void, Abstract!Move
<1>4. CASE UNCHANGED vars
    BY <1>1, <1>4 DEF vars
<1>5. CASE Tick
    BY <1>1, <1>5 DEF Tick
<1>6. ASSUME NEW c \in Callers, Step(c)
      PROVE  UNCHANGED <<uses, burnt>> \/ Finish(c) \/ RaiseAfterClaim(c)
    BY <1>6 DEF Step, Answer, Proceed, Claim, Replay, RaiseBeforeClaim
<1> QED
    BY <1>1, <1>2, <1>3, <1>4, <1>5, <1>6 DEF Next, Abstract!Next

\* The verifiers over one nonce store implement one-shot tokens: a step either
\* leaves every token alone, uses a live one, or voids a live one.
THEOREM BrokerImplementsOneShot == Spec => ImplementsOneShot
<1>1. Init => Abstract!Init
    BY DEF Init, Abstract!Init, NonceState, StateOf
<1>2. IInv /\ IInv' /\ [Next]_vars => [Abstract!Next]_NonceState
    BY StepRefines
<1> QED
    BY <1>1, <1>2, Invariance, PTL DEF Spec, ImplementsOneShot, Abstract!Spec
=============================================================================
