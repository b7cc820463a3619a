------------------------------- MODULE Broker -------------------------------
(***************************************************************************)
(* The verifiers of src/src/model_routing/lifecycle.py over one NonceStore *)
(* (intents.py): the local peek, the authoritative broker and the          *)
(* authoritative pre-receive check, called by concurrent processes.  A     *)
(* check that must spend a nonce is three steps: judge the intent at the   *)
(* clock read on entry, create the nonce's file with O_EXCL, write it.     *)
(* Anything may go between two steps of a caller: other callers, time and, *)
(* with Faults, an exception or the death of the process.                  *)
(***************************************************************************)
EXTENDS Intents

CONSTANTS Callers,     \* the processes that call the checks
          Checks,      \* the arguments a check is called with
          NoCheck,     \* a caller that has not called yet
          Nonces,      \* the nonces intents carry
          Faults,      \* may the file system or the process fail?
          MaxClock     \* bound on the clock

Stages == {"local-peek", "authoritative-consume", "authoritative-pre-receive"}

\* The nonce of a check that carries an intent.
NonceOf(k) == k.signed_intent.payload.nonce

ASSUME BrokerAssumption ==
    /\ MaxClock \in Nat
    /\ Faults \in BOOLEAN
    /\ NoCheck \notin Checks
    /\ \A k \in Checks :
        /\ k.stage \in Stages
        /\ k.stage = "authoritative-pre-receive" => "signed_intent" \in DOMAIN k
        /\ "signed_intent" \in DOMAIN k =>
           ("payload" \in DOMAIN k.signed_intent =>
            Get(k.signed_intent.payload, "nonce", NoNonce) \in Nonces \cup {NoNonce})

VARIABLES clock,    \* int(time.time())
          store,    \* the nonces whose file exists in NonceStore.path
          caller,   \* the call each process is in, or was last in
          uses,     \* history: authoritative "ok"s per nonce, counted up to 2
          burnt     \* history: nonces whose file exists and whose caller failed

vars == <<clock, store, caller, uses, burnt>>

Answers == Reasons \cup {"nonce-replay", "not-capital-mutation",
                         "missing-capital-intent", "raised", "in-progress", "none"}

Call == [pc : {"idle", "mark", "write"}, check : Checks \cup {NoCheck},
         now : 0..MaxClock, ans : Answers]

Init ==
    /\ clock = 0
    /\ store = {}
    /\ caller = [c \in Callers |->
                    [pc |-> "idle", check |-> NoCheck, now |-> 0, ans |-> "none"]]
    /\ uses = [n \in Nonces |-> 0]
    /\ burnt = {}

Tick ==
    /\ clock < MaxClock
    /\ clock' = clock + 1
    /\ UNCHANGED <<store, caller, uses, burnt>>

----------------------------------------------------------------------------
\* What the check asks the intent to be bound to.
Expected(k) ==
    IF k.stage = "authoritative-pre-receive"
    THEN prereceive_expected(k.push)
    ELSE expected_from_classification(k.classification)

\* All a check decides without the nonce store.
Verdict(k, public_key, now) ==
    IF /\ k.stage # "authoritative-pre-receive"
       /\ ~requires_approval(k.classification)
    THEN "not-capital-mutation"
    ELSE IF "signed_intent" \notin DOMAIN k
    THEN "missing-capital-intent"
    ELSE verify_peek(k.signed_intent, public_key, Expected(k), now)

\* The public key is read on every check; reading it may fail.
PublicKeys == {GatekeeperKey} \cup (IF Faults THEN {NoKey} ELSE {})

Spends(k, verdict) == verdict = "ok" /\ k.stage # "local-peek"

\* A check that answers without spending: every refusal, a call that is not
\* capital, and every local peek.
Answer(c, k) ==
    /\ caller[c].pc = "idle"
    /\ \E public_key \in PublicKeys :
        LET verdict == Verdict(k, public_key, clock) IN
        /\ ~Spends(k, verdict)
        /\ caller' = [caller EXCEPT ![c] =
                [pc |-> "idle", check |-> k, now |-> clock, ans |-> verdict]]
    /\ UNCHANGED <<clock, store, uses, burnt>>

\* verify_intent is satisfied and goes on to NonceStore.mark_seen.
Proceed(c, k) ==
    /\ caller[c].pc = "idle"
    /\ Spends(k, Verdict(k, GatekeeperKey, clock))
    /\ caller' = [caller EXCEPT ![c] =
            [pc |-> "mark", check |-> k, now |-> clock, ans |-> "in-progress"]]
    /\ UNCHANGED <<clock, store, uses, burnt>>

Return(c, ans) ==
    caller' = [caller EXCEPT ![c].pc = "idle", ![c].ans = ans]

Nonce(c) == NonceOf(caller[c].check)

\* Mutated: the file is opened without O_EXCL.
Claim_NoExcl(c) ==
    /\ caller[c].pc = "mark"
    /\ store' = store \cup {Nonce(c)}
    /\ caller' = [caller EXCEPT ![c].pc = "write"]
    /\ UNCHANGED <<clock, uses, burnt>>

\* Mutated: the two results of mark_seen are swapped.
Claim_Swapped(c) ==
    /\ caller[c].pc = "mark"
    /\ Nonce(c) \notin store
    /\ store' = store \cup {Nonce(c)}
    /\ Return(c, "nonce-replay")
    /\ UNCHANGED <<clock, uses, burnt>>

\* mark_seen: os.open with O_CREAT | O_EXCL creates the file.
Claim(c) ==
    /\ caller[c].pc = "mark"
    /\ Nonce(c) \notin store
    /\ store' = store \cup {Nonce(c)}
    /\ caller' = [caller EXCEPT ![c].pc = "write"]
    /\ UNCHANGED <<clock, uses, burnt>>

\* Mutated: a replay removes the file on its way out.
Replay_Removes(c) ==
    /\ caller[c].pc = "mark"
    /\ Nonce(c) \in store
    /\ Return(c, "nonce-replay")
    /\ store' = store \ {Nonce(c)}
    /\ UNCHANGED <<clock, uses, burnt>>

\* Mutated: the branch of FileExistsError forgets its answer.
Replay_NoAnswer(c) ==
    /\ caller[c].pc = "mark"
    /\ Nonce(c) \in store
    /\ Return(c, "in-progress")
    /\ UNCHANGED <<clock, store, uses, burnt>>

\* mark_seen: FileExistsError.
Replay(c) ==
    /\ caller[c].pc = "mark"
    /\ Nonce(c) \in store
    /\ Return(c, "nonce-replay")
    /\ UNCHANGED <<clock, store, uses, burnt>>

\* mark_seen: the file is written and closed, and the check answers "ok".
Finish(c) ==
    /\ caller[c].pc = "write"
    /\ Return(c, "ok")
    /\ uses' = [uses EXCEPT ![Nonce(c)] = IF @ < 2 THEN @ + 1 ELSE @]
    /\ UNCHANGED <<clock, store, burnt>>

\* mkdir or open raises, or the process dies, before the file exists.
RaiseBeforeClaim(c) ==
    /\ Faults
    /\ caller[c].pc = "mark"
    /\ Return(c, "raised")
    /\ UNCHANGED <<clock, store, uses, burnt>>

\* Mutated: a failed write removes the file again.
RaiseAfterClaim_Removes(c) ==
    /\ Faults
    /\ caller[c].pc = "write"
    /\ Return(c, "raised")
    /\ store' = store \ {Nonce(c)}
    /\ burnt' = burnt \cup {Nonce(c)}
    /\ UNCHANGED <<clock, uses>>

\* The write raises, or the process dies, when the file exists: nobody
\* removes the file, so the nonce is spent without an "ok".
RaiseAfterClaim(c) ==
    /\ Faults
    /\ caller[c].pc = "write"
    /\ Return(c, "raised")
    /\ burnt' = burnt \cup {Nonce(c)}
    /\ UNCHANGED <<clock, store, uses>>

Step(c) ==
    \/ \E k \in Checks : Answer(c, k) \/ Proceed(c, k)
    \/ Claim(c) \/ Replay(c) \/ Finish(c)
    \/ RaiseBeforeClaim(c) \/ RaiseAfterClaim(c)

Next == Tick \/ \E c \in Callers : Step(c)

Spec == Init /\ [][Next]_vars

\* A caller inside mark_seen is running code: it goes on until it returns.
\* Nobody has to call.
Fairness == \A c \in Callers : WF_vars(Claim(c) \/ Replay(c) \/ Finish(c))

FairSpec == Spec /\ Fairness

----------------------------------------------------------------------------
\* Types; a caller has an answer exactly when it is not inside a check.
TypeOK ==
    /\ clock \in 0..MaxClock
    /\ store \subseteq Nonces
    /\ caller \in [Callers -> Call]
    /\ uses \in [Nonces -> 0..2]
    /\ burnt \subseteq Nonces
    /\ \A c \in Callers :
        /\ caller[c].pc = "idle" <=> caller[c].ans # "in-progress"
        /\ caller[c].pc # "idle" => caller[c].check # NoCheck /\ Nonce(c) \in Nonces

\* A nonce authorises at most one action, whichever mixture of broker and
\* pre-receive checks races for it: O_EXCL is the commit of mark_seen.
AtMostOnce == \A n \in Nonces : uses[n] <= 1

Writers(n) == {c \in Callers : caller[c].pc = "write" /\ Nonce(c) = n}

\* Conservation: the file of a nonce exists because of exactly one caller, which
\* answered "ok", failed after the create, or is still writing.  No file is
\* left by a caller that saw a replay, none disappears, and a burnt nonce is
\* never accepted later.
SpentIsAccounted ==
    \A n \in Nonces :
        /\ n \in store <=> (uses[n] > 0 \/ n \in burnt \/ Writers(n) # {})
        /\ \A c, d \in Writers(n) : c = d
        /\ n \in burnt => uses[n] = 0
        /\ Writers(n) # {} => (uses[n] = 0 /\ n \notin burnt)

\* An authoritative "ok" was given for a gatekeeper-signed intent, not expired
\* at the clock the check read, that names the very call or push checked.
Authorises(k, now) ==
    LET si == k.signed_intent IN
    /\ Get(si, "signature", << >>) = <<GatekeeperKey, si.payload>>
    /\ ~ Get(si.payload, "expires_at", 0) < now
    /\ k.stage = "authoritative-pre-receive" =>
        /\ si.payload.action_type = "git-push"
        /\ si.payload.target = k.push.ref_name
        /\ si.payload.tree_sha = k.push.new_sha
    /\ k.stage # "authoritative-pre-receive" =>
        /\ si.payload.exact_action = k.classification.exact_action
        /\ si.payload.cwd = k.classification.cwd
        /\ si.payload.host = k.classification.host

AcceptedMatches ==
    \A c \in Callers :
        caller[c].ans = "ok" => Authorises(caller[c].check, caller[c].now)

\* The refinement mapping: what has become of each nonce.
StateOf(n) ==
    IF uses[n] = 0
    THEN IF n \in burnt THEN "void" ELSE "live"
    ELSE IF uses[n] = 1 /\ n \notin burnt THEN "used" ELSE "conflict"

NonceState == [n \in Nonces |-> StateOf(n)]

Abstract == INSTANCE OneShot WITH Tokens <- Nonces, state <- NonceState

\* Every behaviour of the checks is one of one-shot tokens.
ImplementsOneShot == Abstract!Spec

\* A contest for a nonce is decided: whoever is about to create its file, the
\* nonce ends up used, or its caller has failed.  It is never the case that
\* everybody saw a replay of a nonce nobody used.
Contested(n) == \E c \in Callers : caller[c].pc = "mark" /\ Nonce(c) = n

Failed(n) == \E c \in Callers : caller[c].ans = "raised" /\ Nonce(c) = n

ContestIsWon ==
    \A n \in Nonces : Contested(n) ~> (uses[n] = 1 \/ n \in burnt \/ Failed(n))
============================================================================
