----------------------------- MODULE Classifier -----------------------------
(***************************************************************************)
(* classify_tool_call of src/src/model_routing/classifier.py, and the      *)
(* choice of the repository a capital call is bound to, from               *)
(* src/scripts/request_capital_approval.py.  The machine takes one call    *)
(* through the two; a shell command is a sequence of lines, each a         *)
(* sequence of words.                                                      *)
(***************************************************************************)
EXTENDS Registry

CONSTANTS
    Commands,      \* the shell commands
    SinkKind,      \* SinkKind[w]: what lies at path w: "absent", "regular", "special"
    Terminator,    \* Terminator[w]: the delimiter word of a heredoc word
    NoScan,        \* the heredoc scan returns None
    None           \* not computed yet

ASSUME ClassifierAssumption ==
    /\ \A lines \in Commands : lines # << >> /\ lines \in Seq(Seq(Words))
    /\ \A w \in DOMAIN Terminator :
        /\ Terminator[w] \in Words
        /\ {"quote", "address"} \cap Traits[Terminator[w]] = {}
    /\ {None, "refused", "cwd"} \cap Repos = {}
    /\ None \notin {"refused", "cwd"}

VARIABLES
    call,          \* the tool call
    cwd,           \* the resolved directory it is made in
    services,      \* the services of the registry, in its order
    repos,         \* the paths of its repositories, in its order
    c,             \* its CommandClassification
    bound          \* where bind_approval_state looks for the state

vars == <<call, cwd, services, repos, c, bound>>
registered == <<cwd, services, repos>>

Tools == {"bash", "edit", "mcp-read", "mcp-write", "other"}

\* A call of another tool names one path or service.
Calls ==
    {call_ \in [tool : Tools, lines : Commands] :
        call_.tool # "bash" => Len(call_.lines) = 1 /\ Len(call_.lines[1]) = 1}

Text(lines) == FlattenSeq(lines)

----------------------------------------------------------------------------
\* shlex.split raises when a quote is left open.
Unparseable(text) ==
    Cardinality({i \in DOMAIN text : "quote" \in Traits[text[i]]}) % 2 = 1

\* The last token: the last word, with what it is quoted together with.
LastToken(text) ==
    IF "quote" \notin Traits[Last(text)]
    THEN <<Last(text)>>
    ELSE SubSeq(text, SelectLastInSeq(Front(text), LAMBDA w : "quote" \in Traits[w]), Len(text))

\* _target and _bash_target.  The other tools have one path, name or service.
Target(call_) ==
    LET text == Text(call_.lines) IN
    IF call_.tool # "bash" \/ Unparseable(text) \/ Len(text) < 2 THEN text ELSE LastToken(text)

----------------------------------------------------------------------------
\* The first operand: options are passed over.
subcommand_is_read_only(text) ==
    LET i == SelectInSeq(Tail(text), LAMBDA w : "option" \notin Traits[w])
    IN  i # 0 /\ "systemctl-read" \in Traits[Tail(text)[i]]

\* Mutated: a command of several lines is judged by its first words.
is_read_only_bash_AnyLines(lines) ==
    LET text == Text(lines) IN
    /\ text # << >> /\ ~Has(text, "control") /\ ~Unparseable(text)
    /\ \/ "read" \in Traits[text[1]]
       \/ "git" \in Traits[text[1]] /\ Len(text) > 1 /\ "git-read" \in Traits[text[2]]
       \/ "systemctl" \in Traits[text[1]] /\ subcommand_is_read_only(text)

\* _is_read_only_bash: one simple command, on the allowlist.
is_read_only_bash(lines) ==
    LET text == Text(lines) IN
    /\ Len(lines) = 1
    /\ text # << >> /\ ~Has(text, "control") /\ ~Unparseable(text)
    /\ \/ "read" \in Traits[text[1]]
       \/ "git" \in Traits[text[1]] /\ Len(text) > 1 /\ "git-read" \in Traits[text[2]]
       \/ "systemctl" \in Traits[text[1]] /\ subcommand_is_read_only(text)

is_read_only(call_) ==
    CASE call_.tool = "bash"     -> is_read_only_bash(call_.lines)
      [] call_.tool = "mcp-read" -> TRUE
      [] OTHER                   -> FALSE

----------------------------------------------------------------------------
\* A surface guessed from its name is no secret when each of the words that
\* have the shape is a script or a document.
benign_name_shape_match(text, entry) ==
    /\ ~entry.path
    /\ \A i \in DOMAIN text : text[i] \in entry.matches => "script" \in Traits[text[i]]

\* A registered surface, the text of a registered path, or the name of a key
\* that is not a public one.
touches_secret_surface(text) ==
    \/ LET i == vault_surface_entry(text) IN
        i # 0 /\ Surfaces[i].capital /\ ~benign_name_shape_match(text, Surfaces[i])
    \/ \E i \in DOMAIN Surfaces :
        /\ Surfaces[i].path /\ Surfaces[i].capital
        /\ \E j \in DOMAIN text : text[j] \in Surfaces[i].inside
    \/ \E i \in DOMAIN text :
        "artifact" \in Traits[text[i]] /\ "public" \notin Traits[text[i]]

\* Mutated: the command has to begin with the service manager.
capital_service_mutation_Begins(text) ==
    /\ text # << >> /\ "manager" \in Traits[text[1]] /\ Has(text, "verb")
    /\ \E i \in DOMAIN services :
        /\ services[i].capital
        /\ \E needle \in {services[i].name, services[i].pattern} \ {NoText} :
            Mentions(text, needle)

capital_service_mutation(text) ==
    /\ Has(text, "manager") /\ Has(text, "verb")
    /\ \E i \in DOMAIN services :
        /\ services[i].capital
        /\ \E needle \in {services[i].name, services[i].pattern} \ {NoText} :
            Mentions(text, needle)

\* The first address of the text, or the name of a registered one.
references_capital_address(text) ==
    \/ LET i == SelectInSeq(text, LAMBDA w : "address" \in Traits[w]) IN
        i # 0 /\ "capital-address" \in Traits[text[i]]
    \/ Has(text, "capital-env")

----------------------------------------------------------------------------
\* HEREDOC_AUTHORING_HEADER_RE and the checks of the sink: cat > sink <<'EOF'.
authoring_header(line) ==
    /\ Len(line) = 4
    /\ "cat" \in Traits[line[1]] /\ "redirect" \in Traits[line[2]]
    /\ ~Has(line, "quote") /\ "odd" \notin Traits[line[3]]
    /\ line[4] \in DOMAIN Terminator
    /\ SinkKind[line[3]] # "special"
    /\ ~touches_secret_surface(<<line[3]>>)

\* A last newline is harmless.
Chomp(lines) == IF lines # << >> /\ Last(lines) = << >> THEN Front(lines) ELSE lines

\* Mutated: the delimiter may also stand in the body.
heredoc_authoring_scan_LastTerminator(lines) ==
    LET rest == Chomp(Tail(lines)) IN
    IF /\ ~Has(Text(lines), "guard")
       /\ authoring_header(lines[1])
       /\ rest # << >>
       /\ Last(rest) = <<Terminator[lines[1][4]]>>
    THEN lines[1] \o Last(rest)
    ELSE NoScan

\* What is scanned of a command that only writes a text to a file: all but the
\* text.
heredoc_authoring_scan(lines) ==
    LET rest == Chomp(Tail(lines)) IN
    IF /\ ~Has(Text(lines), "guard")
       /\ authoring_header(lines[1])
       /\ rest # << >>
       /\ Last(rest) = <<Terminator[lines[1][4]]>>
       /\ ~Contains(Front(rest), Last(rest))
    THEN lines[1] \o Last(rest)
    ELSE NoScan

\* Mutated: the whole command is scanned.
Haystack_Full(call_) == Text(call_.lines) \o Target(call_)

Haystack(call_) ==
    LET reduced == heredoc_authoring_scan(call_.lines) IN
    (IF call_.tool = "bash" /\ reduced # NoScan THEN reduced ELSE Text(call_.lines))
        \o Target(call_)

\* _classify_capital: the triggers, in their order.
classify_capital(call_) ==
    LET haystack == Haystack(call_) IN
    CASE call_.tool = "edit" ->
            IF touches_secret_surface(Target(call_)) THEN "capital-secret-surface"
                                                     ELSE "authoring-file-write"
      [] call_.tool # "edit" ->
            IF touches_secret_surface(haystack) THEN "capital-secret-surface"
            ELSE IF capital_service_mutation(haystack) THEN "capital-service-mutation"
            ELSE IF Has(haystack, "http-mutation") /\ is_capital_network_target(haystack)
            THEN "capital-cex-order"
            ELSE IF Has(haystack, "transfer") /\ references_capital_address(haystack)
            THEN "capital-address-op"
            ELSE "non-capital"

NonCapital == {"non-capital", "authoring-file-write"}

CapitalReasons ==
    {"capital-secret-surface", "capital-service-mutation", "capital-cex-order",
     "capital-address-op"}

\* Mutated: reading a secret stays read-only.
classify_tool_call_SecretRead(call_) ==
    LET reason == classify_capital(call_) IN
    [is_capital     |-> reason \notin NonCapital,
     capital_reason |-> reason,
     is_read_only   |-> is_read_only(call_),
     repo_id        |-> classify_path(repos, cwd),
     target         |-> Target(call_)]

\* A secret needs an intent even when it is only read.
classify_tool_call(call_) ==
    LET reason == classify_capital(call_) IN
    [is_capital     |-> reason \notin NonCapital,
     capital_reason |-> reason,
     is_read_only   |-> is_read_only(call_) /\ reason # "capital-secret-surface",
     repo_id        |-> classify_path(repos, cwd),
     target         |-> Target(call_)]

Gated == c.is_capital /\ ~c.is_read_only

----------------------------------------------------------------------------
\* _requires_service_repo_binding, and _requires_repo_state_binding of the hook.
requires_service_repo_binding ==
    c.capital_reason = "capital-service-mutation" \/ Has(Text(call.lines), "deploy")

\* The first service whose name occurs in the command, else the target.
service_name_for_classification ==
    LET i == SelectInSeq(services,
                LAMBDA s : s.name # NoText /\ Mentions(Text(call.lines), s.name))
    IN  IF i = 0 THEN c.target ELSE <<services[i].name>>

Init ==
    /\ call \in Calls
    /\ c = None /\ bound = None

Classify ==
    /\ c = None
    /\ c' = classify_tool_call(call)
    /\ UNCHANGED <<call, registered, bound>>

\* bind_approval_state, up to the hash: the directory it is taken of.
BindService ==
    /\ c # None /\ bound = None
    /\ Gated /\ requires_service_repo_binding
    /\ LET repo == repo_for_service(services, service_name_for_classification) IN
        bound' = IF repo = NoRepo THEN "refused" ELSE repo
    /\ UNCHANGED <<call, registered, c>>

BindDirectory ==
    /\ c # None /\ bound = None
    /\ Gated /\ ~requires_service_repo_binding
    /\ bound' = "cwd"
    /\ UNCHANGED <<call, registered, c>>

Next == Classify \/ BindService \/ BindDirectory

\* The configuration may hold any entries, in any order.
Registered ==
    /\ services \in Seq(Services)
    /\ repos \in Seq(Repositories)
    /\ cwd \in Seq(Components)

Spec == Registered /\ Init /\ [][Next]_vars

----------------------------------------------------------------------------
\* Types; a call that touches a secret always needs an intent.
TypeOK ==
    /\ call \in Calls
    /\ Registered
    /\ c # None =>
        /\ c.capital_reason \in CapitalReasons \cup NonCapital
        /\ c.capital_reason = "capital-secret-surface" => Gated
    /\ bound \in Repos \cup {None, "refused", "cwd"}

\* How a shell reads the command, for comparison: a simple cat command with a
\* quoted heredoc and an ordinary file as its sink only writes the lines up to
\* the first that is the delimiter.  Every other line is run.
WrittenLines(lines) ==
    LET header == lines[1]
        heredocs == {i \in DOMAIN header : header[i] \in DOMAIN Terminator}
        ends(i) == {j \in 2..Len(lines) : lines[j] = <<Terminator[header[i]]>>}
    IN  IF /\ header # << >> /\ "cat" \in Traits[header[1]]
           /\ ~Has(header, "guard")
           /\ \E i \in DOMAIN header : /\ "redirect" \in Traits[header[i]]
                                       /\ i + 1 \in DOMAIN header
                                       /\ SinkKind[header[i + 1]] # "special"
        THEN UNION {{j \in 2..Len(lines) : \A k \in ends(i) : j < k} : i \in heredocs}
        ELSE {}

RunLines(lines) == DOMAIN lines \ WrittenLines(lines)

\* The heredoc rule leaves out only text that the shell writes to a file, never
\* a line it runs: behind a second delimiter, on the line of the delimiter,
\* with another reader or another kind of sink.
NothingRunIsUnscanned ==
    c # None /\ call.tool = "bash" =>
        \A i \in RunLines(call.lines) :
            ToSet(call.lines[i]) \subseteq ToSet(Haystack(call))

\* A line that starts a service manager on a registered capital service is never
\* let through, on whichever line of the command the shell runs it.  (A word may
\* hold a manager or a verb and still be the path of cat, an option or is-enabled.)
MutatesCapitalService(line) ==
    /\ Len(line) > 2
    /\ "manager" \in Traits[line[1]] /\ {"read", "git"} \cap Traits[line[1]] = {}
    /\ "verb" \in Traits[line[2]] /\ {"option", "systemctl-read"} \cap Traits[line[2]] = {}
    /\ \E i \in DOMAIN services :
        /\ services[i].capital /\ services[i].name # NoText
        /\ Contains(line, services[i].name)

MutationsAreGated ==
    c # None /\ call.tool = "bash" =>
        \A i \in RunLines(call.lines) : MutatesCapitalService(call.lines[i]) => Gated

\* The repository whose state is signed is that of a capital service the command
\* mentions, whatever order and overlapping names and patterns the registry has;
\* with no such service the approval is refused.
BoundRepoIsOfAMentionedService ==
    bound \in Repos =>
        \E i \in DOMAIN services :
            /\ services[i].capital /\ services[i].repo = bound
            /\ \E needle \in {services[i].name, services[i].pattern} \ {NoText} :
                Mentions(Text(call.lines), needle)

\* The command with nothing to write: its first line and its delimiter.
WithoutText(lines) == <<lines[1], <<Terminator[lines[1][4]]>>>>

\* "strips only the body from the scan" (README.md:78): a command of the one
\* recognised shape is classified by its first line, its delimiter and the
\* registry alone, whatever it writes, as long as its quotes are balanced.  With
\* one apostrophe too many the whole command is the target, and the target is
\* scanned.
AuthoringIsFree ==
    (/\ c # None /\ call.tool = "bash"
     /\ heredoc_authoring_scan(call.lines) # NoScan
     /\ ~Unparseable(Text(call.lines)))
        => c.capital_reason = classify_capital([call EXCEPT !.lines = WithoutText(@)])

\* Words that the registry may have an entry of its own for: of the surfaces, and of
\* the hosts, the first entry that matches a text decides.
FirstDecides(w) ==
    \/ \E i \in DOMAIN Surfaces : w \in Surfaces[i].matches
    \/ \E i \in DOMAIN Hosts : w \in Hosts[i].matches

WithoutWord(lines, i, j) == [lines EXCEPT ![i] = RemoveAt(@, j)]

\* A word put anywhere into a command, a quote or a separator included, takes a
\* capital command out of the triggers in three ways only: the lines come to make
\* the recognised heredoc; the word is an address, of which the first in a command
\* is looked up and no other (the claim this breaks is NamedAddressIsCapital); or a
\* word of a registered surface or host comes to be scanned, that word or one of a
\* text that was only written before, and its entry is the first that matches.
\* (An option and its argument, as in -X POST, are one word.)
NoWordDilutes ==
    c # None /\ call.tool = "bash" /\ ~c.is_capital
             /\ heredoc_authoring_scan(call.lines) = NoScan
        => \A i \in DOMAIN call.lines : \A j \in DOMAIN call.lines[i] :
            LET shorter == [call EXCEPT !.lines = WithoutWord(@, i, j)]
                more == ToSet(Haystack(call)) \ ToSet(Haystack(shorter))
            IN  "address" \notin Traits[call.lines[i][j]] /\ (\A w \in more : ~FirstDecides(w))
                    => classify_capital(shorter) \in NonCapital

\* A call is capital if it is "a transfer-shaped operation naming a registered
\* capital address", and "commands are scanned in full so a trigger cannot be
\* smuggled by position" (README.md:55): wherever in the command the two stand,
\* unless the lines make the recognised heredoc.
NamedAddressIsCapital ==
    c # None /\ call.tool = "bash" /\ heredoc_authoring_scan(call.lines) = NoScan
             /\ Has(Text(call.lines), "transfer") /\ Has(Text(call.lines), "capital-address")
        => c.is_capital

\* An intent is bound to a repo_id, so the label must not depend on how the
\* repositories happen to be listed: it is of a registered repository that
\* contains the directory, no registered one lies between the two, and a
\* directory outside all of them has none.
LabelIsOfNearestRepo ==
    c # None =>
        LET above == {i \in DOMAIN repos : IsPrefix(repos[i].path, cwd)} IN
        /\ c.repo_id = NoLabel <=> above = {}
        /\ \A i \in above : repos[i].id = c.repo_id
                \/ \E j \in above : /\ repos[j].id = c.repo_id
                                    /\ IsPrefix(repos[i].path, repos[j].path)
============================================================================
