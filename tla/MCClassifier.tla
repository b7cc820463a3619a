---------------------------- MODULE MCClassifier ----------------------------
(***************************************************************************)
(* The instance of Classifier that TLC checks.  Commands of one line, of   *)
(* any words, are tried with many registries; commands of several lines,   *)
(* any of the lines in any order, with one.  A string stands for the word  *)
(* it spells; "signer" is a service whose name occurs in that of another.  *)
(***************************************************************************)
EXTENDS Classifier

CONSTANTS MaxLines, MaxWords

\* What each word that has any traits has of them.
Lexicon ==
    [systemctl |-> {"manager", "systemctl"}, restart |-> {"verb"},
     status    |-> {"systemctl-read"},       quiet   |-> {"option"},
     git       |-> {"git"},                  log     |-> {"git-read"},
     cat       |-> {"read", "cat", "systemctl-read"}, into    |-> {"control", "redirect"},
     semicolon |-> {"control", "guard"},     dont    |-> {"quote"},
     quotedEOF |-> {"control"},              bareEOF |-> {"control"},
     deploy    |-> {"deploy"},               script  |-> {"script"},
     key       |-> {"artifact"},             pubkey  |-> {"artifact", "public"},
     post      |-> {"http-mutation", "option"},        pay     |-> {"transfer"},
     vault     |-> {"address", "capital-address"}, friend |-> {"address"},
     expanding |-> {"odd"},                  unit |-> {"manager", "verb", "http-mutation"}]

OtherWords ==
    {"signer", "signer-web", "exchange", "mirror", "spec", "link", "EOF", "EOF_", "hello",
     "bash", "bundle"}

MCWords == DOMAIN Lexicon \cup OtherWords

MCTraits == [w \in MCWords |-> IF w \in DOMAIN Lexicon THEN Lexicon[w] ELSE {}]

Itself == [w \in MCWords |-> {w}]

MCOccurs ==
    [contains |-> [Itself EXCEPT !["signer"] = {"signer", "signer-web", "unit"}],
     prefix   |-> [Itself EXCEPT !["signer"] = {"signer", "signer-web"}],
     suffix   |-> Itself]

MCSurfaces ==
    << [path |-> FALSE, capital |-> TRUE, matches |-> {"bundle", "script"}, inside |-> {}] >>

MCHosts ==
    << [matches |-> {"mirror"}, capital |-> FALSE],
       [matches |-> {"exchange", "unit"}, capital |-> TRUE] >>

MCSinkKind ==
    [w \in MCWords |-> IF w = "link" THEN "special" ELSE IF w = "spec" THEN "regular" ELSE "absent"]

MCTerminator == [quotedEOF |-> "EOF"]

\* The lines that commands of several lines are made of.
Lines ==
    {<<"cat", "into", "spec", "quotedEOF">>, <<"cat", "into", "link", "quotedEOF">>,
     <<"cat", "into", "spec", "bareEOF">>, <<"cat", "into", "unit", "quotedEOF">>,
     <<"mirror", "semicolon">>, <<"cat", "into", "bundle", "quotedEOF">>,
     <<"bash", "quotedEOF">>, <<"EOF">>, <<"EOF_">>, << >>, <<"git", "log">>,
     <<"systemctl", "restart", "signer">>, <<"dont", "systemctl", "restart", "signer">>,
     <<"EOF", "semicolon", "systemctl", "restart", "signer">>}

LineWords ==
    {"systemctl", "restart", "status", "quiet", "signer", "signer-web", "deploy", "cat",
     "script", "key", "pubkey", "post", "exchange", "mirror", "pay", "vault", "friend",
     "dont", "semicolon"}

MCCommands ==
    (BoundedSeq(Lines, MaxLines) \ {<< >>})
        \cup {<<line>> : line \in BoundedSeq(LineWords, MaxWords)}

Entry(name, pattern, match, capital, repo) ==
    [name |-> name, pattern |-> pattern, match |-> match, capital |-> capital, repo |-> repo]

ServiceEntries ==
    {Entry("signer", NoText, "exact", TRUE, "engine"),
     Entry("signer", NoText, "exact", TRUE, NoRepo),
     Entry("signer-web", NoText, "exact", TRUE, "web"),
     Entry("signer-web", NoText, "exact", FALSE, "web"),
     Entry(NoText, "signer", "contains", FALSE, "web"),
     Entry(NoText, "signer", "prefix", TRUE, "web")}

\* Nested repositories, one of them registered by two paths.
Paths == {<<"home">>, <<"home", "engine">>, <<"home", "engine", "signer">>}

RepoEntries ==
    {[path |-> <<"home">>, id |-> "home"], [path |-> <<"home", "engine">>, id |-> "engine"],
     [path |-> <<"home", "engine", "signer">>, id |-> "signer"],
     [path |-> <<"opt">>, id |-> "engine"]}

Example == <<Entry("signer", NoText, "exact", TRUE, "engine")>>

MCInit ==
    /\ Init
    /\ services \in IF Len(call.lines) > 1 THEN {Example} ELSE BoundedSeq(ServiceEntries, 2)
    /\ cwd \in IF call.lines = <<<<"git", "log">>>> THEN Paths ELSE {<<"home">>}
    /\ repos \in IF call.lines = <<<<"git", "log">>>> /\ services = Example
                 THEN BoundedSeq(RepoEntries, 3) ELSE {<< >>}

MCSpec == MCInit /\ [][Next]_vars
============================================================================
