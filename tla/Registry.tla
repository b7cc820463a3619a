------------------------------ MODULE Registry ------------------------------
(***************************************************************************)
(* Look-ups of the capital registry, src/src/model_routing/registry.py.    *)
(* A text is a sequence of words, the pieces between blanks; of a word the *)
(* registry asks which registered strings occur in it, and where.  Letter  *)
(* case is left out; a resolved path is the sequence of its components.    *)
(***************************************************************************)
EXTENDS Naturals, SequencesExt

CONSTANTS
    Words,         \* the words of the calls and the strings of the registry
    Traits,        \* Traits[w]: what the regular expressions look for in w
    Occurs,        \* Occurs[mode][s]: the words string s occurs in, that way
    Surfaces,      \* vault_surfaces: a sequence of entries
    Hosts,         \* capital_network_targets: a sequence of entries
    Repos,         \* repository paths
    Components,    \* the components of paths
    Labels,        \* the ids of the repositories
    NoText,        \* a missing name or pattern
    NoRepo,        \* a missing repo_path
    NoLabel        \* the repo_id None

MatchModes == {"contains", "prefix", "suffix"}

ASSUME RegistryAssumption ==
    /\ NoText \notin Words
    /\ NoRepo \notin Repos
    /\ NoLabel \notin Labels
    /\ Surfaces \in Seq([path : BOOLEAN, capital : BOOLEAN,
                         matches : SUBSET Words, inside : SUBSET Words])
    /\ Hosts \in Seq([matches : SUBSET Words, capital : BOOLEAN])
    /\ Occurs \in [MatchModes -> [Words -> SUBSET Words]]
    /\ \A s \in Words :
        /\ s \in Occurs["contains"][s]
        /\ Occurs["prefix"][s] \cup Occurs["suffix"][s] \subseteq Occurs["contains"][s]
        /\ \A t \in Occurs["contains"][s] : Occurs["contains"][t] \subseteq Occurs["contains"][s]

Services ==
    [name : Words \cup {NoText}, pattern : Words \cup {NoText},
     match : MatchModes \cup {"exact"}, capital : BOOLEAN, repo : Repos \cup {NoRepo}]

Repositories == [path : Seq(Components), id : Labels]

\* Mutated: the first repository that contains the path decides.
classify_path_First(repos, path) ==
    LET i == SelectInSeq(repos, LAMBDA repo : IsPrefix(repo.path, path))
    IN  IF i = 0 THEN NoLabel ELSE repos[i].id

\* classify_path: the repo_id of the longest registered path that contains path,
\* of the first one if it is registered twice.
classify_path(repos, path) ==
    LET matches == {i \in DOMAIN repos : IsPrefix(repos[i].path, path)}
        longest == {i \in matches : \A j \in matches :
                        \/ Len(repos[j].path) < Len(repos[i].path)
                        \/ Len(repos[j].path) = Len(repos[i].path) /\ i <= j}
    IN  IF matches = {} THEN NoLabel ELSE repos[CHOOSE i \in longest : TRUE].id

Has(text, trait) == \E i \in DOMAIN text : trait \in Traits[text[i]]

\* "s in text": s has no blank, so it occurs in one of the words.
Mentions(text, s) == \E i \in DOMAIN text : text[i] \in Occurs["contains"][s]

\* The first entry one of whose strings occurs in the text, or 0.
FirstMatch(entries, text) ==
    SelectInSeq(entries, LAMBDA entry : \E i \in DOMAIN text : text[i] \in entry.matches)

vault_surface_entry(text) == FirstMatch(Surfaces, text)

\* The first target that occurs decides.
is_capital_network_target(text) ==
    LET i == FirstMatch(Hosts, text) IN i # 0 /\ Hosts[i].capital

\* A pattern counts only with a match mode other than the default "exact".
service_matches(text, service) ==
    \/ text = <<service.name>>
    \/ /\ service.pattern # NoText /\ service.match # "exact" /\ text # << >>
       /\ CASE service.match = "contains" -> Mentions(text, service.pattern)
            [] service.match = "prefix"   -> text[1] \in Occurs["prefix"][service.pattern]
            [] service.match = "suffix"   -> Last(text) \in Occurs["suffix"][service.pattern]

\* Mutated: services that are not capital are not passed over.
repo_for_service_Any(services, text) ==
    LET i == SelectInSeq(services, LAMBDA s : service_matches(text, s))
    IN  IF i = 0 THEN NoRepo ELSE services[i].repo

\* The repository of the first capital service that matches.
repo_for_service(services, text) ==
    LET i == SelectInSeq(services, LAMBDA s : service_matches(text, s) /\ s.capital)
    IN  IF i = 0 THEN NoRepo ELSE services[i].repo
============================================================================
