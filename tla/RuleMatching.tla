---------------------------- MODULE RuleMatching ----------------------------
(***************************************************************************)
(* Which rules a build applies.  Two rounds load the available rules from  *)
(* the embedded and the custom rule files, match them with every compile   *)
(* command of a dry build, a goroutine per command, and gather the rule    *)
(* sets in the order in which the goroutines deliver them; a third round   *)
(* only imports what the second has matched.  What otel.runtime.go imports *)
(* decides which packages the next dry build compiles.  At the end the     *)
(* paths of the matched rules are rectified and the sets are stored.       *)
(*                                                                         *)
(* A version is a positive number, or 0 where the path of a source file    *)
(* has none; a bound 0 of a range is an omitted one.                       *)
(***************************************************************************)
EXTENDS Naturals, Sequences, FiniteSets

CONSTANTS
  Rule,        \* the rules, 1 .. n, in the order of the files that hold them
  Default,     \* the embedded rule files, a subset of the rule files
  Attribute,   \* the attributes of the rules, functions of Rule
  Cmd,         \* the compile commands
  ImportPath,  \* the package each compiles, a function of Cmd
  Project,     \* the projects
  Config       \* the configurations

Base == "base.json"

\* The base rules are embedded.  A rule's path is given as a URL or as a local
\* one; a command names its files.
ASSUME MatchingAssumption ==
  /\ IsFiniteSet(Cmd)
  /\ IsFiniteSet(Rule) /\ Rule = 1 .. Cardinality(Rule)
  /\ Base \in Default
  /\ \A g \in Config : g.custom \in Seq(STRING)
  /\ \A a \in Attribute, r \in Rule :
       a[r].path \in [root : {"url", "local"}, dir : {a[r].path.dir}]
  /\ \A p \in Project, c \in Cmd : p.decl[c] \in Seq(SUBSET Rule)

\* A rule without a version matches any.
Unranged == [any |-> TRUE, start |-> 0, end |-> 0]
From(start, end) == [any |-> FALSE, start |-> start, end |-> end]

VARIABLES
  attr,       \* of a rule: file; pkg, its ImportPath; kind, one of "func",
              \* "raw", "struct" and "file"; needs, its Dependencies; version
              \* and go, ranges; brings, the packages its hook code imports;
              \* path, [root, dir], root one of "url" and "local"
  project,    \* app, the packages compiled anyway; version, of each package;
              \* go, the Go version; decl, for each command the functions
              \* each of its source files declares, as the rules they match
  conf,       \* disable, "none", "all" or "some"; disabled, the files then;
              \* custom, a sequence of rule files; bad, those that cannot be
              \* loaded
  round,      \* the round
  pc,         \* "deps", "load", "match", "update", "stored" or "exited"
  imports,    \* the rules whose hook code otel.runtime.go imports
  available,  \* the rules a matcher was made with
  worker,     \* the goroutine of each command: "none", "match", "send", "done"
  result,     \* the rule set each has made
  bundles,    \* the commands whose valid rule sets were gathered, in order
  todo,       \* the rules updateRule has still to go through, each as a pair of
              \* the place of its rule set among the bundles and the rule
  rectified,  \* the paths it has produced
  path,       \* the path of each rule
  joined      \* how often the path was joined to each file rule's FileName

input == <<attr, project, conf>>
vars == <<attr, project, conf, round, pc, imports, available, worker, result,
          bundles, todo, rectified, path, joined>>

NoResult == <<>>

Init ==
  /\ attr \in Attribute
  /\ project \in Project
  /\ conf \in Config
  /\ round = 0
  /\ pc = "deps"
  /\ imports = {}
  /\ available = {}
  /\ worker = [c \in Cmd |-> "none"]
  /\ result = [c \in Cmd |-> NoResult]
  /\ bundles = <<>>
  /\ todo = {}
  /\ rectified = {}
  /\ path = [r \in Rule |-> attr[r].path]
  /\ joined = [r \in Rule |-> 0]
-----------------------------------------------------------------------------
(* Loading.                                                                *)

RulesOf(F) == {r \in Rule : attr[r].file \in F}

\* The embedded files that are not disabled.
EnabledFiles ==
  CASE conf.disable = "all"  -> {Base}
    [] conf.disable = "some" -> Default \ conf.disabled
    [] OTHER                 -> Default

\* loadDefaultRules: without base.json there are no default rules at all.
DefaultRules == IF Base \in EnabledFiles THEN RulesOf(EnabledFiles) ELSE {}

\* findAvailableRules: of several custom files those that cannot be loaded
\* are left out; if there is one and it cannot be loaded, nothing is left.
AvailableRules ==
  IF Len(conf.custom) = 1 /\ conf.custom[1] \in conf.bad THEN {}
  ELSE DefaultRules \union
         RulesOf({conf.custom[i] : i \in 1 .. Len(conf.custom)} \ conf.bad)

\* The order in which they are loaded: the default rules, then the custom files
\* one after the other; no file is named twice.
Place(r) == IF attr[r].file \in Default THEN 0
            ELSE CHOOSE i \in 1 .. Len(conf.custom) : conf.custom[i] = attr[r].file
LoadedBefore(q, r) == Place(q) < Place(r) \/ (Place(q) = Place(r) /\ q < r)

\* The one of S that is looked at first: a matcher starts with the last rule.
FirstOf(S) == CHOOSE r \in S : \A q \in S \ {r} : LoadedBefore(q, r)

\* The packages the dry build compiles.
Compiled == project.app \union UNION {attr[r].brings : r \in imports}
Commands == {c \in Cmd : ImportPath[c] \in Compiled}
-----------------------------------------------------------------------------
(* Matching.                                                               *)

\* matchVersion, which exits on the range "[,)".
Senseless(range) == ~ range.any /\ range.start = 0 /\ range.end = 0
MatchVersion(v, range) ==
  \/ range.any
  \/ /\ v # 0
     /\ range.start = 0 \/ v >= range.start
     /\ range.end = 0 \/ v < range.end

\* Mutant: dependencies are not looked at.
MatchDependenciesNone(r) == TRUE

MatchDependencies(r) ==
  attr[r].kind \in {"func", "raw"} => attr[r].needs \subseteq Compiled

\* Rule r takes source file k of command c.
Hits(r, c, k) ==
  /\ MatchVersion(project.version[ImportPath[c]], attr[r].version)
  /\ MatchVersion(project.go, attr[r].go)
  /\ attr[r].kind = "file" \/ r \in project.decl[c][k]

\* The rules of the command's package whose dependencies are there.
Candidates(c) == {r \in available : attr[r].pkg = ImportPath[c] /\ MatchDependencies(r)}

\* Mutant: a rule that has taken a file stays a candidate.
LeftAfterKept(c) == [k \in 0 .. Len(project.decl[c]) |-> Candidates(c)]

\* The candidates left after the first k source files: one that takes a file is
\* removed.
LeftAfter(c) ==
  LET left[k \in 0 .. Len(project.decl[c])] ==
        IF k = 0 THEN Candidates(c) ELSE {r \in left[k - 1] : ~ Hits(r, c, k)}
  IN  left

\* match: for each source file the candidates still there that take it.
RuleSet(c) == [k \in 1 .. Len(project.decl[c]) |->
  {r \in LeftAfter(c)[k - 1] : Hits(r, c, k)}]

\* Some candidate's range makes matchVersion exit.  A version that is missing
\* is an error before that.
Exits(c) == \E r \in Candidates(c) :
  /\ Len(project.decl[c]) > 0
  /\ \/ Senseless(attr[r].version) /\ project.version[ImportPath[c]] # 0
     \/ /\ Senseless(attr[r].go)
        /\ MatchVersion(project.version[ImportPath[c]], attr[r].version)

IsValid(set) == \E k \in 1 .. Len(set) : set[k] # {}

RulesIn(c) == UNION {result[c][k] : k \in 1 .. Len(result[c])}
Matched == UNION {RulesIn(bundles[i]) : i \in 1 .. Len(bundles)}
-----------------------------------------------------------------------------
\* newDeps: otel.runtime.go imports the hook code of the matched func rules.
\* After the last round updateRule goes through the func and the file rules.
NewDeps ==
  /\ pc = "deps"
  /\ imports' = {r \in Matched : attr[r].kind = "func"}
  /\ pc' = IF round = 2 THEN "update" ELSE "load"
  /\ todo' = IF round = 2
             THEN {p \in (1 .. Len(bundles)) \X Rule :
                     /\ p[2] \in RulesIn(bundles[p[1]])
                     /\ attr[p[2]].kind \in {"func", "file"}}
             ELSE {}
  /\ UNCHANGED <<input, round, available, worker, result, bundles, rectified, path, joined>>

\* matchRules: a new matcher, and a goroutine for every command.
MatchRules ==
  /\ pc = "load"
  /\ available' = AvailableRules
  /\ worker' = [c \in Cmd |-> IF c \in Commands THEN "match" ELSE "none"]
  /\ result' = [c \in Cmd |-> NoResult]
  /\ bundles' = <<>>
  /\ pc' = "match"
  /\ UNCHANGED <<input, round, imports, todo, rectified, path, joined>>

\* Mutant: a command without a candidate delivers nothing.
MatchSilent(c) ==
  /\ pc = "match" /\ worker[c] = "match" /\ ~ Exits(c)
  /\ result' = [result EXCEPT ![c] = RuleSet(c)]
  /\ worker' = [worker EXCEPT ![c] = IF Candidates(c) = {} THEN "none" ELSE "send"]
  /\ UNCHANGED <<input, round, pc, imports, available, bundles, todo, rectified, path, joined>>

\* runMatch up to its send; the goroutine reads only what nobody writes.
Match(c) ==
  /\ pc = "match" /\ worker[c] = "match" /\ ~ Exits(c)
  /\ result' = [result EXCEPT ![c] = RuleSet(c)]
  /\ worker' = [worker EXCEPT ![c] = "send"]
  /\ UNCHANGED <<input, round, pc, imports, available, bundles, todo, rectified, path, joined>>

MatchExits(c) ==
  /\ pc = "match" /\ worker[c] = "match" /\ Exits(c)
  /\ pc' = "exited"
  /\ UNCHANGED <<input, round, imports, available, worker, result, bundles, todo,
                 rectified, path, joined>>

\* The channel has no buffer: a rule set is sent when it is received.
Receive(c) ==
  /\ pc = "match" /\ worker[c] = "send"
  /\ worker' = [worker EXCEPT ![c] = "done"]
  /\ bundles' = IF IsValid(result[c]) THEN Append(bundles, c) ELSE bundles
  /\ UNCHANGED <<input, round, pc, imports, available, result, todo, rectified, path, joined>>

\* As many rule sets were received as there are commands.
Gathered ==
  /\ pc = "match"
  /\ Cardinality({c \in Cmd : worker[c] = "done"}) = Cardinality(Commands)
  /\ round' = round + 1
  /\ pc' = "deps"
  /\ UNCHANGED <<input, imports, available, worker, result, bundles, todo, rectified, path, joined>>
-----------------------------------------------------------------------------
\* findRuleDir: a local path stays, another one is looked up in the pkg module.
RuleDir(r) == IF path[r].root = "local" THEN path[r] ELSE [path[r] EXCEPT !.root = "pkg"]

\* updateRule goes through one rule set after the other, in each first through
\* the func rules, which a map holds, then through the file rules in order.
Upcoming(i, r) ==
  /\ <<i, r>> \in todo /\ \A p \in todo : i <= p[1]
  /\ LET files == {q \in Rule : <<i, q>> \in todo /\ attr[q].kind = "file"}
     IN  IF r \in files THEN r = FirstOf(files) /\ \A p \in todo : p[1] = i => p[2] \in files
         ELSE TRUE

\* A rule set may be there twice, with the same rules: a path that was
\* rectified is not rectified again.
UpdateRule(i, r) ==
  /\ pc = "update" /\ Upcoming(i, r)
  /\ IF path[r] \in rectified THEN UNCHANGED <<path, rectified, joined>>
     ELSE /\ path' = [path EXCEPT ![r] = RuleDir(r)]
          /\ rectified' = rectified \union {RuleDir(r)}
          /\ joined' = [joined EXCEPT ![r] = IF attr[r].kind = "file" THEN @ + 1 ELSE @]
  /\ todo' = todo \ {<<i, r>>}
  /\ UNCHANGED <<input, round, pc, imports, available, worker, result, bundles>>

Store ==
  /\ pc = "update" /\ todo = {}
  /\ pc' = "stored"
  /\ UNCHANGED <<input, round, imports, available, worker, result, bundles, todo,
                 rectified, path, joined>>

Next == \/ NewDeps \/ MatchRules \/ Gathered \/ Store
        \/ \E c \in Cmd : Match(c) \/ MatchExits(c) \/ Receive(c)
        \/ \E i \in 1 .. Len(bundles), r \in Rule : UpdateRule(i, r)

\* The goroutines are scheduled, and the tool goes on.
Spec == Init /\ [][Next]_vars /\ WF_vars(Next)
-----------------------------------------------------------------------------
(* Properties.                                                             *)

Ended == pc \in {"stored", "exited"}

\* Every variable has its type.
TypeOK ==
  /\ round \in 0 .. 2
  /\ pc \in {"deps", "load", "match", "update", "stored", "exited"}
  /\ imports \subseteq Rule
  /\ available \subseteq Rule
  /\ worker \in [Cmd -> {"none", "match", "send", "done"}]
  /\ result \in [Cmd -> Seq(SUBSET Rule)]
  /\ bundles \in Seq(Cmd) /\ todo \subseteq Nat \X Rule
  /\ DOMAIN path = Rule /\ joined \in [Rule -> Nat]

\* Every variable has its type, and a rule set has each rule in one file at
\* most, and in none only if the rule is not there for the package or fits no
\* file.
RuleSetExact == TypeOK /\ \A i \in 1 .. Len(bundles) :
  LET c == bundles[i]
      In(r) == {k \in 1 .. Len(result[c]) : r \in result[c][k]}
  IN  \A r \in Rule :
        /\ \A j, k \in In(r) : j = k
        /\ \A k \in In(r) : Hits(r, c, k) /\ attr[r].pkg = ImportPath[c]
        /\ pc \in {"match", "deps"} /\ In(r) = {} /\ r \in Candidates(c)
             => \A k \in 1 .. Len(project.decl[c]) : ~ Hits(r, c, k)

\* The hook code of every stored func rule is imported by otel.runtime.go,
\* and no other: the injected calls link, and nothing else is pulled in.
HooksLinked == pc = "stored" => imports = {r \in Matched : attr[r].kind = "func"}

\* Importing the hook code of the last match takes no package away: every
\* stored rule is for a package that the build compiles, with all that it
\* depends on.
StillCompiled == pc = "stored" => \A r \in Matched :
  /\ attr[r].pkg \in Compiled
  /\ attr[r].kind \in {"func", "raw"} => attr[r].needs \subseteq Compiled

\* Every file rule of the pkg module has its file name joined to its path
\* once, whoever shares the path or the rule.
RectifiedOnce == pc = "stored" => \A r \in Matched :
  attr[r].kind = "file" /\ attr[r].path.root = "url" =>
    joined[r] = 1 /\ path[r].root = "pkg"

\* What is stored fits the build that follows: its hook code is linked, what
\* it needs is compiled, its file rules can be found.
StoredFits == HooksLinked /\ StillCompiled /\ RectifiedOnce

\* The unbuffered channel leaves nobody waiting: all rounds come to an end.
MatchingEnds == <>Ended
=============================================================================
