------------------------- MODULE RuleMatchingProofs -------------------------
(* Proofs about RuleMatching and InstrumentPhase, for any rules, commands,  *)
(* projects, configurations and layouts.                                    *)
EXTENDS InstrumentPhase, FiniteSetTheorems, WellFoundedInduction, TLAPS

\* What a match of the packages S takes, whatever runs at the same time.
Takes(S, c, r) ==
  /\ attr[r].pkg = ImportPath[c] /\ ImportPath[c] \in S
  /\ attr[r].kind \in {"func", "raw"} => attr[r].needs \subseteq S
  /\ \E k \in 1 .. Len(project.decl[c]) : Hits(r, c, k)
MatchOf(S) == {r \in AvailableRules : \E c \in Cmd : Takes(S, c, r)}
FuncRules(S) == {r \in S : attr[r].kind = "func"}

Given == attr \in Attribute /\ project \in Project /\ conf \in Config

\* Which round it is, and what is imported in it.
InRound(n) == \/ pc \in {"load", "match"} /\ round = n
              \/ pc = "deps" /\ round = n + 1
Rounds ==
  /\ pc \in {"load", "match"} => round \in 0 .. 1
  /\ pc \in {"update", "stored"} => round = 2
  /\ pc = "deps" /\ round = 0 => bundles = <<>>
  /\ InRound(0) => imports = {}
  /\ InRound(1) => imports = FuncRules(MatchOf(project.app))

\* How far the goroutines of the commands are.
Goroutines ==
  /\ pc = "match" \/ (pc = "deps" /\ round > 0) => available = AvailableRules
  /\ pc = "match" => \A c \in Cmd : worker[c] # "none" <=> c \in Commands
  /\ pc = "deps" /\ round > 0 =>
       \A c \in Cmd : worker[c] = (IF c \in Commands THEN "done" ELSE "none")
  /\ \A i \in 1 .. Len(bundles) : worker[bundles[i]] = "done" /\ IsValid(result[bundles[i]])
  /\ \A c \in Cmd : worker[c] = "done" /\ IsValid(result[c]) =>
       \E i \in 1 .. Len(bundles) : bundles[i] = c

\* A rule set that was made has a rule in the first file that the rule hits.
ExactSet(c) ==
  /\ Len(result[c]) = Len(project.decl[c])
  /\ \A k \in 1 .. Len(result[c]) : \A r \in result[c][k] :
       /\ Hits(r, c, k) /\ attr[r].pkg = ImportPath[c]
       /\ \A j \in 1 .. (k - 1) : ~ Hits(r, c, j)
  /\ pc = "match" \/ pc = "deps" =>
       \A r \in Rule : r \in RulesIn(c) <=>
         r \in Candidates(c) /\ \E k \in 1 .. Len(project.decl[c]) : Hits(r, c, k)
SetsExact == \A c \in Cmd : worker[c] \in {"send", "done"} => ExactSet(c)

\* What was matched last is compiled with what it needs, and imported.
Fitted == pc \in {"update", "stored"} =>
  /\ imports = FuncRules(Matched)
  /\ \A r \in Matched : /\ attr[r].pkg \in Compiled
                        /\ attr[r].kind \in {"func", "raw"} => attr[r].needs \subseteq Compiled

Dirs == {attr[r].path.dir : r \in Rule}
Pkg(r) == [attr[r].path EXCEPT !.root = "pkg"]
IsFileUrl(r) == attr[r].kind = "file" /\ attr[r].path.root = "url"
\* Where a path is, and how often it has been joined to the file name.
Rectified(r, n) == /\ joined[r] = n
                   /\ n = 0 => path[r] = attr[r].path
                   /\ n = 1 => path[r] = Pkg(r) /\ Pkg(r) \in rectified
Rectifying ==
  /\ path \in [Rule -> [root : {"url", "local", "pkg"}, dir : Dirs]]
  /\ \A p \in rectified : p.root # "url"
  /\ \A r \in Rule : IsFileUrl(r) => Rectified(r, 0) \/ Rectified(r, 1)
  /\ pc \in {"update", "stored"} => \A r \in Matched : IsFileUrl(r) =>
       (\E i : <<i, r>> \in todo) \/ joined[r] = 1
  /\ pc = "stored" => todo = {}

MatchingInv == TypeOK /\ Given /\ Rounds /\ Goroutines /\ SetsExact /\ Fitted /\ Rectifying

\* A set of numbers that has one has a least one: induction over the numbers.
LEMMA LeastNumber ==
  ASSUME NEW T \in SUBSET Nat, T # {}
  PROVE  \E m \in T : \A n \in T : m <= n
<1>1. IsWellFoundedOn(OpToRel(<, Nat), Nat)
  BY NatLessThanWellFounded
<1>2. PICK m \in T : \A n \in T : ~ (<<n, m>> \in OpToRel(<, Nat))
  BY <1>1, WFMin
<1>3. \A n \in T : ~ (n < m)
  BY <1>2 DEF OpToRel
<1> QED BY <1>3

Untaken(c, k) == {r \in Candidates(c) : \A j \in 1 .. k : ~ Hits(r, c, j)}

\* The loop of match keeps after k files the candidates that none of them hits.
LEMMA LeftAfterUntaken ==
  ASSUME NEW c \in Cmd, Len(project.decl[c]) \in Nat
  PROVE  \A k \in 0 .. Len(project.decl[c]) : LeftAfter(c)[k] = Untaken(c, k)
<1> DEFINE n == Len(project.decl[c])
           next(f, k) == IF k = 0 THEN Candidates(c) ELSE {r \in f[k - 1] : ~ Hits(r, c, k)}
           u == [k \in 0 .. n |-> Untaken(c, k)]
           rest == LeftAfter(c)
<1>1. u = [k \in 0 .. n |-> next(u, k)]
  <2> SUFFICES ASSUME NEW k \in 0 .. n PROVE Untaken(c, k) = next(u, k)
    OBVIOUS
  <2>1. CASE k = 0
    BY <2>1 DEF Untaken
  <2>2. CASE k # 0
    <3>1. u[k - 1] = Untaken(c, k - 1)
      BY <2>2
    <3>2. \A j : j \in 1 .. k <=> j \in 1 .. (k - 1) \/ j = k
      BY <2>2
    <3>3. Untaken(c, k) = {r \in Untaken(c, k - 1) : ~ Hits(r, c, k)}
      BY <3>2, Zenon DEF Untaken
    <3> QED BY <2>2, <3>1, <3>3
  <2> QED BY <2>1, <2>2
<1>2. rest = [k \in 0 .. n |-> next(rest, k)]
  <2>1. rest = CHOOSE f : f = [k \in 0 .. n |-> next(f, k)]
    BY DEF LeftAfter
  <2>2. \E f : f = [k \in 0 .. n |-> next(f, k)]
    BY <1>1
  <2> QED BY <2>1, <2>2, Zenon
<1> DEFINE T == {k \in 0 .. n : rest[k] # Untaken(c, k)}
<1>3. CASE T # {}
  <2>0. T \in SUBSET Nat
    OBVIOUS
  <2>1. PICK m \in T : \A k \in T : m <= k
    <3> HIDE DEF T
    <3> QED BY <1>3, <2>0, LeastNumber
  <2>2. rest[m] = next(rest, m) /\ u[m] = next(u, m)
    BY <1>1, <1>2
  <2>3. CASE m = 0
    BY <2>1, <2>2, <2>3
  <2>4. CASE m # 0
    <3>1. m - 1 \in 0 .. n /\ m - 1 \notin T
      BY <2>1, <2>4
    <3>2. rest[m - 1] = u[m - 1]
      BY <3>1
    <3> QED BY <2>1, <2>2, <2>4, <3>2
  <2> QED BY <2>3, <2>4
<1> QED BY <1>3
-----------------------------------------------------------------------------
(* What depends on the input only.                                         *)

LEMMA HitsSame ==
  ASSUME UNCHANGED input
  PROVE  \A r, c, k : Hits(r, c, k)' <=> Hits(r, c, k)
BY DEF input, Hits, MatchVersion

LEMMA AvailableSame ==
  ASSUME UNCHANGED input
  PROVE  AvailableRules' = AvailableRules
<1>1. attr' = attr /\ conf' = conf
  BY DEF input
<1>2. EnabledFiles' = EnabledFiles
  BY <1>1 DEF EnabledFiles
<1>3. \A F : RulesOf(F)' = RulesOf(F)
  BY <1>1 DEF RulesOf
<1> QED BY <1>1, <1>2, <1>3 DEF AvailableRules, DefaultRules

LEMMA TakesSame ==
  ASSUME UNCHANGED input
  PROVE  \A S, c, r : Takes(S, c, r)' <=> Takes(S, c, r)
BY HitsSame DEF input, Takes

LEMMA MatchOfSame ==
  ASSUME UNCHANGED input
  PROVE  \A S : MatchOf(S)' = MatchOf(S)
BY AvailableSame, TakesSame DEF MatchOf

LEMMA CompiledSame ==
  ASSUME UNCHANGED input, UNCHANGED imports
  PROVE  Compiled' = Compiled /\ Commands' = Commands
<1>1. Compiled' = Compiled
  BY DEF Compiled, input
<1> QED BY <1>1 DEF Commands

LEMMA CandidatesSame ==
  ASSUME UNCHANGED input, UNCHANGED imports, UNCHANGED available
  PROVE  \A c : Candidates(c)' = Candidates(c)
BY CompiledSame DEF Candidates, MatchDependencies, input

LEMMA MatchedSame ==
  ASSUME UNCHANGED bundles, UNCHANGED result
  PROVE  Matched' = Matched /\ \A c : RulesIn(c)' = RulesIn(c)
BY DEF Matched, RulesIn

\* The packages of the project are compiled anyway.
LEMMA AppCompiled == project.app \subseteq Compiled
BY DEF Compiled

\* More packages, more matches.
LEMMA MatchOfGrows ==
  ASSUME NEW S, NEW T, S \subseteq T
  PROVE  MatchOf(S) \subseteq MatchOf(T)
BY DEF MatchOf, Takes
-----------------------------------------------------------------------------
(* What match makes.                                                       *)

LEMMA GivenDecl ==
  ASSUME Given, NEW c \in Cmd
  PROVE  /\ project.decl[c] \in Seq(SUBSET Rule)
         /\ Len(project.decl[c]) \in Nat
BY MatchingAssumption DEF Given

LEMMA RuleSetOf ==
  ASSUME Given, available \subseteq Rule, NEW c \in Cmd
  PROVE  /\ RuleSet(c) \in Seq(SUBSET Rule)
         /\ Len(RuleSet(c)) = Len(project.decl[c])
         /\ \A k \in 1 .. Len(project.decl[c]) : \A r :
              r \in RuleSet(c)[k] <=> /\ r \in Candidates(c) /\ Hits(r, c, k)
                                      /\ \A j \in 1 .. (k - 1) : ~ Hits(r, c, j)
<1> DEFINE n == Len(project.decl[c])
<1>1. n \in Nat
  BY GivenDecl
<1>2. \A k \in 0 .. n : LeftAfter(c)[k] = Untaken(c, k)
  BY <1>1, LeftAfterUntaken
<1>3. RuleSet(c) = [k \in 1 .. n |-> {r \in Untaken(c, k - 1) : Hits(r, c, k)}]
  <2>1. \A k \in 1 .. n : LeftAfter(c)[k - 1] = Untaken(c, k - 1)
    BY <1>1, <1>2
  <2> QED BY <2>1 DEF RuleSet
<1>4. \A k : Untaken(c, k) \subseteq Rule
  BY DEF Untaken, Candidates
<1> HIDE DEF n
<1>5. RuleSet(c) \in [1 .. n -> SUBSET Rule]
  BY <1>3, <1>4
<1>6. RuleSet(c) \in Seq(SUBSET Rule) /\ Len(RuleSet(c)) = n
  BY <1>1, <1>5
<1>7. ASSUME NEW k \in 1 .. n, NEW r
      PROVE  r \in RuleSet(c)[k] <=> /\ r \in Candidates(c) /\ Hits(r, c, k)
                                     /\ \A j \in 1 .. (k - 1) : ~ Hits(r, c, j)
  BY <1>3, <1>7 DEF Untaken
<1> QED BY <1>6, <1>7 DEF n

\* A candidate that hits some file is in the rule set, at the first it hits.
LEMMA FirstHit ==
  ASSUME Given, available \subseteq Rule, NEW c \in Cmd, NEW r \in Candidates(c),
         NEW h \in 1 .. Len(project.decl[c]), Hits(r, c, h)
  PROVE  \E k \in 1 .. Len(project.decl[c]) : r \in RuleSet(c)[k]
<1> DEFINE T == {k \in 1 .. Len(project.decl[c]) : Hits(r, c, k)}
<1>1. T \in SUBSET Nat /\ T # {}
  BY GivenDecl
<1>2. PICK m \in T : \A k \in T : m <= k
  <2> HIDE DEF T
  <2> QED BY <1>1, LeastNumber
<1>3. \A j \in 1 .. (m - 1) : ~ Hits(r, c, j)
  BY <1>2, GivenDecl
<1> QED BY <1>2, <1>3, RuleSetOf
-----------------------------------------------------------------------------
(* Types and the input.                                                    *)

LEMMA TypesInit == Init => TypeOK /\ Given
<1> SUFFICES ASSUME Init
             PROVE  TypeOK /\ Given
  OBVIOUS
<1>1. [c \in Cmd |-> NoResult] \in [Cmd -> Seq(SUBSET Rule)]
  BY DEF NoResult
<1> QED BY <1>1 DEF Init, TypeOK, Given

LEMMA TypesStep ==
  ASSUME TypeOK, Given, Rounds, [Next]_vars
  PROVE  TypeOK' /\ Given'
<1>1. ASSUME NEW c \in Cmd, Match(c)
      PROVE  TypeOK' /\ Given'
  <2>1. RuleSet(c) \in Seq(SUBSET Rule)
    BY RuleSetOf DEF TypeOK
  <2> QED BY <1>1, <2>1 DEF Match, TypeOK, Given, input
<1>2. ASSUME NEW c \in Cmd, MatchExits(c)
      PROVE  TypeOK' /\ Given'
  BY <1>2 DEF MatchExits, TypeOK, Given, input
<1>3. ASSUME NEW c \in Cmd, Receive(c)
      PROVE  TypeOK' /\ Given'
  BY <1>3 DEF Receive, TypeOK, Given, input
<1>4. CASE NewDeps
  <2>1. imports' \subseteq Rule
    <3>1. Matched \subseteq Rule
      BY DEF TypeOK, Matched, RulesIn
    <3> QED BY <1>4, <3>1 DEF NewDeps
  <2>2. todo' \subseteq Nat \X Rule
    BY <1>4 DEF NewDeps, TypeOK
  <2> QED BY <1>4, <2>1, <2>2 DEF NewDeps, TypeOK, Given, input
<1>5. CASE MatchRules
  <2>1. AvailableRules \subseteq Rule
    BY DEF AvailableRules, DefaultRules, RulesOf
  <2>2. [c \in Cmd |-> NoResult] \in [Cmd -> Seq(SUBSET Rule)]
    BY DEF NoResult
  <2> QED BY <1>5, <2>1, <2>2 DEF MatchRules, TypeOK, Given, input
<1>6. CASE Gathered
  BY <1>6 DEF Gathered, TypeOK, Given, Rounds, input
<1>7. CASE Store
  BY <1>7 DEF Store, TypeOK, Given, input
<1>8. ASSUME NEW i, NEW r \in Rule, UpdateRule(i, r)
      PROVE  TypeOK' /\ Given'
  <2>1. DOMAIN path' = Rule /\ joined' \in [Rule -> Nat]
    <3>1. CASE path[r] \in rectified
      BY <1>8, <3>1 DEF UpdateRule, TypeOK
    <3>2. CASE path[r] \notin rectified
      BY <1>8, <3>2 DEF UpdateRule, TypeOK
    <3> QED BY <3>1, <3>2
  <2> QED BY <1>8, <2>1 DEF UpdateRule, TypeOK, Given, input
<1>9. CASE UNCHANGED vars
  BY <1>9 DEF vars, TypeOK, Given, input
<1> QED BY <1>1, <1>2, <1>3, <1>4, <1>5, <1>6, <1>7, <1>8, <1>9 DEF Next
-----------------------------------------------------------------------------
(* The goroutines and the rule sets.                                       *)

\* At the end of a round what was gathered is what the packages compiled in it
\* call for, in whatever order the goroutines delivered.
LEMMA MatchedInRound ==
  ASSUME TypeOK, Given, Goroutines, SetsExact, pc = "deps", round > 0
  PROVE  Matched = MatchOf(Compiled)
<1>1. available = AvailableRules
  BY DEF Goroutines
<1>2. ASSUME NEW r \in Matched
      PROVE  r \in MatchOf(Compiled)
  <2>1. PICK i \in 1 .. Len(bundles) : r \in RulesIn(bundles[i])
    BY <1>2 DEF Matched
  <2> DEFINE c == bundles[i]
  <2>2. c \in Cmd /\ worker[c] = "done"
    BY <2>1 DEF TypeOK, Goroutines
  <2>3. c \in Commands /\ ExactSet(c)
    BY <2>2 DEF Goroutines, SetsExact
  <2>4. r \in Rule
    BY <2>1, <2>2 DEF RulesIn, TypeOK
  <2>5. r \in Candidates(c) /\ \E k \in 1 .. Len(project.decl[c]) : Hits(r, c, k)
    BY <2>1, <2>3, <2>4 DEF ExactSet
  <2> QED BY <1>1, <2>2, <2>3, <2>5 DEF MatchOf, Takes, Candidates, MatchDependencies, Commands
<1>3. ASSUME NEW r \in MatchOf(Compiled)
      PROVE  r \in Matched
  <2>1. PICK c \in Cmd : Takes(Compiled, c, r)
    BY <1>3 DEF MatchOf
  <2>2. c \in Commands
    BY <2>1 DEF Takes, Commands
  <2>3. worker[c] = "done" /\ ExactSet(c)
    BY <2>2 DEF Goroutines, SetsExact
  <2>4. r \in Candidates(c) /\ r \in Rule
    BY <1>1, <1>3, <2>1 DEF MatchOf, Takes, Candidates, MatchDependencies, TypeOK
  <2>5. r \in RulesIn(c)
    BY <2>1, <2>3, <2>4 DEF ExactSet, Takes
  <2>6. IsValid(result[c])
    BY <2>5 DEF RulesIn, IsValid
  <2>7. PICK i \in 1 .. Len(bundles) : bundles[i] = c
    BY <2>3, <2>6 DEF Goroutines
  <2> QED BY <2>5, <2>7 DEF Matched
<1> QED BY <1>2, <1>3

LEMMA GoroutinesStep ==
  ASSUME TypeOK, Given, Rounds, Goroutines, [Next]_vars
  PROVE  Goroutines'
<1>1. ASSUME NEW c \in Cmd, Match(c)
      PROVE  Goroutines'
  <2>1. UNCHANGED input /\ UNCHANGED imports
    BY <1>1 DEF Match
  <2>2. AvailableRules' = AvailableRules /\ Commands' = Commands
    BY <2>1, AvailableSame, CompiledSame
  <2>3. worker[c] = "match" /\ worker' = [worker EXCEPT ![c] = "send"]
        /\ result' = [result EXCEPT ![c] = RuleSet(c)]
        /\ pc = "match" /\ UNCHANGED <<pc, available, bundles>>
    BY <1>1 DEF Match
  <2>4. \A d \in Cmd : d # c => worker'[d] = worker[d] /\ result'[d] = result[d]
    BY <2>3 DEF TypeOK
  <2>5. \A i \in 1 .. Len(bundles) : bundles[i] \in Cmd /\ bundles[i] # c
    BY <2>3 DEF TypeOK, Goroutines
  <2>6. worker'[c] = "send"
    BY <2>3 DEF TypeOK
  <2> QED BY <2>2, <2>3, <2>4, <2>5, <2>6 DEF Goroutines, IsValid
<1>2. ASSUME NEW c \in Cmd, MatchExits(c)
      PROVE  Goroutines'
  BY <1>2 DEF MatchExits, Goroutines, IsValid
<1>3. ASSUME NEW c \in Cmd, Receive(c)
      PROVE  Goroutines'
  <2>1. UNCHANGED input /\ UNCHANGED imports
    BY <1>3 DEF Receive
  <2>2. AvailableRules' = AvailableRules /\ Commands' = Commands
    BY <2>1, AvailableSame, CompiledSame
  <2>3. worker[c] = "send" /\ worker' = [worker EXCEPT ![c] = "done"]
        /\ pc = "match" /\ UNCHANGED <<pc, available, result>>
        /\ bundles' = IF IsValid(result[c]) THEN Append(bundles, c) ELSE bundles
    BY <1>3 DEF Receive
  <2>4. \A d \in Cmd : d # c => worker'[d] = worker[d]
    BY <2>3 DEF TypeOK
  <2>5. worker'[c] = "done"
    BY <2>3 DEF TypeOK
  <2>6. \A i \in 1 .. Len(bundles) : bundles[i] \in Cmd /\ bundles[i] # c
    BY <2>3 DEF TypeOK, Goroutines
  <2>7. CASE IsValid(result[c])
    <3>1. Len(bundles') = Len(bundles) + 1 /\ bundles'[Len(bundles) + 1] = c
          /\ \A i \in 1 .. Len(bundles) : bundles'[i] = bundles[i]
      BY <2>3, <2>7 DEF TypeOK
    <3>2. \A i \in 1 .. Len(bundles') : bundles'[i] = c \/ i \in 1 .. Len(bundles)
      BY <3>1 DEF TypeOK
    <3>3. \A i \in 1 .. Len(bundles') : worker'[bundles'[i]] = "done" /\ IsValid(result'[bundles'[i]])
      BY <2>3, <2>4, <2>5, <2>6, <2>7, <3>1, <3>2 DEF Goroutines
    <3>4. \A d \in Cmd : worker'[d] = "done" /\ IsValid(result'[d]) =>
            \E i \in 1 .. Len(bundles') : bundles'[i] = d
      <4> SUFFICES ASSUME NEW d \in Cmd, worker'[d] = "done", IsValid(result[d])
                   PROVE  \E i \in 1 .. Len(bundles') : bundles'[i] = d
        BY <2>3
      <4>1. CASE d = c
        <5>1. Len(bundles') \in 1 .. Len(bundles')
          BY <3>1 DEF TypeOK
        <5> QED BY <3>1, <4>1, <5>1
      <4>2. CASE d # c
        <5>1. PICK i \in 1 .. Len(bundles) : bundles[i] = d
          BY <2>4, <4>2 DEF Goroutines
        <5>2. i \in 1 .. Len(bundles')
          BY <3>1 DEF TypeOK
        <5> QED BY <3>1, <5>1, <5>2
      <4> QED BY <4>1, <4>2
    <3>5. pc' = "match" /\ available' = AvailableRules'
          /\ \A d \in Cmd : worker'[d] # "none" <=> d \in Commands'
      BY <2>2, <2>3, <2>4, <2>5 DEF Goroutines
    <3> QED BY <3>3, <3>4, <3>5 DEF Goroutines
  <2>8. CASE ~ IsValid(result[c])
    BY <2>2, <2>3, <2>4, <2>5, <2>6, <2>8 DEF Goroutines, IsValid
  <2> QED BY <2>7, <2>8
<1>4. CASE NewDeps
  <2>1. pc' \in {"load", "update"} /\ UNCHANGED <<worker, bundles, result>>
    BY <1>4 DEF NewDeps
  <2> QED BY <2>1 DEF Goroutines, IsValid
<1>5. CASE MatchRules
  <2>1. UNCHANGED input /\ UNCHANGED imports
    BY <1>5 DEF MatchRules
  <2>2. AvailableRules' = AvailableRules /\ Commands' = Commands
    BY <2>1, AvailableSame, CompiledSame
  <2>3. bundles' = <<>> /\ pc' = "match" /\ available' = AvailableRules
        /\ worker' = [c \in Cmd |-> IF c \in Commands THEN "match" ELSE "none"]
    BY <1>5 DEF MatchRules
  <2> QED BY <2>2, <2>3 DEF Goroutines
<1>6. CASE Gathered
  <2>1. UNCHANGED input /\ UNCHANGED imports
    BY <1>6 DEF Gathered
  <2>2. AvailableRules' = AvailableRules /\ Commands' = Commands
    BY <2>1, AvailableSame, CompiledSame
  <2>3. pc = "match" /\ pc' = "deps" /\ UNCHANGED <<worker, bundles, result, available>>
        /\ Cardinality({c \in Cmd : worker[c] = "done"}) = Cardinality(Commands)
    BY <1>6 DEF Gathered
  <2>4. IsFiniteSet(Commands) /\ {c \in Cmd : worker[c] = "done"} \subseteq Commands
    <3>1. Commands \subseteq Cmd
      BY DEF Commands
    <3>2. {c \in Cmd : worker[c] = "done"} \subseteq Commands
      BY <2>3 DEF Goroutines
    <3> QED BY <3>1, <3>2, FS_Subset, MatchingAssumption
  <2>5. {c \in Cmd : worker[c] = "done"} = Commands
    BY <2>3, <2>4, FS_Subset
  <2>6. \A c \in Cmd : worker'[c] = IF c \in Commands THEN "done" ELSE "none"
    BY <2>3, <2>5 DEF Goroutines
  <2> QED BY <2>2, <2>3, <2>6 DEF Goroutines, IsValid
<1>7. CASE Store
  BY <1>7 DEF Store, Goroutines, IsValid
<1>8. ASSUME NEW i, NEW r \in Rule, UpdateRule(i, r)
      PROVE  Goroutines'
  BY <1>8 DEF UpdateRule, Goroutines, IsValid
<1>9. CASE UNCHANGED vars
  <2>1. UNCHANGED input /\ UNCHANGED imports
    BY <1>9 DEF vars, input
  <2>2. AvailableRules' = AvailableRules /\ Commands' = Commands
    BY <2>1, AvailableSame, CompiledSame
  <2> QED BY <1>9, <2>2 DEF vars, Goroutines, IsValid
<1> QED BY <1>1, <1>2, <1>3, <1>4, <1>5, <1>6, <1>7, <1>8, <1>9 DEF Next

\* What makes a rule set exact stays true while the rule set stays.
LEMMA ExactSetSame ==
  ASSUME NEW c \in Cmd, ExactSet(c), UNCHANGED input, result'[c] = result[c],
         pc' \in {"match", "deps"} =>
           pc \in {"match", "deps"} /\ UNCHANGED imports /\ UNCHANGED available
  PROVE  ExactSet(c)'
<1>1. \A r, k : Hits(r, c, k)' <=> Hits(r, c, k)
  BY HitsSame
<1>2. RulesIn(c)' = RulesIn(c)
  BY DEF RulesIn
<1>3. attr' = attr /\ project' = project
  BY DEF input
<1>4. CASE pc' \in {"match", "deps"}
  <2>1. Candidates(c)' = Candidates(c)
    BY <1>4, CandidatesSame
  <2> QED BY <1>1, <1>2, <1>3, <1>4, <2>1 DEF ExactSet
<1>5. CASE pc' \notin {"match", "deps"}
  BY <1>1, <1>3, <1>5 DEF ExactSet
<1> QED BY <1>4, <1>5

LEMMA SetsExactStep ==
  ASSUME TypeOK, Given, SetsExact, [Next]_vars
  PROVE  SetsExact'
<1>1. ASSUME NEW c \in Cmd, Match(c)
      PROVE  SetsExact'
  <2>1. UNCHANGED input /\ UNCHANGED imports /\ UNCHANGED available /\ UNCHANGED pc /\ pc = "match"
    BY <1>1 DEF Match
  <2>2. /\ worker' = [worker EXCEPT ![c] = "send"]
        /\ result' = [result EXCEPT ![c] = RuleSet(c)]
    BY <1>1 DEF Match
  <2>3. ASSUME NEW d \in Cmd, d # c, worker'[d] \in {"send", "done"}
        PROVE  ExactSet(d)'
    BY <2>1, <2>2, <2>3, ExactSetSame DEF TypeOK, SetsExact
  <2>4. result'[c] = RuleSet(c)
    BY <2>2 DEF TypeOK
  <2>5. \A r, k : Hits(r, c, k)' <=> Hits(r, c, k)
    BY <2>1, HitsSame
  <2>6. Candidates(c)' = Candidates(c) /\ attr' = attr /\ project' = project
    BY <2>1, CandidatesSame DEF input
  <2>7. Len(RuleSet(c)) = Len(project.decl[c]) /\ Len(project.decl[c]) \in Nat
    BY RuleSetOf, GivenDecl DEF TypeOK
  <2>8. \A k \in 1 .. Len(project.decl[c]) : \A r :
          r \in RuleSet(c)[k] <=> /\ r \in Candidates(c) /\ Hits(r, c, k)
                                  /\ \A j \in 1 .. (k - 1) : ~ Hits(r, c, j)
    BY RuleSetOf DEF TypeOK
  <2>9. RulesIn(c)' = UNION {RuleSet(c)[k] : k \in 1 .. Len(project.decl[c])}
    BY <2>4, <2>7 DEF RulesIn
  <2>10. ASSUME NEW r \in Rule
         PROVE  r \in RulesIn(c)' <=>
                  r \in Candidates(c) /\ \E k \in 1 .. Len(project.decl[c]) : Hits(r, c, k)
    <3>1. ASSUME r \in Candidates(c), NEW k \in 1 .. Len(project.decl[c]), Hits(r, c, k)
          PROVE  r \in RulesIn(c)'
      BY <2>9, <3>1, FirstHit DEF TypeOK
    <3> QED BY <2>8, <2>9, <3>1
  <2>11. \A r : r \in Candidates(c) => attr[r].pkg = ImportPath[c]
    BY DEF Candidates
  <2>12. ExactSet(c)'
    BY <2>1, <2>4, <2>5, <2>6, <2>7, <2>8, <2>10, <2>11 DEF ExactSet
  <2> QED BY <2>3, <2>12 DEF SetsExact
<1>2. ASSUME NEW c \in Cmd, MatchExits(c)
      PROVE  SetsExact'
  <2>1. UNCHANGED input /\ UNCHANGED worker /\ UNCHANGED result /\ pc' = "exited"
    BY <1>2 DEF MatchExits
  <2> QED BY <2>1, ExactSetSame DEF SetsExact
<1>3. ASSUME NEW c \in Cmd, Receive(c)
      PROVE  SetsExact'
  <2>1. UNCHANGED input /\ UNCHANGED result /\ UNCHANGED imports /\ UNCHANGED available
        /\ pc = "match" /\ UNCHANGED pc
    BY <1>3 DEF Receive
  <2>2. \A d \in Cmd : worker'[d] \in {"send", "done"} => worker[d] \in {"send", "done"}
    BY <1>3 DEF Receive, TypeOK
  <2> QED BY <2>1, <2>2, ExactSetSame DEF SetsExact
<1>4. CASE NewDeps
  <2>1. UNCHANGED input /\ UNCHANGED worker /\ UNCHANGED result /\ pc' \in {"load", "update"}
    BY <1>4 DEF NewDeps
  <2> QED BY <2>1, ExactSetSame DEF SetsExact
<1>5. CASE MatchRules
  <2>1. worker' = [c \in Cmd |-> IF c \in Commands THEN "match" ELSE "none"]
    BY <1>5 DEF MatchRules
  <2> QED BY <2>1 DEF SetsExact
<1>6. CASE Gathered
  <2>1. UNCHANGED input /\ UNCHANGED result /\ UNCHANGED imports /\ UNCHANGED available
        /\ pc = "match" /\ UNCHANGED worker
    BY <1>6 DEF Gathered
  <2> QED BY <2>1, ExactSetSame DEF SetsExact
<1>7. CASE Store
  <2>1. UNCHANGED input /\ UNCHANGED worker /\ UNCHANGED result /\ pc' = "stored"
    BY <1>7 DEF Store
  <2> QED BY <2>1, ExactSetSame DEF SetsExact
<1>8. ASSUME NEW i, NEW r \in Rule, UpdateRule(i, r)
      PROVE  SetsExact'
  <2>1. UNCHANGED input /\ UNCHANGED worker /\ UNCHANGED result /\ pc = "update" /\ UNCHANGED pc
    BY <1>8 DEF UpdateRule
  <2> QED BY <2>1, ExactSetSame DEF SetsExact
<1>9. CASE UNCHANGED vars
  <2>1. UNCHANGED input /\ UNCHANGED worker /\ UNCHANGED result /\ UNCHANGED imports
        /\ UNCHANGED available /\ UNCHANGED pc
    BY <1>9 DEF vars, input
  <2> QED BY <2>1, ExactSetSame DEF SetsExact
<1> QED BY <1>1, <1>2, <1>3, <1>4, <1>5, <1>6, <1>7, <1>8, <1>9 DEF Next

\* The rounds, and what each of them imports.
LEMMA RoundsStep ==
  ASSUME TypeOK, Given, Rounds, Goroutines, SetsExact, [Next]_vars
  PROVE  Rounds'
<1> DEFINE First == FuncRules(MatchOf(project.app))
<1>1. UNCHANGED input
  BY DEF Next, vars, input, NewDeps, MatchRules, Gathered, Store, Match, MatchExits, Receive, UpdateRule
<1>2. First' = First
  BY <1>1, MatchOfSame DEF FuncRules, input
<1>3. CASE NewDeps
  <2>1. pc = "deps" /\ pc' = (IF round = 2 THEN "update" ELSE "load") /\ UNCHANGED <<round, bundles>>
        /\ imports' = FuncRules(Matched)
    BY <1>3 DEF NewDeps, FuncRules
  <2>2. CASE round = 0
    <3>1. Matched = {}
      BY <2>1, <2>2 DEF Rounds, Matched
    <3>2. imports' = {}
      BY <2>1, <3>1 DEF FuncRules
    <3> QED BY <2>1, <2>2, <3>2 DEF Rounds, InRound
  <2>3. CASE round = 1
    <3>1. imports = {}
      BY <2>1, <2>3 DEF Rounds, InRound
    <3>2. Compiled = project.app
      BY <3>1 DEF Compiled
    <3>3. Matched = MatchOf(project.app)
      BY <2>1, <2>3, <3>2, MatchedInRound
    <3>4. imports' = First'
      BY <1>2, <2>1, <3>3
    <3> HIDE DEF First
    <3> QED BY <2>1, <2>3, <3>4 DEF Rounds, InRound, First
  <2>4. CASE round = 2
    BY <2>1, <2>4 DEF Rounds, InRound
  <2> QED BY <2>2, <2>3, <2>4 DEF TypeOK
<1>4. CASE MatchRules
  <2>1. pc = "load" /\ pc' = "match" /\ UNCHANGED <<round, imports>>
    BY <1>4 DEF MatchRules
  <2> HIDE DEF First
  <2> QED BY <1>2, <2>1 DEF Rounds, InRound, First
<1>5. CASE Gathered
  <2>1. pc = "match" /\ pc' = "deps" /\ round' = round + 1 /\ UNCHANGED imports
    BY <1>5 DEF Gathered
  <2>2. round \in 0 .. 1
    BY <2>1 DEF Rounds
  <2> HIDE DEF First
  <2> QED BY <1>2, <2>1, <2>2 DEF Rounds, InRound, First
<1>6. CASE Store
  <2> HIDE DEF First
  <2> QED BY <1>2, <1>6 DEF Store, Rounds, InRound, First
<1>7. ASSUME NEW c \in Cmd, MatchExits(c)
      PROVE  Rounds'
  BY <1>7 DEF MatchExits, Rounds, InRound
<1>8. ASSUME NEW c \in Cmd, Match(c) \/ Receive(c)
      PROVE  Rounds'
  <2>1. pc = "match" /\ UNCHANGED <<pc, round, imports>>
    BY <1>8 DEF Match, Receive
  <2> HIDE DEF First
  <2> QED BY <1>2, <2>1 DEF Rounds, InRound, First
<1>9. ASSUME NEW i, NEW r \in Rule, UpdateRule(i, r)
      PROVE  Rounds'
  <2>1. pc = "update" /\ UNCHANGED <<pc, round, imports>>
    BY <1>9 DEF UpdateRule
  <2> HIDE DEF First
  <2> QED BY <1>2, <2>1 DEF Rounds, InRound, First
<1>10. CASE UNCHANGED vars
  <2> HIDE DEF First
  <2> QED BY <1>2, <1>10 DEF vars, Rounds, InRound, First
<1> QED BY <1>3, <1>4, <1>5, <1>6, <1>7, <1>8, <1>9, <1>10 DEF Next
-----------------------------------------------------------------------------
(* What is stored.                                                         *)

\* The last match is imported, which takes no package away: a rule matched with
\* the packages of the project is matched with those of the hook code too.
LEMMA FittedStep ==
  ASSUME TypeOK, Given, Rounds, Goroutines, SetsExact, Fitted, [Next]_vars
  PROVE  Fitted'
<1>1. UNCHANGED input
  BY DEF Next, vars, input, NewDeps, MatchRules, Gathered, Store, Match, MatchExits, Receive, UpdateRule
<1>2. CASE NewDeps /\ round = 2
  <2>1. pc = "deps" /\ pc' = "update" /\ UNCHANGED <<bundles, result>> /\ imports' = FuncRules(Matched)
    BY <1>2 DEF NewDeps, FuncRules
  <2>2. Matched' = Matched /\ Matched = MatchOf(Compiled)
    BY <1>2, <2>1, MatchedSame, MatchedInRound
  <2>3. imports \subseteq imports'
    <3>1. MatchOf(project.app) \subseteq MatchOf(Compiled)
      BY AppCompiled, MatchOfGrows
    <3>2. imports = FuncRules(MatchOf(project.app))
      BY <1>2, <2>1 DEF Rounds, InRound
    <3> QED BY <2>1, <2>2, <3>1, <3>2 DEF FuncRules
  <2>4. Compiled \subseteq Compiled'
    BY <1>1, <2>3 DEF Compiled, input
  <2>5. \A r \in Matched : /\ attr[r].pkg \in Compiled
                           /\ attr[r].kind \in {"func", "raw"} => attr[r].needs \subseteq Compiled
    BY <2>2 DEF MatchOf, Takes
  <2>6. attr' = attr
    BY <1>1 DEF input
  <2>7. imports' = FuncRules(Matched)'
    BY <2>1, <2>2, <2>6 DEF FuncRules
  <2> QED BY <2>1, <2>2, <2>4, <2>5, <2>6, <2>7 DEF Fitted
<1>3. CASE pc' \in {"update", "stored"} /\ ~ (NewDeps /\ round = 2)
  <2>1. pc \in {"update", "stored"} /\ UNCHANGED <<imports, bundles, result>>
    BY <1>3 DEF Next, vars, NewDeps, MatchRules, Gathered, Store, Match, MatchExits, Receive, UpdateRule
  <2>2. Matched' = Matched /\ Compiled' = Compiled
    BY <1>1, <2>1, MatchedSame, CompiledSame
  <2> QED BY <1>1, <2>1, <2>2 DEF Fitted, FuncRules, input
<1>4. CASE pc' \notin {"update", "stored"}
  BY <1>4 DEF Fitted
<1> QED BY <1>2, <1>3, <1>4 DEF NewDeps

LEMMA RectifyingInit == Init => Rectifying
<1> SUFFICES ASSUME Init
             PROVE  Rectifying
  OBVIOUS
<1>1. \A r \in Rule : attr[r].path \in [root : {"url", "local"}, dir : {attr[r].path.dir}]
  BY MatchingAssumption DEF Init
<1>2. path \in [Rule -> [root : {"url", "local", "pkg"}, dir : Dirs]]
  BY <1>1 DEF Init, Dirs
<1> QED BY <1>2 DEF Init, Rectifying, Rectified

LEMMA RectifyingStep ==
  ASSUME TypeOK, Given, Rectifying, [Next]_vars
  PROVE  Rectifying'
<1>1. UNCHANGED input
  BY DEF Next, vars, input, NewDeps, MatchRules, Gathered, Store, Match, MatchExits, Receive, UpdateRule
<1> DEFINE Same == Dirs' = Dirs /\ \A r : Pkg(r)' = Pkg(r) /\ (IsFileUrl(r)' <=> IsFileUrl(r)) /\ attr' = attr
<1>9. Same
  BY <1>1 DEF input, Dirs, Pkg, IsFileUrl
<1>10. ASSUME UNCHANGED <<path, rectified, joined>>
       PROVE  \A r, n : Rectified(r, n)' <=> Rectified(r, n)
  BY <1>9, <1>10 DEF Rectified
<1> HIDE DEF Same
<1>2. CASE UNCHANGED <<path, rectified, joined>> /\ pc' \notin {"update", "stored"}
  BY <1>2, <1>9, <1>10 DEF Rectifying, Same
<1>3. CASE UNCHANGED <<path, rectified, joined, todo, bundles, result, pc>>
  <2>1. Matched' = Matched
    BY <1>3, MatchedSame
  <2> QED BY <1>3, <1>9, <1>10, <2>1 DEF Rectifying, Same
<1>4. CASE NewDeps
  <2>1. CASE round = 2
    <3>1. UNCHANGED <<path, rectified, joined, bundles, result>> /\ pc' = "update"
      BY <1>4, <2>1 DEF NewDeps
    <3>2. Matched' = Matched /\ attr' = attr
      BY <1>1, <3>1, MatchedSame DEF input
    <3>3. ASSUME NEW r \in Matched, IsFileUrl(r)
          PROVE  \E i : <<i, r>> \in todo'
      <4>1. PICK i \in 1 .. Len(bundles) : r \in RulesIn(bundles[i])
        BY DEF Matched
      <4>2. r \in Rule
        BY <4>1 DEF RulesIn, TypeOK
      <4>3. <<i, r>> \in todo'
        BY <1>4, <2>1, <3>3, <4>1, <4>2 DEF NewDeps, IsFileUrl
      <4> QED BY <4>3
    <3> QED BY <1>9, <1>10, <3>1, <3>2, <3>3 DEF Rectifying, Same
  <2>2. CASE round # 2
    <3>1. UNCHANGED <<path, rectified, joined>> /\ pc' = "load"
      BY <1>4, <2>2 DEF NewDeps
    <3> QED BY <1>2, <3>1
  <2> QED BY <2>1, <2>2
<1>5. CASE Store
  <2>1. UNCHANGED <<path, rectified, joined, todo, bundles, result>> /\ pc = "update" /\ todo = {}
    BY <1>5 DEF Store
  <2>2. Matched' = Matched
    BY <2>1, MatchedSame
  <2> QED BY <1>9, <1>10, <2>1, <2>2 DEF Rectifying, Same
<1>6. ASSUME NEW i, NEW r \in Rule, UpdateRule(i, r)
      PROVE  Rectifying'
  <2>1. pc = "update" /\ UNCHANGED <<pc, bundles, result>> /\ todo' = todo \ {<<i, r>>}
    BY <1>6 DEF UpdateRule
  <2>2. Matched' = Matched /\ attr' = attr
    BY <1>1, <2>1, MatchedSame DEF input
  <2>3. ASSUME NEW q, q # r, \E j : <<j, q>> \in todo
        PROVE  \E j : <<j, q>> \in todo'
    BY <2>1, <2>3
  <2>4. path[r] \in [root : {"url", "local", "pkg"}, dir : Dirs]
    BY DEF Rectifying
  <2>5. attr[r].path \in [root : {"url", "local"}, dir : {attr[r].path.dir}]
    BY MatchingAssumption DEF Given
  <2>6. IsFileUrl(r) => Pkg(r).root = "pkg" /\ Pkg(r) # attr[r].path
    BY <2>5 DEF IsFileUrl, Pkg
  <2>7. CASE path[r] \in rectified
    <3>1. UNCHANGED <<path, rectified, joined>>
      BY <1>6, <2>7 DEF UpdateRule
    <3>2. IsFileUrl(r) => Rectified(r, 1)
      BY <2>7 DEF Rectifying, Rectified, IsFileUrl
    <3>3. \A q \in Matched : IsFileUrl(q) => (\E j : <<j, q>> \in todo') \/ joined[q] = 1
      BY <2>1, <2>3, <3>2 DEF Rectifying, Rectified
    <3> QED BY <1>9, <1>10, <2>1, <2>2, <3>1, <3>3 DEF Rectifying, Same
  <2>8. CASE path[r] \notin rectified
    <3>1. /\ path' = [path EXCEPT ![r] = RuleDir(r)]
          /\ rectified' = rectified \union {RuleDir(r)}
          /\ joined' = [joined EXCEPT ![r] = IF attr[r].kind = "file" THEN @ + 1 ELSE @]
      BY <1>6, <2>8 DEF UpdateRule
    <3>2. /\ RuleDir(r) \in [root : {"url", "local", "pkg"}, dir : Dirs]
          /\ RuleDir(r).root # "url"
      BY <2>4 DEF RuleDir
    <3>3. path' \in [Rule -> [root : {"url", "local", "pkg"}, dir : Dirs]]
      BY <3>1, <3>2 DEF Rectifying
    <3>4. \A p \in rectified' : p.root # "url"
      BY <3>1, <3>2 DEF Rectifying
    <3>5. /\ path'[r] = RuleDir(r) /\ joined'[r] = IF attr[r].kind = "file" THEN joined[r] + 1 ELSE joined[r]
          /\ \A q \in Rule : q # r => path'[q] = path[q] /\ joined'[q] = joined[q]
      BY <3>1 DEF Rectifying, TypeOK
    <3>6. ASSUME IsFileUrl(r)
          PROVE  joined'[r] = 1 /\ path'[r] = Pkg(r) /\ Pkg(r) \in rectified'
      <4>1. Rectified(r, 0)
        BY <2>8, <3>6 DEF Rectifying, Rectified
      <4>2. RuleDir(r) = Pkg(r)
        BY <3>6, <4>1 DEF RuleDir, Pkg, Rectified, IsFileUrl
      <4> QED BY <3>1, <3>5, <3>6, <4>1, <4>2 DEF Rectified, IsFileUrl
    <3>7. \A q \in Rule : IsFileUrl(q) => Rectified(q, 0)' \/ Rectified(q, 1)'
      <4> SUFFICES ASSUME NEW q \in Rule, IsFileUrl(q)
                   PROVE  Rectified(q, 0)' \/ Rectified(q, 1)'
        OBVIOUS
      <4>1. CASE q = r
        BY <2>2, <3>6, <4>1 DEF Rectified, Pkg
      <4>2. CASE q # r
        BY <2>2, <3>1, <3>5, <4>2 DEF Rectifying, Rectified, Pkg
      <4> QED BY <4>1, <4>2
    <3>8. \A q \in Matched : IsFileUrl(q) => (\E j : <<j, q>> \in todo') \/ joined'[q] = 1
      <4>1. Matched \subseteq Rule
        BY DEF Matched, RulesIn, TypeOK
      <4> QED BY <2>1, <2>3, <3>5, <3>6, <4>1 DEF Rectifying
    <3> QED BY <1>9, <2>1, <2>2, <3>3, <3>4, <3>7, <3>8 DEF Rectifying, Same
  <2> QED BY <2>7, <2>8
<1>7. ASSUME NEW c \in Cmd, MatchExits(c) \/ Match(c) \/ Receive(c)
      PROVE  Rectifying'
  BY <1>2, <1>7 DEF MatchExits, Match, Receive
<1>8. CASE MatchRules \/ Gathered
  BY <1>2, <1>8 DEF MatchRules, Gathered
<1> QED BY <1>3, <1>4, <1>5, <1>6, <1>7, <1>8 DEF Next, vars
-----------------------------------------------------------------------------
(* The theorems.                                                           *)

LEMMA MatchingInit == Init => MatchingInv
<1> SUFFICES ASSUME Init
             PROVE  MatchingInv
  OBVIOUS
<1>1. TypeOK /\ Given /\ Rectifying
  BY TypesInit, RectifyingInit
<1>2. Rounds /\ Goroutines /\ SetsExact /\ Fitted
  BY DEF Init, Rounds, InRound, Goroutines, SetsExact, Fitted
<1> QED BY <1>1, <1>2 DEF MatchingInv

LEMMA MatchingStep == MatchingInv /\ [Next]_vars => MatchingInv'
BY TypesStep, RoundsStep, GoroutinesStep, SetsExactStep, FittedStep, RectifyingStep DEF MatchingInv

\* The inductive invariant of RuleMatching.
THEOREM MatchingAlways == Spec => []MatchingInv
BY MatchingInit, MatchingStep, PTL DEF Spec

\* A rule set has each rule in the first file that it hits, and misses none:
\* the loop of match takes a rule away as soon as it is matched.
THEOREM ExactRuleSets == Spec => []RuleSetExact
<1>1. MatchingInv => RuleSetExact
  <2> SUFFICES ASSUME MatchingInv, NEW i \in 1 .. Len(bundles), NEW r \in Rule
               PROVE  LET c == bundles[i]
                          In == {k \in 1 .. Len(result[c]) : r \in result[c][k]}
                      IN  /\ \A j, k \in In : j = k
                          /\ \A k \in In : Hits(r, c, k) /\ attr[r].pkg = ImportPath[c]
                          /\ pc \in {"match", "deps"} /\ In = {} /\ r \in Candidates(c)
                               => \A k \in 1 .. Len(project.decl[c]) : ~ Hits(r, c, k)
    BY DEF RuleSetExact, MatchingInv
  <2> DEFINE c == bundles[i]
             In == {k \in 1 .. Len(result[c]) : r \in result[c][k]}
  <2>1. c \in Cmd /\ ExactSet(c) /\ Len(result[c]) \in Nat
    BY DEF MatchingInv, TypeOK, Goroutines, SetsExact
  <2>2. ASSUME NEW j \in In, NEW k \in In
        PROVE  j = k
    <3>1. ~ (j < k) /\ ~ (k < j)
      BY <2>1 DEF ExactSet
    <3> QED BY <2>1, <3>1
  <2>3. \A k \in In : Hits(r, c, k) /\ attr[r].pkg = ImportPath[c]
    BY <2>1 DEF ExactSet
  <2>4. ASSUME pc \in {"match", "deps"}, In = {}, r \in Candidates(c),
               NEW k \in 1 .. Len(project.decl[c]), Hits(r, c, k)
        PROVE  FALSE
    <3>1. r \in RulesIn(c)
      BY <2>1, <2>4 DEF ExactSet
    <3> QED BY <2>4, <3>1 DEF RulesIn
  <2> QED BY <2>2, <2>3, <2>4
<1> QED BY <1>1, MatchingAlways, PTL

\* What the goroutines of a round gather is the match of what was compiled in
\* it, in whichever order they deliver.
THEOREM GatheredIsTheMatch ==
  Spec => [](pc = "deps" /\ round > 0 => Matched = MatchOf(Compiled))
<1>1. MatchingInv => (pc = "deps" /\ round > 0 => Matched = MatchOf(Compiled))
  BY MatchedInRound DEF MatchingInv
<1> QED BY <1>1, MatchingAlways, PTL

\* What is stored fits the build that follows.
THEOREM StoredRulesFit == Spec => []StoredFits
<1>1. MatchingInv => StoredFits
  <2> SUFFICES ASSUME MatchingInv, pc = "stored"
               PROVE  HooksLinked /\ StillCompiled /\ RectifiedOnce
    BY DEF StoredFits, HooksLinked, StillCompiled, RectifiedOnce
  <2>1. HooksLinked
    BY DEF MatchingInv, Fitted, FuncRules, HooksLinked
  <2>2. StillCompiled
    BY DEF MatchingInv, Fitted, StillCompiled
  <2>3. ASSUME NEW r \in Matched, IsFileUrl(r)
        PROVE  joined[r] = 1 /\ path[r].root = "pkg"
    <3>1. r \in Rule
      BY DEF MatchingInv, TypeOK, Matched, RulesIn
    <3>2. joined[r] = 1
      BY <2>3 DEF MatchingInv, Rectifying
    <3>3. path[r] = Pkg(r)
      BY <2>3, <3>1, <3>2 DEF MatchingInv, Rectifying, Rectified
    <3>4. attr[r].path \in [root : {"url", "local"}, dir : {attr[r].path.dir}]
      BY <3>1, MatchingAssumption DEF MatchingInv, Given
    <3> QED BY <3>2, <3>3, <3>4 DEF Pkg
  <2>4. RectifiedOnce
    BY <2>3 DEF RectifiedOnce, IsFileUrl
  <2> QED BY <2>1, <2>2, <2>4
<1> QED BY <1>1, MatchingAlways, PTL
-----------------------------------------------------------------------------
(* The compile commands of the build.                                      *)

\* A goroutine that has not matched has no rule set, none is left waiting when its
\* round is over, and whatever is matched was available.
Resting ==
  /\ \A c \in Cmd : worker[c] \in {"none", "match"} => result[c] = NoResult
  /\ pc \notin {"match", "exited"} => \A c \in Cmd : worker[c] \in {"none", "done"}
  /\ \A c \in Cmd : RulesIn(c) \subseteq AvailableRules

\* The file rules that were applied, and what was applied to source file k.
Applied == FileRules(cmd) \ left
SoFar(k) == IF k \in files THEN {} ELSE CodeRules(cmd, k)

BaseFile(r) == File(Added, layout.base[r])
Names == {layout.name[cmd][k] : k \in Own} \union {layout.base[r] : r \in Rule}
           \union {OtelGlobalsFile}
Paths == [of : Cmd \union {Added, Written}, name : Names]

\* Rule r put its file in the place of source file k.
Replaces(r, k) == r \in layout.replace /\ layout.base[r] = layout.name[cmd][k]

\* What stands for source file k: the file of a rule, or the file itself, or what
\* was written when it was changed.
StandsReplaced(k) == \E r \in Applied :
  /\ Replaces(r, k)
  /\ args[k] = BaseFile(r)
  /\ Contents(args[k]) = [from |-> BaseFile(r), decl |-> layout.text[r], applied |-> SoFar(k)]
StandsItself(k) ==
  /\ \A r \in Applied : ~ Replaces(r, k)
  /\ args[k] = IF SoFar(k) = {} THEN Source(cmd, k) ELSE File(Written, layout.name[cmd][k])
  /\ Contents(args[k]) =
       [from |-> Source(cmd, k), decl |-> project.decl[cmd][k], applied |-> SoFar(k)]
Stands(k) == StandsReplaced(k) \/ StandsItself(k)

\* A file that is still to be changed is found where it stands.
Found(k) == k \in files =>
  TryRelocated(Source(cmd, k)) = args[k] /\ TryRelocated(args[k]) = args[k]

\* What was added behind the source files.
Behind(i) == \E r \in Applied \ layout.replace :
  /\ args[i] = BaseFile(r)
  /\ Contents(args[i]) = [from |-> BaseFile(r), decl |-> layout.text[r], applied |-> {}]
Extra == 1 .. Len(args) \ Own

Applying ==
  /\ left \subseteq FileRules(cmd)
  /\ files \subseteq {k \in Own : CodeRules(cmd, k) # {}}
  /\ left # {} => \A k \in Own : SoFar(k) = {}
  /\ args \in Seq(Paths) /\ Len(project.decl[cmd]) <= Len(args)
  /\ \A i, j \in 1 .. Len(args) : args[i] = args[j] => i = j
  /\ \A k \in Own : Stands(k) /\ Found(k)
  /\ \A i \in Extra : Behind(i)
  /\ \A r \in Applied \ layout.replace : \E i \in Extra : args[i] = BaseFile(r)
  /\ \A p \in DOMAIN disk : p.of \in {Added, Written}
  /\ \A p \in DOMAIN relocated : p.of = cmd \/ \E r \in Applied : p = BaseFile(r)

\* Nothing is left to be applied, and the globals are there if they are needed.
Globals == File(Written, OtelGlobalsFile)
Final ==
  /\ Own \subseteq 1 .. Len(args) /\ ~ complete
  /\ \A k \in Own :
       /\ Contents(args[k]).applied = CodeRules(cmd, k)
       /\ \/ ReplacedBy(k) = {} /\ Contents(args[k]).from = Source(cmd, k)
          \/ \E r \in ReplacedBy(k) : Contents(args[k]).from = BaseFile(r)
  /\ \A i \in Extra :
       /\ Contents(args[i]).applied = {}
       /\ \/ HasFuncRule /\ Contents(args[i]).from = Globals
          \/ \E r \in FileRules(cmd) \ layout.replace : Contents(args[i]).from = BaseFile(r)
  /\ \A i, j \in Extra : Contents(args[i]).from = Contents(args[j]).from => i = j
  /\ \A r \in FileRules(cmd) \ layout.replace :
       \E i \in Extra : Contents(args[i]).from = BaseFile(r)
  /\ HasFuncRule => \E i \in Extra : Contents(args[i]).from = Globals

\* A rule's target is not in the file that replaces the one it took.
Unchangeable == \E k \in Own : \E r \in ReplacedBy(k) : ~ CodeRules(cmd, k) \subseteq layout.text[r]

BuildInv ==
  /\ MatchingInv /\ Resting
  /\ step \in {"none", "apply", "done", "failed"}
  /\ step = "none" => set = NoSet /\ disk = <<>> /\ relocated = <<>>
  /\ step # "none" => pc = "stored" /\ cmd \in Cmd /\ layout \in Layout[cmd]
  /\ step = "apply" => set \in Cmd
  /\ step # "none" /\ set = NoSet =>
       step = "done" /\ ~ IsValid(result[cmd]) /\ args = [k \in Own |-> Source(cmd, k)]
  /\ step # "none" /\ set = cmd =>
       /\ cmd \in {bundles[i] : i \in 1 .. Len(bundles)}
       /\ ~ Confused => CASE step = "apply"  -> Applying
                          [] step = "failed" -> Unchangeable
                          [] step = "done"   -> Final
-----------------------------------------------------------------------------
LEMMA RestingInit == Init => Resting
BY DEF Init, Resting, RulesIn, NoResult

LEMMA RulesAvailableStep ==
  ASSUME MatchingInv, Resting, [Next]_vars
  PROVE  (\A c \in Cmd : RulesIn(c) \subseteq AvailableRules)'
<1>1. AvailableRules' = AvailableRules
  <2>1. UNCHANGED input
    BY DEF input, Next, vars, NewDeps, MatchRules, Gathered, Store, Match, MatchExits, Receive, UpdateRule
  <2> QED BY <2>1, AvailableSame
<1>2. ASSUME NEW c \in Cmd, Match(c)
      PROVE  \A d \in Cmd : RulesIn(d)' \subseteq AvailableRules
  <2>1. available \subseteq Rule /\ available = AvailableRules
    BY <1>2 DEF Match, MatchingInv, TypeOK, Goroutines
  <2>2. \A d \in Cmd : result'[d] = IF d = c THEN RuleSet(c) ELSE result[d]
    BY <1>2 DEF Match, MatchingInv, TypeOK
  <2>3. \A k \in 1 .. Len(RuleSet(c)) : RuleSet(c)[k] \subseteq available
    BY <2>1, RuleSetOf DEF MatchingInv, Candidates
  <2> QED BY <2>1, <2>2, <2>3 DEF RulesIn, Resting
<1>3. CASE MatchRules
  BY <1>3 DEF MatchRules, RulesIn, NoResult
<1>4. CASE UNCHANGED result
  BY <1>1, <1>4 DEF RulesIn, Resting
<1> QED
  BY <1>1, <1>2, <1>3, <1>4
  DEF Next, vars, NewDeps, Gathered, Store, MatchExits, Receive, UpdateRule

LEMMA RestingStep ==
  ASSUME MatchingInv, MatchingInv', Resting, [Next]_vars
  PROVE  Resting'
<1> DEFINE Rest == /\ \A c \in Cmd : worker[c] \in {"none", "match"} => result[c] = NoResult
                   /\ pc \notin {"match", "exited"} => \A c \in Cmd : worker[c] \in {"none", "done"}
<1> SUFFICES Rest'
  BY RulesAvailableStep DEF Resting
<1>0. Rest
  BY DEF Resting
<1>1. ASSUME NEW c \in Cmd, Match(c)
      PROVE  Rest'
  BY <1>0, <1>1 DEF Match, MatchingInv, TypeOK
<1>2. ASSUME NEW c \in Cmd, MatchExits(c)
      PROVE  Rest'
  BY <1>0, <1>2 DEF MatchExits
<1>3. ASSUME NEW c \in Cmd, Receive(c)
      PROVE  Rest'
  BY <1>0, <1>3 DEF Receive, MatchingInv, TypeOK
<1>4. CASE NewDeps
  BY <1>0, <1>4 DEF NewDeps
<1>5. CASE MatchRules
  BY <1>5 DEF MatchRules
<1>6. CASE Gathered
  <2>1. pc' = "deps" /\ round' > 0 /\ Goroutines'
    BY <1>6 DEF Gathered, MatchingInv, TypeOK
  <2>2. \A c \in Cmd : worker'[c] \in {"none", "done"}
    BY <2>1 DEF Goroutines
  <2> QED BY <1>0, <1>6, <2>1, <2>2 DEF Gathered
<1>7. CASE Store
  BY <1>0, <1>7 DEF Store
<1>8. ASSUME NEW i, NEW r \in Rule, UpdateRule(i, r)
      PROVE  Rest'
  BY <1>0, <1>8 DEF UpdateRule
<1>9. CASE UNCHANGED vars
  BY <1>0, <1>9 DEF vars
<1> HIDE DEF Rest
<1> QED BY <1>1, <1>2, <1>3, <1>4, <1>5, <1>6, <1>7, <1>8, <1>9 DEF Next

LEMMA SmallestIs ==
  ASSUME NEW S \in SUBSET Nat, NEW k \in S, \A j \in S : k <= j
  PROVE  Smallest(S) = k
<1>1. \A i \in S : (\A j \in S : i <= j) => i = k
  OBVIOUS
<1> QED BY <1>1, Zenon DEF Smallest

LEMMA SmallestIn ==
  ASSUME NEW S \in SUBSET Nat, S # {}
  PROVE  Smallest(S) \in S
<1>1. PICK k \in S : \A j \in S : k <= j
  BY LeastNumber
<1> QED BY <1>1, SmallestIs

\* A set of numbers with a bound has a greatest one.
LEMMA GreatestNumber ==
  ASSUME NEW n \in Nat, NEW S \in SUBSET (0 .. n), S # {}
  PROVE  \E m \in S : \A k \in S : k <= m
<1> DEFINE T == {n - k : k \in S}
<1>1. T \in SUBSET Nat /\ T # {}
  <2>1. PICK k \in S : TRUE
    OBVIOUS
  <2>2. n - k \in T /\ \A j \in S : n - j \in Nat
    OBVIOUS
  <2> QED BY <2>2
<1>2. PICK t \in T : \A u \in T : t <= u
  <2> HIDE DEF T
  <2> QED BY <1>1, LeastNumber
<1>3. PICK m \in S : t = n - m
  OBVIOUS
<1>4. ASSUME NEW k \in S PROVE k <= m
  <2>1. n - k \in T
    OBVIOUS
  <2>2. t <= n - k
    BY <1>2, <2>1
  <2> HIDE DEF T
  <2> QED BY <1>3, <2>2
<1> QED BY <1>4

\* Of some available rules there is one that is looked at first.
LEMMA FirstOfIn ==
  ASSUME MatchingInv, NEW S \in SUBSET AvailableRules, S # {}
  PROVE  FirstOf(S) \in S
<1> DEFINE n == Len(conf.custom)
<1>1. n \in Nat
  BY MatchingAssumption DEF MatchingInv, Given
<1>2. AvailableRules \subseteq Rule
  BY DEF AvailableRules, DefaultRules, RulesOf
<1>3. Cardinality(Rule) \in Nat /\ Rule = 1 .. Cardinality(Rule)
  BY MatchingAssumption, FS_CardinalityType
<1>4. ASSUME NEW r \in S
      PROVE  Place(r) \in 0 .. n
  <2>1. r \in Rule /\ (attr[r].file \in Default \/ \E i \in 1 .. n : attr[r].file = conf.custom[i])
    BY MatchingAssumption, <1>2
    DEF AvailableRules, DefaultRules, EnabledFiles, RulesOf
  <2>2. CASE attr[r].file \in Default
    BY <1>1, <2>2 DEF Place
  <2>3. CASE attr[r].file \notin Default
    <3>1. PICK i \in 1 .. n : conf.custom[i] = attr[r].file
      BY <2>1, <2>3
    <3>2. Place(r) = CHOOSE j \in 1 .. n : conf.custom[j] = attr[r].file
      BY <2>3 DEF Place
    <3> QED BY <1>1, <3>1, <3>2
  <2> QED BY <2>2, <2>3
<1> DEFINE P == {Place(r) : r \in S}
<1>5. PICK p \in P : \A q \in P : q <= p
  <2>1. P # {} /\ P \in SUBSET (0 .. n)
    BY <1>4
  <2> HIDE DEF P, n
  <2> QED BY <1>1, <2>1, GreatestNumber
<1> DEFINE T == {r \in S : Place(r) = p}
<1>6. PICK r \in T : \A q \in T : q <= r
  <2>1. T # {} /\ T \in SUBSET (0 .. Cardinality(Rule))
    BY <1>2, <1>3, <1>5
  <2> HIDE DEF T
  <2> QED BY <1>3, <2>1, GreatestNumber
<1>7. ASSUME NEW q \in S \ {r}
      PROVE  LoadedBefore(q, r)
  <2>1. Place(q) <= Place(r) /\ (Place(q) = Place(r) => q <= r)
    BY <1>5, <1>6
  <2>2. q \in Nat /\ r \in Nat /\ Place(q) \in Nat /\ Place(r) \in Nat
    BY <1>1, <1>2, <1>3, <1>4, <1>6
  <2> QED BY <2>1, <2>2 DEF LoadedBefore
<1>8. \E x \in S : \A q \in S \ {x} : LoadedBefore(q, x)
  BY <1>6, <1>7
<1> QED BY <1>8, Zenon DEF FirstOf

-----------------------------------------------------------------------------
(* The command and the rule set it takes.                                  *)

LEMMA NothingTaken ==
  ASSUME MatchingInv, Resting, pc = "stored", NEW c \in Cmd, Fitting(c) = {}
  PROVE  ~ IsValid(result[c])
<1>1. SUFFICES ASSUME IsValid(result[c])
               PROVE  FALSE
  OBVIOUS
<1>2. worker[c] = "done"
  <2>1. result[c] # NoResult
    BY <1>1 DEF IsValid, NoResult
  <2> QED BY <2>1 DEF Resting
<1>3. PICK i \in 1 .. Len(bundles) : bundles[i] = c
  BY <1>1, <1>2 DEF MatchingInv, Goroutines
<1> QED BY <1>3 DEF Fitting

LEMMA TakenIn ==
  ASSUME MatchingInv, NEW c \in Cmd, Fitting(c) # {}
  PROVE  Taken(c) \in Cmd /\ Taken(c) \in {bundles[i] : i \in 1 .. Len(bundles)}
<1>1. Fitting(c) \in SUBSET Nat
  BY DEF Fitting
<1>2. Smallest(Fitting(c)) \in 1 .. Len(bundles)
  BY <1>1, SmallestIn DEF Fitting
<1> QED BY <1>2 DEF Taken, MatchingInv, TypeOK

\* What is in a rule set that was gathered.
LEMMA GatheredSet ==
  ASSUME MatchingInv, Resting, NEW c \in Cmd, c \in {bundles[i] : i \in 1 .. Len(bundles)}
  PROVE  /\ Len(result[c]) = Len(project.decl[c]) /\ Len(project.decl[c]) \in Nat
         /\ FileRules(c) \subseteq AvailableRules /\ FileRules(c) \subseteq Rule
         /\ \A k \in 1 .. Len(project.decl[c]) : CodeRules(c, k) \subseteq project.decl[c][k]
         /\ \A j, k \in 1 .. Len(project.decl[c]) : \A r :
              r \in CodeRules(c, j) /\ r \in CodeRules(c, k) => j = k
<1>1. ExactSet(c)
  BY DEF MatchingInv, Goroutines, SetsExact
<1>2. Len(project.decl[c]) \in Nat
  BY GivenDecl DEF MatchingInv
<1>3. FileRules(c) \subseteq AvailableRules
  BY DEF FileRules, Resting
<1>4. AvailableRules \subseteq Rule
  BY DEF AvailableRules, DefaultRules, RulesOf
<1>5. ASSUME NEW k \in 1 .. Len(project.decl[c])
      PROVE  CodeRules(c, k) \subseteq project.decl[c][k]
  BY <1>1 DEF ExactSet, CodeRules, Hits
<1>6. ASSUME NEW j \in 1 .. Len(project.decl[c]), NEW k \in 1 .. Len(project.decl[c]), NEW r,
             r \in CodeRules(c, j), r \in CodeRules(c, k)
      PROVE  j = k
  <2>1. r \in result[c][j] /\ r \in result[c][k]
    BY <1>6 DEF CodeRules
  <2>2. ~ (j < k) /\ ~ (k < j)
    BY <1>1, <1>2, <2>1 DEF ExactSet
  <2> QED BY <1>2, <2>2
<1> QED BY <1>1, <1>2, <1>3, <1>4, <1>5, <1>6 DEF ExactSet

\* What it means that no names are confused.
Clear ==
  /\ \A q, r \in FileRules(cmd) : layout.base[q] = layout.base[r] => q = r
  /\ \A r \in FileRules(cmd) \intersect layout.replace :
       /\ \E k \in Own : layout.name[cmd][k] = layout.base[r]
       /\ \A k \in Own : <<layout.name[cmd][k], layout.base[r]>> \notin layout.ends
  /\ cmd \in layout.cgo =>
       \A j, k \in Own : <<layout.name[cmd][k], layout.name[cmd][j]>> \notin layout.ends
  /\ \A j, k \in Own : layout.name[cmd][j] = layout.name[cmd][k] => j = k
  /\ \A k \in Own : layout.name[cmd][k] # OtelGlobalsFile
  /\ cmd \notin {Added, Written} /\ Added # Written
  /\ Len(project.decl[cmd]) \in Nat /\ Len(layout.name[cmd]) = Len(project.decl[cmd])

LEMMA Unconfused ==
  ASSUME MatchingInv, cmd \in Cmd, layout \in Layout[cmd], ~ Confused
  PROVE  Clear
<1>1. /\ project \in Project /\ Len(project.decl[cmd]) \in Nat
  BY GivenDecl DEF MatchingInv, Given
<1>2. /\ Len(layout.name[cmd]) = Len(project.decl[cmd])
      /\ \A k \in Own : layout.name[cmd][k] # OtelGlobalsFile
      /\ \A j, k \in Own : layout.name[cmd][j] = layout.name[cmd][k] => j = k
  BY <1>1, LayoutAssumption DEF Own
<1>3. cmd \notin {Added, Written} /\ Added # Written
  BY LayoutAssumption DEF Added, Written
<1>4. \A q, r \in FileRules(cmd) : layout.base[q] = layout.base[r] => q = r
  BY DEF Confused
<1>5. \A r \in FileRules(cmd) \intersect layout.replace :
        /\ \E k \in Own : layout.name[cmd][k] = layout.base[r]
        /\ \A k \in Own : <<layout.name[cmd][k], layout.base[r]>> \notin layout.ends
  BY DEF Confused
<1>6. cmd \in layout.cgo =>
        \A j, k \in Own : <<layout.name[cmd][k], layout.name[cmd][j]>> \notin layout.ends
  BY DEF Confused
<1> QED BY <1>1, <1>2, <1>3, <1>4, <1>5, <1>6 DEF Clear

\* What stays as it is while the command is dealt with.
LEMMA CommandSame ==
  ASSUME UNCHANGED <<vars, layout, cmd>>
  PROVE  /\ FileRules(cmd)' = FileRules(cmd) /\ Own' = Own /\ Confused' = Confused
         /\ Names' = Names /\ Paths' = Paths
         /\ \A k : CodeRules(cmd, k)' = CodeRules(cmd, k) /\ Source(cmd, k)' = Source(cmd, k)
         /\ \A r : BaseFile(r)' = BaseFile(r)
         /\ \A r, k : Replaces(r, k)' <=> Replaces(r, k)
         /\ layout' = layout /\ cmd' = cmd /\ project' = project /\ result' = result /\ attr' = attr
<1>1. layout' = layout /\ cmd' = cmd /\ project' = project /\ result' = result /\ attr' = attr
  BY DEF vars, input
<1>2. FileRules(cmd)' = FileRules(cmd) /\ Own' = Own
  BY <1>1 DEF FileRules, RulesIn, Own
<1>3. Confused' = Confused
  BY <1>1, <1>2 DEF Confused
<1>4. Names' = Names
  BY <1>1, <1>2 DEF Names
<1>5. Paths' = Paths
  BY <1>4 DEF Paths
<1>6. \A k : CodeRules(cmd, k)' = CodeRules(cmd, k) /\ Source(cmd, k)' = Source(cmd, k)
  BY <1>1 DEF CodeRules, Source
<1>7. \A r : BaseFile(r)' = BaseFile(r)
  BY <1>1 DEF BaseFile
<1>8. \A r, k : Replaces(r, k)' <=> Replaces(r, k)
  BY <1>1 DEF Replaces
<1> QED BY <1>1, <1>2, <1>3, <1>4, <1>5, <1>6, <1>7, <1>8

\* The contents of a path, of what they depend on.
ContentsIn(onDisk, decl, name, p) ==
  IF p \in DOMAIN onDisk THEN onDisk[p]
  ELSE Text(p, decl[p.of][CHOOSE k \in 1 .. Len(name[p.of]) : name[p.of][k] = p.name])

LEMMA ContentsAre ==
  ASSUME NEW i
  PROVE  /\ Contents(args[i]) = ContentsIn(disk, project.decl, layout.name, args[i])
         /\ Contents(args[i])' = ContentsIn(disk', project'.decl, layout'.name, args'[i])
BY Zenon DEF Contents, ContentsIn

\* A file is written: its contents are new, those of the others stay.
LEMMA Rewritten ==
  ASSUME NEW p, NEW t, disk' = Entered(disk, p, t), project' = project, layout' = layout, NEW i
  PROVE  /\ args'[i] = args[i] /\ args[i] # p => Contents(args[i])' = Contents(args[i])
         /\ args'[i] = p => Contents(args[i])' = t
<1>1. /\ DOMAIN disk' = {p} \union DOMAIN disk
      /\ disk'[p] = t
      /\ \A q \in DOMAIN disk : q # p => disk'[q] = disk[q]
  BY DEF Entered
<1>2. \A q : q # p => ContentsIn(disk', project.decl, layout.name, q)
                        = ContentsIn(disk, project.decl, layout.name, q)
  BY <1>1 DEF ContentsIn
<1>3. ContentsIn(disk', project.decl, layout.name, p) = t
  BY <1>1 DEF ContentsIn
<1> QED BY <1>2, <1>3, ContentsAre

\* Nothing is written.
LEMMA NotWritten ==
  ASSUME disk' = disk, project' = project, layout' = layout, NEW i, args'[i] = args[i]
  PROVE  Contents(args[i])' = Contents(args[i])
BY ContentsAre, Zenon

LEMMA SourceContents ==
  ASSUME NEW c \in Cmd, NEW l \in Layout[c], project \in Project,
         NEW k \in 1 .. Len(project.decl[c])
  PROVE  ContentsIn(<<>>, project.decl, l.name, File(c, l.name[c][k]))
           = [from |-> File(c, l.name[c][k]), decl |-> project.decl[c][k], applied |-> {}]
<1> DEFINE p == File(c, l.name[c][k])
<1>1. p.of = c /\ p.name = l.name[c][k]
  BY DEF File
<1>2. (CHOOSE j \in 1 .. Len(l.name[c]) : l.name[c][j] = l.name[c][k]) = k
  BY LayoutAssumption
<1>3. p \notin DOMAIN <<>>
  OBVIOUS
<1> HIDE DEF p
<1>4. ContentsIn(<<>>, project.decl, l.name, p) = Text(p, project.decl[c][k])
  BY <1>1, <1>2, <1>3, Zenon DEF ContentsIn
<1> QED BY <1>4 DEF Text, p

LEMMA Files ==
  /\ \A of, name : File(of, name).of = of /\ File(of, name).name = name
  /\ \A a, b, c, d : File(a, b) = File(c, d) => a = c /\ b = d
BY DEF File

\* Where a source file stands and what its name is.
LEMMA OwnStands ==
  ASSUME Clear, Applying, NEW k \in Own
  PROVE  /\ k \in 1 .. Len(args)
         /\ args[k].name = layout.name[cmd][k]
         /\ \/ args[k] = Source(cmd, k)
            \/ args[k] = File(Written, layout.name[cmd][k])
            \/ \E r \in Applied : Replaces(r, k) /\ args[k] = BaseFile(r)
<1>1. k \in 1 .. Len(args)
  BY DEF Clear, Applying, Own
<1>2. CASE StandsReplaced(k)
  BY <1>1, <1>2, Files DEF StandsReplaced, Replaces, BaseFile
<1>3. CASE StandsItself(k)
  BY <1>1, <1>3, Files DEF StandsItself, Source
<1> QED BY <1>2, <1>3 DEF Applying, Stands

\* The file of a rule that is still to be applied is nowhere.
LEMMA NotYet ==
  ASSUME Clear, Applying, NEW r \in left
  PROVE  /\ \A i \in 1 .. Len(args) : args[i] # BaseFile(r)
         /\ BaseFile(r) \notin DOMAIN relocated
<1>1. \A q \in Applied : BaseFile(q) # BaseFile(r)
  BY Files DEF Clear, Applying, Applied, BaseFile
<1>2. ASSUME NEW i \in 1 .. Len(args)
      PROVE  args[i] # BaseFile(r)
  <2>1. CASE i \in Own
    BY <1>1, <2>1, OwnStands, Files DEF Clear, BaseFile, Source
  <2>2. CASE i \notin Own
    BY <1>1, <2>2 DEF Applying, Extra, Behind
  <2> QED BY <2>1, <2>2
<1>3. BaseFile(r) \notin DOMAIN relocated
  BY <1>1, Files DEF Applying, Clear, BaseFile
<1> QED BY <1>2, <1>3

\* The first argument that ends with the name of a source file stands for it.
LEMMA FirstNamed ==
  ASSUME Clear, Applying, NEW k \in Own, NEW n, n = layout.name[cmd][k],
         \A j \in Own : <<layout.name[cmd][j], n>> \notin layout.ends
  PROVE  /\ k \in {i \in 1 .. Len(args) : EndsWith(args[i], n)}
         /\ Smallest({i \in 1 .. Len(args) : EndsWith(args[i], n)}) = k
<1> DEFINE S == {i \in 1 .. Len(args) : EndsWith(args[i], n)}
<1>1. k \in S /\ S \in SUBSET Nat
  BY OwnStands DEF EndsWith
<1>2. ASSUME NEW i \in S
      PROVE  k <= i
  <2>1. CASE i \in Own
    <3>1. args[i].name = layout.name[cmd][i]
      BY <2>1, OwnStands
    <3>2. i = k
      BY <2>1, <3>1 DEF EndsWith, Clear
    <3> QED BY <1>1, <3>2
  <2>2. CASE i \notin Own
    BY <2>2 DEF Own, Clear
  <2> QED BY <2>1, <2>2
<1> HIDE DEF S
<1>3. Smallest(S) = k
  BY <1>1, <1>2, SmallestIs
<1> QED BY <1>1, <1>3 DEF S

LEMMA WhereItIs ==
  ASSUME Clear, Applying, NEW k \in Own
  PROVE  Smallest({i \in 1 .. Len(args) : args[i] = args[k]}) = k
<1> DEFINE S == {i \in 1 .. Len(args) : args[i] = args[k]}
<1>1. S = {k}
  BY OwnStands DEF Applying
<1>2. k \in Nat
  BY DEF Own
<1> HIDE DEF S
<1>3. Smallest(S) = k
  BY <1>1, <1>2, SmallestIs
<1> QED BY <1>3 DEF S

-----------------------------------------------------------------------------
(* The steps of the command.                                               *)

\* The command takes its own rule set.
LEMMA InterceptApplies ==
  ASSUME MatchingInv, Resting, pc = "stored", disk = <<>>, relocated = <<>>, NEW c \in Cmd, Intercept(c),
         step' = "apply", set' = cmd'
  PROVE  Applying'
<1> DEFINE l == layout'
           n == Len(project.decl[c])
<1>1. /\ cmd' = c /\ l \in Layout[c] /\ Taken(c) = c /\ Fitting(c) # {}
      /\ args' = [k \in 1 .. n |-> File(c, l.name[c][k])]
      /\ left' = FileRules(c)
      /\ files' = {k \in 1 .. Len(result[c]) : CodeRules(c, k) # {}}
      /\ disk' = <<>> /\ relocated' = <<>>
      /\ UNCHANGED <<attr, project, result>>
  BY DEF Intercept, vars
<1>2. n \in Nat /\ Len(result[c]) = n /\ project \in Project
  BY <1>1, TakenIn, GatheredSet DEF MatchingInv, Given
<1>3. FileRules(cmd)' = FileRules(c) /\ \A k : CodeRules(cmd, k)' = CodeRules(c, k)
  BY <1>1 DEF FileRules, RulesIn, CodeRules
<1>4. Own' = 1 .. n /\ Applied' = {} /\ Len(args') = n /\ DOMAIN args' = 1 .. n
  BY <1>1, <1>2, <1>3 DEF Own, Applied
<1>5. \A k \in 1 .. n : SoFar(k)' = {}
  BY <1>1, <1>2, <1>3 DEF SoFar
<1> HIDE DEF l, n
<1>6. \A k : Source(cmd, k)' = File(c, l.name[c][k])
  BY <1>1 DEF Source, l
<1>7. \A j, k \in 1 .. n : args'[j] = args'[k] => j = k
  <2>1. Len(l.name[c]) = n
    BY <1>1, <1>2, LayoutAssumption DEF n
  <2>2. ASSUME NEW j \in 1 .. n, NEW k \in 1 .. n, args'[j] = args'[k]
        PROVE  j = k
    <3>1. l.name[c][j] = l.name[c][k]
      BY <1>1, <2>2, Files
    <3> QED BY <1>1, <2>1, <3>1, LayoutAssumption
  <2> QED BY <2>2
<1>8. args' \in Seq(Paths')
  <2>1. \A k \in 1 .. n : File(c, l.name[c][k]) \in Paths'
    BY <1>1, <1>4 DEF Paths, Names, File, l
  <2> QED BY <1>1, <1>2, <2>1
<1>9. ASSUME NEW k \in 1 .. n
      PROVE  Stands(k)' /\ Found(k)'
  <2>1. ContentsIn(<<>>, project.decl, l.name, File(c, l.name[c][k]))
           = [from |-> File(c, l.name[c][k]), decl |-> project.decl[c][k], applied |-> {}]
    BY <1>1, <1>2, SourceContents DEF n
  <2>2. args'[k] = File(c, l.name[c][k])
    BY <1>1
  <2>3. Contents(args[k])' = ContentsIn(<<>>, project.decl, l.name, File(c, l.name[c][k]))
    BY <1>1, <2>2, ContentsAre, Zenon DEF l
  <2>4. StandsItself(k)'
    BY <1>1, <1>4, <1>5, <1>6, <2>1, <2>2, <2>3 DEF StandsItself
  <2>5. Found(k)'
    BY <1>1, <1>6, <2>2 DEF Found, TryRelocated
  <2> QED BY <2>4, <2>5 DEF Stands
<1>10. Extra' = {}
  BY <1>4 DEF Extra
<1>11. left' \subseteq FileRules(cmd)' /\ files' \subseteq {k \in Own' : CodeRules(cmd, k)' # {}}
  BY <1>1, <1>2, <1>3, <1>4
<1>12. Len(project'.decl[cmd']) <= Len(args')
  BY <1>1, <1>2, <1>4 DEF n
<1>13. DOMAIN disk' = {} /\ DOMAIN relocated' = {}
  BY <1>1
<1> QED
  BY <1>4, <1>5, <1>7, <1>8, <1>9, <1>10, <1>11, <1>12, <1>13 DEF Applying

\* Where nothing changes, what stands for a source file, or was added, stays.
LEMMA StandsSame ==
  ASSUME UNCHANGED <<vars, layout, cmd>>, Applied \subseteq Applied', NEW k,
         SoFar(k)' = SoFar(k), args'[k] = args[k], Contents(args[k])' = Contents(args[k]),
         \A q \in Applied' \ Applied : ~ Replaces(q, k), Stands(k)
  PROVE  Stands(k)'
<1>1. ASSUME StandsReplaced(k)
      PROVE  StandsReplaced(k)'
  <2>1. PICK q \in Applied : /\ Replaces(q, k) /\ args[k] = BaseFile(q)
                             /\ Contents(args[k]) = [from |-> BaseFile(q), decl |-> layout.text[q],
                                                    applied |-> SoFar(k)]
    BY <1>1 DEF StandsReplaced
  <2>2. q \in Applied' /\ BaseFile(q)' = BaseFile(q) /\ layout' = layout
    BY CommandSame
  <2>3. Replaces(q, k)'
    BY <2>1, CommandSame, Zenon
  <2> QED BY <2>1, <2>2, <2>3 DEF StandsReplaced
<1>2. ASSUME StandsItself(k)
      PROVE  StandsItself(k)'
  <2>1. \A q \in Applied' : ~ Replaces(q, k)'
    BY <1>2, CommandSame DEF StandsItself
  <2>2. Source(cmd, k)' = Source(cmd, k) /\ layout' = layout /\ cmd' = cmd /\ project' = project
    BY CommandSame
  <2> QED BY <1>2, <2>1, <2>2 DEF StandsItself
<1> QED BY <1>1, <1>2 DEF Stands

LEMMA BehindSame ==
  ASSUME UNCHANGED <<vars, layout, cmd>>, Applied \subseteq Applied', NEW i,
         args'[i] = args[i], Contents(args[i])' = Contents(args[i]), Behind(i)
  PROVE  Behind(i)'
<1>1. PICK q \in Applied \ layout.replace :
        /\ args[i] = BaseFile(q)
        /\ Contents(args[i]) = [from |-> BaseFile(q), decl |-> layout.text[q], applied |-> {}]
  BY DEF Behind
<1>2. q \in Applied' \ layout'.replace /\ BaseFile(q)' = BaseFile(q) /\ layout' = layout
  BY CommandSame
<1> QED BY <1>1, <1>2 DEF Behind

\* A file rule adds its file.
LEMMA AddStep ==
  ASSUME Clear, Applying, NEW r \in left, r \in Rule, r \notin layout.replace,
         args' = Append(args, BaseFile(r)),
         disk' = Entered(disk, BaseFile(r), Text(BaseFile(r), layout.text[r])),
         left' = left \ {r}, relocated' = relocated,
         UNCHANGED <<vars, layout, cmd, files>>
  PROVE  Applying'
<1> DEFINE p == BaseFile(r)
           m == Len(args)
<1>0. /\ FileRules(cmd)' = FileRules(cmd) /\ Own' = Own /\ Paths' = Paths
      /\ \A k : CodeRules(cmd, k)' = CodeRules(cmd, k) /\ Source(cmd, k)' = Source(cmd, k)
      /\ \A q : BaseFile(q)' = BaseFile(q)
      /\ \A q, k : Replaces(q, k)' <=> Replaces(q, k)
      /\ layout' = layout /\ cmd' = cmd /\ project' = project /\ files' = files
  BY CommandSame
<1>1. Applied' = Applied \union {r}
  BY <1>0 DEF Applied, Applying
<1>2. \A k : SoFar(k)' = SoFar(k)
  BY <1>0 DEF SoFar
<1>3. /\ m \in Nat /\ DOMAIN args = 1 .. m /\ Len(args') = m + 1 /\ args'[m + 1] = p
      /\ \A i \in 1 .. m : args'[i] = args[i] /\ args[i] # p
  BY NotYet DEF Applying
<1>4. p \in Paths
  BY DEF p, BaseFile, Paths, Names, File
<1>5. p.of = Added
  BY Files DEF BaseFile
<1>6. \A i \in 1 .. m : Contents(args[i])' = Contents(args[i])
  BY <1>0, <1>3, Rewritten
<1>7. \A i : i = m + 1 =>
        Contents(args[i])' = [from |-> p, decl |-> layout.text[r], applied |-> {}]
  <2>1. \A i : i = m + 1 => Contents(args[i])' = Text(p, layout.text[r])
    BY <1>0, <1>3, Rewritten
  <2> QED BY <2>1 DEF Text
<1>8. Own \subseteq 1 .. m /\ Extra' = Extra \union {m + 1} /\ Extra \subseteq 1 .. m
  BY <1>0, <1>3, OwnStands DEF Extra, Own, Clear, Applying
<1> HIDE DEF p, m
<1>9. ASSUME NEW k \in Own
      PROVE  Stands(k)' /\ Found(k)'
  <2>1. args'[k] = args[k] /\ Contents(args[k])' = Contents(args[k])
    BY <1>3, <1>6, <1>8
  <2>2. Stands(k)'
    <3>1. Applied \subseteq Applied' /\ SoFar(k)' = SoFar(k)
      BY <1>1, <1>2
    <3>2. \A q \in Applied' \ Applied : ~ Replaces(q, k)
      BY <1>1 DEF Replaces
    <3>3. Stands(k)
      BY DEF Applying
    <3> QED BY <2>1, <3>1, <3>2, <3>3, StandsSame
  <2>3. Found(k)'
    BY <1>0, <2>1 DEF Found, TryRelocated, Applying
  <2> QED BY <2>2, <2>3
<1>10. ASSUME NEW i \in Extra'
       PROVE  Behind(i)'
  <2>1. CASE i = m + 1
    <3>1. args'[i] = BaseFile(r)' /\ r \in Applied' \ layout'.replace
      BY <1>0, <1>1, <1>3, <2>1 DEF p
    <3>2. Contents(args[i])' = [from |-> BaseFile(r)', decl |-> layout'.text[r], applied |-> {}]
      BY <1>0, <1>7, <2>1 DEF p
    <3> QED BY <3>1, <3>2 DEF Behind
  <2>2. CASE i \in Extra
    <3>1. args'[i] = args[i] /\ Contents(args[i])' = Contents(args[i])
      BY <1>3, <1>6, <1>8, <2>2
    <3>2. Applied \subseteq Applied' /\ Behind(i)
      BY <1>1, <2>2 DEF Applying
    <3> QED BY <3>1, <3>2, BehindSame
  <2> QED BY <1>8, <2>1, <2>2
<1>11. args' \in Seq(Paths')
  BY <1>0, <1>4 DEF p, Applying
<1>12. \A i, j \in 1 .. Len(args') : args'[i] = args'[j] => i = j
  BY <1>3 DEF Applying, m
<1>13. \A q \in Applied' \ layout.replace : \E i \in Extra' : args'[i] = BaseFile(q)
  <2>1. ASSUME NEW q \in Applied \ layout.replace
        PROVE  \E i \in Extra' : args'[i] = BaseFile(q)
    BY <1>3, <1>8, <2>1 DEF Applying
  <2> QED BY <1>1, <1>3, <1>8, <2>1 DEF p
<1>14. DOMAIN disk' = DOMAIN disk \union {p}
  BY DEF Entered, p
<1>15. left' \subseteq left /\ Len(project.decl[cmd]) <= m /\ Len(project.decl[cmd]) \in Nat
  BY DEF Applying, Clear, m
<1>16. left' \subseteq FileRules(cmd)' /\ Len(project'.decl[cmd']) <= Len(args')
  BY <1>0, <1>3, <1>15 DEF Applying
<1>17. files' \subseteq {k \in Own' : CodeRules(cmd, k)' # {}}
  BY <1>0 DEF Applying
<1>18. left' # {} => \A k \in Own' : SoFar(k)' = {}
  BY <1>0, <1>2, <1>15 DEF Applying
<1>19. \A q \in DOMAIN disk' : q.of \in {Added, Written}
  BY <1>5, <1>14 DEF Applying, p
<1>20. \A q \in DOMAIN relocated' : q.of = cmd' \/ \E s \in Applied' : q = BaseFile(s)'
  BY <1>0, <1>1 DEF Applying
<1> QED
  BY <1>0, <1>9, <1>10, <1>11, <1>12, <1>13, <1>16, <1>17, <1>18, <1>19, <1>20 DEF Applying

\* A file rule puts its file in the place of a source file.
LEMMA ReplaceStep ==
  ASSUME Clear, Applying, NEW r \in left, r \in Rule, r \in layout.replace,
         NEW k \in Own, layout.name[cmd][k] = layout.base[r],
         args' = [args EXCEPT ![k] = BaseFile(r)],
         relocated' = Entered(relocated, args[k], BaseFile(r)),
         disk' = Entered(disk, BaseFile(r), Text(BaseFile(r), layout.text[r])),
         left' = left \ {r}, UNCHANGED <<vars, layout, cmd, files>>
  PROVE  Applying'
<1> DEFINE p == BaseFile(r)
           m == Len(args)
<1>0. /\ FileRules(cmd)' = FileRules(cmd) /\ Own' = Own /\ Paths' = Paths
      /\ \A j : CodeRules(cmd, j)' = CodeRules(cmd, j) /\ Source(cmd, j)' = Source(cmd, j)
      /\ \A q : BaseFile(q)' = BaseFile(q)
      /\ \A q, j : Replaces(q, j)' <=> Replaces(q, j)
      /\ layout' = layout /\ cmd' = cmd /\ project' = project /\ files' = files
  BY CommandSame
<1>1. Applied' = Applied \union {r} /\ r \in FileRules(cmd) /\ r \notin Applied
  BY <1>0 DEF Applied, Applying
<1>2. /\ \A j : SoFar(j)' = SoFar(j)
      /\ \A j \in Own : SoFar(j) = {}
  BY <1>0 DEF SoFar, Applying
<1>3. k \in 1 .. m /\ Own \subseteq 1 .. m /\ Extra \subseteq 1 .. m /\ k \notin Extra
  BY OwnStands DEF Extra
<1>4. /\ m \in Nat /\ DOMAIN args = 1 .. m /\ Len(args') = m /\ args'[k] = p
      /\ \A i \in 1 .. m : i # k => args'[i] = args[i]
      /\ \A i \in 1 .. m : args[i] # p
  BY <1>3, NotYet DEF Applying
<1>5. p \in Paths /\ p.of = Added
  BY Files DEF p, BaseFile, Paths, Names, File
<1>6. \A i \in 1 .. m : i # k => Contents(args[i])' = Contents(args[i])
  BY <1>0, <1>4, Rewritten
<1>7. Contents(args[k])' = [from |-> p, decl |-> layout.text[r], applied |-> {}]
  <2>1. Contents(args[k])' = Text(p, layout.text[r])
    BY <1>0, <1>4, Rewritten
  <2> QED BY <2>1 DEF Text
<1>8. \A j \in Own : Replaces(r, j) => j = k
  BY DEF Replaces, Clear
<1>9. args[k] = Source(cmd, k)
  <2>1. ~ StandsReplaced(k)
    <3>1. \A q \in Applied : ~ Replaces(q, k)
      BY <1>1 DEF Replaces, Clear, Applied
    <3> QED BY <3>1 DEF StandsReplaced
  <2>2. StandsItself(k)
    BY <2>1 DEF Applying, Stands
  <2> QED BY <1>2, <2>2 DEF StandsItself
<1>10. /\ DOMAIN relocated' = DOMAIN relocated \union {args[k]}
       /\ relocated'[args[k]] = p
       /\ \A x \in DOMAIN relocated : x # args[k] => relocated'[x] = relocated[x]
  BY DEF Entered, p
<1>11. Extra' = Extra
  BY <1>0, <1>4 DEF Extra, m
<1> HIDE DEF p, m
<1>12. \A x : x # args[k] => TryRelocated(x)' = TryRelocated(x)
  BY <1>10 DEF TryRelocated
<1>13. ASSUME NEW j \in Own, j # k
       PROVE  Stands(j)' /\ Found(j)'
  <2>1. args'[j] = args[j] /\ Contents(args[j])' = Contents(args[j])
    BY <1>3, <1>4, <1>6, <1>13
  <2>2. Stands(j)'
    <3>1. Applied \subseteq Applied' /\ SoFar(j)' = SoFar(j)
      BY <1>1, <1>2
    <3>2. \A q \in Applied' \ Applied : ~ Replaces(q, j)
      BY <1>1, <1>8, <1>13
    <3>3. Stands(j)
      BY DEF Applying
    <3> QED BY <2>1, <3>1, <3>2, <3>3, StandsSame
  <2>3. Source(cmd, j) # args[k]
    BY <1>9, <1>13, Files DEF Source, Clear
  <2>4. args[j] # args[k]
    BY <1>3, <1>13 DEF Applying, m
  <2>5. Found(j)
    BY DEF Applying
  <2>6. Found(j)'
    BY <1>0, <1>12, <2>1, <2>3, <2>4, <2>5 DEF Found
  <2> QED BY <2>2, <2>6
<1>14. Stands(k)'
  <2>1. r \in Applied' /\ BaseFile(r)' = p /\ layout' = layout /\ SoFar(k)' = {}
    BY <1>0, <1>1, <1>2 DEF p
  <2>2. Replaces(r, k)'
    BY <1>0 DEF Replaces
  <2>3. StandsReplaced(k)'
    BY <1>4, <1>7, <2>1, <2>2 DEF StandsReplaced
  <2> QED BY <2>3 DEF Stands
<1>15. Found(k)'
  <2>1. p \notin DOMAIN relocated /\ p # args[k]
    BY <1>3, <1>4, NotYet DEF p
  <2>2. \A x : x \in {p, args[k]} => TryRelocated(x)' = p
    BY <1>10, <2>1 DEF TryRelocated
  <2>3. Source(cmd, k)' = args[k] /\ args'[k] = p
    BY <1>0, <1>4, <1>9
  <2> QED BY <2>2, <2>3 DEF Found
<1>16. ASSUME NEW i \in Extra
       PROVE  Behind(i)'
  <2>1. args'[i] = args[i] /\ Contents(args[i])' = Contents(args[i])
    BY <1>3, <1>4, <1>6
  <2>2. Applied \subseteq Applied' /\ Behind(i)
    BY <1>1 DEF Applying
  <2> QED BY <2>1, <2>2, BehindSame
<1>17. args' \in Seq(Paths')
  <2>1. args \in Seq(Paths) /\ args' = [args EXCEPT ![k] = p]
    BY DEF p, Applying
  <2> QED BY <1>0, <1>3, <1>5, <2>1 DEF m
<1>18. \A i, j \in 1 .. Len(args') : args'[i] = args'[j] => i = j
  BY <1>4 DEF Applying, m
<1>19. \A q \in Applied' \ layout'.replace : \E i \in Extra' : args'[i] = BaseFile(q)'
  BY <1>0, <1>1, <1>3, <1>4, <1>11 DEF Applying
<1>20. \A q \in DOMAIN disk' : q.of \in {Added, Written}
  <2>1. DOMAIN disk' = DOMAIN disk \union {p}
    BY DEF Entered, p
  <2> QED BY <1>5, <2>1 DEF Applying
<1>21. \A q \in DOMAIN relocated' : q.of = cmd' \/ \E s \in Applied' : q = BaseFile(s)'
  BY <1>0, <1>1, <1>9, <1>10, Files DEF Applying, Source
<1>22. /\ left' \subseteq FileRules(cmd)' /\ Len(project'.decl[cmd']) <= Len(args')
       /\ files' \subseteq {j \in Own' : CodeRules(cmd, j)' # {}}
  BY <1>0, <1>4 DEF Applying, m
<1>23. \A j \in Own' : SoFar(j)' = {}
  BY <1>0, <1>2
<1>24. \A j \in Own' : Stands(j)' /\ Found(j)'
  BY <1>0, <1>13, <1>14, <1>15
<1> QED
  BY <1>11, <1>16, <1>17, <1>18, <1>19, <1>20, <1>21, <1>22, <1>23, <1>24 DEF Applying

\* The rule that is applied is one of those that are left; a file that it
\* replaces is the one that it names.
LEMMA NextRule ==
  ASSUME MatchingInv, Resting, cmd \in Cmd, Clear, Applying, left # {}
  PROVE  /\ FirstOf(left) \in left /\ FirstOf(left) \in Rule
         /\ FirstOf(left) \in layout.replace => \E k \in Own :
              /\ layout.name[cmd][k] = layout.base[FirstOf(left)]
              /\ k \in 1 .. Len(args) /\ EndsWith(args[k], layout.base[FirstOf(left)])
              /\ Smallest({i \in 1 .. Len(args) : EndsWith(args[i], layout.base[FirstOf(left)])}) = k
<1>1. left \subseteq AvailableRules /\ AvailableRules \subseteq Rule
  BY DEF Applying, FileRules, Resting, AvailableRules, DefaultRules, RulesOf
<1>2. FirstOf(left) \in left
  BY <1>1, FirstOfIn
<1>3. ASSUME NEW r \in left, r \in layout.replace
      PROVE  \E k \in Own :
               /\ layout.name[cmd][k] = layout.base[r]
               /\ k \in 1 .. Len(args) /\ EndsWith(args[k], layout.base[r])
               /\ Smallest({i \in 1 .. Len(args) : EndsWith(args[i], layout.base[r])}) = k
  <2>1. r \in FileRules(cmd) \intersect layout.replace
    BY <1>3 DEF Applying
  <2>2. PICK k \in Own : layout.name[cmd][k] = layout.base[r]
    BY <2>1 DEF Clear
  <2>3. \A j \in Own : <<layout.name[cmd][j], layout.base[r]>> \notin layout.ends
    BY <2>1 DEF Clear
  <2>4. /\ k \in {i \in 1 .. Len(args) : EndsWith(args[i], layout.base[r])}
        /\ Smallest({i \in 1 .. Len(args) : EndsWith(args[i], layout.base[r])}) = k
    BY <2>2, <2>3, FirstNamed
  <2> QED BY <2>2, <2>4
<1> QED BY <1>1, <1>2, <1>3

LEMMA ApplyFileRuleApplies ==
  ASSUME MatchingInv, Resting, cmd \in Cmd, Clear, Applying, ApplyFileRule
  PROVE  Applying'
<1> DEFINE r == FirstOf(left)
           Named == {i \in 1 .. Len(args) : EndsWith(args[i], layout.base[r])}
<1>1. left # {} /\ left' = left \ {r} /\ UNCHANGED <<vars, layout, cmd, files>>
  BY DEF ApplyFileRule
<1>2. r \in left /\ r \in Rule
  BY <1>1, NextRule
<1>3. CASE /\ r \notin layout.replace
           /\ args' = Append(args, File(Added, layout.base[r]))
           /\ disk' = Entered(disk, File(Added, layout.base[r]),
                              Text(File(Added, layout.base[r]), layout.text[r]))
           /\ UNCHANGED relocated
  <2> HIDE DEF r
  <2> QED BY <1>1, <1>2, <1>3, AddStep DEF BaseFile
<1>4. CASE /\ r \in layout.replace
           /\ ReplaceCompileArg(Smallest(Named), File(Added, layout.base[r]))
           /\ disk' = Entered(disk, File(Added, layout.base[r]),
                              Text(File(Added, layout.base[r]), layout.text[r]))
  <2>1. PICK k \in Own : layout.name[cmd][k] = layout.base[r] /\ Smallest(Named) = k
    BY <1>1, <1>4, NextRule
  <2> HIDE DEF r, Named
  <2>2. /\ args' = [args EXCEPT ![k] = BaseFile(r)]
        /\ relocated' = Entered(relocated, args[k], BaseFile(r))
    BY <1>4, <2>1 DEF ReplaceCompileArg, BaseFile
  <2> QED BY <1>1, <1>2, <1>4, <2>1, <2>2, ReplaceStep DEF BaseFile
<1> QED BY <1>3, <1>4 DEF ApplyFileRule

LEMMA FileRulesApply ==
  ASSUME MatchingInv, Resting, cmd \in Cmd, Clear, Applying, ApplyFileRuleFails
  PROVE  FALSE
<1>1. left # {} /\ FirstOf(left) \in layout.replace
  BY DEF ApplyFileRuleFails
<1>2. PICK k \in 1 .. Len(args) : EndsWith(args[k], layout.base[FirstOf(left)])
  BY <1>1, NextRule
<1> QED BY <1>2 DEF ApplyFileRuleFails

\* The file that is changed is the one that stands for source file k.
LEMMA SourceFileStands ==
  ASSUME Clear, Applying, set = cmd, NEW k \in files
  PROVE  /\ SourceFiles(k) # {}
         /\ \A f \in SourceFiles(k) : TryRelocated(f) = args[k]
<1>1. k \in Own /\ Found(k)
  BY DEF Applying
<1>2. CASE cmd \notin layout.cgo
  <2>1. SourceFiles(k) = {Source(cmd, k)}
    BY <1>2 DEF SourceFiles
  <2> QED BY <1>1, <2>1 DEF Found
<1>3. CASE cmd \in layout.cgo
  <2> DEFINE n == layout.name[cmd][k]
             Named == {i \in 1 .. Len(args) : EndsWith(args[i], n)}
  <2>1. \A j \in Own : <<layout.name[cmd][j], n>> \notin layout.ends
    BY <1>1, <1>3 DEF Clear
  <2>2. k \in Named /\ Smallest(Named) = k
    BY <1>1, <2>1, FirstNamed
  <2>3. SourceFiles(k) = IF Named = {} THEN {} ELSE {args[Smallest(Named)]}
    BY <1>3 DEF SourceFiles
  <2>4. SourceFiles(k) = {args[k]}
    BY <2>2, <2>3
  <2> QED BY <1>1, <2>4 DEF Found
<1> QED BY <1>2, <1>3

LEMMA ChangeStep ==
  ASSUME Clear, Applying, left = {}, NEW k \in files, NEW q,
         q = (IF args[k].of = Added THEN args[k] ELSE File(Written, args[k].name)),
         disk' = Entered(disk, q, [Contents(args[k]) EXCEPT !.applied = @ \union CodeRules(cmd, k)]),
         args' = [args EXCEPT ![k] = q], relocated' = Entered(relocated, args[k], q),
         files' = files \ {k}, UNCHANGED <<vars, layout, cmd, left>>
  PROVE  Applying'
<1> DEFINE m == Len(args)
           t == [Contents(args[k]) EXCEPT !.applied = @ \union CodeRules(cmd, k)]
<1>0. /\ FileRules(cmd)' = FileRules(cmd) /\ Own' = Own /\ Paths' = Paths
      /\ \A j : CodeRules(cmd, j)' = CodeRules(cmd, j) /\ Source(cmd, j)' = Source(cmd, j)
      /\ \A r : BaseFile(r)' = BaseFile(r)
      /\ \A r, j : Replaces(r, j)' <=> Replaces(r, j)
      /\ layout' = layout /\ cmd' = cmd /\ project' = project /\ left' = left
  BY CommandSame
<1>1. Applied' = Applied
  BY <1>0 DEF Applied
<1>2. /\ k \in Own /\ SoFar(k) = {} /\ CodeRules(cmd, k) # {} /\ Stands(k) /\ Found(k)
      /\ SoFar(k)' = CodeRules(cmd, k)
      /\ \A j : j # k => SoFar(j)' = SoFar(j)
  BY <1>0 DEF SoFar, Applying
<1>3. k \in 1 .. m /\ Own \subseteq 1 .. m /\ Extra \subseteq 1 .. m /\ k \notin Extra
  BY <1>2, OwnStands DEF Extra
<1>4. /\ m \in Nat /\ DOMAIN args = 1 .. m /\ Len(args') = m /\ args'[k] = q
      /\ \A i \in 1 .. m : i # k => args'[i] = args[i]
  BY <1>3 DEF Applying
<1>5. \/ /\ args[k] = Source(cmd, k) /\ q = File(Written, layout.name[cmd][k])
         /\ StandsItself(k)
      \/ /\ q = args[k] /\ StandsReplaced(k)
         /\ \E r \in Applied : args[k] = BaseFile(r) /\ Replaces(r, k)
  <2>1. CASE StandsItself(k)
    BY <1>2, <2>1, Files DEF StandsItself, Source, Clear
  <2>2. CASE StandsReplaced(k)
    BY <2>2, Files DEF StandsReplaced, BaseFile
  <2> QED BY <1>2, <2>1, <2>2 DEF Stands
<1>6. q.name = layout.name[cmd][k] /\ q.of \in {Added, Written} /\ q \in Paths
  <2>1. q.name = layout.name[cmd][k] /\ q.of \in {Added, Written}
    BY <1>5, Files DEF BaseFile, Replaces
  <2>2. q \in Paths
    <3>1. args[k] \in Paths
      BY <1>3 DEF Applying
    <3>2. File(Written, layout.name[cmd][k]) \in Paths
      BY <1>2 DEF Paths, Names, File
    <3> QED BY <1>5, <3>1, <3>2
  <2> QED BY <2>1, <2>2
<1>7. \A i \in 1 .. m : i # k => args[i] # q
  <2> SUFFICES ASSUME NEW i \in 1 .. m, i # k
               PROVE  args[i] # q
    OBVIOUS
  <2>1. args[i] # args[k]
    BY <1>3 DEF Applying
  <2>2. CASE i \in Own
    <3>1. args[i].name = layout.name[cmd][i]
      BY <2>2, OwnStands
    <3> QED BY <1>2, <1>6, <2>2, <3>1 DEF Clear
  <2>3. CASE i \notin Own
    <3>1. Behind(i)
      BY <2>3 DEF Extra, Applying
    <3>2. args[i].of = Added
      BY <3>1, Files DEF Behind, BaseFile
    <3> QED BY <1>5, <2>1, <3>2, Files DEF Clear
  <2> QED BY <2>2, <2>3
<1>8. \A i \in 1 .. m : i # k => Contents(args[i])' = Contents(args[i])
  BY <1>0, <1>4, <1>7, Rewritten
<1>9. Contents(args[k])' = t
  <2>1. disk' = Entered(disk, q, t)
    OBVIOUS
  <2>2. project' = project /\ layout' = layout /\ args'[k] = q
    BY <1>0, <1>4
  <2> HIDE DEF t
  <2> QED BY ONLY <2>1, <2>2, Rewritten
<1>10. /\ DOMAIN relocated' = DOMAIN relocated \union {args[k]}
       /\ relocated'[args[k]] = q
       /\ \A x \in DOMAIN relocated : x # args[k] => relocated'[x] = relocated[x]
  BY DEF Entered
<1>11. Extra' = Extra
  BY <1>0, <1>4 DEF Extra, m
<1>12. \A x : x # args[k] => TryRelocated(x)' = TryRelocated(x)
  BY <1>10 DEF TryRelocated
<1>13. ASSUME NEW j \in Own, j # k
       PROVE  Stands(j)' /\ Found(j)'
  <2>1. args'[j] = args[j] /\ Contents(args[j])' = Contents(args[j])
    BY <1>3, <1>4, <1>8, <1>13
  <2>2. Stands(j)'
    <3>1. Applied \subseteq Applied' /\ SoFar(j)' = SoFar(j) /\ Stands(j)
      BY <1>1, <1>2, <1>13 DEF Applying
    <3>2. \A r \in Applied' \ Applied : ~ Replaces(r, j)
      BY <1>1
    <3> QED BY <2>1, <3>1, <3>2, StandsSame
  <2>3. Source(cmd, j) # args[k]
    <3>1. args[k].name = layout.name[cmd][k]
      BY <1>2, OwnStands
    <3> QED BY <1>2, <1>13, <3>1, Files DEF Source, Clear
  <2>4. args[j] # args[k]
    BY <1>3, <1>13 DEF Applying
  <2>5. Found(j)
    BY DEF Applying
  <2>6. Found(j)'
    BY <1>0, <1>12, <2>1, <2>3, <2>4, <2>5 DEF Found
  <2> QED BY <2>2, <2>6
<1>14. Stands(k)'
  <2>1. CASE StandsItself(k) /\ q = File(Written, layout.name[cmd][k])
    <3>1. t = [from |-> Source(cmd, k), decl |-> project.decl[cmd][k], applied |-> CodeRules(cmd, k)]
      <4>1. Contents(args[k])
              = [from |-> Source(cmd, k), decl |-> project.decl[cmd][k], applied |-> {}]
        BY <1>2, <2>1, Zenon DEF StandsItself
      <4> QED BY <4>1
    <3>2. \A r \in Applied' : ~ Replaces(r, k)'
      BY <1>0, <1>1, <2>1 DEF StandsItself
    <3> HIDE DEF t
    <3>3. StandsItself(k)'
      BY <1>0, <1>2, <1>4, <1>9, <2>1, <3>1, <3>2 DEF StandsItself
    <3> QED BY <3>3 DEF Stands
  <2>2. CASE StandsReplaced(k) /\ q = args[k]
    <3>1. PICK r \in Applied : /\ Replaces(r, k) /\ args[k] = BaseFile(r)
                               /\ Contents(args[k]) = [from |-> BaseFile(r), decl |-> layout.text[r],
                                                      applied |-> SoFar(k)]
      BY <2>2 DEF StandsReplaced
    <3>2. t = [from |-> BaseFile(r), decl |-> layout.text[r], applied |-> CodeRules(cmd, k)]
      BY <1>2, <3>1
    <3>3. r \in Applied' /\ BaseFile(r)' = BaseFile(r) /\ layout' = layout
      BY <1>0, <1>1
    <3>4. Replaces(r, k)'
      BY <1>0, <3>1, Zenon
    <3> HIDE DEF t
    <3>5. StandsReplaced(k)'
      BY <1>2, <1>4, <1>9, <2>2, <3>1, <3>2, <3>3, <3>4 DEF StandsReplaced
    <3> QED BY <3>5 DEF Stands
  <2> QED BY <1>5, <2>1, <2>2
<1>15. Found(k)'
  BY DEF Found
<1>16. ASSUME NEW i \in Extra
       PROVE  Behind(i)'
  <2>1. args'[i] = args[i] /\ Contents(args[i])' = Contents(args[i])
    BY <1>3, <1>4, <1>8
  <2>2. Applied \subseteq Applied' /\ Behind(i)
    BY <1>1 DEF Applying
  <2> QED BY <2>1, <2>2, BehindSame
<1>17. args' \in Seq(Paths')
  <2>1. args \in Seq(Paths)
    BY DEF Applying
  <2> QED BY <1>0, <1>3, <1>6, <2>1
<1>18. \A i, j \in 1 .. Len(args') : args'[i] = args'[j] => i = j
  BY <1>4, <1>7 DEF Applying
<1>19. \A r \in Applied' \ layout'.replace : \E i \in Extra' : args'[i] = BaseFile(r)'
  BY <1>0, <1>1, <1>3, <1>4, <1>11 DEF Applying
<1>20. \A p \in DOMAIN disk' : p.of \in {Added, Written}
  <2>1. DOMAIN disk' = DOMAIN disk \union {q}
    BY DEF Entered
  <2> QED BY <1>6, <2>1 DEF Applying
<1>21. \A p \in DOMAIN relocated' : p.of = cmd' \/ \E s \in Applied' : p = BaseFile(s)'
  <2>1. args[k].of = cmd \/ \E s \in Applied : args[k] = BaseFile(s)
    BY <1>5, Files DEF Source
  <2> QED BY <1>0, <1>1, <1>10, <2>1 DEF Applying
<1>22. /\ left' \subseteq FileRules(cmd)' /\ left' = {} /\ Len(project'.decl[cmd']) <= Len(args')
       /\ files' \subseteq {j \in Own' : CodeRules(cmd, j)' # {}}
  BY <1>0, <1>4 DEF Applying
<1>23. \A j \in Own' : Stands(j)' /\ Found(j)'
  BY <1>0, <1>13, <1>14, <1>15
<1> QED
  BY <1>11, <1>16, <1>17, <1>18, <1>19, <1>20, <1>21, <1>22, <1>23 DEF Applying

LEMMA InstrumentFileApplies ==
  ASSUME Clear, Applying, set = cmd, NEW k \in files, InstrumentFile(k)
  PROVE  Applying'
<1>1. PICK f \in SourceFiles(k) :
        LET p == TryRelocated(f)
            q == IF p.of = Added THEN p ELSE File(Written, p.name)
            t == Contents(p)
        IN  /\ disk' = Entered(disk, q, [t EXCEPT !.applied = @ \union CodeRules(set, k)])
            /\ ReplaceCompileArg(Smallest({i \in 1 .. Len(args) : args[i] = p}), q)
  BY DEF InstrumentFile
<1>2. TryRelocated(f) = args[k] /\ k \in Own
  BY SourceFileStands DEF Applying
<1> DEFINE q == IF args[k].of = Added THEN args[k] ELSE File(Written, args[k].name)
<1>3. /\ disk' = Entered(disk, q, [Contents(args[k]) EXCEPT !.applied = @ \union CodeRules(cmd, k)])
      /\ ReplaceCompileArg(Smallest({i \in 1 .. Len(args) : args[i] = args[k]}), q)
  BY <1>1, <1>2
<1>4. args' = [args EXCEPT ![k] = q] /\ relocated' = Entered(relocated, args[k], q)
  BY <1>2, <1>3, WhereItIs DEF ReplaceCompileArg
<1>5. /\ left = {} /\ files' = files \ {k} /\ UNCHANGED <<vars, layout, cmd, left>>
  BY DEF InstrumentFile
<1> QED BY <1>3, <1>4, <1>5, ChangeStep

\* A file cannot be changed only if it was replaced by one in which a rule does
\* not find what it looks for.
LEMMA InstrumentFails ==
  ASSUME Clear, Applying, set = cmd, NEW k \in files, left = {}, ~ Instrumentable(k),
         CodeRules(cmd, k) \subseteq project.decl[cmd][k]
  PROVE  k \in Own /\ \E r \in ReplacedBy(k) : ~ CodeRules(cmd, k) \subseteq layout.text[r]
<1>1. /\ k \in Own /\ k \in 1 .. Len(args) /\ Stands(k)
  BY OwnStands DEF Applying
<1>2. PICK f \in SourceFiles(k) : TryRelocated(f) = args[k]
  BY SourceFileStands
<1>3. ~ CodeRules(cmd, k) \subseteq Contents(args[k]).decl
  BY <1>1, <1>2 DEF Instrumentable
<1>4. ~ StandsItself(k)
  BY <1>3 DEF StandsItself
<1>5. PICK r \in Applied : /\ Replaces(r, k)
                           /\ Contents(args[k]) = [from |-> BaseFile(r), decl |-> layout.text[r],
                                                  applied |-> SoFar(k)]
  BY <1>1, <1>4 DEF Stands, StandsReplaced
<1>6. r \in ReplacedBy(k)
  BY <1>5 DEF Replaces, ReplacedBy, Applied
<1> QED BY <1>1, <1>3, <1>5, <1>6

\* Once nothing is left, each source file and each file rule has its file.
LEMMA AllApplied ==
  ASSUME Clear, Applying, left = {}, files = {}
  PROVE  /\ \A k \in Own :
              /\ Contents(args[k]).applied = CodeRules(cmd, k)
              /\ \/ ReplacedBy(k) = {} /\ Contents(args[k]).from = Source(cmd, k)
                 \/ \E r \in ReplacedBy(k) : Contents(args[k]).from = BaseFile(r)
         /\ \A i \in Extra :
              /\ Contents(args[i]).applied = {}
              /\ Contents(args[i]).from = args[i]
              /\ \E r \in FileRules(cmd) \ layout.replace : args[i] = BaseFile(r)
<1>1. Applied = FileRules(cmd)
  BY DEF Applied
<1>2. \A r, k : r \in ReplacedBy(k) <=> r \in Applied /\ Replaces(r, k)
  BY <1>1 DEF ReplacedBy, Replaces
<1>3. ASSUME NEW k \in Own
      PROVE  /\ Contents(args[k]).applied = CodeRules(cmd, k)
             /\ \/ ReplacedBy(k) = {} /\ Contents(args[k]).from = Source(cmd, k)
                \/ \E r \in ReplacedBy(k) : Contents(args[k]).from = BaseFile(r)
  <2>1. SoFar(k) = CodeRules(cmd, k)
    BY DEF SoFar
  <2>2. CASE StandsReplaced(k)
    <3>1. PICK r \in Applied : /\ Replaces(r, k)
                               /\ Contents(args[k]) = [from |-> BaseFile(r), decl |-> layout.text[r],
                                                      applied |-> SoFar(k)]
      BY <2>2 DEF StandsReplaced
    <3>2. r \in ReplacedBy(k)
      BY <1>2, <3>1
    <3> QED BY <2>1, <3>1, <3>2
  <2>3. CASE StandsItself(k)
    <3>1. ReplacedBy(k) = {}
      BY <1>2, <2>3 DEF StandsItself
    <3>2. Contents(args[k]) =
            [from |-> Source(cmd, k), decl |-> project.decl[cmd][k], applied |-> SoFar(k)]
      BY <2>3, Zenon DEF StandsItself
    <3> QED BY <2>1, <3>1, <3>2
  <2> QED BY <2>2, <2>3 DEF Applying, Stands
<1>4. ASSUME NEW i \in Extra
      PROVE  /\ Contents(args[i]).applied = {}
             /\ Contents(args[i]).from = args[i]
             /\ \E r \in FileRules(cmd) \ layout.replace : args[i] = BaseFile(r)
  <2>1. PICK r \in Applied \ layout.replace :
          /\ args[i] = BaseFile(r)
          /\ Contents(args[i]) = [from |-> BaseFile(r), decl |-> layout.text[r], applied |-> {}]
    BY DEF Applying, Behind
  <2> QED BY <1>1, <2>1
<1> QED BY <1>3, <1>4

\* What Final says of what stays as it is.
LEMMA RulesSame ==
  ASSUME UNCHANGED <<vars, layout, cmd, set>>
  PROVE  HasFuncRule' = HasFuncRule /\ \A k : ReplacedBy(k)' = ReplacedBy(k)
<1>1. result' = result /\ attr' = attr /\ layout' = layout /\ cmd' = cmd /\ set' = set
  BY DEF vars, input
<1>2. \A k : ReplacedBy(k)' = ReplacedBy(k)
  BY <1>1, CommandSame DEF ReplacedBy
<1>3. \A k : CodeRules(set, k)' = CodeRules(set, k)
  BY <1>1 DEF CodeRules
<1>4. HasFuncRule' = HasFuncRule
  BY <1>1, <1>3 DEF HasFuncRule
<1> QED BY <1>2, <1>4

LEMMA FinishEnds ==
  ASSUME Clear, Applying, Finish
  PROVE  Final'
<1> DEFINE m == Len(args)
<1>0. /\ FileRules(cmd)' = FileRules(cmd) /\ Own' = Own
      /\ \A k : CodeRules(cmd, k)' = CodeRules(cmd, k) /\ Source(cmd, k)' = Source(cmd, k)
      /\ \A r : BaseFile(r)' = BaseFile(r)
      /\ \A k : ReplacedBy(k)' = ReplacedBy(k)
      /\ HasFuncRule' = HasFuncRule /\ Globals' = Globals
      /\ layout' = layout /\ cmd' = cmd /\ project' = project
      /\ left = {} /\ files = {} /\ ~ complete'
  <2>1. UNCHANGED <<vars, layout, cmd, set>> /\ left = {} /\ files = {} /\ ~ complete'
    BY DEF Finish
  <2>2. Globals' = Globals
    BY DEF Globals, File
  <2> QED BY <2>1, <2>2, CommandSame, RulesSame
<1>1. /\ m \in Nat /\ DOMAIN args = 1 .. m /\ Own \subseteq 1 .. m
      /\ Extra \subseteq 1 .. m /\ 1 .. m = Own \union Extra
  BY OwnStands DEF Applying, Extra
<1>2. \A i \in 1 .. m : args[i] # Globals
  <2>1. ASSUME NEW i \in Own
        PROVE  args[i] # Globals
    BY OwnStands, Files DEF Clear, Globals
  <2>2. ASSUME NEW i \in Extra
        PROVE  args[i] # Globals
    BY <1>0, AllApplied, Files DEF BaseFile, Globals, Clear
  <2> QED BY <1>1, <2>1, <2>2
<1>3. \A i \in 1 .. m : args'[i] = args[i] /\ Contents(args[i])' = Contents(args[i])
  <2>1. CASE HasFuncRule
    <3>1. args' = Append(args, Globals) /\ disk' = Entered(disk, Globals, Text(Globals, {}))
      BY <2>1 DEF Finish, Globals
    <3>2. \A i \in 1 .. m : args'[i] = args[i]
      BY <1>1, <3>1 DEF Applying
    <3> QED BY <1>0, <1>2, <3>1, <3>2, Rewritten
  <2>2. CASE ~ HasFuncRule
    <3>1. args' = args /\ disk' = disk
      BY <2>2 DEF Finish
    <3> QED BY <1>0, <3>1, NotWritten
  <2> QED BY <2>1, <2>2
<1>4. \/ HasFuncRule /\ Extra' = Extra \union {m + 1} /\ m + 1 \notin Extra
         /\ \A i : i = m + 1 => /\ Contents(args[i])'.from = Globals
                                /\ Contents(args[i])'.applied = {}
      \/ ~ HasFuncRule /\ Extra' = Extra
  <2>1. CASE HasFuncRule
    <3>1. args' = Append(args, Globals) /\ disk' = Entered(disk, Globals, Text(Globals, {}))
      BY <2>1 DEF Finish, Globals
    <3>2. Len(args') = m + 1 /\ args'[m + 1] = Globals
      BY <1>1, <3>1 DEF Applying
    <3>3. \A i : i = m + 1 => Contents(args[i])' = Text(Globals, {})
      BY <1>0, <3>1, <3>2, Rewritten
    <3>4. Extra' = Extra \union {m + 1} /\ m + 1 \notin Extra
      BY <1>0, <1>1, <3>2 DEF Extra
    <3>5. Text(Globals, {}).from = Globals /\ Text(Globals, {}).applied = {}
      BY DEF Text
    <3> QED BY <2>1, <3>3, <3>4, <3>5
  <2>2. CASE ~ HasFuncRule
    <3>1. args' = args
      BY <2>2 DEF Finish
    <3> QED BY <1>0, <2>2, <3>1 DEF Extra
  <2> QED BY <2>1, <2>2
<1>5. Own' \subseteq 1 .. Len(args')
  BY <1>0, <1>1 DEF Finish, Applying
<1>6. /\ \A k \in Own :
           /\ Contents(args[k]).applied = CodeRules(cmd, k)
           /\ \/ ReplacedBy(k) = {} /\ Contents(args[k]).from = Source(cmd, k)
              \/ \E r \in ReplacedBy(k) : Contents(args[k]).from = BaseFile(r)
      /\ \A i \in Extra :
           /\ Contents(args[i]).applied = {}
           /\ Contents(args[i]).from = args[i]
           /\ \E r \in FileRules(cmd) \ layout.replace : args[i] = BaseFile(r)
  BY <1>0, AllApplied
<1>7. \A i, j \in Extra : args[i] = args[j] => i = j
  BY <1>1 DEF Applying
<1>8. \A r \in FileRules(cmd) \ layout.replace : \E i \in Extra : args[i] = BaseFile(r)
  BY <1>0 DEF Applying, Applied
<1> HIDE DEF m
<1>9. ASSUME NEW k \in Own'
      PROVE  /\ Contents(args[k])'.applied = CodeRules(cmd, k)'
             /\ \/ ReplacedBy(k)' = {} /\ Contents(args[k])'.from = Source(cmd, k)'
                \/ \E r \in ReplacedBy(k)' : Contents(args[k])'.from = BaseFile(r)'
  BY <1>0, <1>1, <1>3, <1>6
<1>10. ASSUME NEW i \in Extra'
       PROVE  /\ Contents(args[i])'.applied = {}
              /\ \/ HasFuncRule' /\ Contents(args[i])'.from = Globals'
                 \/ \E r \in FileRules(cmd)' \ layout'.replace : Contents(args[i])'.from = BaseFile(r)'
  <2>1. CASE i \in Extra
    <3>1. Contents(args[i])' = Contents(args[i])
      BY <1>1, <1>3, <2>1
    <3>2. PICK r \in FileRules(cmd) \ layout.replace : args[i] = BaseFile(r)
      BY <1>6, <2>1
    <3>3. Contents(args[i])'.applied = {} /\ Contents(args[i])'.from = BaseFile(r)
      BY <1>6, <2>1, <3>1, <3>2
    <3> QED BY <1>0, <3>3
  <2>2. CASE i \notin Extra
    BY <1>0, <1>4, <2>2
  <2> QED BY <2>1, <2>2
<1>11. \A i \in Extra : Contents(args[i])'.from = args[i] /\ args[i] # Globals
  BY <1>1, <1>2, <1>3, <1>6
<1>12. \A i, j \in Extra' : Contents(args[i])'.from = Contents(args[j])'.from => i = j
  BY <1>4, <1>7, <1>11
<1>13. \A r \in FileRules(cmd)' \ layout'.replace : \E i \in Extra' : Contents(args[i])'.from = BaseFile(r)'
  BY <1>0, <1>4, <1>8, <1>11
<1>14. HasFuncRule' => \E i \in Extra' : Contents(args[i])'.from = Globals'
  BY <1>0, <1>4
<1> QED BY <1>0, <1>5, <1>9, <1>10, <1>12, <1>13, <1>14 DEF Final

\* What the compiler then gets is what was matched.
Compiles ==
  /\ \A k \in Own :
       IF ReplacedBy(k) = {} THEN Cardinality(FilesFrom(Source(cmd, k))) = 1
       ELSE FilesFrom(Source(cmd, k)) = {}
  /\ \A r \in FileRules(cmd) : Cardinality(AddedBy(r)) = 1
  /\ \A k \in Own : \A r \in CodeRules(cmd, k) :
       \E i \in FilesFrom(Source(cmd, k)) \union UNION {AddedBy(q) : q \in ReplacedBy(k)} :
         {j \in 1 .. Len(args) : r \in Contents(args[j]).applied} = {i}
  /\ FilesFrom(File(Written, OtelGlobalsFile)) # {} <=> HasFuncRule
  /\ complete => ~ HasFuncRule

LEMMA FinalCompiles ==
  ASSUME Clear, Final,
         \A j, k \in Own : \A r : r \in CodeRules(cmd, j) /\ r \in CodeRules(cmd, k) => j = k
  PROVE  Compiles
<1>1. 1 .. Len(args) = Own \union Extra /\ Own \intersect Extra = {} /\ ~ complete
  BY DEF Final, Extra
<1>2. /\ \A k : ReplacedBy(k) \subseteq FileRules(cmd) \intersect layout.replace
      /\ \A k : \A r \in ReplacedBy(k) : layout.base[r] = layout.name[cmd][k]
  BY DEF ReplacedBy
<1>3. /\ \A q, r \in FileRules(cmd) : BaseFile(q) = BaseFile(r) => q = r
      /\ \A k, r : Source(cmd, k) # BaseFile(r)
      /\ \A j, k \in Own : Source(cmd, j) = Source(cmd, k) => j = k
      /\ \A k : Source(cmd, k) # Globals
      /\ \A r : BaseFile(r) # Globals
  BY Files DEF Clear, BaseFile, Source, Globals
<1>4. ASSUME NEW k \in Own, NEW r \in ReplacedBy(k)
      PROVE  /\ Contents(args[k]).from = BaseFile(r)
             /\ \A j \in Own : r \in ReplacedBy(j) => j = k
  BY <1>2 DEF Final, Clear
<1>5. ASSUME NEW k \in Own
      PROVE  IF ReplacedBy(k) = {} THEN FilesFrom(Source(cmd, k)) = {k}
             ELSE FilesFrom(Source(cmd, k)) = {}
  <2>1. ASSUME NEW i \in Extra
        PROVE  Contents(args[i]).from # Source(cmd, k)
    BY <1>3 DEF Final
  <2>2. ASSUME NEW i \in Own
        PROVE  Contents(args[i]).from = Source(cmd, k) <=> i = k /\ ReplacedBy(k) = {}
    <3>1. CASE ReplacedBy(i) = {}
      BY <1>3, <3>1 DEF Final
    <3>2. CASE ReplacedBy(i) # {}
      BY <1>3, <1>4, <3>2
    <3> QED BY <3>1, <3>2
  <2> QED BY <1>1, <2>1, <2>2 DEF FilesFrom
<1>6. ASSUME NEW k \in Own, NEW r \in ReplacedBy(k)
      PROVE  AddedBy(r) = {k}
  <2>1. ASSUME NEW i \in Extra
        PROVE  Contents(args[i]).from # BaseFile(r)
    BY <1>2, <1>3 DEF Final
  <2>2. ASSUME NEW i \in Own
        PROVE  Contents(args[i]).from = BaseFile(r) <=> i = k
    <3>1. CASE ReplacedBy(i) = {}
      BY <1>3, <1>4, <3>1 DEF Final
    <3>2. CASE ReplacedBy(i) # {}
      BY <1>2, <1>3, <1>4, <3>2
    <3> QED BY <3>1, <3>2
  <2> QED BY <1>1, <2>1, <2>2 DEF AddedBy, FilesFrom, BaseFile
<1>7. ASSUME NEW r \in FileRules(cmd)
      PROVE  Cardinality(AddedBy(r)) = 1
  <2>1. CASE r \in layout.replace
    <3>1. PICK k \in Own : layout.name[cmd][k] = layout.base[r]
      BY <2>1 DEF Clear
    <3>2. r \in ReplacedBy(k)
      BY <2>1, <3>1 DEF ReplacedBy
    <3> QED BY <1>6, <3>2, FS_Singleton
  <2>2. CASE r \notin layout.replace
    <3>1. PICK k \in Extra : Contents(args[k]).from = BaseFile(r)
      BY <2>2 DEF Final
    <3>2. \A i \in Extra : Contents(args[i]).from = BaseFile(r) <=> i = k
      BY <3>1 DEF Final
    <3>3. ASSUME NEW i \in Own
          PROVE  Contents(args[i]).from # BaseFile(r)
      BY <1>2, <1>3, <2>2 DEF Final
    <3>4. AddedBy(r) = {k}
      BY <1>1, <3>2, <3>3 DEF AddedBy, FilesFrom, BaseFile
    <3> QED BY <3>4, FS_Singleton
  <2> QED BY <2>1, <2>2
<1>8. ASSUME NEW k \in Own, NEW r \in CodeRules(cmd, k)
      PROVE  \E i \in FilesFrom(Source(cmd, k)) \union UNION {AddedBy(q) : q \in ReplacedBy(k)} :
               {j \in 1 .. Len(args) : r \in Contents(args[j]).applied} = {i}
  <2>1. {j \in 1 .. Len(args) : r \in Contents(args[j]).applied} = {k}
    <3>1. \A j \in Own : r \in Contents(args[j]).applied <=> j = k
      BY DEF Final
    <3>2. \A j \in Extra : r \notin Contents(args[j]).applied
      BY DEF Final
    <3> QED BY <1>1, <3>1, <3>2
  <2>2. k \in FilesFrom(Source(cmd, k)) \union UNION {AddedBy(q) : q \in ReplacedBy(k)}
    <3>1. CASE ReplacedBy(k) = {}
      BY <1>5, <3>1
    <3>2. CASE ReplacedBy(k) # {}
      BY <1>6, <3>2
    <3> QED BY <3>1, <3>2
  <2> QED BY <2>1, <2>2
<1>9. FilesFrom(Globals) # {} <=> HasFuncRule
  <2>1. ASSUME NEW i \in Own
        PROVE  Contents(args[i]).from # Globals
    BY <1>3 DEF Final
  <2>2. ASSUME NEW i \in Extra, Contents(args[i]).from = Globals
        PROVE  HasFuncRule
    BY <1>3, <2>2 DEF Final
  <2>3. HasFuncRule => \E i \in Extra : Contents(args[i]).from = Globals
    BY DEF Final
  <2> QED BY <1>1, <2>1, <2>2, <2>3 DEF FilesFrom
<1>10. \A k \in Own : IF ReplacedBy(k) = {} THEN Cardinality(FilesFrom(Source(cmd, k))) = 1
                      ELSE FilesFrom(Source(cmd, k)) = {}
  BY <1>5, FS_Singleton
<1> QED BY <1>1, <1>7, <1>8, <1>9, <1>10 DEF Globals, Compiles
-----------------------------------------------------------------------------
(* The command always gets what was matched for it.                        *)

\* What the invariant says of a command with its own rule set.
Phase == CASE step = "apply"  -> Applying
           [] step = "failed" -> Unchangeable
           [] step = "done"   -> Final

LEMMA StoredStays == pc = "stored" => ~ Next
BY DEF Next, NewDeps, MatchRules, Gathered, Store, Match, MatchExits, Receive, UpdateRule

LEMMA UnchangeableSame ==
  ASSUME UNCHANGED <<vars, layout, cmd, set>>
  PROVE  Unchangeable' <=> Unchangeable
<1>1. Own' = Own /\ layout' = layout /\ \A k : CodeRules(cmd, k)' = CodeRules(cmd, k)
  BY CommandSame
<1>2. \A k : ReplacedBy(k)' = ReplacedBy(k)
  BY RulesSame
<1> QED BY <1>1, <1>2 DEF Unchangeable

LEMMA ApplyingStutters ==
  ASSUME Clear, Applying, UNCHANGED <<vars, toolexec>>
  PROVE  Applying'
<1>0. /\ UNCHANGED <<vars, layout, cmd>> /\ left' = left /\ files' = files /\ args' = args
      /\ disk' = disk /\ relocated' = relocated
  BY DEF toolexec
<1>1. /\ FileRules(cmd)' = FileRules(cmd) /\ Own' = Own /\ Paths' = Paths
      /\ \A k : CodeRules(cmd, k)' = CodeRules(cmd, k) /\ Source(cmd, k)' = Source(cmd, k)
      /\ \A r : BaseFile(r)' = BaseFile(r)
      /\ layout' = layout /\ cmd' = cmd /\ project' = project
  BY <1>0, CommandSame
<1>2. Applied' = Applied /\ Extra' = Extra /\ \A k : SoFar(k)' = SoFar(k)
  BY <1>0, <1>1 DEF Applied, Extra, SoFar
<1>3. \A i : Contents(args[i])' = Contents(args[i])
  BY <1>0, <1>1, NotWritten
<1>4. \A k \in Own : Stands(k)'
  <2>1. \A k \in Own : Stands(k)
    BY DEF Applying
  <2> QED BY <1>0, <1>2, <1>3, <2>1, StandsSame
<1>5. \A k \in Own : Found(k)'
  BY <1>0, <1>1 DEF Applying, Found, TryRelocated
<1>6. \A i \in Extra : Behind(i)'
  <2>1. \A i \in Extra : Behind(i)
    BY DEF Applying
  <2> QED BY <1>0, <1>2, <1>3, <2>1, BehindSame
<1> QED BY <1>0, <1>1, <1>2, <1>4, <1>5, <1>6 DEF Applying

LEMMA FinalStutters ==
  ASSUME Final, UNCHANGED <<vars, toolexec>>
  PROVE  Final'
<1>0. UNCHANGED <<vars, layout, cmd, set>> /\ args' = args /\ disk' = disk /\ complete' = complete
  BY DEF toolexec
<1>1. /\ FileRules(cmd)' = FileRules(cmd) /\ Own' = Own
      /\ \A k : CodeRules(cmd, k)' = CodeRules(cmd, k) /\ Source(cmd, k)' = Source(cmd, k)
      /\ \A r : BaseFile(r)' = BaseFile(r)
      /\ layout' = layout /\ cmd' = cmd /\ project' = project
  BY <1>0, CommandSame
<1>2. HasFuncRule' = HasFuncRule /\ \A k : ReplacedBy(k)' = ReplacedBy(k)
  BY <1>0, RulesSame
<1>3. \A i : Contents(args[i])' = Contents(args[i])
  BY <1>0, <1>1, NotWritten
<1>4. Extra' = Extra /\ Globals' = Globals
  BY <1>0, <1>1 DEF Extra, Globals, File
<1> QED BY <1>0, <1>1, <1>2, <1>3, <1>4 DEF Final

LEMMA PhaseStutters ==
  ASSUME Clear, Phase, step \in {"apply", "done", "failed"}, UNCHANGED <<vars, toolexec>>
  PROVE  Phase'
<1>1. step' = step /\ UNCHANGED <<vars, layout, cmd, set>>
  BY DEF toolexec
<1> QED BY <1>1, ApplyingStutters, FinalStutters, UnchangeableSame DEF Phase

LEMMA BuildInitially == BuildInit => BuildInv
BY MatchingInit, RestingInit DEF BuildInit, BuildInv

LEMMA InterceptStep ==
  ASSUME BuildInv, MatchingInv', Resting', NEW c \in Cmd, Intercept(c)
  PROVE  BuildInv'
<1>1. /\ MatchingInv /\ Resting /\ pc = "stored" /\ set = NoSet /\ disk = <<>> /\ relocated = <<>>
      /\ pc' = pc /\ bundles' = bundles /\ result' = result /\ cmd' = c /\ layout' \in Layout[c]
  BY DEF BuildInv, Intercept, vars
<1>2. NoSet \notin Cmd
  BY LayoutAssumption
<1>3. CASE Fitting(c) = {}
  <2>1. step' = "done" /\ set' = NoSet
    BY <1>1, <1>3 DEF Intercept
  <2>2. ~ IsValid(result'[cmd'])
    BY <1>1, <1>3, NothingTaken
  <2>3. args' = [k \in Own |-> Source(cmd, k)]'
    BY <1>1 DEF Intercept, Own, Source, vars, input
  <2> QED BY <1>1, <1>2, <2>1, <2>2, <2>3 DEF BuildInv
<1>4. CASE Fitting(c) # {}
  <2>1. step' = "apply" /\ set' = Taken(c)
    BY <1>4 DEF Intercept
  <2>2. Taken(c) \in Cmd /\ Taken(c) \in {bundles[i] : i \in 1 .. Len(bundles)}
    BY <1>1, <1>4, TakenIn
  <2>3. set' = cmd' => Applying'
    BY <1>1, <2>1, InterceptApplies
  <2> QED BY <1>1, <1>2, <2>1, <2>2, <2>3 DEF BuildInv
<1> QED BY <1>3, <1>4

\* A step of a command that is dealt with.
LEMMA PhaseStep ==
  ASSUME BuildInv, step = "apply", set = cmd, ~ Confused,
         ApplyFileRule \/ ApplyFileRuleFails \/ Finish
           \/ \E k \in files : InstrumentFile(k) \/ InstrumentFileFails(k)
  PROVE  Phase'
<1>1. /\ MatchingInv /\ Resting /\ cmd \in Cmd /\ layout \in Layout[cmd] /\ Applying
      /\ cmd \in {bundles[i] : i \in 1 .. Len(bundles)}
  BY DEF BuildInv
<1>2. Clear
  BY <1>1, Unconfused
<1>3. CASE ApplyFileRule
  <2>1. step' = "apply"
    BY <1>3 DEF ApplyFileRule
  <2> QED BY <1>1, <1>2, <1>3, <2>1, ApplyFileRuleApplies DEF Phase
<1>4. CASE ApplyFileRuleFails
  BY <1>1, <1>2, <1>4, FileRulesApply
<1>5. CASE Finish
  <2>1. step' = "done"
    BY <1>5 DEF Finish
  <2> QED BY <1>1, <1>2, <1>5, <2>1, FinishEnds DEF Phase
<1>6. ASSUME NEW k \in files, InstrumentFile(k)
      PROVE  Phase'
  <2>1. step' = "apply"
    BY <1>6 DEF InstrumentFile
  <2> QED BY <1>1, <1>2, <1>6, <2>1, InstrumentFileApplies DEF Phase
<1>7. ASSUME NEW k \in files, InstrumentFileFails(k)
      PROVE  Phase'
  <2>1. /\ step' = "failed" /\ left = {} /\ ~ Instrumentable(k)
        /\ UNCHANGED <<vars, layout, cmd, set>>
    BY <1>7 DEF InstrumentFileFails, Fail
  <2>2. k \in Own
    BY <1>1 DEF Applying
  <2>3. CodeRules(cmd, k) \subseteq project.decl[cmd][k]
    BY <1>1, <2>2, GatheredSet DEF Own
  <2>4. Unchangeable
    BY <1>1, <1>2, <2>1, <2>3, InstrumentFails DEF Unchangeable
  <2> QED BY <2>1, <2>4, UnchangeableSame DEF Phase
<1> QED BY <1>3, <1>4, <1>5, <1>6, <1>7

LEMMA BuildStep == BuildInv /\ [BuildNext]_<<vars, toolexec>> => BuildInv'
<1> SUFFICES ASSUME BuildInv, [BuildNext]_<<vars, toolexec>>
             PROVE  BuildInv'
  OBVIOUS
<1>1. MatchingInv /\ Resting
  BY DEF BuildInv
<1>2. [Next]_vars
  BY DEF BuildNext, Intercept, ApplyFileRule, ApplyFileRuleFails, Finish, InstrumentFile,
         InstrumentFileFails
<1>3. MatchingInv' /\ Resting'
  BY <1>1, <1>2, MatchingStep, RestingStep
<1>4. NoSet \notin Cmd
  BY LayoutAssumption
<1> DEFINE Step == \/ ApplyFileRule \/ ApplyFileRuleFails \/ Finish
                   \/ \E k \in files : InstrumentFile(k) \/ InstrumentFileFails(k)
<1>5. CASE Next /\ UNCHANGED toolexec
  <2>1. step = "none" /\ UNCHANGED toolexec
    BY <1>5, StoredStays DEF BuildInv
  <2> QED BY <1>3, <2>1 DEF BuildInv, toolexec
<1>6. ASSUME NEW c \in Cmd, Intercept(c)
      PROVE  BuildInv'
  BY <1>3, <1>6, InterceptStep
<1>7. CASE Step
  <2>1. /\ step = "apply" /\ step' \in {"apply", "done", "failed"}
        /\ UNCHANGED <<vars, layout, cmd, set>>
    BY <1>7 DEF ApplyFileRule, ApplyFileRuleFails, Finish, InstrumentFile, InstrumentFileFails, Fail
  <2>2. Confused' = Confused
    BY <2>1, CommandSame
  <2>3. set = cmd /\ ~ Confused => Phase'
    BY <1>7, <2>1, PhaseStep
  <2>4. /\ set \in Cmd /\ pc = "stored" /\ cmd \in Cmd /\ layout \in Layout[cmd]
        /\ set = cmd => cmd \in {bundles[i] : i \in 1 .. Len(bundles)}
    BY <2>1 DEF BuildInv
  <2>5. pc' = pc /\ bundles' = bundles
    BY <2>1 DEF vars
  <2> HIDE DEF Step
  <2> QED BY <1>3, <1>4, <2>1, <2>2, <2>3, <2>4, <2>5 DEF BuildInv, Phase
<1>8. CASE UNCHANGED <<vars, toolexec>>
  <2>1. /\ UNCHANGED <<vars, layout, cmd, set>> /\ step' = step /\ args' = args
        /\ disk' = disk /\ relocated' = relocated
        /\ pc' = pc /\ bundles' = bundles /\ result' = result
    BY <1>8 DEF vars, toolexec
  <2>2. Confused' = Confused /\ [k \in Own |-> Source(cmd, k)]' = [k \in Own |-> Source(cmd, k)]
    BY <2>1, CommandSame
  <2>3. step # "none" /\ set = cmd /\ ~ Confused => Phase'
    BY <1>1, <1>8, Unconfused, PhaseStutters DEF BuildInv, Phase
  <2> QED BY <1>3, <2>1, <2>2, <2>3 DEF BuildInv, Phase
<1> HIDE DEF Step
<1> QED BY <1>5, <1>6, <1>7, <1>8 DEF BuildNext, Step

\* The inductive invariant of InstrumentPhase.
THEOREM BuildAlways == BuildSpec => []BuildInv
BY BuildInitially, BuildStep, PTL DEF BuildSpec

\* Whatever the layout of a command and the rules matched for it, the compiler
\* gets every source file or what replaces it once, every rule applied once, the
\* files of the file rules and the globals; or the build fails on a replaced file.
THEOREM CompiledAlwaysAsMatched == BuildSpec => []CompiledAsMatched
<1>1. BuildInv => CompiledAsMatched
  <2> SUFFICES ASSUME BuildInv, step \in {"done", "failed"}, set \in {cmd, NoSet}
               PROVE  /\ set = NoSet => /\ step = "done" /\ ~ IsValid(result[cmd])
                                        /\ args = [k \in Own |-> Source(cmd, k)]
                      /\ set = cmd /\ ~ Confused => /\ step = "failed" => Unchangeable
                                                    /\ step = "done" => Compiles
    BY DEF CompiledAsMatched, Unchangeable, Compiles
  <2>1. set = NoSet => /\ step = "done" /\ ~ IsValid(result[cmd])
                       /\ args = [k \in Own |-> Source(cmd, k)]
    BY DEF BuildInv
  <2>2. ASSUME set = cmd, ~ Confused, step = "failed"
        PROVE  Unchangeable
    BY <2>2 DEF BuildInv
  <2>3. ASSUME set = cmd, ~ Confused, step = "done"
        PROVE  Compiles
    <3>1. /\ MatchingInv /\ Resting /\ cmd \in Cmd /\ layout \in Layout[cmd] /\ Final
          /\ cmd \in {bundles[i] : i \in 1 .. Len(bundles)}
      BY <2>3 DEF BuildInv
    <3>2. \A j, k \in Own : \A r : r \in CodeRules(cmd, j) /\ r \in CodeRules(cmd, k) => j = k
      BY <3>1, GatheredSet DEF Own
    <3>3. Clear
      BY <2>3, <3>1, Unconfused
    <3> QED BY <3>1, <3>2, <3>3, FinalCompiles
  <2> QED BY <2>1, <2>2, <2>3
<1> QED BY <1>1, BuildAlways, PTL
=============================================================================
