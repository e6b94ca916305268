--------------------------- MODULE MCRuleMatching ---------------------------
(* RuleMatching and InstrumentPhase for TLC: seven rules in two embedded and *)
(* two custom files.                                                        *)
EXTENDS InstrumentPhase, TLC

MCRule == 1 .. 7
MCDefault == {"base.json", "http.json"}
Common == [needs |-> {}, version |-> Unranged, go |-> Unranged, brings |-> {}]
Url(d) == [root |-> "url", dir |-> d]
Local(d) == [root |-> "local", dir |-> d]

\* A rule of base.json; a func and a file rule of http.json with one path; a
\* custom func rule that depends on what the hook code of http.json brings,
\* and custom file rules for main packages and for the library and a func rule
\* for main packages.
Attributes(version) == <<
  [file |-> "base.json", pkg |-> "otel", kind |-> "func", path |-> Url("base")] @@ Common,
  [file |-> "http.json", pkg |-> "lib", kind |-> "func", path |-> Url("http"),
   version |-> From(1, 3), brings |-> {"dep"}] @@ Common,
  [file |-> "http.json", pkg |-> "lib", kind |-> "file", path |-> Url("http")] @@ Common,
  [file |-> "one.json", pkg |-> "lib", kind |-> "func", path |-> Local("mine"),
   needs |-> {"dep"}, version |-> version, go |-> From(2, 0)] @@ Common,
  [file |-> "two.json", pkg |-> "main", kind |-> "file", path |-> Url("other")] @@ Common,
  [file |-> "two.json", pkg |-> "lib", kind |-> "file", path |-> Local("more")] @@ Common,
  [file |-> "two.json", pkg |-> "main", kind |-> "func", path |-> Local("more")] @@ Common >>

MCAttribute == {Attributes(v) : v \in {Unranged, From(0, 3), From(0, 0)}}

MCCmd == {"main1", "main2", "lib", "otel", "dep"}
MCImportPath == [c \in MCCmd |-> IF c \in {"main1", "main2"} THEN "main" ELSE c]

Decl(lib) == [c \in MCCmd |-> CASE c = "lib" -> lib [] c = "otel" -> <<{1}>> [] c = "main2" -> <<{7}>> [] OTHER -> <<{}>>]
OneProject(more, v, g, lib) ==
  [app |-> {"main", "otel", "lib"} \union more,
   version |-> [p \in {"main", "lib", "otel", "dep"} |-> IF p = "lib" THEN v ELSE 0],
   go |-> g, decl |-> Decl(lib)]

\* A library without a version, in the range of its rules, and past one; with
\* functions that rules match in one file, in both, and in none.
MCProject ==
  {OneProject({}, v, 2, <<{2}, {2, 4}>>) : v \in {0, 1, 3}}
    \union {OneProject({"dep"}, 3, 2, lib) : lib \in {<<{2, 4}, {}>>, <<{}, {4}>>}}
    \union {OneProject({"dep"}, 1, 1, <<{2}, {2, 4}>>)}

Configuration(disable, disabled, custom, bad) ==
  [disable |-> disable, disabled |-> disabled, custom |-> custom, bad |-> bad]
MCConfig ==
  {Configuration(d[1], d[2], c[1], c[2]) :
     d \in {<<"none", {}>>, <<"all", {}>>, <<"some", {"http.json"}>>, <<"some", {"base.json"}>>},
     c \in {<< <<>>, {} >>} \union {<<"one.json">>, <<"one.json", "two.json">>} \X {{}, {"one.json"}}}

\* Where the file rule of http.json adds a file, and replaces one, with or without
\* the function that another rule is for; where it looks for the name of a file that
\* another name ends with, and for one that is not there; where both file rules of
\* the library have a file of one name; and where the library has C.
OneLayout(first, base, replace, text, cgo) ==
  [name |-> [c \in MCCmd |-> IF c = "lib" THEN <<first, "client.go">> ELSE <<"main.go">>],
   ends |-> {<<"my_client.go", "client.go">>}, cgo |-> cgo,
   base |-> [r \in MCRule |-> IF r = 3 THEN base ELSE "setup.go"],
   text |-> [r \in MCRule |-> IF r = 3 THEN text ELSE {}], replace |-> replace]

LibLayout ==
  {OneLayout("server.go", "http.go", {}, {}, {}),
   OneLayout("server.go", "setup.go", {}, {}, {}),
   OneLayout("server.go", "client.go", {3}, {2, 4}, {}),
   OneLayout("server.go", "client.go", {3}, {}, {}),
   OneLayout("my_client.go", "client.go", {3}, {2, 4}, {}),
   OneLayout("server.go", "none.go", {3}, {2}, {}),
   OneLayout("server.go", "http.go", {}, {}, {"lib"}),
   OneLayout("my_client.go", "http.go", {}, {}, {"lib"})}

MCLayout == [c \in MCCmd |->
  IF c = "lib" THEN LibLayout ELSE {OneLayout("server.go", "http.go", {}, {}, {})}]
=============================================================================
