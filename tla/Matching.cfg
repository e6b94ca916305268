SPECIFICATION BuildSpec
CHECK_DEADLOCK FALSE
CONSTANTS
  Rule <- MCRule
  Default <- MCDefault
  Attribute <- MCAttribute
  Cmd <- MCCmd
  ImportPath <- MCImportPath
  Project <- MCProject
  Config <- MCConfig
  Layout <- MCLayout
INVARIANTS
  RuleSetExact
  StoredFits
  CompiledAsMatched
PROPERTY MatchingEnds
