SPECIFICATION PiiSpec
CONSTANTS
  DictKeys = {"token", "Token", "id"}
  ListItems = {"#1"}
  Lower <- TestLower
  Sensitive = {"token"}
  Payloads <- TestPayloads
  RuleLists <- TestRules
  NewRules <- TestNewRules
  MaxRules = 2
  Depths = {0, 2, 8}
INVARIANTS PiiTypeOK ReadableAsDeclared WalksAgree
