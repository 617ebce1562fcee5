\* A clean tree and its neighbours, two pushes.
CONSTANTS
  Paths = {".env", "docs/.env.caf%E9", "docs/warehouse.sql.gz", "data/top100.json", "data/caf%E9.json", "docs/charts.csv", "src/emeye/bronze/store.py", "uv.lock"}
  KindOf <- MCKindOf
  SizeExempt = {"uv.lock"}
  Quoted = {"docs/.env.caf%E9", "data/caf%E9.json"}
  Packages = {"httpx", "psycopg", "typing_extensions", "gpl2", "both"}
  Excepted = {"typing_extensions"}
  FieldsOf <- MCFieldsOf
  TermsOf <- MCTermsOf
  Trees <- MCTrees
  Start <- MCStart
  MaxPushes = 2
SPECIFICATION FairComplianceSpec
INVARIANTS
  ComplianceTypeOK
  HooksSuffice
  GreenIsClean
PROPERTIES
  HeadIsJudged
