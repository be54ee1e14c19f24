SPECIFICATION Spec

CONSTANTS
  p1 = p1
  p2 = p2
  shop = shop
  otherShop = otherShop
  pay = pay
  emp = emp
  window = window
  notice = notice
  Catalog = {p1, p2}
  Stores = {shop, otherShop}
  Payments = {pay}
  Records = {emp}
  Docs = {window, notice}
  Policies = {window, notice}
  Stamped = {window}
  Intents <- MCIntents
  Prompts <- MCPrompts
  Results <- MCResults
  Reports <- MCReports
  Rewrites <- MCRewrites
  MaxCalls = 2
\* A submitted completion ends the trial.
CHECK_DEADLOCK FALSE
INVARIANTS
  TypeOK
  EvidenceIsSubmitted
  LockedOutIsUnsupported
  LockoutTimeIsStated
