SPECIFICATION FairSpec
CONSTANTS
  t1 = t1
  admin = admin
  i1 = i1
  b1 = b1
  e1 = e1
  e2 = e2
  n1 = n1
  n2 = n2
  k1 = k1
  all = all
  Absent = Absent
  Tenant = {t1, admin}
  Platform = admin
  Provider = {1}
  Serves <- ServesAll
  Name = {n1, n2}
  Key = {k1}
  Owner = {t1, all}
  AllTenants = all
  PromptKey = {"p"}
  Editor = {}
  MaxText = 1
  MaxKept = 1
  Instance = {i1}
  Elsewhere = Elsewhere
  Builder = {b1}
  Home <- HomeAlone
  Model0 = n1
  Request = {}
  MaxChanges = 1
  MaxFaults = 0
PROPERTY RetrieverReturns
