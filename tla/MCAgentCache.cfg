SPECIFICATION Spec
CONSTANTS
  t1 = t1
  admin = admin
  i1 = i1
  b1 = b1
  e1 = e1
  e2 = e2
  n1 = n1
  n2 = n2
  k1 = k1
  all = all
  Absent = Absent
  Tenant = {t1, admin}
  Platform = admin
  Provider = {1}
  Serves <- ServesAll
  Name = {n1, n2}
  Key = {k1}
  Owner = {t1, all}
  AllTenants = all
  PromptKey = {"p"}
  Editor = {e1, e2}
  MaxText = 2
  MaxKept = 1
  Instance = {i1}
  Elsewhere = Elsewhere
  Builder = {b1}
  Home <- Homes
  Model0 = n1
  Request <- Requests
  MaxChanges = 2
  MaxFaults = 1
INVARIANTS TypeOK 
