\* Two requests at a time: four in all with one failing statement, of tenants three.
SPECIFICATION ServerSpec
CONSTANTS
  u1 = u1
  token = token
  Workers = {w1, w2}
  Users = {u1}
  Keys = {token}
  Owner <- OneOwner
  Lifetime <- Lifetimes
  TTL = {2}
  LoginTries = 1
  LoginWindow = 2
  Rate = 1
  Second = 2
  MaxTime = 3
  MaxRequests = 4
  MaxErrs = 1
  main = main
  acme = acme
  beta = beta
  ann = ann
  bob = bob
  n1 = n1
  n2 = n2
  Handlers = {h1, h2}
  Main = main
  Founded = {main, acme}
  Slugs = {main, acme, beta}
  Spaces = {"default"}
  Titles = {n1, n2}
  People = {ann, bob}
  Nobody = Nobody
  Roots = {bob}
  Joined <- JoinedIn
  Issued <- IssuedKeys
  MaxProjects <- OneProject
  MaxEdges <- OneEdge
  MaxCalls = 3
  MaxBroken = 1
SYMMETRY Symmetry
INVARIANTS FailuresLimited DisabledSessionsGone EndedStaysEnded TenantsApart 
CHECK_DEADLOCK FALSE
