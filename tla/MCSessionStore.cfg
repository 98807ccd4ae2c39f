\* Two threads make up to six registrations over four handles, so the run also goes
\* through the wrap of the handle counter.
SPECIFICATION FairSpec
CONSTANTS
  alice = alice
  bob = bob
  setup1 = setup1
  SecretKeys = {alice, bob}
  Seeds = {setup1}
  Widths = {2, 4}
  Digits = {3}
  Callers = {t1, t2}
  HandleSpace = 4
  Requests <- MCRequests
  MaxCalls = 3
INVARIANTS TypeOK HandleBinding
PROPERTIES RegistryRefinement CallsReturn
