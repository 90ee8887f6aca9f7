SPECIFICATION Spec
CONSTANTS
  Workers = {w1, w2, w3}
  MaxVersions = 3
  MaxFailures = 1
PROPERTIES ImplementsVersionedStore ConflictMeansChanged
