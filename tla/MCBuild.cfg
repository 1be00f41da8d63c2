SPECIFICATION Spec
CONSTANTS
  Certificates = {ca, cb}
  MaxVersion = 2
  MaxJobs = 3
SYMMETRY CertificateSymmetry
INVARIANTS
  BuildIsCoherent
  ReleaseIsOneBuild
\* The jobs are bounded.
CHECK_DEADLOCK FALSE
