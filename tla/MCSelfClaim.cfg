\* Any answer lost, cut or late, any number of retries and resets.
SPECIFICATION FairSpec
CONSTANTS
  k1 = k1
  k2 = k2
  Key <- MCKey
  AuthId = {a1, a2}
  Challenge = {c1, c2}
  NULL = NULL
  CsrPem <- MCCsrPem
  CertPem <- MCCertPem
  MAX_CSR_SIZE = 6
INVARIANTS
  TypeOK
  AcceptableRequest
  CertificateForKey
PROPERTIES
  ImplementsClaiming
  CallReturns
