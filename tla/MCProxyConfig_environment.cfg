\* Proxies from the environment: how URLs, user information, ports and lists of hosts
\* without proxy are written, the precedence of the variables, storage too small, just
\* enough and larger, an encoding that fails, and a configuration that had a proxy.
SPECIFICATION Spec
\* The call returns and nothing follows.
CHECK_DEADLOCK FALSE
CONSTANTS
    Situations <- MCSituations
    EarlierProxies <- MCEarlierProxies
    Capacities <- MCCapacities
    Lengths <- MCLengths
INVARIANT ProxyIsTheOneMeant
INVARIANT NoCredentialLeft
INVARIANT AuthorizationIsWhole
