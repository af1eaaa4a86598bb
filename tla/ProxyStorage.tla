------------------------------ MODULE ProxyStorage -------------------------------
(***************************************************************************)
(* Where http_endpoint_proxy_parse_url puts what it has found, in storage  *)
(* the caller gave: the host name and, for a proxy that wants a user, the  *)
(* authorization, that is "Basic " and the encoded credentials.  The plain *)
(* credentials are staged at the end of the storage and wiped once they    *)
(* are encoded.  A byte is known by what it is part of.                    *)
(***************************************************************************)
EXTENDS Integers

CONSTANTS
    Capacities,     \* sizes of storage
    Lengths         \* of host names and of credentials

ASSUME StorageAssumption == Capacities \subseteq Nat /\ Lengths \subseteq Nat

VARIABLES
    capacity, storage,
    hostname_length, credentials_length,   \* no credentials: NoCredentials
    at, result

storage_vars == <<capacity, storage, hostname_length, credentials_length, at, result>>

NoCredentials == -1
Prefix == 6                                     \* "Basic "
EncodedLength(n) == 4 * ((n + 2) \div 3)        \* base64

Parts == {"caller", "host", "nul", "basic", "encoded", "garbage", "credential", "zero"}

\* What the result takes: the host name and the authorization, each terminated.
Used(h, c) == IF c = NoCredentials THEN h + 1 ELSE h + 1 + Prefix + EncodedLength(c) + 1

\* How much storage is needed, the staged credentials included.
MutantNeeded(h, c) == Used(h, c)
Needed(h, c) == IF c = NoCredentials THEN Used(h, c) ELSE Used(h, c) + c

StorageInit ==
    /\ capacity \in Capacities /\ storage = [p \in 0..(capacity - 1) |-> "caller"]
    /\ hostname_length = 0 /\ credentials_length = NoCredentials
    /\ at = "idle" /\ result = "none"

Put(from, n, what) ==
    [p \in DOMAIN storage |-> IF from <= p /\ p < from + n THEN what ELSE storage[p]]

ReturnAs(r) == at' = "done" /\ result' = r

\* The lengths are known.
Begin(h, c) ==
    /\ at = "idle" /\ hostname_length' = h /\ credentials_length' = c
    /\ IF capacity < Needed(h, c) THEN ReturnAs("insufficient_size") ELSE at' = "store" /\ UNCHANGED result
    /\ UNCHANGED <<capacity, storage>>

StoreHostname ==
    /\ at = "store"
    /\ storage' = [Put(0, hostname_length, "host") EXCEPT ![hostname_length] = "nul"]
    /\ IF credentials_length = NoCredentials THEN ReturnAs("ok") ELSE at' = "stage" /\ UNCHANGED result
    /\ UNCHANGED <<capacity, hostname_length, credentials_length>>

\* percent_decode of the user and of the password, with a colon between them.
StageCredentials ==
    /\ at = "stage" /\ at' = "encode"
    /\ storage' = Put(capacity - credentials_length, credentials_length, "credential")
    /\ UNCHANGED <<capacity, hostname_length, credentials_length, result>>

authorization == hostname_length + 1

WithPrefix(p) == authorization <= p /\ p < authorization + Prefix
Encoding(p) ==
    /\ authorization + Prefix <= p
    /\ p < authorization + Prefix + EncodedLength(credentials_length)
Staged(p) == capacity - credentials_length <= p

Authorizes(what) ==
    storage' = [p \in DOMAIN storage |->
                   IF Encoding(p) THEN what ELSE IF WithPrefix(p) THEN "basic" ELSE storage[p]]

\* "Basic " is written; then base64_encode reads what is staged, unless that is
\* overwritten, or fails.
Encode ==
    /\ at = "encode"
    /\ LET clean == \A p \in DOMAIN storage : Staged(p) => ~WithPrefix(p) /\ ~Encoding(p) IN
       \/ Authorizes(IF clean THEN "encoded" ELSE "garbage") /\ at' = "encoded"
       \/ Authorizes("garbage") /\ at' = "failed"
    /\ UNCHANGED <<capacity, hostname_length, credentials_length, result>>

\* The credentials are wiped, and on failure all that was written before them.
MutantWiped(from, n) == IF at = "failed" THEN storage ELSE Put(from, n, "zero")
Wiped(from, n) == Put(from, n, "zero")

Wipe ==
    /\ at \in {"encoded", "failed"}
    /\ LET clear == Wiped(capacity - credentials_length, credentials_length)
           used == Used(hostname_length, credentials_length)
       IN IF at = "failed"
          THEN storage' = [p \in DOMAIN storage |-> IF p < used THEN "zero" ELSE clear[p]] /\ ReturnAs("error")
          ELSE storage' = [clear EXCEPT ![used - 1] = "nul"] /\ ReturnAs("ok")
    /\ UNCHANGED <<capacity, hostname_length, credentials_length>>

StoreNext == StoreHostname \/ StageCredentials \/ Encode \/ Wipe

StorageNext ==
    \/ \E h \in Lengths \ {0}, c \in (Lengths \ {0}) \cup {NoCredentials} : Begin(h, c)
    \/ StoreNext

StorageSpec == StorageInit /\ [][StorageNext]_storage_vars

-------------------------------------------------------------------------------

\* Whatever comes of it, no byte of the plain credentials stays in the caller's
\* storage ("wiped once encoded", http_endpoint.c).
NoCredentialLeft == at = "done" => \A p \in DOMAIN storage : storage[p] # "credential"

\* What the proxy's host name and authorization point to is there, whole and
\* terminated: nothing that was staged or wiped lies in it.
Layout(p) ==
    IF p < hostname_length THEN "host"
    ELSE IF p = hostname_length THEN "nul"
    ELSE IF WithPrefix(p) THEN "basic"
    ELSE IF Encoding(p) THEN "encoded" ELSE "nul"

AuthorizationIsWhole ==
    result = "ok" /\ hostname_length > 0 =>
        /\ capacity >= Used(hostname_length, credentials_length)
        /\ \A p \in DOMAIN storage :
              p < Used(hostname_length, credentials_length) => storage[p] = Layout(p)
=================================================================================
