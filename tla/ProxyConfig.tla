------------------------------- MODULE ProxyConfig -------------------------------
(***************************************************************************)
(* http_endpoint_config_set_proxy_from_environment (http_endpoint.c): from *)
(* the variables of the environment, by the rules of ProxyRules and into   *)
(* storage as in ProxyStorage, to the proxy of an endpoint.                *)
(***************************************************************************)
EXTENDS ProxyRules, ProxyStorage

CONSTANTS
    Situations,       \* what the variables hold and which host is meant: see Init
    EarlierProxies    \* what the configuration may have as its proxy before the call

VariableNames == {"https_proxy", "HTTPS_PROXY", "http_proxy", "HTTP_PROXY", "no_proxy", "NO_PROXY"}

ASSUME SituationsAssumption ==
    \A situation \in Situations, name \in VariableNames :
        situation.environment[name].text \in Seq(STRING)

\* A variable that is unset or empty has no text, a URL that is malformed no meaning.
Unset == <<>>

VARIABLES
    environment,   \* the values of the variables, by their names
    tls, remote,   \* of the configuration: whether TLS is used, and the remote host
    proxy          \* of the configuration

config_vars == <<environment, tls, remote, proxy>>
vars == <<config_vars, storage_vars>>

NoProxy == [hostname |-> <<>>, port |-> 0, credentials |-> <<>>]
\* first_environment_value: the value of the first of two that is set and not empty.
FirstSet(lower, upper) ==
    IF environment[lower].text # Unset THEN environment[lower] ELSE environment[upper]

ProxyUrl == IF tls THEN FirstSet("https_proxy", "HTTPS_PROXY") ELSE FirstSet("http_proxy", "HTTP_PROXY")
NoProxyList == FirstSet("no_proxy", "NO_PROXY")

\* A situation gives each variable of the environment its text and what it means, a
\* URL a proxy and a list the names it covers, and the remote host its labels and the
\* text it is written in.
Init ==
    /\ StorageInit /\ tls \in BOOLEAN /\ proxy \in EarlierProxies
    /\ \E situation \in Situations :
          environment = situation.environment /\ remote = situation.remote

\* The proxy of an earlier call, or one the caller chose, is cleared first.
SetProxyFromEnvironment ==
    /\ at = "idle" /\ proxy' = NoProxy
    /\ LET url == ProxyUrl.text
           bypassed == NoProxyList.text # Unset /\ ShouldBypass(NoProxyList.text, remote.text)
           parsed == ParseUrl(url)
       IN IF url = Unset \/ bypassed
          THEN ReturnAs("ok") /\ UNCHANGED <<storage, capacity, hostname_length, credentials_length>>
          ELSE IF parsed = Malformed
          THEN ReturnAs("invalid_argument")
               /\ UNCHANGED <<storage, capacity, hostname_length, credentials_length>>
          ELSE Begin(Len(parsed.hostname),
                     IF parsed.credentials = <<>> THEN NoCredentials ELSE Len(parsed.credentials))
    /\ UNCHANGED <<environment, tls, remote>>

\* The proxy is filled in as the call returns.
Store ==
    /\ StoreNext
    /\ proxy' = IF result' # "ok" THEN proxy
                ELSE LET parsed == ParseUrl(ProxyUrl.text) IN
                     [hostname |-> parsed.hostname, port |-> parsed.port,
                      credentials |-> parsed.credentials]
    /\ UNCHANGED <<environment, tls, remote>>

Next == SetProxyFromEnvironment \/ Store

Spec == Init /\ [][Next]_vars

-------------------------------------------------------------------------------
(* Correctness. *)

\* A host is covered by the names all of whose labels it ends with; a list may cover
\* every host.
EndsWith(labels, name) ==
    Len(name) <= Len(labels) /\ SubSeq(labels, Len(labels) - Len(name) + 1, Len(labels)) = name
\* The variable in small letters counts, or else the one in capitals.
Meant(lower, upper) == environment[IF environment[lower].text = Unset THEN upper ELSE lower]
MeantUrl == IF tls THEN Meant("https_proxy", "HTTPS_PROXY") ELSE Meant("http_proxy", "HTTP_PROXY")
MeantToBypass ==
    \E name \in Meant("no_proxy", "NO_PROXY").covers : name = <<"*">> \/ EndsWith(remote.labels, name)

\* The proxy that is used is the one the variables mean, by the scheme of the
\* connection and unless the host is listed: host, port and credentials, however
\* they are written; what means nothing is refused, and nothing else is.  Labels are
\* compared whole: a host is not taken for another whose name it ends with.  Where
\* the call sets none, or fails, no earlier proxy is left.
ProxyIsTheOneMeant ==
    at = "done" =>
        IF MeantUrl.text = Unset \/ MeantToBypass THEN result = "ok" /\ proxy = NoProxy
        ELSE IF MeantUrl.means = NoProxy THEN result = "invalid_argument" /\ proxy = NoProxy
        ELSE result # "invalid_argument" /\ proxy = IF result = "ok" THEN MeantUrl.means ELSE NoProxy
=================================================================================
