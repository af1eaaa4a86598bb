------------------------------ MODULE MCProxyConfig ------------------------------
(***************************************************************************)
(* ProxyConfig in small situations: every URL with an empty list, every    *)
(* list with one URL.  Text is written as strings of one character.        *)
(***************************************************************************)
EXTENDS ProxyConfig

Proxy(hostname, port, credentials) == [hostname |-> hostname, port |-> port, credentials |-> credentials]
Url(text, means) == [text |-> text, means |-> means]
List(text, covers) == [text |-> text, covers |-> covers]
Host(text, labels) == [text |-> text, labels |-> labels]

http == <<"H", "t", "t", "p", ":", "/", "/">>
host == <<"a", ".", "b">>
six == <<"f", "e", ":", ":", "1">>          \* an IPv6 address
slash == <<"/", "@", "p">>
bracket(text) == <<"[">> \o text \o <<"]">>

\* How the user information is written, and what it means.
Users == {
    [text |-> <<>>, means |-> <<>>],
    [text |-> <<"u", "@">>, means |-> <<"u", ":">>],
    [text |-> <<"u", ":", "p", "@">>, means |-> <<"u", ":", "p">>],
    [text |-> <<"u", ":", "p", ":", "q", "@">>, means |-> <<"u", ":", "p", ":", "q">>],
    [text |-> <<"u", "@", "d", ":", "p", "@">>, means |-> <<"u", "@", "d", ":", "p">>],
    [text |-> <<"u", "%", "4", "0", "d", ":", "%", "3", "A", "%", "2", "5", "@">>,
     means |-> <<"u", "@", "d", ":", ":", "%">>],
    [text |-> <<"@">>, means |-> <<":">>] }

Ports == {
    [text |-> <<>>, means |-> 80], [text |-> <<":">>, means |-> 80],
    [text |-> <<":", "1">>, means |-> 1], [text |-> <<":", "6", "5", "5", "3", "5">>, means |-> 65535] }

Addresses == { [text |-> host, means |-> host], [text |-> bracket(six), means |-> six] }

WellFormed == {
    Url(scheme \o user.text \o address.text \o port.text \o path,
        Proxy(address.means, port.means, user.means)) :
        scheme \in {<<>>, http}, user \in Users, address \in Addresses, port \in Ports,
        path \in {<<>>, slash, <<" ">>} }

Bad == { Url(text, NoProxy) : text \in {
    <<"h", "t", "t", "p", "s", ":", "/", "/">> \o host, six, http, <<" ">>, <<"[", "]">>,
    <<"[", "a">>, bracket(host) \o <<"1">>, bracket(<<"x">>), host \o <<":", "0">>,
    host \o <<":", "6", "5", "5", "3", "6">>, host \o <<":", "0", "0", "0", "0", "8", "0">>,
    host \o <<":", "8", "a">>, <<"u", "%", "4", "g", "@">> \o host, <<"u", "%", "4", "@">> \o host,
    <<"u", ":", "%", "@">> \o host, <<"a", " ", "b">>, <<"a", "byte">>, <<":", "8">>, <<"u", "@">>, <<"a", "]">> } }

Empty == [text |-> Unset, means |-> NoProxy, covers |-> {}]
Plain == Url(host \o <<":", "8">>, Proxy(host, 8, <<>>))
Other == Url(<<"u", "@">> \o bracket(six), Proxy(six, 80, <<"u", ":">>))

\* The names of the lists: x, y.x, z, and y that ends like ay.
Lists == {
    List(<<"x">>, {<<"x">>}), List(<<".", "x">>, {<<"x">>}), List(<<"*", ".", "X">>, {<<"x">>}),
    List(<<"x", ".">>, {<<"x">>}), List(<<"x", ":", "8">>, {<<"x">>}),
    List(<<"y", ".", "x">>, {<<"y", "x">>}), List(<<"*">>, {<<"*">>}),
    List(<<" ", "z", " ", ",", ",", "y", ".", "x">>, {<<"z">>, <<"y", "x">>}),
    List(<<",", "*", " ">>, {<<"*">>}), List(<<".", ",", ":", "8", ",", "[", "]">>, {}),
    List(bracket(six), {<<"fe::1">>}), List(six, {<<"fe::1">>}), List(<<"y">>, {<<"y">>}) }

Hosts == {
    Host(<<"x">>, <<"x">>), Host(<<"y", ".", "x">>, <<"y", "x">>), Host(<<"a", "y", ".", "x">>, <<"ay", "x">>),
    Host(<<"a", ".", "y", ".", "x", ".">>, <<"a", "y", "x">>), Host(<<"x", ".", "y">>, <<"x", "y">>),
    Host(<<"X", "nul", "y">>, <<"x">>), Host(<<"a", "x">>, <<"ax">>), Host(<<" ", "z">>, <<"z">>),
    Host(bracket(six), <<"fe::1">>), Host(six, <<"fe::1">>) }

Environment(lower, upper, small, capital) ==
    [ https_proxy |-> lower, HTTPS_PROXY |-> upper, http_proxy |-> upper, HTTP_PROXY |-> lower,
      no_proxy |-> small, NO_PROXY |-> capital ]

AnyHost == Host(<<"a", "x">>, <<"ax">>)

MCSituations ==
    { [environment |-> Environment(url, Other, Empty, Empty), remote |-> AnyHost] :
        url \in WellFormed \cup Bad \cup {Empty} }
    \cup { [environment |-> Environment(lower, upper, small, capital), remote |-> far] :
        lower \in {Plain}, upper \in {Empty, Other}, small \in Lists \cup {Empty},
        capital \in {Empty, List(<<"z">>, {<<"z">>})}, far \in Hosts }

MCEarlierProxies == {NoProxy, Other.means}

MCLengths == 0..20
MCCapacities == {0, 4, 16, 33, 60}
=================================================================================
