-------------------------------- MODULE ProxyRules --------------------------------
(***************************************************************************)
(* The proxy configuration of a client (http_endpoint.c): what a proxy URL *)
(* says, and which hosts are to be reached without the proxy.  Text is a   *)
(* sequence of characters.                                                 *)
(***************************************************************************)
EXTENDS Integers, Sequences, FiniteSetsExt, SequencesExt

Digit == [d \in {"0", "1", "2", "3", "4", "5", "6", "7", "8", "9"} |->
             CHOOSE n \in 0..9 : <<"0", "1", "2", "3", "4", "5", "6", "7", "8", "9">>[n + 1] = d]
HexDigits == DOMAIN Digit \cup {"a", "b", "c", "d", "e", "f", "A", "B", "C", "D", "E", "F"}

\* The letters and the escapes that matter here.
LowerOf == [A |-> "a", F |-> "f", H |-> "h", T |-> "t", P |-> "p", X |-> "x"]
Lower(c) == IF c \in DOMAIN LowerOf THEN LowerOf[c] ELSE c
Unescaped(hi, lo) ==
    CASE <<hi, lo>> = <<"4", "0">> -> "@" [] <<hi, lo>> = <<"2", "5">> -> "%"
      [] <<hi, Lower(lo)>> = <<"3", "a">> -> ":" [] <<hi, Lower(lo)>> = <<"2", "f">> -> "/"
      [] OTHER -> "byte"

\* find_byte, find_last_byte; 0 if it is not there.
FirstOf(text, cs) == LET at == {i \in DOMAIN text : text[i] \in cs} IN IF at = {} THEN 0 ELSE Min(at)
LastOf(text, cs) == LET at == {i \in DOMAIN text : text[i] \in cs} IN IF at = {} THEN 0 ELSE Max(at)
Upto(text, n) == SubSeq(text, 1, n)
From(text, n) == SubSeq(text, n, Len(text))
Before(text, n) == IF n = 0 THEN text ELSE Upto(text, n - 1)
Behind(text, n) == IF n = 0 THEN <<>> ELSE From(text, n + 1)

EqualsIgnoringCase(a, b) == Len(a) = Len(b) /\ \A i \in DOMAIN a : Lower(a[i]) = Lower(b[i])

\* text_length and trim_blanks: a span may end with a NUL and have blanks around it.
Blanks == {" ", "\t", "\r", "\n"}
Trim(span) ==
    LET text == IF FirstOf(span, {"nul"}) = 0 THEN span ELSE Upto(span, FirstOf(span, {"nul"}) - 1)
        ink == {i \in DOMAIN text : text[i] \notin Blanks}
    IN IF ink = {} THEN <<>> ELSE SubSeq(text, Min(ink), Max(ink))

-------------------------------------------------------------------------------
(* http_endpoint_proxy_parse_url, without the storage. *)

Malformed == [result |-> "invalid_argument"]

\* percent_decode
PercentDecode(text) ==
    LET n == Len(text)
        Put(c, rest) == IF rest = Malformed THEN Malformed ELSE [rest EXCEPT !.text = <<c>> \o @]
        from[i \in 1..(n + 1)] ==
            IF i > n THEN [result |-> "ok", text |-> <<>>]
            ELSE IF text[i] # "%" THEN Put(text[i], from[i + 1])
            ELSE IF i + 2 > n \/ {text[i + 1], text[i + 2]} \ HexDigits # {} THEN Malformed
            ELSE Put(Unescaped(text[i + 1], text[i + 2]), from[i + 3])
    IN from[1]

\* parse_port
PortOf(digits) == FoldLeft(LAMBDA n, d : n * 10 + Digit[d], 0, digits)
PortIsValid(digits) ==
    /\ Len(digits) \in 1..5 /\ \A i \in DOMAIN digits : digits[i] \in DOMAIN Digit
    /\ PortOf(digits) \in 1..65535

\* is_valid_hostname; "byte" is one that is not printable ASCII.
HostnameIsValid(text) ==
    /\ text # <<>>
    /\ \A i \in DOMAIN text : text[i] \notin Blanks \cup {"byte", "/", "@", "[", "]", "?", "#"}

\* The address of an authority: an IPv6 address has brackets.
InBrackets(text, closing) ==
    IF \/ closing < 3
       \/ Len(text) > closing /\ text[closing + 1] # ":"
       \/ \E i \in 2..(closing - 1) : text[i] \notin HexDigits \cup {":", ".", "%"}
    THEN Malformed
    ELSE [hostname |-> SubSeq(text, 2, closing - 1), port |-> From(text, closing + 2)]
Unbracketed(text, colon) ==
    IF LastOf(text, {":"}) # colon \/ ~HostnameIsValid(Before(text, colon)) THEN Malformed
    ELSE [hostname |-> Before(text, colon), port |-> Behind(text, colon)]
Address(text) ==
    IF text # <<>> /\ text[1] = "[" THEN InBrackets(text, FirstOf(text, {"]"}))
    ELSE Unbracketed(text, FirstOf(text, {":"}))

\* user:password, decoded, with a colon whether or not there is a password.
Joined(user, password) ==
    IF Malformed \in {user, password} THEN Malformed
    ELSE [text |-> user.text \o <<":">> \o password.text]
Credentials(text) ==
    LET colon == FirstOf(text, {":"})
    IN Joined(PercentDecode(Before(text, colon)), PercentDecode(Behind(text, colon)))

Combined(address, credentials) ==
    IF \/ Malformed \in {address, credentials}
       \/ address.port # <<>> /\ ~PortIsValid(address.port)
    THEN Malformed
    ELSE [result |-> "ok", hostname |-> address.hostname,
          port |-> IF address.port = <<>> THEN 80 ELSE PortOf(address.port),
          credentials |-> credentials.text]

\* After an optional scheme, the authority is user:password@host:port: the last "@"
\* and the first ":" of what is before it count.
SchemeEnds(url) ==
    LET marks == {i \in 1..(Len(url) - 2) : SubSeq(url, i, i + 2) = <<":", "/", "/">>}
    IN IF marks = {} THEN 0 ELSE Min(marks)
Authority(rest) == Before(rest, FirstOf(rest, {"/", "?", "#"}))
UserEnds(authority) == LastOf(authority, {"@"})

ParseAuthority(authority, at) ==
    Combined(Address(From(authority, at + 1)),
             IF at = 0 THEN [text |-> <<>>] ELSE Credentials(Upto(authority, at - 1)))

ParseUrl(span) ==
    LET url == Trim(span)
        scheme == SchemeEnds(url)
        authority == Authority(IF scheme = 0 THEN url ELSE From(url, scheme + 3))
    IN IF \/ url = <<>>
          \/ scheme > 0 /\ ~EqualsIgnoringCase(Upto(url, scheme - 1), <<"h", "t", "t", "p">>)
       THEN Malformed ELSE ParseAuthority(authority, UserEnds(authority))

-------------------------------------------------------------------------------
(* http_endpoint_proxy_should_bypass *)

WithoutLast(text, c) == IF text # <<>> /\ Last(text) = c THEN Front(text) ELSE text
WithoutFirst(text, c) == IF text # <<>> /\ text[1] = c THEN Tail(text) ELSE text

\* The name an entry of the list stands for: without brackets, port, a leading "*."
\* or ".", and the dot at the end.  <<>> if it stands for none.
EntryName(entry) ==
    IF entry[1] = "["
    THEN IF FirstOf(entry, {"]"}) < 3 THEN <<>> ELSE SubSeq(entry, 2, FirstOf(entry, {"]"}) - 1)
    ELSE LET colon == FirstOf(entry, {":"})
             host == IF LastOf(entry, {":"}) = colon THEN Before(entry, colon) ELSE entry
             starless == IF Len(host) >= 2 /\ Upto(host, 2) = <<"*", ".">> THEN Tail(host) ELSE host
         IN WithoutLast(WithoutFirst(starless, "."), ".")

\* An entry covers the host it names and, after a dot, everything that ends with it.
MutantCovers(name, host) ==
    Len(host) >= Len(name) /\ EqualsIgnoringCase(From(host, Len(host) - Len(name) + 1), name)
Covers(name, host) ==
    \/ EqualsIgnoringCase(host, name)
    \/ /\ Len(host) > Len(name) /\ host[Len(host) - Len(name)] = "."
       /\ EqualsIgnoringCase(From(host, Len(host) - Len(name) + 1), name)

Entries(no_proxy) ==
    FoldLeft(LAMBDA done, c : IF c = "," THEN Append(done, <<>>)
                              ELSE [done EXCEPT ![Len(done)] = Append(@, c)], << <<>> >>, no_proxy)

ShouldBypass(no_proxy, hostname) ==
    LET trimmed == Trim(hostname)
        bare == IF Len(trimmed) >= 2 /\ trimmed[1] = "[" /\ Last(trimmed) = "]"
                THEN SubSeq(trimmed, 2, Len(trimmed) - 1) ELSE trimmed
        host == WithoutLast(bare, ".")
    IN /\ host # <<>>
       /\ \E i \in DOMAIN Entries(no_proxy) :
             LET entry == Trim(Entries(no_proxy)[i]) IN
             /\ entry # <<>>
             /\ \/ entry = <<"*">>
                \/ EntryName(entry) # <<>> /\ Covers(EntryName(entry), host)
=================================================================================
