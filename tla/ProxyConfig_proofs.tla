--------------------------- MODULE ProxyConfig_proofs ---------------------------
(***************************************************************************)
(* Proofs about the proxy of an endpoint: for storage, host names and      *)
(* credentials of any length, and then for every environment, nothing of   *)
(* the plain credentials is left and the authorization is whole; what is   *)
(* configured is what the rules find in the variables; and what the rules  *)
(* find in a URL is what its writer meant, for a grammar of such URLs.     *)
(***************************************************************************)
EXTENDS ProxyConfig, FiniteSetTheorems, SequenceTheorems, TLAPS

(* Text *)

\* Every non-empty set of natural numbers has a least element: among the intervals
\* 0..m for its elements m one is minimal under inclusion.
LEMMA LeastNumber ==
    ASSUME NEW S, S \subseteq Nat, S # {}
    PROVE  \E x \in S : \A y \in S : x <= y
  <1>1. PICK n \in S : TRUE
    OBVIOUS
  <1> DEFINE U == 0..n
             T == {0..m : m \in {k \in S : k <= n}}
             R == StrictSubsetOrdering(U)
  <1>2. IsWellFoundedOn(R, FiniteSubsetsOf(U))
    BY FS_StrictSubsetOrderingWellFounded
  <1>3. T \subseteq FiniteSubsetsOf(U)
    <2> SUFFICES ASSUME NEW m \in S, m <= n PROVE 0..m \in FiniteSubsetsOf(U)
      OBVIOUS
    <2>1. IsFiniteSet(0..m)
      BY FS_Interval
    <2> QED
      BY <2>1 DEF FiniteSubsetsOf
  <1>4. T # {}
    OBVIOUS
  <1>5. \E x \in T : \A y \in T : <<y, x>> \notin R
    <2> HIDE DEF U, T, R
    <2> QED
      BY <1>2, <1>3, <1>4, WFMin
  <1>6. PICK m \in S : m <= n /\ \A y \in T : <<y, 0..m>> \notin R
    BY <1>5
  <1>7. ASSUME NEW y \in S, y < m PROVE FALSE
    <2>1. 0..y \in T
      BY <1>6, <1>7
    <2>2. 0..y \in SUBSET U /\ 0..m \in SUBSET U /\ 0..y \subseteq 0..m /\ 0..y # 0..m
      BY <1>6, <1>7
    <2> QED
      BY <1>6, <2>1, <2>2 DEF StrictSubsetOrdering
  <1> QED
    BY <1>7

\* A set with 0, and with the successor of each of its numbers, has them all.
LEMMA SetInduction ==
    ASSUME NEW S, 0 \in S, \A n \in Nat : n \in S => n + 1 \in S
    PROVE  Nat \subseteq S
  <1> SUFFICES ASSUME Nat \ S # {} PROVE FALSE
    OBVIOUS
  <1>1. PICK n \in Nat \ S : \A k \in Nat \ S : n <= k
    BY LeastNumber
  <1>2. n # 0 /\ n - 1 \in Nat /\ n - 1 \in S
    BY <1>1
  <1> QED
    BY <1>1, <1>2

\* The least and the greatest of some positions in a text.
LEMMA Ends ==
    ASSUME NEW n \in Nat, NEW S, S \subseteq 1..n, S # {}
    PROVE  Min(S) \in 1..n /\ Max(S) \in 1..n
  <1>0. S \subseteq Nat
    OBVIOUS
  <1>1. \E x \in S : \A y \in S : x <= y
    BY <1>0, LeastNumber
  <1>2. \E x \in S : \A y \in S : x >= y
    <2> DEFINE T == {n - x : x \in S}
    <2>1. T \subseteq Nat /\ T # {}
      <3>1. \A x \in S : n - x \in Nat
        OBVIOUS
      <3>2. PICK x \in S : TRUE
        OBVIOUS
      <3>3. n - x \in T
        OBVIOUS
      <3> QED
        BY <3>1, <3>3
    <2>2. PICK z \in T : \A y \in T : z <= y
      <3> HIDE DEF T
      <3> QED
        BY <2>1, LeastNumber
    <2>3. PICK x \in S : z = n - x
      OBVIOUS
    <2>4. ASSUME NEW y \in S PROVE x >= y
      <3>1. n - x <= n - y
        BY <2>2, <2>3
      <3> QED
        BY <3>1
    <2> QED
      BY <2>4
  <1> QED
    BY <1>1, <1>2 DEF Min, Max

\* Characters: those the escapes stand for by name, the provers not taking a literal
\* for a string.
Char == STRING \cup {"@", "%", ":", "/", "[", "]", "byte"}
Text == Seq(Char)

\* Where a character is in a text, and the pieces of it.
LEMMA Places ==
    ASSUME NEW text \in Text, NEW cs
    PROVE  FirstOf(text, cs) \in 0..Len(text) /\ LastOf(text, cs) \in 0..Len(text)
  <1> DEFINE hits == {i \in DOMAIN text : text[i] \in cs}
  <1>1. Len(text) \in Nat /\ hits \subseteq 1..Len(text)
    BY DEF Text
  <1>2. FirstOf(text, cs) = IF hits = {} THEN 0 ELSE Min(hits)
    BY DEF FirstOf
  <1>3. LastOf(text, cs) = IF hits = {} THEN 0 ELSE Max(hits)
    BY DEF LastOf
  <1>4. hits # {} => Min(hits) \in 1..Len(text) /\ Max(hits) \in 1..Len(text)
    <2> HIDE DEF hits
    <2> QED
      BY <1>1, Ends
  <1> HIDE DEF hits
  <1> QED
    BY <1>1, <1>2, <1>3, <1>4

\* A piece of a text is a text.
LEMMA Piece ==
    ASSUME NEW text \in Text, NEW a \in Nat \ {0}, NEW b \in Int, b <= Len(text)
    PROVE  SubSeq(text, a, b) \in Text
  <1>1. Len(text) \in Nat /\ \A i \in 1..Len(text) : text[i] \in Char
    BY ElementOfSeq DEF Text
  <1>2. CASE a <= b
    <2>1. SubSeq(text, a, b) = [i \in 1..(b - a + 1) |-> text[i + a - 1]]
      OBVIOUS
    <2>2. \A i \in 1..(b - a + 1) : i + a - 1 \in 1..Len(text)
      BY <1>1, <1>2
    <2>3. b - a + 1 \in Nat
      BY <1>2
    <2> QED
      BY <1>1, <2>1, <2>2, <2>3 DEF Text
  <1>3. CASE a > b
    <2>1. SubSeq(text, a, b) = <<>>
      BY <1>3, <1>1 DEF Text
    <2> QED
      BY <2>1 DEF Text
  <1> QED
    BY <1>2, <1>3

\* So is whatever the rules cut from one.
LEMMA Pieces ==
    ASSUME NEW text \in Text, NEW n \in 0..Len(text)
    PROVE  /\ Before(text, n) \in Text /\ Behind(text, n) \in Text
           /\ From(text, n + 1) \in Text /\ From(text, n + 2) \in Text /\ From(text, n + 3) \in Text
           /\ Upto(text, n) \in Text /\ Upto(text, n - 1) \in Text
           /\ SubSeq(text, 2, n - 1) \in Text
  <1>1. Len(text) \in Nat /\ n \in Nat /\ <<>> \in Text
    BY DEF Text
  <1>2. From(text, n + 1) \in Text /\ From(text, n + 2) \in Text /\ From(text, n + 3) \in Text
    BY <1>1, Piece DEF From
  <1>3. Upto(text, n) \in Text /\ Upto(text, n - 1) \in Text /\ SubSeq(text, 2, n - 1) \in Text
    BY <1>1, Piece DEF Upto
  <1> QED
    BY <1>1, <1>2, <1>3 DEF Before, Behind

\* text_length and trim_blanks make a text of a text.
LEMMA Trimmed ==
    ASSUME NEW span \in Text
    PROVE  Trim(span) \in Text
  <1> DEFINE text == IF FirstOf(span, {"nul"}) = 0 THEN span
                     ELSE Upto(span, FirstOf(span, {"nul"}) - 1)
             ink == {i \in DOMAIN text : text[i] \notin Blanks}
  <1>1. text \in Text
    BY Places, Pieces
  <1> HIDE DEF text
  <1>2. ink \subseteq 1..Len(text) /\ Len(text) \in Nat /\ <<>> \in Text
    BY <1>1 DEF Text
  <1>3. ink # {} => Min(ink) \in 1..Len(text) /\ Max(ink) \in 1..Len(text)
    <2> HIDE DEF ink
    <2> QED
      BY <1>2, Ends
  <1>4. ink # {} => SubSeq(text, Min(ink), Max(ink)) \in Text
    <2> HIDE DEF ink
    <2>1. ink # {} => /\ Min(ink) \in Nat \ {0} /\ Max(ink) \in Int /\ Max(ink) <= Len(text)
      BY <1>2, <1>3
    <2> QED
      BY <1>1, <2>1, Piece
  <1>5. Trim(span) = IF ink = {} THEN <<>> ELSE SubSeq(text, Min(ink), Max(ink))
    BY DEF Trim, text
  <1> QED
    BY <1>2, <1>4, <1>5

-------------------------------------------------------------------------------
(* percent_decode *)

Decoded == {Malformed} \cup [result : {"ok"}, text : Text]

\* What an escape stands for is a character.
LEMMA Escapes ==
    ASSUME NEW hi, NEW lo
    PROVE  Unescaped(hi, lo) \in Char
  <1>1. Unescaped(hi, lo) \in {"@", "%", ":", "/", "byte"}
    BY DEF Unescaped
  <1> QED
    BY <1>1 DEF Char

\* A character decoded before what is behind it.
Ahead(c, rest) == IF rest = Malformed THEN Malformed ELSE [rest EXCEPT !.text = <<c>> \o @]
\* One step of decoding a text, with f what is decoded from each place further on.
DecodeStep(text, f, i) ==
    IF i > Len(text) THEN [result |-> "ok", text |-> <<>>]
    ELSE IF text[i] # "%" THEN Ahead(text[i], f[i + 1])
    ELSE IF i + 2 > Len(text) \/ {text[i + 1], text[i + 2]} \ HexDigits # {} THEN Malformed
    ELSE Ahead(Unescaped(text[i + 1], text[i + 2]), f[i + 3])

\* Decoding a text is decoding it step by step.
LEMMA DecodingUnfolds ==
    ASSUME NEW text \in Text
    PROVE  \E from : /\ from = [i \in 1..(Len(text) + 1) |-> DecodeStep(text, from, i)]
                    /\ PercentDecode(text) = from[1]
  <1> DEFINE n == Len(text)
             Step(f, i) == DecodeStep(text, f, i)
             from == CHOOSE f : f = [i \in 1..(n + 1) |-> Step(f, i)]
  <1>1. n \in Nat /\ \A i \in 1..n : text[i] \in Char
    BY ElementOfSeq DEF Text
  <1>2. PercentDecode(text) = from[1]
    BY DEF PercentDecode, DecodeStep, Ahead
  <1>6. ASSUME NEW f, NEW g, NEW i \in 1..(n + 1),
               \A j \in (i + 1)..(n + 1) : f[j] = g[j]
        PROVE  Step(f, i) = Step(g, i)
    <2> USE DEF DecodeStep
    <2>1. i <= n => f[i + 1] = g[i + 1]
      BY <1>1, <1>6
    <2>2. i + 2 <= n => f[i + 3] = g[i + 3]
      BY <1>1, <1>6
    <2>3. CASE i > n
      BY <2>3
    <2>4. CASE i <= n /\ text[i] # "%"
      BY <2>1, <2>4
    <2>5. CASE i <= n /\ text[i] = "%"
      <3>1. CASE i + 2 > n \/ {text[i + 1], text[i + 2]} \ HexDigits # {}
        BY <1>1, <2>5, <3>1
      <3>2. CASE ~(i + 2 > n \/ {text[i + 1], text[i + 2]} \ HexDigits # {})
        <4>1. f[i + 3] = g[i + 3]
          BY <1>1, <2>2, <3>2
        <4> QED
          BY <1>1, <2>5, <3>2, <4>1
      <3> QED
        BY <3>1, <3>2
    <2> QED
      BY <1>1, <2>3, <2>4, <2>5
  <1> HIDE DEF Step
  \* There is a solution: it can be extended to the front, character by character.
  <1>7. \E f : f = [i \in 1..(n + 1) |-> Step(f, i)]
    <2> DEFINE Solves(f, m) == f = [i \in m..(n + 1) |-> Step(f, i)]
               S == {k \in Nat : k <= n => \E f : Solves(f, (n + 1) - k)}
    <2>1. 0 \in S
      <3> DEFINE e == [i \in {} |-> 0]
                 f == [i \in (n + 1)..(n + 1) |-> Step(e, i)]
      <3>1. \A i \in (n + 1)..(n + 1) : i \in 1..(n + 1) /\ (i + 1)..(n + 1) = {}
        BY <1>1
      <3>2. \A i \in (n + 1)..(n + 1) : Step(e, i) = Step(f, i)
        <4> HIDE DEF e, f
        <4> QED
          BY <1>6, <3>1
      <3>3. f = [i \in (n + 1)..(n + 1) |-> Step(f, i)]
        <4> HIDE DEF e
        <4>1. f = [i \in (n + 1)..(n + 1) |-> Step(e, i)]
          OBVIOUS
        <4> HIDE DEF f
        <4> QED
          BY <3>2, <4>1
      <3>4. (n + 1) - 0 = n + 1
        BY <1>1
      <3> QED
        BY <3>3, <3>4
    <2>2. ASSUME NEW k \in Nat, k \in S
          PROVE  k + 1 \in S
      <3> SUFFICES ASSUME k + 1 <= n PROVE \E f : Solves(f, (n + 1) - (k + 1))
        OBVIOUS
      <3>0. (n + 1) - (k + 1) \in 1..n
        <4> HIDE DEF n
        <4> QED
          BY <1>1
      <3>1. PICK m \in 1..n : m = (n + 1) - (k + 1)
        BY <3>0
      <3>2. (n + 1) - k = m + 1
        BY <1>1, <3>1
      <3>3. PICK f : Solves(f, m + 1)
        BY <1>1, <2>2, <3>2
      <3> DEFINE g == [i \in m..(n + 1) |-> Step(f, i)]
      <3>4. \A i \in (m + 1)..(n + 1) : f[i] = g[i]
        BY <1>1, <3>1, <3>3
      <3>5. ASSUME NEW i \in m..(n + 1)
            PROVE  Step(f, i) = Step(g, i)
        <4>1. i \in 1..(n + 1) /\ \A j \in (i + 1)..(n + 1) : j \in (m + 1)..(n + 1)
          BY <1>1, <3>1
        <4>2. \A j \in (i + 1)..(n + 1) : f[j] = g[j]
          BY <3>4, <4>1
        <4> HIDE DEF g
        <4> QED
          BY <1>6, <4>1, <4>2
      <3>6. g = [i \in m..(n + 1) |-> Step(g, i)]
        <4>1. g = [i \in m..(n + 1) |-> Step(f, i)]
          OBVIOUS
        <4> HIDE DEF g
        <4> QED
          BY <3>5, <4>1
      <3> QED
        BY <3>1, <3>6
    <2>3. n \in S
      <3> HIDE DEF S
      <3> QED
        BY <1>1, <2>1, <2>2, SetInduction
    <2>4. (n + 1) - n = 1
      BY <1>1
    <2> QED
      BY <1>1, <2>3, <2>4
  <1>8. from = [i \in 1..(n + 1) |-> Step(from, i)]
    BY <1>7
  <1> HIDE DEF from
  <1> QED
    BY <1>2, <1>8 DEF Step

\* What a text is decoded to, if anything, is text.
LEMMA PercentDecoded ==
    ASSUME NEW text \in Text
    PROVE  PercentDecode(text) \in Decoded
  <1> DEFINE n == Len(text)
             Step(f, i) == DecodeStep(text, f, i)
  <1>1. n \in Nat /\ \A i \in 1..n : text[i] \in Char
    BY ElementOfSeq DEF Text
  <1>3. ASSUME NEW c \in Char, NEW rest \in Decoded
        PROVE  Ahead(c, rest) \in Decoded
    <2> USE DEF Ahead
    <2>1. CASE rest = Malformed
      BY <2>1 DEF Decoded
    <2>2. CASE rest # Malformed
      <3>1. rest \in [result : {"ok"}, text : Text]
        BY <2>2 DEF Decoded
      <3>2. rest.text \in Seq(Char) /\ <<c>> \in Seq(Char)
        BY <3>1 DEF Text
      <3>3. <<c>> \o rest.text \in Text
        BY <3>2, ConcatProperties DEF Text
      <3> QED
        BY <2>2, <3>1, <3>3 DEF Decoded
    <2> QED
      BY <2>1, <2>2
  <1>4. \A hi, lo : Unescaped(hi, lo) \in Char
    BY Escapes
  <1>5. ASSUME NEW f, NEW i \in 1..(n + 1),
               \A j \in (i + 1)..(n + 1) : f[j] \in Decoded
        PROVE  Step(f, i) \in Decoded
    <2> USE DEF DecodeStep
    <2>1. CASE i > n
      <3>1. <<>> \in Text
        BY DEF Text
      <3> QED
        BY <2>1, <3>1 DEF Decoded
    <2>2. CASE i <= n /\ text[i] # "%"
      <3>1. f[i + 1] \in Decoded /\ text[i] \in Char
        BY <1>1, <1>5, <2>2
      <3>2. Ahead(text[i], f[i + 1]) \in Decoded
        BY <1>3, <3>1
      <3> QED
        BY <1>1, <2>2, <3>2
    <2>3. CASE i <= n /\ text[i] = "%"
      <3>1. CASE i + 2 > n \/ {text[i + 1], text[i + 2]} \ HexDigits # {}
        BY <1>1, <2>3, <3>1 DEF Decoded
      <3>2. CASE ~(i + 2 > n \/ {text[i + 1], text[i + 2]} \ HexDigits # {})
        <4>1. f[i + 3] \in Decoded
          BY <1>1, <1>5, <3>2
        <4>2. Ahead(Unescaped(text[i + 1], text[i + 2]), f[i + 3]) \in Decoded
          BY <1>3, <1>4, <4>1
        <4> QED
          BY <1>1, <2>3, <3>2, <4>2
      <3> QED
        BY <3>1, <3>2
    <2> QED
      BY <1>1, <2>1, <2>2, <2>3
  <1>8. PICK from : from = [i \in 1..(n + 1) |-> Step(from, i)] /\ PercentDecode(text) = from[1]
    BY DecodingUnfolds
  <1> HIDE DEF Step
  \* And what is behind any character is decoded, or malformed.
  <1>9. from[1] \in Decoded
    <2> DEFINE S == {k \in Nat : k <= n => \A i \in ((n + 1) - k)..(n + 1) : from[i] \in Decoded}
    <2>1. 0 \in S
      <3>1. \A i \in ((n + 1) - 0)..(n + 1) : i \in 1..(n + 1) /\ (i + 1)..(n + 1) = {}
        BY <1>1
      <3> QED
        BY <1>5, <1>8, <3>1
    <2>2. ASSUME NEW k \in Nat, k \in S
          PROVE  k + 1 \in S
      <3> SUFFICES ASSUME k + 1 <= n, NEW i \in ((n + 1) - (k + 1))..(n + 1)
                   PROVE  from[i] \in Decoded
        OBVIOUS
      <3>1. i \in 1..(n + 1) /\ \A j \in (i + 1)..(n + 1) : j \in ((n + 1) - k)..(n + 1)
        BY <1>1
      <3>2. \A j \in (i + 1)..(n + 1) : from[j] \in Decoded
        BY <1>1, <2>2, <3>1
      <3> QED
        BY <1>5, <1>8, <3>1, <3>2
    <2>3. n \in S
      <3> HIDE DEF S
      <3> QED
        BY <1>1, <2>1, <2>2, SetInduction
    <2>4. 1 \in ((n + 1) - n)..(n + 1)
      BY <1>1
    <2> QED
      BY <1>1, <2>3, <2>4
  <1> QED
    BY <1>8, <1>9

-------------------------------------------------------------------------------
(* http_endpoint_proxy_parse_url *)

\* An address that is not malformed has a host name.
LEMMA AddressHasHostname ==
    ASSUME NEW text \in Text, Address(text) # Malformed
    PROVE  Address(text).hostname \in Text
  <1>1. FirstOf(text, {"]"}) \in 0..Len(text) /\ FirstOf(text, {":"}) \in 0..Len(text)
    BY Places
  <1>2. CASE text # <<>> /\ text[1] = "["
    <2> DEFINE closing == FirstOf(text, {"]"})
    <2>1. Address(text) = InBrackets(text, closing)
      BY <1>2 DEF Address
    <2>2. SubSeq(text, 2, closing - 1) \in Text
      BY <1>1, Pieces
    <2> HIDE DEF closing
    <2>3. Address(text) = [hostname |-> SubSeq(text, 2, closing - 1), port |-> From(text, closing + 2)]
      BY <2>1 DEF InBrackets
    <2> QED
      BY <2>2, <2>3
  <1>3. CASE ~(text # <<>> /\ text[1] = "[")
    <2> DEFINE colon == FirstOf(text, {":"})
    <2>1. Address(text) = Unbracketed(text, colon)
      BY <1>3 DEF Address
    <2>2. Before(text, colon) \in Text
      BY <1>1, Pieces
    <2> HIDE DEF colon
    <2>3. Address(text) = [hostname |-> Before(text, colon), port |-> Behind(text, colon)]
      BY <2>1 DEF Unbracketed
    <2> QED
      BY <2>2, <2>3
  <1> QED
    BY <1>2, <1>3

\* And so have credentials their text.
LEMMA CredentialsAreText ==
    ASSUME NEW text \in Text, Credentials(text) # Malformed
    PROVE  Credentials(text).text \in Text
  <1> DEFINE colon == FirstOf(text, {":"})
             user == PercentDecode(Before(text, colon))
             password == PercentDecode(Behind(text, colon))
  <1>1. user \in Decoded /\ password \in Decoded
    <2>1. Before(text, colon) \in Text /\ Behind(text, colon) \in Text
      BY Places, Pieces
    <2> QED
      BY <2>1, PercentDecoded
  <1>2. Credentials(text) = Joined(user, password)
    BY DEF Credentials
  <1> HIDE DEF user, password
  <1>3. user # Malformed /\ password # Malformed
    BY <1>2 DEF Joined
  <1>4. user.text \in Text /\ password.text \in Text
    BY <1>1, <1>3 DEF Decoded
  <1>5. Credentials(text) = [text |-> user.text \o <<":">> \o password.text]
    BY <1>2, <1>3 DEF Joined
  <1>6. user.text \o <<":">> \o password.text \in Text
    <2>1. <<":">> \in Seq(Char)
      BY DEF Char
    <2> QED
      BY <1>4, <2>1, ConcatProperties DEF Text
  <1> QED
    BY <1>5, <1>6

\* An authority that is not malformed has a host name and credentials of some length.
LEMMA AuthorityIsParsed ==
    ASSUME NEW authority \in Text, NEW n \in 0..Len(authority),
           ParseAuthority(authority, n) # Malformed
    PROVE  /\ ParseAuthority(authority, n).hostname \in Text
           /\ ParseAuthority(authority, n).credentials \in Text
  <1> DEFINE address == Address(From(authority, n + 1))
             user == IF n = 0 THEN [text |-> <<>>] ELSE Credentials(Upto(authority, n - 1))
  <1>1. From(authority, n + 1) \in Text /\ Upto(authority, n - 1) \in Text
    BY Pieces
  <1>2. ParseAuthority(authority, n) = Combined(address, user)
    BY DEF ParseAuthority
  <1>3. address # Malformed => address.hostname \in Text
    BY <1>1, AddressHasHostname
  <1>4. user # Malformed => user.text \in Text
    <2>1. CASE n = 0
      BY <2>1 DEF Text
    <2>2. CASE n # 0
      <3>1. user = Credentials(Upto(authority, n - 1))
        BY <2>2
      <3> QED
        BY <1>1, <3>1, CredentialsAreText
    <2> QED
      BY <2>1, <2>2
  <1> HIDE DEF address, user
  <1>5. address # Malformed /\ user # Malformed
    BY <1>2 DEF Combined
  <1>6. /\ Combined(address, user).hostname = address.hostname
        /\ Combined(address, user).credentials = user.text
    BY <1>2 DEF Combined
  <1> QED
    BY <1>2, <1>3, <1>4, <1>5, <1>6

\* A URL that is not malformed has an authority, and a place where the user ends.
LEMMA UrlHasAuthority ==
    ASSUME NEW span \in Text, ParseUrl(span) # Malformed
    PROVE  \E authority \in Text : \E n \in 0..Len(authority) :
               ParseUrl(span) = ParseAuthority(authority, n)
  <1> DEFINE url == Trim(span)
             scheme == SchemeEnds(url)
             rest == IF scheme = 0 THEN url ELSE From(url, scheme + 3)
             authority == Authority(rest)
  <1>1. url \in Text
    BY Trimmed
  <1>2. scheme \in 0..Len(url)
    <2> HIDE DEF url
    <2> DEFINE marks == {i \in 1..(Len(url) - 2) : SubSeq(url, i, i + 2) = <<":", "/", "/">>}
    <2>1. Len(url) \in Nat /\ marks \subseteq 1..Len(url)
      BY <1>1 DEF Text
    <2>2. scheme = IF marks = {} THEN 0 ELSE Min(marks)
      BY DEF SchemeEnds
    <2> HIDE DEF marks, scheme
    <2>3. marks # {} => Min(marks) \in 1..Len(url)
      BY <2>1, Ends
    <2> QED
      BY <2>1, <2>2, <2>3
  <1>3. rest \in Text
    <2> HIDE DEF url, scheme
    <2> QED
      BY <1>1, <1>2, Pieces
  <1>4. authority \in Text /\ UserEnds(authority) \in 0..Len(authority)
    <2> HIDE DEF rest
    <2>1. authority \in Text
      BY <1>3, Places, Pieces DEF Authority
    <2> HIDE DEF authority
    <2> QED
      BY <2>1, Places DEF UserEnds
  <1>5. ParseUrl(span) = ParseAuthority(authority, UserEnds(authority))
    BY DEF ParseUrl
  <1> HIDE DEF authority
  <1> QED
    BY <1>4, <1>5

\* What it is parsed to has a host name and credentials of some length.
LEMMA UrlIsParsed ==
    ASSUME NEW span \in Text, ParseUrl(span) # Malformed
    PROVE  ParseUrl(span).hostname \in Text /\ ParseUrl(span).credentials \in Text
  BY UrlHasAuthority, AuthorityIsParsed

-------------------------------------------------------------------------------
(* Texts that are put together *)

Lacks(text, cs) == \A i \in 1..Len(text) : text[i] \notin cs

\* Two texts, one behind the other.
LEMMA Cat ==
    ASSUME NEW a \in Text, NEW b \in Text
    PROVE  /\ a \o b \in Text /\ Len(a) \in Nat /\ Len(b) \in Nat /\ Len(a \o b) = Len(a) + Len(b)
           /\ \A i \in 1..Len(a) : (a \o b)[i] = a[i]
           /\ \A i \in 1..Len(b) : (a \o b)[Len(a) + i] = b[i]
           /\ \A i \in (Len(a) + 1)..(Len(a) + Len(b)) : (a \o b)[i] = b[i - Len(a)]
  BY DEF Text

\* It does not matter which two of three texts are put together first.
LEMMA Assoc ==
    ASSUME NEW a \in Text, NEW b \in Text, NEW c \in Text
    PROVE  (a \o b) \o c = a \o (b \o c)
  BY ConcatAssociative DEF Text

\* Nothing put before or behind a text leaves it as it is.
LEMMA Empty ==
    ASSUME NEW a \in Text
    PROVE  a \o <<>> = a /\ <<>> \o a = a /\ <<>> \in Text /\ Len(<<>>) = 0
  BY ConcatEmptySeq, EmptySeq DEF Text

\* A character is a text of length 1.
LEMMA OneChar ==
    ASSUME NEW c \in Char
    PROVE  <<c>> \in Text /\ Len(<<c>>) = 1 /\ <<c>>[1] = c
  BY DEF Text

\* Texts of the same length with the same characters are the same.
LEMMA SameText ==
    ASSUME NEW a \in Text, NEW b \in Text, Len(a) = Len(b),
           \A i \in 1..Len(a) : a[i] = b[i]
    PROVE  a = b
  BY DEF Text

\* A piece of a text.
LEMMA Sub ==
    ASSUME NEW s \in Text, NEW m \in Int, NEW n \in Int, 1 <= m, m <= n + 1, n <= Len(s)
    PROVE  /\ SubSeq(s, m, n) \in Text /\ Len(SubSeq(s, m, n)) = (n - m) + 1
           /\ \A i \in 1..((n - m) + 1) : SubSeq(s, m, n)[i] = s[(m + i) - 1]
  <1>1. Len(s) \in Nat /\ m \in Nat \ {0}
    BY DEF Text
  <1>2. SubSeq(s, m, n) \in Text
    BY <1>1, Piece
  <1>3. CASE m <= n
    <2>1. SubSeq(s, m, n) = [i \in 1..((n - m) + 1) |-> s[(m + i) - 1]]
      BY DEF Text
    <2>2. (n - m) + 1 \in Nat
      BY <1>3
    <2> QED
      BY <1>2, <2>1, <2>2 DEF Text
  <1>4. CASE m = n + 1
    <2>1. SubSeq(s, m, n) = <<>>
      BY <1>1, <1>4 DEF Text
    <2> QED
      BY <1>2, <1>4, <2>1
  <1> QED
    BY <1>3, <1>4

\* The piece of a text that has these characters.
LEMMA SubIs ==
    ASSUME NEW s \in Text, NEW m \in Int, NEW n \in Int, 1 <= m, m <= n + 1, n <= Len(s),
           NEW a \in Text, Len(a) = (n - m) + 1,
           \A i \in 1..Len(a) : a[i] = s[(m + i) - 1]
    PROVE  SubSeq(s, m, n) = a
  <1>1. /\ SubSeq(s, m, n) \in Text /\ Len(SubSeq(s, m, n)) = (n - m) + 1
        /\ \A i \in 1..((n - m) + 1) : SubSeq(s, m, n)[i] = s[(m + i) - 1]
    BY Sub
  <1>2. PICK b : b = SubSeq(s, m, n)
    OBVIOUS
  <1>3. b \in Text /\ Len(b) = Len(a) /\ \A i \in 1..Len(b) : b[i] = a[i]
    BY <1>1, <1>2
  <1>4. b = a
    BY <1>3, SameText
  <1> QED
    BY <1>2, <1>4

\* What is put together comes apart.
LEMMA Apart ==
    ASSUME NEW a \in Text, NEW b \in Text
    PROVE  Upto(a \o b, Len(a)) = a /\ From(a \o b, Len(a) + 1) = b
  <1>1. PICK t, m, n : t = a \o b /\ m = Len(a) /\ n = Len(b)
    OBVIOUS
  <1>2. /\ t \in Text /\ m \in Nat /\ n \in Nat /\ Len(t) = m + n
        /\ \A i \in 1..m : t[i] = a[i]
        /\ \A i \in 1..n : t[m + i] = b[i]
    BY <1>1, Cat
  <1>3. SubSeq(t, 1, m) = a
    <2>1. 1 \in Int /\ m \in Int /\ 1 <= m + 1 /\ m <= Len(t) /\ Len(a) = (m - 1) + 1
      BY <1>1, <1>2
    <2>2. \A i \in 1..Len(a) : a[i] = t[(1 + i) - 1]
      BY <1>1, <1>2
    <2>3. PICK f \in Int, k \in Int : f = 1 /\ k = m
      BY <1>2
    <2>4. 1 <= f /\ f <= k + 1 /\ k <= Len(t) /\ Len(a) = (k - f) + 1 /\ t \in Text
      BY <1>2, <2>1, <2>3
    <2>5. \A i \in 1..Len(a) : a[i] = t[(f + i) - 1]
      BY <2>2, <2>3
    <2>6. SubSeq(t, f, k) = a
      BY <2>4, <2>5, SubIs
    <2> QED
      BY <2>3, <2>6
  <1>4. SubSeq(t, m + 1, m + n) = b
    <2>1. /\ m + 1 \in Int /\ m + n \in Int /\ 1 <= m + 1 /\ m + 1 <= (m + n) + 1 /\ m + n <= Len(t)
          /\ Len(b) = ((m + n) - (m + 1)) + 1
      BY <1>1, <1>2
    <2>2. \A i \in 1..Len(b) : b[i] = t[((m + 1) + i) - 1]
      <3>1. \A i \in 1..n : ((m + 1) + i) - 1 = m + i
        BY <1>2
      <3> QED
        BY <1>1, <1>2, <3>1
    <2> QED
      BY <1>2, <2>1, <2>2, SubIs
  <1> QED
    BY <1>1, <1>2, <1>3, <1>4 DEF Upto, From

\* The first place of a character: where the text begins to have such.
LEMMA FirstIs ==
    ASSUME NEW text \in Text, NEW cs, NEW e \in 1..Len(text), text[e] \in cs,
           \A i \in 1..(e - 1) : text[i] \notin cs
    PROVE  FirstOf(text, cs) = e
  <1>1. PICK n \in Nat : n = Len(text) /\ DOMAIN text = 1..n
    BY DEF Text
  <1>2. PICK S : S = {i \in DOMAIN text : text[i] \in cs}
    OBVIOUS
  <1>3. S \subseteq 1..n /\ e \in S /\ S # {}
    BY <1>1, <1>2
  <1>4. \A y \in S : e <= y
    BY <1>1, <1>2
  <1>5. Min(S) = e
    <2>1. \E x \in S : \A y \in S : x <= y
      BY <1>3, <1>4
    <2>2. Min(S) \in S /\ \A y \in S : Min(S) <= y
      BY <2>1 DEF Min
    <2>3. PICK z \in S : z = Min(S) /\ \A y \in S : z <= y
      BY <2>2
    <2>4. z \in Int /\ e \in Int /\ z <= e /\ e <= z
      BY <1>3, <1>4, <2>3
    <2> QED
      BY <2>3, <2>4
  <1> QED
    BY <1>2, <1>3, <1>5 DEF FirstOf

\* find_byte and find_last_byte find nothing in a text that lacks what they look for.
LEMMA FirstIsNone ==
    ASSUME NEW text \in Text, NEW cs, Lacks(text, cs)
    PROVE  FirstOf(text, cs) = 0 /\ LastOf(text, cs) = 0
  <1>1. DOMAIN text = 1..Len(text)
    BY DEF Text
  <1>2. {i \in DOMAIN text : text[i] \in cs} = {}
    BY <1>1 DEF Lacks
  <1> QED
    BY <1>2 DEF FirstOf, LastOf

\* And the last one.
LEMMA LastIs ==
    ASSUME NEW text \in Text, NEW cs, NEW e \in 1..Len(text), text[e] \in cs,
           \A i \in (e + 1)..Len(text) : text[i] \notin cs
    PROVE  LastOf(text, cs) = e
  <1>1. PICK n \in Nat : n = Len(text) /\ DOMAIN text = 1..n
    BY DEF Text
  <1>2. PICK S : S = {i \in DOMAIN text : text[i] \in cs}
    OBVIOUS
  <1>3. S \subseteq 1..n /\ e \in S /\ S # {}
    BY <1>1, <1>2
  <1>4. \A y \in S : e >= y
    BY <1>1, <1>2
  <1>5. Max(S) = e
    <2>1. \E x \in S : \A y \in S : x >= y
      BY <1>3, <1>4
    <2>2. Max(S) \in S /\ \A y \in S : Max(S) >= y
      BY <2>1 DEF Max
    <2>3. PICK z \in S : z = Max(S) /\ \A y \in S : z >= y
      BY <2>2
    <2>4. z \in Int /\ e \in Int /\ z >= e /\ e >= z
      BY <1>3, <1>4, <2>3
    <2> QED
      BY <2>3, <2>4
  <1> QED
    BY <1>2, <1>3, <1>5 DEF LastOf

\* A character between two texts is the first of its kind if the one before it lacks
\* them, and the last if the one behind it does.
LEMMA Between ==
    ASSUME NEW a \in Text, NEW c \in Char, NEW b \in Text, NEW cs, c \in cs
    PROVE  /\ a \o (<<c>> \o b) \in Text
           /\ Lacks(a, cs) => FirstOf(a \o (<<c>> \o b), cs) = Len(a) + 1
           /\ Lacks(b, cs) => LastOf(a \o (<<c>> \o b), cs) = Len(a) + 1
           /\ Upto(a \o (<<c>> \o b), (Len(a) + 1) - 1) = a
           /\ From(a \o (<<c>> \o b), (Len(a) + 1) + 1) = b
  <1>1. PICK one : one = <<c>>
    OBVIOUS
  <1>2. one \in Text /\ Len(one) = 1 /\ one[1] = c
    BY <1>1, OneChar
  <1>3. PICK r, l, m : r = one \o b /\ l = Len(a) /\ m = Len(b)
    OBVIOUS
  <1>4. /\ r \in Text /\ Len(r) = m + 1 /\ r[1] = c /\ l \in Nat /\ m \in Nat
        /\ \A i \in 2..(m + 1) : r[i] = b[i - 1]
    <2>1. /\ one \o b \in Text /\ Len(one \o b) = Len(one) + Len(b)
          /\ \A i \in 1..Len(one) : (one \o b)[i] = one[i]
          /\ \A i \in (Len(one) + 1)..(Len(one) + Len(b)) : (one \o b)[i] = b[i - Len(one)]
      BY <1>2, Cat
    <2>2. l \in Nat /\ m \in Nat
      BY <1>3 DEF Text
    <2>3. r \in Text /\ Len(r) = m + 1 /\ r[1] = c
      BY <1>2, <1>3, <2>1, <2>2
    <2>4. \A i \in 2..(m + 1) : r[i] = b[i - 1]
      BY <1>2, <1>3, <2>1, <2>2
    <2> QED
      BY <2>2, <2>3, <2>4
  <1>5. PICK t : t = a \o r
    OBVIOUS
  <1>6. /\ t \in Text /\ Len(t) = l + (m + 1)
        /\ \A i \in 1..l : t[i] = a[i]
        /\ \A i \in 1..(m + 1) : t[l + i] = r[i]
        /\ \A i \in (l + 1)..(l + (m + 1)) : t[i] = r[i - l]
    <2>1. /\ a \o r \in Text /\ Len(a \o r) = Len(a) + Len(r)
          /\ \A i \in 1..Len(a) : (a \o r)[i] = a[i]
          /\ \A i \in 1..Len(r) : (a \o r)[Len(a) + i] = r[i]
          /\ \A i \in (Len(a) + 1)..(Len(a) + Len(r)) : (a \o r)[i] = r[i - Len(a)]
      BY <1>4, Cat
    <2> QED
      BY <1>3, <1>4, <1>5, <2>1
  <1>7. l + 1 \in 1..Len(t) /\ t[l + 1] = c
    BY <1>4, <1>6
  <1>8. ASSUME Lacks(a, cs) PROVE FirstOf(t, cs) = l + 1
    <2>1. \A i \in 1..((l + 1) - 1) : t[i] \notin cs
      BY <1>3, <1>4, <1>6, <1>8 DEF Lacks
    <2> QED
      BY <1>6, <1>7, <2>1, FirstIs
  <1>9. ASSUME Lacks(b, cs) PROVE LastOf(t, cs) = l + 1
    <2>1. ASSUME NEW i \in ((l + 1) + 1)..Len(t) PROVE t[i] \notin cs
      <3>1. i \in (l + 1)..(l + (m + 1)) /\ i - l \in 2..(m + 1) /\ (i - l) - 1 \in 1..m
        BY <1>4, <1>6
      <3>2. t[i] = b[(i - l) - 1]
        BY <1>4, <1>6, <3>1
      <3> QED
        BY <1>3, <1>9, <3>1, <3>2 DEF Lacks
    <2> QED
      BY <1>6, <1>7, <2>1, LastIs
  <1>10. Upto(t, (l + 1) - 1) = a
    <2>1. (l + 1) - 1 = l
      BY <1>4
    <2> QED
      BY <1>3, <1>4, <1>5, <2>1, Apart
  <1>11. From(t, (l + 1) + 1) = b
    <2>1. t = (a \o one) \o b
      BY <1>2, <1>3, <1>5, Assoc
    <2>2. PICK w : w = a \o one
      OBVIOUS
    <2>3. w \in Text /\ Len(w) = l + 1
      <3>1. a \o one \in Text /\ Len(a \o one) = Len(a) + Len(one)
        BY <1>2, Cat
      <3> QED
        BY <1>2, <1>3, <2>2, <3>1
    <2>4. t = w \o b
      BY <2>1, <2>2
    <2>5. From(w \o b, Len(w) + 1) = b
      BY <2>3, Apart
    <2> QED
      BY <2>3, <2>4, <2>5
  <1> QED
    BY <1>1, <1>3, <1>5, <1>6, <1>8, <1>9, <1>10, <1>11

-------------------------------------------------------------------------------
(* Texts that are spelled with escapes *)

\* p[i] is where the i-th character is spelled: as itself, or as an escape for it.
SpelledAt(spelled, text, p) ==
    /\ p[1] = 1 /\ p[Len(text) + 1] = Len(spelled) + 1
    /\ \A i \in 1..Len(text) :
          \/ p[i + 1] = p[i] + 1 /\ text[i] # "%" /\ spelled[p[i]] = text[i]
          \/ /\ p[i + 1] = p[i] + 3 /\ spelled[p[i]] = "%"
             /\ {spelled[p[i] + 1], spelled[p[i] + 2]} \subseteq HexDigits
             /\ Unescaped(spelled[p[i] + 1], spelled[p[i] + 2]) = text[i]
IsSpelling(spelled, text) ==
    \E p \in [1..(Len(text) + 1) -> 1..(Len(spelled) + 1)] : SpelledAt(spelled, text, p)

\* A rest of a text is its first character and the rest behind that.
LEMMA RestOf ==
    ASSUME NEW s \in Text, NEW i \in 1..Len(s)
    PROVE  <<s[i]>> \o SubSeq(s, i + 1, Len(s)) = SubSeq(s, i, Len(s))
  <1>1. PICK n \in Nat : n = Len(s)
    BY DEF Text
  <1>2. PICK j \in Int : j = i + 1
    OBVIOUS
  <1>3. PICK a : a = SubSeq(s, j, n)
    OBVIOUS
  <1>4. a \in Text /\ Len(a) = n - i /\ \A k \in 1..(n - i) : a[k] = s[i + k]
    <2>1. 1 <= j /\ j <= n + 1 /\ n <= Len(s)
      BY <1>1, <1>2
    <2>2. /\ a \in Text /\ Len(a) = (n - j) + 1
          /\ \A k \in 1..((n - j) + 1) : a[k] = s[(j + k) - 1]
      BY <1>3, <2>1, Sub
    <2>3. (n - j) + 1 = n - i /\ \A k \in 1..(n - i) : (j + k) - 1 = i + k
      BY <1>1, <1>2
    <2> QED
      BY <2>2, <2>3
  <1>5. PICK one : one = <<s[i]>>
    OBVIOUS
  <1>6. one \in Text /\ Len(one) = 1 /\ one[1] = s[i]
    <2>1. s[i] \in Char
      BY ElementOfSeq DEF Text
    <2> QED
      BY <1>5, <2>1, OneChar
  <1>7. PICK t : t = one \o a
    OBVIOUS
  <1>8. t \in Text /\ Len(t) = 1 + (n - i) /\ \A k \in 1..(1 + (n - i)) : t[k] = s[(i + k) - 1]
    <2>1. /\ one \o a \in Text /\ Len(one \o a) = Len(one) + Len(a)
          /\ \A k \in 1..Len(one) : (one \o a)[k] = one[k]
          /\ \A k \in (Len(one) + 1)..(Len(one) + Len(a)) : (one \o a)[k] = a[k - Len(one)]
      BY <1>4, <1>6, Cat
    <2>2. t \in Text /\ Len(t) = 1 + (n - i) /\ t[1] = s[i]
      BY <1>4, <1>6, <1>7, <2>1
    <2>3. ASSUME NEW k \in 2..(1 + (n - i)) PROVE t[k] = s[(i + k) - 1]
      <3>1. k - 1 \in 1..(n - i) /\ i + (k - 1) = (i + k) - 1
        BY <1>1
      <3>2. t[k] = a[k - 1]
        BY <1>4, <1>6, <1>7, <2>1
      <3> QED
        BY <1>4, <3>1, <3>2
    <2>4. (i + 1) - 1 = i /\ \A k \in 1..(1 + (n - i)) : k = 1 \/ k \in 2..(1 + (n - i))
      BY <1>1
    <2> QED
      BY <2>2, <2>3, <2>4
  <1>9. SubSeq(s, i, n) = t
    <2>1. i \in Int /\ 1 <= i /\ i <= n + 1 /\ n <= Len(s) /\ Len(t) = (n - i) + 1
      BY <1>1, <1>8
    <2>2. \A k \in 1..Len(t) : t[k] = s[(i + k) - 1]
      BY <1>8
    <2> QED
      BY <1>8, <2>1, <2>2, SubIs
  <1> QED
    BY <1>1, <1>2, <1>3, <1>5, <1>7, <1>9

\* percent_decode undoes every way to spell a text.
LEMMA SpellingIsDecoded ==
    ASSUME NEW spelled \in Text, NEW text \in Text, IsSpelling(spelled, text)
    PROVE  PercentDecode(spelled) = [result |-> "ok", text |-> text]
  <1>1. PICK n \in Nat, l \in Nat : n = Len(text) /\ l = Len(spelled)
    BY DEF Text
  <1>2. PICK p \in [1..(n + 1) -> 1..(l + 1)] : SpelledAt(spelled, text, p)
    BY <1>1 DEF IsSpelling
  <1>3. PICK from : /\ from = [i \in 1..(l + 1) |-> DecodeStep(spelled, from, i)]
                    /\ PercentDecode(spelled) = from[1]
    BY <1>1, DecodingUnfolds
  <1>4. \A i \in 1..(l + 1) : from[i] = DecodeStep(spelled, from, i)
    BY <1>3
  <1> DEFINE Rest(i) == [result |-> "ok", text |-> SubSeq(text, i, n)]
             S == {k \in Nat : k <= n => from[p[(n + 1) - k]] = Rest((n + 1) - k)}
  <1>5. from[p[n + 1]] = Rest(n + 1)
    <2>1. p[n + 1] = l + 1 /\ l + 1 \in 1..(l + 1) /\ l + 1 > l
      BY <1>1, <1>2 DEF SpelledAt
    <2>2. from[l + 1] = [result |-> "ok", text |-> <<>>]
      BY <1>1, <1>4, <2>1 DEF DecodeStep
    <2>3. SubSeq(text, n + 1, n) = <<>>
      BY <1>1 DEF Text
    <2> QED
      BY <2>1, <2>2, <2>3
  <1>6. ASSUME NEW i \in 1..n, from[p[i + 1]] = Rest(i + 1)
        PROVE  from[p[i]] = Rest(i)
    <2>1. PICK q \in 1..(l + 1), r \in 1..(l + 1) : q = p[i] /\ r = p[i + 1]
      BY <1>2
    <2>2. \/ r = q + 1 /\ text[i] # "%" /\ spelled[q] = text[i]
          \/ /\ r = q + 3 /\ spelled[q] = "%"
             /\ {spelled[q + 1], spelled[q + 2]} \subseteq HexDigits
             /\ Unescaped(spelled[q + 1], spelled[q + 2]) = text[i]
      BY <1>1, <1>2, <2>1 DEF SpelledAt
    <2>3. from[q] = Ahead(text[i], from[r])
      <3>1. CASE r = q + 1 /\ text[i] # "%" /\ spelled[q] = text[i]
        <4>1. ~(q > Len(spelled))
          BY <1>1, <3>1
        <4> QED
          BY <1>4, <3>1, <4>1 DEF DecodeStep
      <3>2. CASE /\ r = q + 3 /\ spelled[q] = "%"
                 /\ {spelled[q + 1], spelled[q + 2]} \subseteq HexDigits
                 /\ Unescaped(spelled[q + 1], spelled[q + 2]) = text[i]
        <4>1. ~(q > Len(spelled)) /\ ~(q + 2 > Len(spelled))
          BY <1>1, <3>2
        <4>2. {spelled[q + 1], spelled[q + 2]} \ HexDigits = {}
          BY <3>2
        <4> QED
          BY <1>4, <3>2, <4>1, <4>2 DEF DecodeStep
      <3> QED
        BY <2>2, <3>1, <3>2
    <2>4. from[r] = [result |-> "ok", text |-> SubSeq(text, i + 1, n)]
      BY <1>6, <2>1
    <2>5. Ahead(text[i], from[r]) = [result |-> "ok", text |-> <<text[i]>> \o SubSeq(text, i + 1, n)]
      <3>1. PICK rest, behind : rest = from[r] /\ behind = SubSeq(text, i + 1, n)
        OBVIOUS
      <3>2. rest = [result |-> "ok", text |-> behind]
        BY <2>4, <3>1
      <3>3. rest.result = "ok" /\ Malformed.result = "invalid_argument"
        BY <3>2 DEF Malformed
      <3>4. rest # Malformed
        BY <3>3
      <3>5. [rest EXCEPT !.text = <<text[i]>> \o @] = [result |-> "ok", text |-> <<text[i]>> \o behind]
        <4>1. PICK new : new = <<text[i]>> \o behind
          OBVIOUS
        <4>2. [rest EXCEPT !.text = <<text[i]>> \o @] = [rest EXCEPT !.text = new]
          BY <3>2, <4>1
        <4>3. [rest EXCEPT !.text = new] \in [result : {"ok"}, text : {new}]
          BY <3>2
        <4>4. PICK x : x = [rest EXCEPT !.text = new]
          OBVIOUS
        <4>5. x \in [result : {"ok"}, text : {new}]
          BY <4>3, <4>4
        <4>6. x = [result |-> "ok", text |-> new]
          BY <4>5
        <4> QED
          BY <4>1, <4>2, <4>4, <4>6
      <3>6. Ahead(text[i], rest) = [result |-> "ok", text |-> <<text[i]>> \o behind]
        BY <3>4, <3>5 DEF Ahead
      <3> QED
        BY <3>1, <3>6
    <2>6. <<text[i]>> \o SubSeq(text, i + 1, n) = SubSeq(text, i, n)
      BY <1>1, RestOf
    <2> QED
      BY <2>1, <2>3, <2>5, <2>6
  <1>7. n \in S
    <2>1. 0 \in S
      <3>1. (n + 1) - 0 = n + 1
        OBVIOUS
      <3> HIDE DEF Rest
      <3> QED
        BY <1>5, <3>1
    <2>2. ASSUME NEW k \in Nat, k \in S PROVE k + 1 \in S
      <3> SUFFICES ASSUME k + 1 <= n PROVE from[p[(n + 1) - (k + 1)]] = Rest((n + 1) - (k + 1))
        OBVIOUS
      <3> HIDE DEF Rest
      <3>1. PICK i \in 1..n : i = (n + 1) - (k + 1)
        OBVIOUS
      <3>2. i + 1 = (n + 1) - k
        BY <3>1
      <3>3. from[p[i + 1]] = Rest(i + 1)
        BY <2>2, <3>2
      <3>4. from[p[i]] = Rest(i)
        BY <1>6, <3>3
      <3> QED
        BY <3>1, <3>4
    <2> HIDE DEF S
    <2> QED
      BY <2>1, <2>2, SetInduction
  <1>8. from[p[1]] = Rest(1)
    <2>1. (n + 1) - n = 1
      OBVIOUS
    <2> HIDE DEF Rest
    <2> QED
      BY <1>7, <2>1
  <1>9. p[1] = 1
    BY <1>2 DEF SpelledAt
  <1>10. SubSeq(text, 1, n) = text
    <2>1. \A i \in 1..Len(text) : text[i] = text[(1 + i) - 1]
      OBVIOUS
    <2> QED
      BY <1>1 DEF Text
  <1> QED
    BY <1>3, <1>8, <1>9, <1>10

-------------------------------------------------------------------------------
(* How the URL of a proxy is written *)

Http == <<"h", "t", "t", "p">>
Mark == <<":", "/", "/">>

\* The scheme may be left out.
IsScheme(text) == text = <<>> \/ \E s \in Text : EqualsIgnoringCase(s, Http) /\ text = s \o Mark

\* A user with a password or without, each spelled with escapes or without: a password
\* may have colons in it and both may have an "@".
IsLogin(text, credentials) ==
    \/ \E name \in Text :
          Lacks(text, {":"}) /\ IsSpelling(text, name) /\ credentials = name \o <<":">>
    \/ \E user, password, name, secret \in Text :
          /\ text = user \o (<<":">> \o password) /\ Lacks(user, {":"})
          /\ IsSpelling(user, name) /\ IsSpelling(password, secret)
          /\ credentials = name \o <<":">> \o secret
IsUser(text, credentials) ==
    \/ text = <<>> /\ credentials = <<>>
    \/ \E login \in Text :
          text = login \o <<"@">> /\ IsLogin(login, credentials) /\ Lacks(login, {"/", "?", "#"})

\* A name or an IPv4 address, or an IPv6 address in brackets.
IsAddress(text, hostname) ==
    \/ text = hostname /\ HostnameIsValid(hostname) /\ Lacks(hostname, {":"})
    \/ /\ text = <<"[">> \o (hostname \o <<"]">>) /\ hostname # <<>>
       /\ \A i \in 1..Len(hostname) : hostname[i] \in HexDigits \cup {":", ".", "%"}
IsPort(text, port) ==
    \/ (text = <<>> \/ text = <<":">>) /\ port = 80
    \/ \E digits \in Text : text = <<":">> \o digits /\ PortIsValid(digits) /\ port = PortOf(digits)
IsPath(text) == text = <<>> \/ text[1] \in {"/", "?", "#"}

\* A URL that means a proxy.  Without a scheme no path may have two slashes in a row,
\* which would make one of what is before it.
IsUrl(url, meant) ==
    \E scheme, user, address, port, path \in Text :
        /\ url = scheme \o ((user \o (address \o port)) \o path)
        /\ IsScheme(scheme) /\ IsUser(user, meant.credentials)
        /\ IsAddress(address, meant.hostname) /\ IsPort(port, meant.port) /\ IsPath(path)
        /\ scheme = <<>> => \A i \in 1..(Len(path) - 1) : ~(path[i] = "/" /\ path[i + 1] = "/")

-------------------------------------------------------------------------------
(* How it is read *)

\* Where a scheme ends there are a colon and two slashes.
LEMMA MarkAt ==
    ASSUME NEW url \in Text, NEW i \in 1..(Len(url) - 2)
    PROVE  SubSeq(url, i, i + 2) = Mark <=> url[i] = ":" /\ url[i + 1] = "/" /\ url[i + 2] = "/"
  <1>1. PICK e \in Int : e = i + 2
    OBVIOUS
  <1>2. Len(url) \in Nat
    BY DEF Text
  <1>3. PICK s : s = SubSeq(url, i, e)
    OBVIOUS
  <1>4. s \in Text /\ Len(s) = 3 /\ s[1] = url[i] /\ s[2] = url[i + 1] /\ s[3] = url[i + 2]
    <2>1. i \in Int /\ 1 <= i /\ i <= e + 1 /\ e <= Len(url)
      BY <1>1, <1>2
    <2>2. /\ s \in Text /\ Len(s) = (e - i) + 1
          /\ \A k \in 1..((e - i) + 1) : s[k] = url[(i + k) - 1]
      BY <1>3, <2>1, Sub
    <2>3. (e - i) + 1 = 3 /\ (i + 1) - 1 = i /\ (i + 2) - 1 = i + 1 /\ (i + 3) - 1 = i + 2
      BY <1>1
    <2> QED
      BY <2>2, <2>3
  <1>5. PICK m : m = Mark
    OBVIOUS
  <1>6. m \in Text /\ Len(m) = 3 /\ m[1] = ":" /\ m[2] = "/" /\ m[3] = "/"
    BY <1>5 DEF Mark, Text, Char
  <1>7. s = m <=> s[1] = ":" /\ s[2] = "/" /\ s[3] = "/"
    <2>1. \A k \in 1..3 : k = 1 \/ k = 2 \/ k = 3
      OBVIOUS
    <2>2. ASSUME s[1] = ":" /\ s[2] = "/" /\ s[3] = "/" PROVE s = m
      <3>1. \A k \in 1..Len(s) : s[k] = m[k]
        BY <1>4, <1>6, <2>1, <2>2
      <3> QED
        BY <1>4, <1>6, <3>1, SameText
    <2> QED
      BY <1>6, <2>2
  <1> QED
    BY <1>1, <1>3, <1>4, <1>5, <1>7

\* A scheme is http if its letters are, large or small.
LEMMA HttpIs ==
    ASSUME NEW s \in Text, EqualsIgnoringCase(s, Http)
    PROVE  Len(s) = 4 /\ Lacks(s, {":"})
  <1>1. /\ Len(Http) = 4 /\ DOMAIN s = 1..Len(s)
        /\ Http[1] = "h" /\ Http[2] = "t" /\ Http[3] = "t" /\ Http[4] = "p"
    BY DEF Http, Text
  <1>2. Len(s) = 4 /\ \A i \in 1..4 : Lower(s[i]) = Lower(Http[i])
    BY <1>1 DEF EqualsIgnoringCase
  <1>3. DOMAIN LowerOf = {"A", "F", "H", "T", "P", "X"}
    BY DEF LowerOf
  <1>4. Lower(":") = ":" /\ Lower("h") = "h" /\ Lower("t") = "t" /\ Lower("p") = "p"
    BY <1>3 DEF Lower
  <1>5. ASSUME NEW i \in 1..4 PROVE s[i] # ":"
    <2>1. i = 1 \/ i = 2 \/ i = 3 \/ i = 4
      OBVIOUS
    <2>2. Http[i] = "h" \/ Http[i] = "t" \/ Http[i] = "p"
      BY <1>1, <2>1
    <2>3. Lower(Http[i]) # ":"
      BY <1>4, <2>2
    <2> QED
      BY <1>2, <1>4, <2>3
  <1> QED
    BY <1>2, <1>5 DEF Lacks

\* The scheme is found, and what is behind it.
LEMMA SchemeIsRead ==
    ASSUME NEW s \in Text, EqualsIgnoringCase(s, Http), NEW rest \in Text
    PROVE  /\ SchemeEnds((s \o Mark) \o rest) = 5
           /\ Upto((s \o Mark) \o rest, 5 - 1) = s
           /\ From((s \o Mark) \o rest, 5 + 3) = rest
  <1>1. Len(s) = 4 /\ Lacks(s, {":"})
    BY HttpIs
  <1>2. PICK m : m = Mark
    OBVIOUS
  <1>3. m \in Text /\ Len(m) = 3 /\ m[1] = ":" /\ m[2] = "/" /\ m[3] = "/"
    BY <1>2 DEF Mark, Text, Char
  <1>4. PICK f : f = s \o m
    OBVIOUS
  <1>5. /\ f \in Text /\ Len(f) = 7 /\ \A i \in 1..4 : f[i] = s[i]
        /\ f[5] = ":" /\ f[6] = "/" /\ f[7] = "/"
    <2>1. /\ s \o m \in Text /\ Len(s \o m) = Len(s) + Len(m)
          /\ \A i \in 1..Len(s) : (s \o m)[i] = s[i]
          /\ \A i \in 1..Len(m) : (s \o m)[Len(s) + i] = m[i]
      BY <1>3, Cat
    <2>2. 4 + 1 = 5 /\ 4 + 2 = 6 /\ 4 + 3 = 7
      OBVIOUS
    <2> QED
      BY <1>1, <1>3, <1>4, <2>1, <2>2, SMTT(40)
  <1>6. PICK url, n : url = f \o rest /\ n = Len(rest)
    OBVIOUS
  <1>7. url \in Text /\ n \in Nat /\ Len(url) = 7 + n /\ \A i \in 1..7 : url[i] = f[i]
    <2>1. /\ f \o rest \in Text /\ Len(f \o rest) = Len(f) + Len(rest) /\ Len(rest) \in Nat
          /\ \A i \in 1..Len(f) : (f \o rest)[i] = f[i]
      BY <1>5, Cat
    <2> QED
      BY <1>5, <1>6, <2>1
  <1>8. PICK S : S = {i \in 1..(Len(url) - 2) : SubSeq(url, i, i + 2) = Mark}
    OBVIOUS
  <1>9. 5 \in S
    <2>1. 5 \in 1..(Len(url) - 2) /\ 5 + 1 = 6 /\ 5 + 2 = 7
      BY <1>7
    <2>2. url[5] = ":" /\ url[5 + 1] = "/" /\ url[5 + 2] = "/"
      BY <1>5, <1>7, <2>1
    <2>3. SubSeq(url, 5, 5 + 2) = Mark
      BY <1>7, <2>1, <2>2, MarkAt
    <2> QED
      BY <1>8, <2>1, <2>3
  <1>10. ASSUME NEW i \in S PROVE 5 <= i
    <2>1. i \in 1..(Len(url) - 2) /\ url[i] = ":"
      BY <1>7, <1>8, MarkAt
    <2>2. \A j \in 1..4 : url[j] # ":"
      BY <1>1, <1>5, <1>7 DEF Lacks
    <2>3. i \in Nat /\ i # 0
      BY <1>7, <2>1
    <2> QED
      BY <2>1, <2>2, <2>3
  <1>11. Min(S) = 5
    <2>1. \E x \in S : \A y \in S : x <= y
      BY <1>9, <1>10
    <2>2. PICK z \in S : z = Min(S) /\ \A y \in S : z <= y
      BY <2>1 DEF Min
    <2>3. z \in Int /\ z <= 5 /\ 5 <= z
      <3>1. S \subseteq Int
        BY <1>8
      <3> QED
        BY <1>9, <1>10, <2>2, <3>1
    <2> QED
      BY <2>2, <2>3
  <1>12. SchemeEnds(url) = 5
    BY <1>8, <1>9, <1>11 DEF SchemeEnds, Mark
  <1>13. From(url, 5 + 3) = rest
    <2>1. From(f \o rest, Len(f) + 1) = rest
      BY <1>5, Apart
    <2>2. Len(f) + 1 = 5 + 3
      BY <1>5
    <2> QED
      BY <1>6, <2>1, <2>2
  <1>14. Upto(url, 5 - 1) = s
    <2>1. PICK t : t = m \o rest
      OBVIOUS
    <2>2. t \in Text /\ url = s \o t
      BY <1>3, <1>4, <1>6, <2>1, Assoc, Cat, ZenonT(60)
    <2>3. Upto(s \o t, Len(s)) = s
      BY <2>2, Apart
    <2>4. Len(s) = 5 - 1
      BY <1>1
    <2> QED
      BY <2>2, <2>3, <2>4
  <1> QED
    BY <1>2, <1>4, <1>6, <1>12, <1>13, <1>14

\* And without a scheme none is found.
LEMMA NoSchemeIsRead ==
    ASSUME NEW url \in Text,
           \A i \in 1..(Len(url) - 2) : ~(url[i + 1] = "/" /\ url[i + 2] = "/")
    PROVE  SchemeEnds(url) = 0
  <1>1. {i \in 1..(Len(url) - 2) : SubSeq(url, i, i + 2) = Mark} = {}
    BY MarkAt
  <1> QED
    BY <1>1 DEF SchemeEnds, Mark

\* The authority ends where the path begins.
LEMMA AuthorityIsRead ==
    ASSUME NEW a \in Text, NEW path \in Text, Lacks(a, {"/", "?", "#"}), IsPath(path)
    PROVE  Authority(a \o path) = a
  <1>1. CASE path = <<>>
    <2>1. a \o path = a
      BY <1>1, Empty
    <2>2. FirstOf(a, {"/", "?", "#"}) = 0
      BY FirstIsNone
    <2> QED
      BY <2>1, <2>2 DEF Authority, Before
  <1>2. CASE path # <<>>
    <2>1. PICK t, n : t = a \o path /\ n = Len(a)
      OBVIOUS
    <2>2. 1 \in 1..Len(path) /\ path[1] \in {"/", "?", "#"}
      BY <1>2 DEF IsPath, Text
    <2>3. /\ t \in Text /\ n \in Nat /\ n + 1 \in 1..Len(t) /\ t[n + 1] = path[1]
          /\ \A i \in 1..n : t[i] = a[i]
      <3>1. /\ a \o path \in Text /\ Len(a) \in Nat /\ Len(a \o path) = Len(a) + Len(path)
            /\ Len(path) \in Nat
            /\ \A i \in 1..Len(a) : (a \o path)[i] = a[i]
            /\ \A i \in 1..Len(path) : (a \o path)[Len(a) + i] = path[i]
        BY Cat
      <3> QED
        BY <2>1, <2>2, <3>1
    <2>4. \A i \in 1..((n + 1) - 1) : t[i] \notin {"/", "?", "#"}
      BY <2>1, <2>3 DEF Lacks
    <2>5. FirstOf(t, {"/", "?", "#"}) = n + 1
      BY <2>2, <2>3, <2>4, FirstIs
    <2>6. Upto(t, (n + 1) - 1) = a
      <3>1. Upto(a \o path, Len(a)) = a
        BY Apart
      <3>2. (n + 1) - 1 = Len(a)
        BY <2>1, <2>3
      <3> QED
        BY <2>1, <3>1, <3>2
    <2>7. n + 1 # 0
      BY <2>3
    <2> QED
      BY <2>1, <2>5, <2>6, <2>7 DEF Authority, Before
  <1> QED
    BY <1>1, <1>2

\* The digits of a port.
LEMMA DigitsOf ==
    ASSUME NEW digits, PortIsValid(digits)
    PROVE  Len(digits) \in 1..5 /\ \A i \in DOMAIN digits : digits[i] \in DOMAIN Digit
  BY PTL DEF PortIsValid

\* What stands for a port: nothing, or a colon and digits, if any.
IsDigits(digits, port) ==
    \/ digits = <<>> /\ port = 80
    \/ digits # <<>> /\ PortIsValid(digits) /\ port = PortOf(digits)

\* What stands for a port is nothing or a colon and digits, which end nothing else.
LEMMA PortIs ==
    ASSUME NEW text \in Text, NEW port, IsPort(text, port)
    PROVE  \/ text = <<>> /\ port = 80
           \/ \E digits \in Text :
                 /\ text = <<":">> \o digits /\ IsDigits(digits, port)
                 /\ Lacks(digits, {":", "/", "?", "#", "@", "]"})
  <1>0. <<>> \in Text /\ <<":">> \in Text
    BY Empty, OneChar DEF Char
  <1>1. CASE text = <<":">> /\ port = 80
    <2>1. text = <<":">> \o <<>>
      BY <1>0, <1>1, Empty
    <2>2. Lacks(<<>>, {":", "/", "?", "#", "@", "]"})
      BY DEF Lacks
    <2> QED
      BY <1>0, <1>1, <2>1, <2>2 DEF IsDigits
  <1>2. ASSUME NEW digits \in Text, text = <<":">> \o digits, PortIsValid(digits), port = PortOf(digits)
        PROVE  IsDigits(digits, port) /\ Lacks(digits, {":", "/", "?", "#", "@", "]"})
    <2>1. digits # <<>>
      <3>1. Len(digits) \in 1..5
        BY <1>2, DigitsOf
      <3> QED
        BY <3>1, Empty
    <2>2. \A d \in DOMAIN Digit : d \notin {":", "/", "?", "#", "@", "]"}
      BY DEF Digit
    <2>3. \A i \in 1..Len(digits) : digits[i] \in DOMAIN Digit
      <3>1. \A i \in DOMAIN digits : digits[i] \in DOMAIN Digit
        BY <1>2, DigitsOf
      <3>2. DOMAIN digits = 1..Len(digits)
        BY DEF Text
      <3> QED
        BY <3>1, <3>2
    <2> QED
      BY <1>2, <2>1, <2>2, <2>3 DEF IsDigits, Lacks
  <1> QED
    BY <1>1, <1>2 DEF IsPort

\* Behind its end a text has nothing.
LEMMA FromBehind ==
    ASSUME NEW t \in Text, NEW m \in Nat, m > Len(t)
    PROVE  From(t, m) = <<>>
  BY DEF From, Text

\* A host name without brackets ends where the port begins.
LEMMA NameIsRead ==
    ASSUME NEW hostname \in Text, NEW text \in Text, NEW port, IsPort(text, port),
           HostnameIsValid(hostname), Lacks(hostname, {":"})
    PROVE  \E digits \in Text :
              IsDigits(digits, port) /\ Address(hostname \o text) = [hostname |-> hostname, port |-> digits]
  <1>1. hostname # <<>> /\ Len(hostname) \in Nat /\ 1 \in 1..Len(hostname) /\ hostname[1] # "["
    <2>1. hostname # <<>> /\ \A i \in DOMAIN hostname : hostname[i] # "["
      BY DEF HostnameIsValid
    <2>2. DOMAIN hostname = 1..Len(hostname) /\ Len(hostname) \in Nat
      BY DEF Text
    <2>3. 1 \in 1..Len(hostname)
      BY <2>1, <2>2 DEF Text
    <2> QED
      BY <2>1, <2>2, <2>3
  <1>2. PICK t : t = hostname \o text
    OBVIOUS
  <1>3. t \in Text /\ t[1] = hostname[1]
    <2>1. /\ hostname \o text \in Text
          /\ \A i \in 1..Len(hostname) : (hostname \o text)[i] = hostname[i]
      BY Cat
    <2> QED
      BY <1>1, <1>2, <2>1
  <1>4. Address(t) = Unbracketed(t, FirstOf(t, {":"}))
    BY <1>1, <1>3 DEF Address
  <1>5. CASE text = <<>> /\ port = 80
    <2>1. t = hostname
      BY <1>2, <1>5, Empty
    <2>2. FirstOf(t, {":"}) = 0 /\ LastOf(t, {":"}) = 0
      BY <2>1, FirstIsNone
    <2>3. Before(t, 0) = hostname /\ Behind(t, 0) = <<>>
      BY <2>1 DEF Before, Behind
    <2>4. Address(t) = [hostname |-> hostname, port |-> <<>>]
      BY <1>4, <2>2, <2>3 DEF Unbracketed
    <2>5. <<>> \in Text /\ IsDigits(<<>>, port)
      BY <1>5, Empty DEF IsDigits
    <2> QED
      BY <1>2, <2>4, <2>5
  <1>6. ASSUME NEW digits \in Text, text = <<":">> \o digits, IsDigits(digits, port),
               Lacks(digits, {":", "/", "?", "#", "@", "]"})
        PROVE  Address(t) = [hostname |-> hostname, port |-> digits]
    <2>1. ":" \in Char /\ ":" \in {":"} /\ Lacks(digits, {":"})
      BY <1>6 DEF Char, Lacks
    <2>2. PICK n : n = Len(hostname) + 1
      OBVIOUS
    <2>3. FirstOf(t, {":"}) = n /\ LastOf(t, {":"}) = n
      BY <1>2, <1>6, <2>1, <2>2, Between
    <2>4. Upto(t, n - 1) = hostname /\ From(t, n + 1) = digits
      BY <1>2, <1>6, <2>1, <2>2, Between
    <2>5. n # 0
      BY <1>1, <2>2
    <2>6. Before(t, n) = hostname /\ Behind(t, n) = digits
      BY <2>4, <2>5 DEF Before, Behind
    <2> QED
      BY <1>4, <2>3, <2>6 DEF Unbracketed
  <1> QED
    BY <1>2, <1>5, <1>6, PortIs

\* And one in brackets with the second of them.
LEMMA BracketsAreRead ==
    ASSUME NEW hostname \in Text, NEW text \in Text, NEW port, IsPort(text, port), hostname # <<>>,
           \A i \in 1..Len(hostname) : hostname[i] \in HexDigits \cup {":", ".", "%"}
    PROVE  \E digits \in Text :
              /\ IsDigits(digits, port)
              /\ Address((<<"[">> \o (hostname \o <<"]">>)) \o text) = [hostname |-> hostname, port |-> digits]
  <1>1. PICK open, close, n : open = <<"[">> /\ close = <<"]">> /\ n = Len(hostname)
    OBVIOUS
  <1>2. /\ open \in Text /\ Len(open) = 1 /\ open[1] = "[" /\ "]" \in Char
        /\ close \in Text /\ Len(close) = 1 /\ close[1] = "]" /\ n \in Nat /\ n > 0
    BY <1>1, OneChar DEF Char, Text
  <1>3. PICK a : a = open \o hostname
    OBVIOUS
  <1>4. a \in Text /\ Len(a) = n + 1 /\ a[1] = "[" /\ \A i \in 1..n : a[1 + i] = hostname[i]
    <2>1. /\ open \o hostname \in Text /\ Len(open \o hostname) = Len(open) + Len(hostname)
          /\ \A i \in 1..Len(open) : (open \o hostname)[i] = open[i]
          /\ \A i \in 1..Len(hostname) : (open \o hostname)[Len(open) + i] = hostname[i]
      BY <1>2, Cat
    <2> QED
      BY <1>1, <1>2, <1>3, <2>1
  <1>5. PICK t : t = (open \o (hostname \o close)) \o text
    OBVIOUS
  <1>6. t = a \o (close \o text)
    <2>1. open \o (hostname \o close) = a \o close
      BY <1>2, <1>3, Assoc
    <2>2. (a \o close) \o text = a \o (close \o text)
      BY <1>2, <1>4, Assoc
    <2> QED
      BY <1>5, <2>1, <2>2
  <1>7. \A c \in HexDigits \cup {":", ".", "%"} : c # "]"
    BY DEF Digit, HexDigits
  <1>8. \A i \in 2..(n + 1) : a[i] \in HexDigits \cup {":", ".", "%"}
    <2> SUFFICES ASSUME NEW i \in 2..(n + 1) PROVE a[i] \in HexDigits \cup {":", ".", "%"}
      OBVIOUS
    <2>1. i - 1 \in 1..n /\ 1 + (i - 1) = i
      BY <1>2
    <2>2. a[i] = hostname[i - 1]
      BY <1>4, <2>1
    <2> QED
      BY <1>1, <2>1, <2>2
  <1>9. Lacks(a, {"]"})
    <2>1. \A i \in 1..(n + 1) : i = 1 \/ i \in 2..(n + 1)
      BY <1>2
    <2> QED
      BY <1>4, <1>7, <1>8, <2>1 DEF Lacks
  <1>10. t \in Text /\ FirstOf(t, {"]"}) = n + 2
    <2>1. t \in Text /\ FirstOf(t, {"]"}) = Len(a) + 1
      BY <1>1, <1>2, <1>4, <1>6, <1>9, Between
    <2>2. Len(a) + 1 = n + 2
      BY <1>2, <1>4
    <2> QED
      BY <2>1, <2>2
  <1>11. PICK r, l : r = close \o text /\ l = Len(text)
    OBVIOUS
  <1>12. /\ r \in Text /\ l \in Nat /\ Len(r) = l + 1
         /\ \A i \in 1..l : r[1 + i] = text[i]
    <2>1. /\ close \o text \in Text /\ Len(close \o text) = Len(close) + Len(text) /\ Len(text) \in Nat
          /\ \A i \in 1..Len(text) : (close \o text)[Len(close) + i] = text[i]
      BY <1>2, Cat
    <2> QED
      BY <1>2, <1>11, <2>1
  <1>13. /\ Len(t) = n + 2 + l /\ \A i \in 1..(n + 1) : t[i] = a[i]
         /\ \A i \in 1..l : t[(n + 2) + i] = text[i]
    <2>1. /\ Len(a \o r) = Len(a) + Len(r)
          /\ \A i \in 1..Len(a) : (a \o r)[i] = a[i]
          /\ \A i \in 1..Len(r) : (a \o r)[Len(a) + i] = r[i]
      BY <1>4, <1>12, Cat, ZenonT(60)
    <2>2. t = a \o r
      BY <1>6, <1>11
    <2>3. Len(t) = n + 2 + l /\ \A i \in 1..(n + 1) : t[i] = a[i]
      BY <1>2, <1>4, <1>12, <2>1, <2>2
    <2>4. ASSUME NEW i \in 1..l PROVE t[(n + 2) + i] = text[i]
      <3>1. 1 + i \in 1..Len(r) /\ Len(a) + (1 + i) = (n + 2) + i
        BY <1>2, <1>4, <1>12
      <3> QED
        BY <1>12, <2>1, <2>2, <3>1
    <2> QED
      BY <2>3, <2>4
  <1>14. SubSeq(t, 2, (n + 2) - 1) = hostname
    <2>1. PICK f \in Int, e \in Int : f = 2 /\ e = (n + 2) - 1
      BY <1>2
    <2>2. 1 <= f /\ f <= e + 1 /\ e <= Len(t) /\ Len(hostname) = (e - f) + 1
      BY <1>1, <1>2, <1>12, <1>13, <2>1
    <2>3. ASSUME NEW i \in 1..Len(hostname) PROVE hostname[i] = t[(f + i) - 1]
      <3>1. (f + i) - 1 = 1 + i /\ 1 + i \in 1..(n + 1) /\ i \in 1..n
        BY <1>1, <1>2, <2>1
      <3> QED
        BY <1>4, <1>13, <3>1
    <2>4. SubSeq(t, f, e) = hostname
      BY <1>10, <2>2, <2>3, SubIs
    <2> QED
      BY <2>1, <2>4
  <1>15. Address(t) = InBrackets(t, n + 2)
    <2>1. t # <<>> /\ t[1] = "["
      <3>1. 1 \in 1..(n + 1) /\ Len(t) # 0
        BY <1>2, <1>12, <1>13
      <3>2. t[1] = a[1]
        BY <1>13, <3>1
      <3> QED
        BY <1>4, <3>1, <3>2
    <2> QED
      BY <1>10, <2>1 DEF Address
  <1>16. ~(n + 2 < 3) /\ \A i \in 2..((n + 2) - 1) : t[i] \in HexDigits \cup {":", ".", "%"}
    <2>1. \A i \in 2..((n + 2) - 1) : i \in 2..(n + 1) /\ i \in 1..(n + 1)
      BY <1>2
    <2> QED
      BY <1>2, <1>8, <1>13, <2>1
  <1>17. ASSUME Len(t) > n + 2 => t[(n + 2) + 1] = ":"
         PROVE  Address(t) = [hostname |-> hostname, port |-> From(t, (n + 2) + 2)]
    BY <1>14, <1>15, <1>16, <1>17 DEF InBrackets
  <1>18. CASE text = <<>> /\ port = 80
    <2>1. l = 0
      BY <1>11, <1>18
    <2>2. From(t, (n + 2) + 2) = <<>>
      <3>1. (n + 2) + 2 \in Nat /\ (n + 2) + 2 > Len(t)
        BY <1>2, <1>13, <2>1
      <3> QED
        BY <1>10, <3>1, FromBehind
    <2>3. ~(Len(t) > n + 2)
      BY <1>2, <1>13, <2>1
    <2>4. <<>> \in Text /\ IsDigits(<<>>, port)
      BY <1>18, Empty DEF IsDigits
    <2> QED
      BY <1>1, <1>5, <1>17, <2>2, <2>3, <2>4
  <1>19. ASSUME NEW digits \in Text, text = <<":">> \o digits, IsDigits(digits, port)
         PROVE  Address(t) = [hostname |-> hostname, port |-> digits]
    <2>1. PICK colon : colon = <<":">>
      OBVIOUS
    <2>2. colon \in Text /\ Len(colon) = 1 /\ colon[1] = ":"
      BY <2>1, OneChar DEF Char
    <2>3. text[1] = ":" /\ l >= 1
      <3>1. /\ Len(colon \o digits) = Len(colon) + Len(digits) /\ Len(digits) \in Nat
            /\ \A i \in 1..Len(colon) : (colon \o digits)[i] = colon[i]
        BY <2>2, Cat
      <3> QED
        BY <1>11, <1>19, <2>1, <2>2, <3>1
    <2>4. t[(n + 2) + 1] = ":"
      BY <1>12, <1>13, <2>3
    <2>5. PICK w : w = (a \o close) \o colon
      OBVIOUS
    <2>6. w \in Text /\ Len(w) = n + 3
      <3>1. a \o close \in Text /\ Len(a \o close) = Len(a) + Len(close)
        BY <1>2, <1>4, Cat
      <3>2. PICK x : x = a \o close
        OBVIOUS
      <3>3. x \o colon \in Text /\ Len(x \o colon) = Len(x) + Len(colon)
        BY <2>2, <3>1, <3>2, Cat
      <3> QED
        BY <1>2, <1>4, <2>2, <2>5, <3>1, <3>2, <3>3
    <2>7. t = w \o digits
      <3>1. a \o close \in Text
        BY <1>2, <1>4, Cat
      <3>2. t = (a \o close) \o (colon \o digits)
        <4>1. t = a \o (close \o (colon \o digits))
          BY <1>6, <1>19, <2>1
        <4>2. PICK v : v = colon \o digits
          OBVIOUS
        <4>3. v \in Text
          BY <2>2, <4>2, Cat
        <4>4. (a \o close) \o v = a \o (close \o v)
          <5>1. a \in Text /\ close \in Text /\ v \in Text
            BY <1>2, <1>4, <4>3
          <5> QED
            BY <5>1, Assoc, SMTT(40)
        <4> QED
          BY <4>1, <4>2, <4>4
      <3> QED
        BY <2>2, <2>5, <3>1, <3>2, Assoc
    <2>8. From(w \o digits, Len(w) + 1) = digits
      BY <2>6, Apart
    <2>9. Len(w) + 1 = (n + 2) + 2
      BY <1>2, <2>6
    <2> QED
      BY <1>17, <2>4, <2>7, <2>8, <2>9
  <1> QED
    BY <1>1, <1>5, <1>18, <1>19, PortIs

\* Two texts that lack something lack it when they are put together.
LEMMA LacksCat ==
    ASSUME NEW a \in Text, NEW b \in Text, NEW cs, Lacks(a, cs), Lacks(b, cs)
    PROVE  a \o b \in Text /\ Lacks(a \o b, cs)
  <1>1. PICK t, m, n : t = a \o b /\ m = Len(a) /\ n = Len(b)
    OBVIOUS
  <1>2. /\ t \in Text /\ m \in Nat /\ n \in Nat /\ Len(t) = m + n
        /\ \A i \in 1..m : t[i] = a[i]
        /\ \A i \in (m + 1)..(m + n) : t[i] = b[i - m]
    BY <1>1, Cat
  <1>3. ASSUME NEW i \in 1..(m + n) PROVE t[i] \notin cs
    <2>1. CASE i <= m
      BY <1>1, <1>2, <2>1 DEF Lacks
    <2>2. CASE i > m
      <3>1. i \in (m + 1)..(m + n) /\ i - m \in 1..n
        BY <1>2, <2>2
      <3> QED
        BY <1>1, <1>2, <3>1 DEF Lacks
    <2> QED
      BY <1>2, <2>1, <2>2
  <1> QED
    BY <1>1, <1>2, <1>3 DEF Lacks

\* An address has neither an "@" nor what ends the authority.
LEMMA AddressLacks ==
    ASSUME NEW address \in Text, NEW hostname \in Text, IsAddress(address, hostname)
    PROVE  Lacks(address, {"/", "?", "#", "@"}) /\ Len(address) > 0
  <1>1. CASE address = hostname /\ HostnameIsValid(hostname)
    <2>1. DOMAIN hostname = 1..Len(hostname) /\ Len(hostname) \in Nat
      BY DEF Text
    <2>2. hostname # <<>> /\ \A i \in DOMAIN hostname : hostname[i] \notin {"/", "?", "#", "@"}
      BY <1>1 DEF HostnameIsValid
    <2>3. Len(hostname) # 0
      BY <2>2 DEF Text
    <2> QED
      BY <1>1, <2>1, <2>2, <2>3 DEF Lacks
  <1>2. CASE /\ address = <<"[">> \o (hostname \o <<"]">>)
             /\ \A i \in 1..Len(hostname) : hostname[i] \in HexDigits \cup {":", ".", "%"}
    <2>1. PICK open, close : open = <<"[">> /\ close = <<"]">>
      OBVIOUS
    <2>2. /\ open \in Text /\ Len(open) = 1 /\ open[1] = "["
          /\ close \in Text /\ Len(close) = 1 /\ close[1] = "]"
      BY <2>1, OneChar DEF Char
    <2>3. Lacks(open, {"/", "?", "#", "@"}) /\ Lacks(close, {"/", "?", "#", "@"})
      BY <2>2 DEF Lacks
    <2>4. Lacks(hostname, {"/", "?", "#", "@"})
      <3>1. \A c \in HexDigits \cup {":", ".", "%"} : c \notin {"/", "?", "#", "@"}
        BY DEF Digit, HexDigits
      <3> QED
        BY <1>2, <3>1 DEF Lacks
    <2>5. PICK r : r = hostname \o close
      OBVIOUS
    <2>6. r \in Text /\ Lacks(r, {"/", "?", "#", "@"})
      BY <2>2, <2>3, <2>4, <2>5, LacksCat
    <2>7. Lacks(open \o r, {"/", "?", "#", "@"})
      BY <2>2, <2>3, <2>6, LacksCat
    <2>8. Len(open \o r) = Len(open) + Len(r) /\ Len(r) \in Nat
      BY <2>2, <2>6, Cat
    <2> QED
      BY <1>2, <2>1, <2>2, <2>5, <2>7, <2>8
  <1> QED
    BY <1>1, <1>2 DEF IsAddress

\* A port has nothing that could end an authority or a user.
LEMMA PortLacks ==
    ASSUME NEW text \in Text, NEW port, IsPort(text, port)
    PROVE  Lacks(text, {"/", "?", "#", "@"})
  <1>1. CASE text = <<>>
    BY <1>1 DEF Lacks
  <1>2. ASSUME NEW digits \in Text, text = <<":">> \o digits,
               Lacks(digits, {":", "/", "?", "#", "@", "]"})
        PROVE  Lacks(text, {"/", "?", "#", "@"})
    <2>1. PICK colon : colon = <<":">>
      OBVIOUS
    <2>2. colon \in Text /\ Len(colon) = 1 /\ colon[1] = ":"
      BY <2>1, OneChar DEF Char
    <2>3. Lacks(colon, {"/", "?", "#", "@"}) /\ Lacks(digits, {"/", "?", "#", "@"})
      BY <1>2, <2>2 DEF Lacks
    <2> QED
      BY <1>2, <2>1, <2>2, <2>3, LacksCat
  <1> QED
    BY <1>1, <1>2, PortIs

\* A user has nothing that could end an authority.
LEMMA UserLacks ==
    ASSUME NEW user \in Text, NEW credentials, IsUser(user, credentials)
    PROVE  Lacks(user, {"/", "?", "#"})
  <1>1. CASE user = <<>>
    BY <1>1 DEF Lacks
  <1>2. ASSUME NEW login \in Text, user = login \o <<"@">>, Lacks(login, {"/", "?", "#"})
        PROVE  Lacks(user, {"/", "?", "#"})
    <2>1. PICK sign : sign = <<"@">>
      OBVIOUS
    <2>2. sign \in Text /\ Len(sign) = 1 /\ sign[1] = "@"
      BY <2>1, OneChar DEF Char
    <2>3. Lacks(sign, {"/", "?", "#"})
      BY <2>2 DEF Lacks
    <2> QED
      BY <1>2, <2>1, <2>2, <2>3, LacksCat
  <1> QED
    BY <1>1, <1>2 DEF IsUser

\* Nothing is the spelling of nothing.
LEMMA NothingIsSpelled == IsSpelling(<<>>, <<>>)
  <1>1. PICK p : p = [i \in 1..1 |-> 1]
    OBVIOUS
  <1>2. Len(<<>>) = 0
    BY Empty
  <1>3. p \in [1..(Len(<<>>) + 1) -> 1..(Len(<<>>) + 1)]
    BY <1>1, <1>2
  <1>4. SpelledAt(<<>>, <<>>, p)
    BY <1>1, <1>2 DEF SpelledAt
  <1> QED
    BY <1>3, <1>4 DEF IsSpelling

\* A name and a password that could be decoded are joined by a colon.
LEMMA JoinedIs ==
    ASSUME NEW name, NEW secret
    PROVE  Joined([result |-> "ok", text |-> name], [result |-> "ok", text |-> secret])
              = [text |-> name \o <<":">> \o secret]
  <1>1. PICK a, b : a = [result |-> "ok", text |-> name] /\ b = [result |-> "ok", text |-> secret]
    OBVIOUS
  <1>2. a.result # "invalid_argument" /\ b.result # "invalid_argument" /\ a.text = name /\ b.text = secret
    BY <1>1
  <1>3. Malformed.result = "invalid_argument"
    BY DEF Malformed
  <1>4. Malformed \notin {a, b}
    BY <1>2, <1>3
  <1> QED
    BY <1>1, <1>2, <1>4 DEF Joined

\* User and password are told apart by the first colon, and each is decoded.
LEMMA CredentialsAreRead ==
    ASSUME NEW login \in Text, NEW credentials, IsLogin(login, credentials)
    PROVE  Credentials(login) = [text |-> credentials]
  <1>1. ASSUME NEW name \in Text, Lacks(login, {":"}), IsSpelling(login, name),
               credentials = name \o <<":">>
        PROVE  Credentials(login) = [text |-> credentials]
    <2>1. FirstOf(login, {":"}) = 0
      BY <1>1, FirstIsNone
    <2>2. Before(login, 0) = login /\ Behind(login, 0) = <<>>
      BY DEF Before, Behind
    <2>3. PercentDecode(login) = [result |-> "ok", text |-> name]
      BY <1>1, SpellingIsDecoded
    <2>4. PercentDecode(<<>>) = [result |-> "ok", text |-> <<>>]
      BY Empty, NothingIsSpelled, SpellingIsDecoded
    <2>5. Credentials(login) = [text |-> name \o <<":">> \o <<>>]
      BY <2>1, <2>2, <2>3, <2>4, JoinedIs DEF Credentials
    <2>6. name \o <<":">> \o <<>> = name \o <<":">>
      <3>1. <<":">> \in Text
        BY OneChar DEF Char
      <3>2. name \o <<":">> \in Text
        BY <3>1, Cat
      <3> QED
        BY <3>2, Empty
    <2> QED
      BY <1>1, <2>5, <2>6
  <1>2. ASSUME NEW user \in Text, NEW password \in Text, NEW name \in Text, NEW secret \in Text,
               login = user \o (<<":">> \o password), Lacks(user, {":"}),
               IsSpelling(user, name), IsSpelling(password, secret),
               credentials = name \o <<":">> \o secret
        PROVE  Credentials(login) = [text |-> credentials]
    <2>1. PICK n : n = Len(user) + 1
      OBVIOUS
    <2>2. ":" \in Char /\ ":" \in {":"}
      BY DEF Char
    <2>3. FirstOf(login, {":"}) = n
      BY <1>2, <2>1, <2>2, Between
    <2>4. Upto(login, n - 1) = user /\ From(login, n + 1) = password
      BY <1>2, <2>1, <2>2, Between
    <2>5. n # 0
      <3>1. Len(user) \in Nat
        BY DEF Text
      <3> QED
        BY <2>1, <3>1
    <2>6. Before(login, n) = user /\ Behind(login, n) = password
      BY <2>4, <2>5 DEF Before, Behind
    <2>7. PercentDecode(user) = [result |-> "ok", text |-> name]
      BY <1>2, SpellingIsDecoded
    <2>8. PercentDecode(password) = [result |-> "ok", text |-> secret]
      BY <1>2, SpellingIsDecoded
    <2>9. Credentials(login) = [text |-> name \o <<":">> \o secret]
      BY <2>3, <2>6, <2>7, <2>8, JoinedIs DEF Credentials
    <2> QED
      BY <1>2, <2>9
  <1> QED
    BY <1>1, <1>2 DEF IsLogin

\* The last "@" tells the user from the address.
LEMMA UserIsRead ==
    ASSUME NEW user \in Text, NEW credentials, IsUser(user, credentials),
           NEW rest \in Text, Lacks(rest, {"@"})
    PROVE  ParseAuthority(user \o rest, UserEnds(user \o rest)) = Combined(Address(rest), [text |-> credentials])
  <1>1. CASE user = <<>> /\ credentials = <<>>
    <2>1. user \o rest = rest
      BY <1>1, Empty
    <2>2. UserEnds(rest) = 0
      BY FirstIsNone DEF UserEnds
    <2>3. From(rest, 0 + 1) = rest
      <3>1. From(<<>> \o rest, Len(<<>>) + 1) = rest
        BY Empty, Apart
      <3> QED
        BY <3>1, Empty
    <2> QED
      BY <1>1, <2>1, <2>2, <2>3 DEF ParseAuthority
  <1>2. ASSUME NEW login \in Text, user = login \o <<"@">>, IsLogin(login, credentials)
        PROVE  ParseAuthority(user \o rest, UserEnds(user \o rest))
                  = Combined(Address(rest), [text |-> credentials])
    <2>1. PICK t, n : t = user \o rest /\ n = Len(login) + 1
      OBVIOUS
    <2>2. t = login \o (<<"@">> \o rest)
      <3>1. PICK sign : sign = <<"@">>
        OBVIOUS
      <3>2. sign \in Text
        BY <3>1, OneChar DEF Char
      <3>3. (login \o sign) \o rest = login \o (sign \o rest)
        BY <3>2, Assoc
      <3> QED
        BY <1>2, <2>1, <3>1, <3>3
    <2>3. "@" \in Char /\ "@" \in {"@"}
      BY DEF Char
    <2>4. LastOf(t, {"@"}) = n
      BY <2>1, <2>2, <2>3, Between
    <2>5. Upto(t, n - 1) = login /\ From(t, n + 1) = rest
      BY <2>1, <2>2, <2>3, Between
    <2>6. n # 0
      <3>1. Len(login) \in Nat
        BY DEF Text
      <3> QED
        BY <2>1, <3>1
    <2>7. Credentials(login) = [text |-> credentials]
      BY <1>2, CredentialsAreRead
    <2>8. UserEnds(t) = n
      BY <2>4 DEF UserEnds
    <2>9. ParseAuthority(t, n) = Combined(Address(rest), [text |-> credentials])
      BY <2>5, <2>6, <2>7 DEF ParseAuthority
    <2> QED
      BY <2>1, <2>8, <2>9
  <1> QED
    BY <1>1, <1>2 DEF IsUser

Said(meant) == [result |-> "ok", hostname |-> meant.hostname, port |-> meant.port,
                credentials |-> meant.credentials]

\* An address and credentials that could be parsed are the result.
LEMMA CombinedIs ==
    ASSUME NEW hostname, NEW digits, NEW port, NEW credentials, IsDigits(digits, port)
    PROVE  Combined([hostname |-> hostname, port |-> digits], [text |-> credentials])
              = [result |-> "ok", hostname |-> hostname, port |-> port, credentials |-> credentials]
  <1>1. [hostname |-> hostname, port |-> digits] # Malformed
    BY DEF Malformed
  <1>2. [text |-> credentials] # Malformed
    BY DEF Malformed
  <1>3. CASE digits = <<>> /\ port = 80
    BY <1>1, <1>2, <1>3 DEF Combined
  <1>4. CASE digits # <<>> /\ PortIsValid(digits) /\ port = PortOf(digits)
    BY <1>1, <1>2, <1>4 DEF Combined
  <1> QED
    BY <1>3, <1>4 DEF IsDigits

\* An authority is read as it was written.
LEMMA AuthorityIsRight ==
    ASSUME NEW user \in Text, NEW address \in Text, NEW port \in Text,
           NEW meant, meant.hostname \in Text,
           IsUser(user, meant.credentials), IsAddress(address, meant.hostname), IsPort(port, meant.port)
    PROVE  LET authority == user \o (address \o port)
           IN /\ authority \in Text /\ Len(authority) > 0 /\ Lacks(authority, {"/", "?", "#"})
              /\ ParseAuthority(authority, UserEnds(authority)) = Said(meant)
  <1>1. PICK rest : rest = address \o port
    OBVIOUS
  <1>2. rest \in Text /\ Lacks(rest, {"/", "?", "#", "@"}) /\ Len(rest) > 0
    <2>1. Lacks(address, {"/", "?", "#", "@"}) /\ Len(address) > 0
      BY AddressLacks
    <2>2. Lacks(port, {"/", "?", "#", "@"})
      BY PortLacks
    <2>3. Len(address \o port) = Len(address) + Len(port) /\ Len(port) \in Nat /\ Len(address) \in Nat
      BY Cat
    <2>4. address \o port \in Text /\ Lacks(address \o port, {"/", "?", "#", "@"})
      BY <2>1, <2>2, LacksCat
    <2> QED
      BY <1>1, <2>1, <2>3, <2>4
  <1>3. Lacks(rest, {"@"}) /\ Lacks(rest, {"/", "?", "#"})
    BY <1>2 DEF Lacks
  <1>4. user \o rest \in Text /\ Lacks(user \o rest, {"/", "?", "#"}) /\ Len(user \o rest) > 0
    <2>1. Lacks(user, {"/", "?", "#"})
      BY UserLacks
    <2>2. user \o rest \in Text /\ Lacks(user \o rest, {"/", "?", "#"})
      BY <1>2, <1>3, <2>1, LacksCat
    <2>3. Len(user \o rest) = Len(user) + Len(rest) /\ Len(user) \in Nat
      BY <1>2, Cat
    <2> QED
      BY <1>2, <2>2, <2>3
  <1>5. ParseAuthority(user \o rest, UserEnds(user \o rest)) = Combined(Address(rest), [text |-> meant.credentials])
    BY <1>2, <1>3, UserIsRead
  <1>6. \E digits \in Text :
           IsDigits(digits, meant.port) /\ Address(rest) = [hostname |-> meant.hostname, port |-> digits]
    <2>1. CASE address = meant.hostname /\ HostnameIsValid(meant.hostname) /\ Lacks(meant.hostname, {":"})
      BY <1>1, <2>1, NameIsRead
    <2>2. CASE /\ address = <<"[">> \o (meant.hostname \o <<"]">>) /\ meant.hostname # <<>>
               /\ \A i \in 1..Len(meant.hostname) : meant.hostname[i] \in HexDigits \cup {":", ".", "%"}
      BY <1>1, <2>2, BracketsAreRead
    <2> QED
      BY <2>1, <2>2 DEF IsAddress
  <1>7. Combined(Address(rest), [text |-> meant.credentials]) = Said(meant)
    <2>1. PICK digits \in Text :
             IsDigits(digits, meant.port) /\ Address(rest) = [hostname |-> meant.hostname, port |-> digits]
      BY <1>6
    <2> QED
      BY <2>1, CombinedIs DEF Said
  <1> QED
    BY <1>1, <1>4, <1>5, <1>7

\* A URL is read as it was written.
LEMMA UrlIsRight ==
    ASSUME NEW url \in Text, NEW meant, meant.hostname \in Text, IsUrl(url, meant)
    PROVE  /\ url # <<>>
           /\ \A span : Trim(span) = url => ParseUrl(span) = Said(meant)
  <1>1. PICK scheme \in Text, user \in Text, address \in Text, port \in Text, path \in Text :
           /\ url = scheme \o ((user \o (address \o port)) \o path)
           /\ IsScheme(scheme) /\ IsUser(user, meant.credentials)
           /\ IsAddress(address, meant.hostname) /\ IsPort(port, meant.port) /\ IsPath(path)
           /\ scheme = <<>> => \A i \in 1..(Len(path) - 1) : ~(path[i] = "/" /\ path[i + 1] = "/")
    BY DEF IsUrl
  <1>2. PICK authority : authority = user \o (address \o port)
    OBVIOUS
  <1>3. /\ authority \in Text /\ Len(authority) > 0 /\ Lacks(authority, {"/", "?", "#"})
        /\ ParseAuthority(authority, UserEnds(authority)) = Said(meant)
    BY <1>1, <1>2, AuthorityIsRight
  <1>4. PICK rest, n, m : rest = authority \o path /\ n = Len(authority) /\ m = Len(path)
    OBVIOUS
  <1>5. /\ rest \in Text /\ n \in Nat /\ n > 0 /\ m \in Nat /\ Len(rest) = n + m
        /\ \A i \in 1..n : rest[i] = authority[i]
        /\ \A i \in (n + 1)..(n + m) : rest[i] = path[i - n]
    <2>1. /\ authority \o path \in Text /\ Len(authority \o path) = Len(authority) + Len(path)
          /\ Len(authority) \in Nat /\ Len(path) \in Nat
          /\ \A i \in 1..Len(authority) : (authority \o path)[i] = authority[i]
          /\ \A i \in (Len(authority) + 1)..(Len(authority) + Len(path)) :
                (authority \o path)[i] = path[i - Len(authority)]
      BY <1>3, Cat
    <2> QED
      BY <1>3, <1>4, <2>1
  <1>6. Authority(rest) = authority
    BY <1>1, <1>3, <1>4, AuthorityIsRead
  <1>7. url = scheme \o rest
    BY <1>1, <1>2, <1>4
  <1>8. CASE scheme = <<>>
    <2>1. url = rest
      BY <1>5, <1>7, <1>8, Empty
    <2>2. ASSUME NEW i \in 1..(Len(rest) - 2), rest[i + 1] = "/", rest[i + 2] = "/"
          PROVE  FALSE
      <3>1. CASE i + 1 <= n
        <4>1. i + 1 \in 1..n
          BY <1>5, <3>1
        <4>2. rest[i + 1] = authority[i + 1]
          BY <1>5, <4>1
        <4> QED
          BY <1>3, <1>4, <2>2, <4>1, <4>2 DEF Lacks
      <3>2. CASE i + 1 > n
        <4>1. PICK j \in Int : j = (i + 1) - n
          BY <1>5
        <4>2. /\ i + 1 \in (n + 1)..(n + m) /\ i + 2 \in (n + 1)..(n + m)
              /\ (i + 2) - n = j + 1 /\ j \in 1..(m - 1)
          BY <1>5, <3>2, <4>1
        <4>3. path[j] = "/" /\ path[j + 1] = "/"
          BY <1>5, <2>2, <4>1, <4>2
        <4> QED
          BY <1>1, <1>4, <1>8, <4>2, <4>3
      <3> QED
        BY <1>5, <3>1, <3>2
    <2>3. SchemeEnds(url) = 0
      <3>1. \A i \in 1..(Len(rest) - 2) : ~(rest[i + 1] = "/" /\ rest[i + 2] = "/")
        BY <2>2
      <3> QED
        BY <1>5, <2>1, <3>1, NoSchemeIsRead
    <2>4. url # <<>>
      <3>1. Len(url) # 0
        BY <1>5, <2>1
      <3> QED
        BY <3>1, Empty
    <2>5. ASSUME NEW span, Trim(span) = url PROVE ParseUrl(span) = Said(meant)
      <3>1. ~(Trim(span) = <<>> \/ SchemeEnds(Trim(span)) > 0)
        BY <2>3, <2>4, <2>5
      <3>2. ParseUrl(span) = ParseAuthority(Authority(Trim(span)), UserEnds(Authority(Trim(span))))
        BY <2>3, <2>5, <3>1 DEF ParseUrl
      <3> QED
        BY <1>3, <1>6, <2>1, <2>5, <3>2
    <2> QED
      BY <2>4, <2>5
  <1>9. ASSUME NEW s \in Text, EqualsIgnoringCase(s, Http), scheme = s \o Mark
        PROVE  /\ url # <<>>
               /\ \A span : Trim(span) = url => ParseUrl(span) = Said(meant)
    <2>1. url = (s \o Mark) \o rest
      BY <1>7, <1>9
    <2>2. SchemeEnds(url) = 5 /\ Upto(url, 5 - 1) = s /\ From(url, 5 + 3) = rest
      BY <1>5, <1>9, <2>1, SchemeIsRead
    <2>3. url # <<>>
      <3>1. Len(url) = Len(scheme) + Len(rest) /\ Len(scheme) \in Nat
        BY <1>5, <1>7, Cat
      <3>2. Len(url) # 0
        BY <1>5, <3>1
      <3> QED
        BY <3>2, Empty
    <2>4. ASSUME NEW span, Trim(span) = url PROVE ParseUrl(span) = Said(meant)
      <3>1. EqualsIgnoringCase(Upto(url, SchemeEnds(url) - 1), <<"h", "t", "t", "p">>)
        BY <1>9, <2>2 DEF Http
      <3>2. From(url, SchemeEnds(url) + 3) = rest /\ SchemeEnds(url) # 0
        BY <2>2
      <3>3. ParseUrl(span) = ParseAuthority(Authority(rest), UserEnds(Authority(rest)))
        BY <2>3, <2>4, <3>1, <3>2 DEF ParseUrl
      <3> QED
        BY <1>3, <1>6, <3>3
    <2> QED
      BY <2>3, <2>4
  <1> QED
    BY <1>1, <1>8, <1>9 DEF IsScheme

\* Blanks around a text, and a text that has none at its ends and no NUL in it.
AreBlanks(text) == \A i \in 1..Len(text) : text[i] \in Blanks
IsBare(text) == Lacks(text, {"nul"}) /\ text[1] \notin Blanks /\ text[Len(text)] \notin Blanks

\* trim_blanks finds a URL between the blanks around it.
LEMMA BlanksAreTrimmed ==
    ASSUME NEW lead \in Text, NEW text \in Text, NEW trail \in Text,
           AreBlanks(lead), AreBlanks(trail), text # <<>>, IsBare(text)
    PROVE  Trim(lead \o (text \o trail)) = text
  <1>1. PICK a, n, b : a = Len(lead) /\ n = Len(text) /\ b = Len(trail)
    OBVIOUS
  <1>2. PICK r : r = text \o trail
    OBVIOUS
  <1>3. /\ a \in Nat /\ n \in Nat /\ n > 0 /\ b \in Nat /\ r \in Text /\ Len(r) = n + b
        /\ \A i \in 1..n : r[i] = text[i]
        /\ \A i \in (n + 1)..(n + b) : r[i] = trail[i - n]
    <2>1. /\ text \o trail \in Text /\ Len(text \o trail) = Len(text) + Len(trail)
          /\ \A i \in 1..Len(text) : (text \o trail)[i] = text[i]
          /\ \A i \in (Len(text) + 1)..(Len(text) + Len(trail)) : (text \o trail)[i] = trail[i - Len(text)]
      BY Cat
    <2>2. Len(lead) \in Nat /\ Len(text) \in Nat /\ Len(trail) \in Nat /\ Len(text) # 0
      BY DEF Text
    <2> QED
      BY <1>1, <1>2, <2>1, <2>2
  <1>4. PICK span : span = lead \o r
    OBVIOUS
  <1>5. /\ span \in Text /\ Len(span) = a + (n + b)
        /\ \A i \in 1..a : span[i] = lead[i]
        /\ \A i \in 1..(n + b) : span[a + i] = r[i]
        /\ \A i \in (a + 1)..(a + (n + b)) : span[i] = r[i - a]
    <2>1. /\ lead \o r \in Text /\ Len(lead \o r) = Len(lead) + Len(r)
          /\ \A i \in 1..Len(lead) : (lead \o r)[i] = lead[i]
          /\ \A i \in 1..Len(r) : (lead \o r)[Len(lead) + i] = r[i]
          /\ \A i \in (Len(lead) + 1)..(Len(lead) + Len(r)) : (lead \o r)[i] = r[i - Len(lead)]
      BY <1>3, Cat
    <2> QED
      BY <1>1, <1>3, <1>4, <2>1
  <1>6. Lacks(span, {"nul"})
    <2>1. "nul" \notin Blanks
      BY DEF Blanks
    <2>2. Lacks(lead, {"nul"}) /\ Lacks(trail, {"nul"}) /\ Lacks(text, {"nul"})
      BY <2>1 DEF AreBlanks, IsBare, Lacks
    <2>3. Lacks(r, {"nul"})
      BY <1>2, <2>2, LacksCat
    <2> QED
      BY <1>3, <1>4, <2>2, <2>3, LacksCat
  <1>7. FirstOf(span, {"nul"}) = 0
    BY <1>5, <1>6, FirstIsNone
  <1>8. PICK ink : ink = {i \in DOMAIN span : span[i] \notin Blanks}
    OBVIOUS
  <1>9. DOMAIN span = 1..(a + (n + b))
    BY <1>5 DEF Text
  <1>10. ASSUME NEW i \in ink PROVE i \in (a + 1)..(a + n)
    <2>1. i \in 1..(a + (n + b)) /\ span[i] \notin Blanks
      BY <1>8, <1>9
    <2>2. CASE i <= a
      <3>1. i \in 1..a /\ span[i] = lead[i]
        BY <1>3, <1>5, <2>1, <2>2
      <3> QED
        BY <1>1, <2>1, <3>1 DEF AreBlanks
    <2>3. CASE i > a + n
      <3>1. i - a \in (n + 1)..(n + b) /\ i \in (a + 1)..(a + (n + b)) /\ (i - a) - n \in 1..b
        BY <1>3, <2>1, <2>3
      <3>2. span[i] = trail[(i - a) - n]
        BY <1>3, <1>5, <3>1
      <3> QED
        BY <1>1, <2>1, <3>1, <3>2 DEF AreBlanks
    <2> QED
      BY <1>3, <2>1, <2>2, <2>3
  <1>11. a + 1 \in ink /\ a + n \in ink
    <2>1. 1 \in 1..n /\ n \in 1..n /\ 1 \in 1..(n + b) /\ n \in 1..(n + b)
      BY <1>3
    <2>2. span[a + 1] = text[1] /\ span[a + n] = text[n]
      BY <1>3, <1>5, <2>1
    <2>3. a + 1 \in 1..(a + (n + b)) /\ a + n \in 1..(a + (n + b))
      BY <1>3
    <2> QED
      BY <1>1, <1>8, <1>9, <2>2, <2>3 DEF IsBare
  <1>12. Min(ink) = a + 1 /\ Max(ink) = a + n
    <2>1. \A y \in ink : y \in Int /\ a + 1 <= y /\ y <= a + n
      BY <1>3, <1>10
    <2>2. PICK z \in ink : z = Min(ink) /\ \A y \in ink : z <= y
      <3>1. \E x \in ink : \A y \in ink : x <= y
        BY <1>11, <2>1
      <3> QED
        BY <3>1 DEF Min
    <2>3. PICK w \in ink : w = Max(ink) /\ \A y \in ink : w >= y
      <3>1. \E x \in ink : \A y \in ink : x >= y
        BY <1>11, <2>1
      <3> QED
        BY <3>1 DEF Max
    <2>4. z \in Int /\ a + 1 <= z /\ z <= a + 1
      BY <1>11, <2>1, <2>2
    <2>5. w \in Int /\ w <= a + n /\ w >= a + n
      BY <1>11, <2>1, <2>3
    <2> QED
      BY <1>3, <2>2, <2>3, <2>4, <2>5
  <1>13. SubSeq(span, a + 1, a + n) = text
    <2>1. PICK f \in Int, e \in Int : f = a + 1 /\ e = a + n
      BY <1>3
    <2>2. 1 <= f /\ f <= e + 1 /\ e <= Len(span) /\ Len(text) = (e - f) + 1
      BY <1>1, <1>3, <1>5, <2>1
    <2>3. ASSUME NEW i \in 1..Len(text) PROVE text[i] = span[(f + i) - 1]
      <3>1. (f + i) - 1 = a + i /\ i \in 1..(n + b) /\ i \in 1..n
        BY <1>1, <1>3, <2>1
      <3> QED
        BY <1>3, <1>5, <3>1
    <2>4. SubSeq(span, f, e) = text
      BY <1>5, <2>2, <2>3, SubIs
    <2> QED
      BY <2>1, <2>4
  <1>14. ink # {}
    BY <1>11
  <1>15. Trim(span) = SubSeq(span, Min(ink), Max(ink))
    BY <1>7, <1>8, <1>14 DEF Trim
  <1> QED
    BY <1>2, <1>4, <1>12, <1>13, <1>15

\* A text that means a proxy: a URL of it, with blanks around it or without.
Proxies == [hostname : Text, port : Nat, credentials : Text]
IsWritten(text, meant) ==
    \E lead, url, trail \in Text :
        /\ text = lead \o (url \o trail) /\ AreBlanks(lead) /\ AreBlanks(trail)
        /\ IsBare(url) /\ IsUrl(url, meant)

\* However a URL is written, with a scheme or without, with a user, escapes, an address in
\* brackets, a port, a path and blanks around it: http_endpoint_proxy_parse_url finds the
\* host name, the port and the credentials that its writer meant.
THEOREM UrlIsReadAsWritten ==
    ASSUME NEW text, NEW meant \in Proxies, IsWritten(text, meant)
    PROVE  ParseUrl(text) = [result |-> "ok", hostname |-> meant.hostname, port |-> meant.port,
                             credentials |-> meant.credentials]
  <1>1. PICK lead \in Text, url \in Text, trail \in Text :
           /\ text = lead \o (url \o trail) /\ AreBlanks(lead) /\ AreBlanks(trail)
           /\ IsBare(url) /\ IsUrl(url, meant)
    BY DEF IsWritten
  <1>2. meant.hostname \in Text
    BY DEF Proxies
  <1>3. url # <<>> /\ \A span : Trim(span) = url => ParseUrl(span) = Said(meant)
    BY <1>1, <1>2, UrlIsRight
  <1>4. Trim(lead \o (url \o trail)) = url
    BY <1>1, <1>3, BlanksAreTrimmed
  <1> QED
    BY <1>1, <1>3, <1>4 DEF Said

\* An address that is accepted is not empty, with brackets or without.
LEMMA AddressIsUsable ==
    ASSUME NEW text \in Text, Address(text) # Malformed
    PROVE  Address(text).hostname # <<>>
  <1>1. FirstOf(text, {"]"}) \in 0..Len(text) /\ Len(text) \in Nat
    BY Places DEF Text
  <1>2. CASE text # <<>> /\ text[1] = "["
    <2>1. PICK closing : closing = FirstOf(text, {"]"})
      OBVIOUS
    <2>2. Address(text) = InBrackets(text, closing)
      BY <1>2, <2>1 DEF Address
    <2>3. Address(text).hostname = SubSeq(text, 2, closing - 1) /\ ~(closing < 3)
      <3>1. PICK inside : inside = SubSeq(text, 2, closing - 1)
        OBVIOUS
      <3>2. InBrackets(text, closing) # Malformed
        BY <2>2
      <3>3. ~(closing < 3) /\ InBrackets(text, closing).hostname = inside
        BY <3>1, <3>2 DEF InBrackets
      <3> QED
        BY <2>2, <3>1, <3>3
    <2>4. Len(SubSeq(text, 2, closing - 1)) # 0
      <3>1. PICK f \in Int, e \in Int : f = 2 /\ e = closing - 1
        BY <1>1, <2>1
      <3>2. 1 <= f /\ f <= e + 1 /\ e <= Len(text) /\ (e - f) + 1 # 0
        BY <1>1, <2>1, <2>3, <3>1
      <3>3. Len(SubSeq(text, f, e)) = (e - f) + 1
        BY <3>2, Sub
      <3> QED
        BY <3>1, <3>2, <3>3
    <2> QED
      BY <2>3, <2>4, Empty
  <1>3. CASE ~(text # <<>> /\ text[1] = "[")
    <2>1. PICK colon : colon = FirstOf(text, {":"})
      OBVIOUS
    <2>2. Address(text) = Unbracketed(text, colon)
      BY <1>3, <2>1 DEF Address
    <2>3. Address(text).hostname = Before(text, colon) /\ HostnameIsValid(Before(text, colon))
      BY <2>2 DEF Unbracketed
    <2> QED
      BY <2>3 DEF HostnameIsValid
  <1> QED
    BY <1>2, <1>3

\* The ports there are: 16 bits, and not 0.
Ports == 1..65535

\* A URL without a port means port 80, and a port that is valid is one there is.
LEMMA PortIsUsable ==
    ASSUME NEW digits, digits = <<>> \/ PortIsValid(digits), NEW port,
           port = IF digits = <<>> THEN 80 ELSE PortOf(digits)
    PROVE  port \in Ports
  <1>1. CASE digits = <<>>
    <2>1. port = 80
      BY <1>1
    <2>2. 80 \in Ports
      BY SMTT(60) DEF Ports
    <2> QED
      BY <2>1, <2>2
  <1>2. CASE digits # <<>>
    <2>1. PortIsValid(digits) /\ port = PortOf(digits)
      BY <1>2
    <2>2. PortOf(digits) \in Ports
      BY <2>1, PTL DEF PortIsValid, Ports
    <2> QED
      BY <2>1, <2>2
  <1> QED
    BY <1>1, <1>2

\* And whatever the text is, http_endpoint_proxy_parse_url accepts only what has a host
\* name and a port: an address in brackets is not empty, a port is not 0 and has 16 bits.
THEOREM AcceptedUrlsAreUsable ==
    ASSUME NEW text \in Text, ParseUrl(text) # Malformed
    PROVE  ParseUrl(text).hostname # <<>> /\ ParseUrl(text).port \in Ports
  <1>0. PICK authority \in Text : \E n \in 0..Len(authority) : ParseUrl(text) = ParseAuthority(authority, n)
    BY UrlHasAuthority
  <1>1. PICK n \in 0..Len(authority) : ParseUrl(text) = ParseAuthority(authority, n)
    BY <1>0
  <1>2. PICK address, credentials :
           /\ address = Address(From(authority, n + 1))
           /\ ParseAuthority(authority, n) = Combined(address, credentials)
    BY DEF ParseAuthority
  <1>3. From(authority, n + 1) \in Text
    BY Pieces
  <1>4. /\ address # Malformed
        /\ address.port = <<>> \/ PortIsValid(address.port)
        /\ Combined(address, credentials).hostname = address.hostname
        /\ Combined(address, credentials).port = IF address.port = <<>> THEN 80 ELSE PortOf(address.port)
    BY <1>1, <1>2 DEF Combined
  <1>5. address.hostname # <<>>
    BY <1>2, <1>3, <1>4, AddressIsUsable
  <1>6. Combined(address, credentials).port \in Ports
    BY <1>4, PortIsUsable
  <1> QED
    BY <1>1, <1>2, <1>4, <1>5, <1>6

-------------------------------------------------------------------------------
(* The storage *)

StorageTypeOK ==
    /\ capacity \in Nat /\ storage \in [0..(capacity - 1) -> Parts]
    /\ hostname_length \in Nat /\ credentials_length \in Nat \cup {NoCredentials}
    /\ at \in {"idle", "store", "stage", "encode", "encoded", "failed", "done"}

Fits ==
    at \in {"store", "stage", "encode", "encoded", "failed"} =>
        capacity >= Needed(hostname_length, credentials_length)
HasCredentials == at \in {"stage", "encode", "encoded", "failed"} => credentials_length \in Nat
HostIsStored ==
    at \in {"stage", "encode", "encoded"} =>
        \A p \in DOMAIN storage :
            /\ p < hostname_length => storage[p] = "host"
            /\ p = hostname_length => storage[p] = "nul"
NothingStaged == at \in {"idle", "store", "stage"} => \A p \in DOMAIN storage : storage[p] # "credential"
OnlyStaged ==
    at \in {"encode", "encoded", "failed"} =>
        \A p \in DOMAIN storage : storage[p] = "credential" => Staged(p)
IsEncoded ==
    at = "encoded" =>
        \A p \in DOMAIN storage :
            /\ WithPrefix(p) => storage[p] = "basic"
            /\ Encoding(p) => storage[p] = "encoded"
NotYet == at # "done" => result # "ok"
IdleIsEmpty == at = "idle" => hostname_length = 0

\* The staged credentials are behind all that the result takes, so they are read as
\* they were written, and wiping them disturbs nothing.
IInv ==
    /\ StorageTypeOK /\ Fits /\ HasCredentials /\ HostIsStored /\ NothingStaged /\ OnlyStaged
    /\ IsEncoded /\ NotYet /\ IdleIsEmpty /\ NoCredentialLeft /\ AuthorizationIsWhole

\* A length in base64 is a natural number.
LEMMA EncodedLengthIsNat == ASSUME NEW n \in Nat PROVE EncodedLength(n) \in Nat
  <1>1. (n + 2) \div 3 \in Nat
    OBVIOUS
  <1> QED BY <1>1 DEF EncodedLength

\* What is needed is what is used and, behind it, the staged credentials.
LEMMA NeededIsUsedAndStaged ==
    ASSUME NEW h \in Nat, NEW c \in Nat \cup {NoCredentials}
    PROVE  /\ Needed(h, c) \in Nat /\ Used(h, c) \in Nat
           /\ c # NoCredentials => Needed(h, c) = Used(h, c) + c
           /\ c # NoCredentials => Used(h, c) = (((h + 1) + 6) + EncodedLength(c)) + 1
           /\ c = NoCredentials => Needed(h, c) = h + 1 /\ Used(h, c) = h + 1
  <1>1. CASE c = NoCredentials
    BY <1>1 DEF Needed, Used
  <1>2. CASE c # NoCredentials
    <2>1. c \in Nat /\ EncodedLength(c) \in Nat
      BY <1>2, EncodedLengthIsNat
    <2> QED BY <1>2, <2>1 DEF Needed, Used, Prefix
  <1> QED BY <1>1, <1>2

\* Nothing is stored before the call.
LEMMA Initially == StorageInit => IInv
  BY StorageAssumption
  DEF StorageInit, IInv, StorageTypeOK, Fits, HasCredentials, HostIsStored, NothingStaged,
      OnlyStaged, IsEncoded, NotYet, IdleIsEmpty, NoCredentialLeft, AuthorizationIsWhole, Parts, NoCredentials

\* The check of the size, before anything is stored, keeps the invariant.
LEMMA BeginKeeps ==
    ASSUME IInv, NEW h \in Nat, NEW c \in Nat \cup {NoCredentials}, Begin(h, c)
    PROVE  IInv'
  <1>1. h \in Nat /\ c \in Nat \cup {NoCredentials}
    OBVIOUS
  <1>2. /\ StorageTypeOK /\ NothingStaged /\ NotYet /\ at = "idle"
        /\ hostname_length' = h /\ credentials_length' = c /\ capacity' = capacity /\ storage' = storage
    BY DEF Begin, IInv
  <1>3. CASE capacity < Needed(h, c)
    <2>1. at' = "done" /\ result' = "insufficient_size"
      BY <1>3 DEF Begin, ReturnAs
    <2> QED
      BY <1>1, <1>2, <2>1
      DEF IInv, StorageTypeOK, Fits, HasCredentials, HostIsStored, NothingStaged, OnlyStaged,
          IsEncoded, NotYet, IdleIsEmpty, NoCredentialLeft, AuthorizationIsWhole
  <1>4. CASE ~(capacity < Needed(h, c))
    <2>1. at' = "store" /\ result' = result
      BY <1>4 DEF Begin
    <2>0. capacity \in Nat /\ Needed(h, c) \in Nat
      <3>1. Needed(h, c) \in Nat
        BY <1>1, NeededIsUsedAndStaged
      <3> QED BY <1>2, <3>1 DEF StorageTypeOK
    <2>2. capacity >= Needed(h, c)
      BY ONLY <1>4, <2>0
    <2>3. result # "ok"
      BY <1>2 DEF NotYet
    <2>4. Fits'
      BY <1>2, <2>2 DEF Fits, Needed, Used
    <2> QED
      BY <1>1, <1>2, <2>1, <2>3, <2>4
      DEF IInv, StorageTypeOK, HasCredentials, HostIsStored, NothingStaged, OnlyStaged,
          IsEncoded, NotYet, IdleIsEmpty, NoCredentialLeft, AuthorizationIsWhole
  <1> QED BY <1>3, <1>4

\* Storing the host name keeps the invariant.
LEMMA StoreHostnameKeeps == ASSUME IInv, StoreHostname PROVE IInv'
  <1> DEFINE h == hostname_length
             c == credentials_length
  <1>1. /\ StorageTypeOK /\ NothingStaged /\ NotYet /\ at = "store"
        /\ hostname_length' = h /\ credentials_length' = c /\ capacity' = capacity
        /\ capacity >= Needed(h, c)
    BY DEF StoreHostname, IInv, Fits
  <1>2. /\ capacity \in Nat /\ h \in Nat /\ c \in Nat \cup {NoCredentials}
        /\ storage \in [0..(capacity - 1) -> Parts] /\ result # "ok"
    BY <1>1 DEF StorageTypeOK, NotYet
  <1>3. /\ storage' \in [0..(capacity - 1) -> Parts]
        /\ \A p \in DOMAIN storage' :
              /\ p < h => storage'[p] = "host"
              /\ p = h => storage'[p] = "nul"
              /\ storage'[p] # "credential"
    <2> DEFINE put == Put(0, h, "host")
    <2>1. storage' = [put EXCEPT ![h] = "nul"]
      BY DEF StoreHostname
    <2>2. put = [p \in 0..(capacity - 1) |-> IF 0 <= p /\ p < 0 + h THEN "host" ELSE storage[p]]
      BY <1>2 DEF Put
    <2>3. \A p \in 0..(capacity - 1) : storage[p] # "credential" /\ storage[p] \in Parts
      BY <1>1, <1>2 DEF NothingStaged
    <2>4. /\ put \in [0..(capacity - 1) -> Parts]
          /\ \A p \in 0..(capacity - 1) : (p < h => put[p] = "host") /\ put[p] # "credential"
      BY <1>2, <2>2, <2>3 DEF Parts
    <2> HIDE DEF put
    <2>5. /\ storage' \in [0..(capacity - 1) -> Parts]
          /\ \A p \in 0..(capacity - 1) : storage'[p] = IF p = h THEN "nul" ELSE put[p]
      BY <2>1, <2>4 DEF Parts
    <2>6. \A p \in 0..(capacity - 1) : p < h => p # h
      BY <1>2
    <2> QED
      BY <2>4, <2>5, <2>6
  <1>4. CASE c = NoCredentials
    <2>1. at' = "done" /\ result' = "ok"
      BY <1>4 DEF StoreHostname, ReturnAs
    <2>2. Used(h, c) = h + 1 /\ capacity >= h + 1
      BY <1>1, <1>2, <1>4, NeededIsUsedAndStaged
    <2>3. AuthorizationIsWhole'
      BY <1>1, <1>2, <1>3, <1>4, <2>2 DEF AuthorizationIsWhole, Layout, Used
    <2> QED
      BY <1>1, <1>2, <1>3, <2>1, <2>3
      DEF IInv, StorageTypeOK, Fits, HasCredentials, HostIsStored, NothingStaged, OnlyStaged,
          IsEncoded, NotYet, IdleIsEmpty, NoCredentialLeft
  <1>5. CASE c # NoCredentials
    <2>1. at' = "stage" /\ result' = result /\ c \in Nat
      BY <1>2, <1>5 DEF StoreHostname
    <2>2. Fits'
      BY <1>1 DEF Fits, Needed, Used
    <2> QED
      BY <1>1, <1>2, <1>3, <2>1, <2>2
      DEF IInv, StorageTypeOK, HasCredentials, HostIsStored, NothingStaged, OnlyStaged,
          IsEncoded, NotYet, IdleIsEmpty, NoCredentialLeft, AuthorizationIsWhole
  <1> QED BY <1>4, <1>5

\* While credentials are staged, they are behind all that the result takes.
LEMMA StagedIsBehind ==
    ASSUME IInv, at \in {"stage", "encode", "encoded", "failed"}
    PROVE  /\ capacity \in Nat /\ hostname_length \in Nat /\ credentials_length \in Nat
           /\ storage \in [0..(capacity - 1) -> Parts] /\ result # "ok"
           /\ EncodedLength(credentials_length) \in Nat
           /\ Used(hostname_length, credentials_length)
                = (((hostname_length + 1) + 6) + EncodedLength(credentials_length)) + 1
           /\ capacity >= Used(hostname_length, credentials_length) + credentials_length
           /\ credentials_length # NoCredentials
  <1>1. /\ capacity \in Nat /\ hostname_length \in Nat /\ credentials_length \in Nat
        /\ storage \in [0..(capacity - 1) -> Parts] /\ result # "ok"
        /\ capacity >= Needed(hostname_length, credentials_length)
    BY DEF IInv, StorageTypeOK, Fits, HasCredentials, NotYet
  <1>2. credentials_length # NoCredentials
    BY <1>1 DEF NoCredentials
  <1>3. EncodedLength(credentials_length) \in Nat
    BY <1>1, EncodedLengthIsNat
  <1> QED BY <1>1, <1>2, <1>3, NeededIsUsedAndStaged

\* Staging the credentials behind all that the result takes keeps the invariant.
LEMMA StageCredentialsKeeps == ASSUME IInv, StageCredentials PROVE IInv'
  <1>1. /\ at = "stage" /\ at' = "encode" /\ result' = result /\ capacity' = capacity
        /\ hostname_length' = hostname_length /\ credentials_length' = credentials_length
        /\ storage' = Put(capacity - credentials_length, credentials_length, "credential")
        /\ HostIsStored /\ NothingStaged
    BY DEF StageCredentials, IInv
  <1>2. capacity \in Nat /\ hostname_length \in Nat /\ credentials_length \in Nat
    BY <1>1, StagedIsBehind
  <1>3. storage' \in [0..(capacity - 1) -> Parts]
    BY <1>1, StagedIsBehind DEF Put, Parts
  <1>4. \A p \in DOMAIN storage' :
            /\ p \in DOMAIN storage /\ p \in Nat
            /\ ~(capacity - credentials_length <= p) => storage'[p] = storage[p]
    BY <1>1, StagedIsBehind DEF Put
  <1>5. hostname_length < capacity - credentials_length
    BY <1>1, StagedIsBehind
  <1>6. HostIsStored'
    BY <1>1, <1>2, <1>4, <1>5 DEF HostIsStored
  <1>7. OnlyStaged'
    BY <1>1, <1>2, <1>4 DEF OnlyStaged, NothingStaged, Staged
  <1>8. Fits'
    BY <1>1 DEF IInv, Fits, Needed, Used
  <1> QED
    BY <1>1, <1>2, <1>3, <1>6, <1>7, <1>8
    DEF IInv, StorageTypeOK, HasCredentials, NothingStaged, IsEncoded, NotYet, IdleIsEmpty, NoCredentialLeft,
        AuthorizationIsWhole

\* Encoding the staged credentials keeps the invariant, whether it fails or not.
LEMMA EncodeKeeps == ASSUME IInv, Encode PROVE IInv'
  <1>1. /\ at = "encode" /\ at' \in {"encoded", "failed"} /\ result' = result
        /\ capacity' = capacity
        /\ hostname_length' = hostname_length /\ credentials_length' = credentials_length
        /\ HostIsStored /\ OnlyStaged
    BY DEF Encode, IInv
  <1>2. capacity \in Nat /\ hostname_length \in Nat /\ credentials_length \in Nat
    BY <1>1, StagedIsBehind
  <1>3. \A p \in DOMAIN storage : Staged(p) => ~WithPrefix(p) /\ ~Encoding(p)
    <2> SUFFICES ASSUME NEW p \in DOMAIN storage, Staged(p) PROVE ~WithPrefix(p) /\ ~Encoding(p)
      OBVIOUS
    <2>1. p \in Nat /\ capacity - credentials_length <= p
      BY <1>1, StagedIsBehind DEF Staged
    <2> QED
      BY <1>1, <2>1, StagedIsBehind DEF WithPrefix, Encoding, authorization, Prefix
  <1>4. PICK what \in {"encoded", "garbage"} :
            /\ Authorizes(what)
            /\ at' = "encoded" => what = "encoded"
    BY <1>1, <1>3 DEF Encode
  <1>5. storage' = [p \in DOMAIN storage |->
                       IF Encoding(p) THEN what ELSE IF WithPrefix(p) THEN "basic" ELSE storage[p]]
    BY <1>4 DEF Authorizes
  <1>6. storage' \in [0..(capacity - 1) -> Parts]
    BY <1>1, <1>5, StagedIsBehind DEF Parts
  <1>7. \A p \in DOMAIN storage' : p \in DOMAIN storage /\ p \in Nat
    BY <1>1, <1>5, StagedIsBehind
  <1>8. \A p \in DOMAIN storage : p <= hostname_length => ~Encoding(p) /\ ~WithPrefix(p)
    BY <1>1, <1>2, <1>5, <1>7 DEF Encoding, WithPrefix, authorization, Prefix
  <1>9. HostIsStored'
    BY <1>1, <1>2, <1>5, <1>7, <1>8 DEF HostIsStored
  <1>10. OnlyStaged'
    BY <1>1, <1>5, <1>7 DEF OnlyStaged, Staged
  <1>11. \A p \in Nat : /\ Encoding(p)' <=> Encoding(p)
                        /\ WithPrefix(p)' <=> WithPrefix(p)
                        /\ ~(Encoding(p) /\ WithPrefix(p))
    BY <1>1, <1>2 DEF Encoding, WithPrefix, authorization, EncodedLength, Prefix
  <1>12. IsEncoded'
    BY <1>1, <1>4, <1>5, <1>7, <1>11 DEF IsEncoded
  <1>13. Fits'
    BY <1>1 DEF IInv, Fits, Needed, Used
  <1> QED
    BY <1>1, <1>2, <1>6, <1>9, <1>10, <1>12, <1>13, StagedIsBehind
    DEF IInv, StorageTypeOK, HasCredentials, NothingStaged, NotYet, IdleIsEmpty, NoCredentialLeft,
        AuthorizationIsWhole

\* Wiping the staged credentials keeps the invariant.
LEMMA WipeKeeps == ASSUME IInv, Wipe PROVE IInv'
  <1> DEFINE used == Used(hostname_length, credentials_length)
             clear == Wiped(capacity - credentials_length, credentials_length)
  <1>1. /\ at \in {"encoded", "failed"} /\ at' = "done" /\ capacity' = capacity
        /\ hostname_length' = hostname_length /\ credentials_length' = credentials_length
        /\ HostIsStored /\ OnlyStaged /\ IsEncoded
    BY DEF Wipe, IInv, ReturnAs
  <1>2. /\ capacity \in Nat /\ hostname_length \in Nat /\ credentials_length \in Nat
        /\ used \in Nat /\ used > 0 /\ capacity >= used + credentials_length
        /\ storage \in [0..(capacity - 1) -> Parts]
        /\ credentials_length # NoCredentials
    BY <1>1, StagedIsBehind
  <1>3. clear \in [0..(capacity - 1) -> Parts]
    BY <1>2 DEF Wiped, Put, Parts
  <1>4. \A p \in 0..(capacity - 1) :
            IF capacity - credentials_length <= p THEN clear[p] = "zero" ELSE clear[p] = storage[p]
    BY <1>2 DEF Wiped, Put
  <1>5. \A p \in 0..(capacity - 1) : clear[p] # "credential"
    BY <1>1, <1>2, <1>4 DEF OnlyStaged, Staged
  <1>6. CASE at = "failed"
    <2>1. /\ storage' = [p \in DOMAIN storage |-> IF p < used THEN "zero" ELSE clear[p]]
          /\ result' = "error"
      BY <1>6 DEF Wipe, ReturnAs
    <2>2. /\ storage' \in [0..(capacity - 1) -> Parts]
          /\ \A p \in 0..(capacity - 1) : storage'[p] # "credential"
      BY <1>2, <1>3, <1>5, <2>1 DEF Parts
    <2> QED
      BY <1>1, <1>2, <2>1, <2>2
      DEF IInv, StorageTypeOK, Fits, HasCredentials, HostIsStored, NothingStaged, OnlyStaged,
          IsEncoded, NotYet, IdleIsEmpty, NoCredentialLeft, AuthorizationIsWhole
  <1>7. CASE at = "encoded"
    <2>1. storage' = [clear EXCEPT ![used - 1] = "nul"] /\ result' = "ok"
      BY <1>7 DEF Wipe, ReturnAs
    <2>2. /\ storage' \in [0..(capacity - 1) -> Parts]
          /\ \A p \in 0..(capacity - 1) : storage'[p] # "credential"
      BY <1>2, <1>3, <1>5, <2>1 DEF Parts
    <2>3. \A p \in 0..(capacity - 1) : p < used => storage'[p] = Layout(p)
      <3> SUFFICES ASSUME NEW p \in 0..(capacity - 1), p < used PROVE storage'[p] = Layout(p)
        OBVIOUS
      <3>1. p \in Nat /\ p \in DOMAIN storage /\ ~(capacity - credentials_length <= p)
        BY <1>2
      <3>2. storage'[p] = IF p = used - 1 THEN "nul" ELSE storage[p]
        BY <1>2, <1>3, <1>4, <2>1, <3>1
      <3>3. /\ p < hostname_length => storage[p] = "host"
            /\ p = hostname_length => storage[p] = "nul"
            /\ WithPrefix(p) => storage[p] = "basic"
            /\ Encoding(p) => storage[p] = "encoded"
        BY <1>1, <1>7, <3>1 DEF HostIsStored, IsEncoded
      <3>4. /\ used = (((hostname_length + 1) + 6) + EncodedLength(credentials_length)) + 1
            /\ EncodedLength(credentials_length) \in Nat
        BY <1>1, StagedIsBehind
      <3>5. /\ WithPrefix(p) <=> hostname_length + 1 <= p /\ p < (hostname_length + 1) + 6
            /\ Encoding(p) <=> /\ (hostname_length + 1) + 6 <= p
                              /\ p < ((hostname_length + 1) + 6) + EncodedLength(credentials_length)
        BY DEF WithPrefix, Encoding, authorization, Prefix
      <3>6. p = used - 1 => ~(p < hostname_length) /\ ~WithPrefix(p) /\ ~Encoding(p)
        BY <1>2, <3>1, <3>4, <3>5, SMTT(40)
      <3>7. p # used - 1 => \/ p < hostname_length \/ p = hostname_length
                            \/ WithPrefix(p) \/ Encoding(p)
        BY <1>2, <3>1, <3>4, <3>5
      <3>8. p = hostname_length => p # used - 1
        BY <1>2, <3>4
      <3>9. /\ p <= hostname_length => ~WithPrefix(p) /\ ~Encoding(p)
            /\ ~(WithPrefix(p) /\ Encoding(p))
        BY <1>2, <3>1, <3>4, <3>5
      <3> HIDE DEF used
      <3> QED
        BY <1>2, <3>1, <3>2, <3>3, <3>6, <3>7, <3>8, <3>9 DEF Layout
    <2>4. AuthorizationIsWhole'
      <3>1. /\ capacity >= used /\ DOMAIN storage' = 0..(capacity - 1)
        BY <1>2, <2>2
      <3>2. \A p : Layout(p)' = Layout(p)
        BY <1>1 DEF Layout, WithPrefix, Encoding, authorization, EncodedLength
      <3>3. Used(hostname_length, credentials_length)' = used
        BY <1>1 DEF Used, EncodedLength
      <3> QED BY <1>1, <2>3, <3>1, <3>2, <3>3 DEF AuthorizationIsWhole
    <2> QED
      BY <1>1, <1>2, <2>1, <2>2, <2>4
      DEF IInv, StorageTypeOK, Fits, HasCredentials, HostIsStored, NothingStaged, OnlyStaged,
          IsEncoded, NotYet, IdleIsEmpty, NoCredentialLeft
  <1> QED BY <1>1, <1>6, <1>7

\* A step that leaves the storage alone keeps the invariant.
LEMMA StutterKeeps == ASSUME IInv, UNCHANGED storage_vars PROVE IInv'
  BY DEF storage_vars, IInv, StorageTypeOK, Fits, HasCredentials, HostIsStored, NothingStaged,
      OnlyStaged, IsEncoded, NotYet, IdleIsEmpty, NoCredentialLeft, AuthorizationIsWhole, Needed, Used, Staged,
      WithPrefix, Encoding, authorization, Layout, EncodedLength

\* Of what lies in the storage at every step: the host name, the staged credentials behind
\* it and what is encoded between them.
THEOREM StorageInvariant == StorageSpec => []IInv
  <1>1. ASSUME IInv, [StorageNext]_storage_vars PROVE IInv'
    <2>1. CASE \E h \in Lengths \ {0}, c \in (Lengths \ {0}) \cup {NoCredentials} : Begin(h, c)
      BY <1>1, <2>1, BeginKeeps, StorageAssumption
    <2>2. CASE StoreHostname BY <1>1, <2>2, StoreHostnameKeeps
    <2>3. CASE StageCredentials BY <1>1, <2>3, StageCredentialsKeeps
    <2>4. CASE Encode BY <1>1, <2>4, EncodeKeeps
    <2>5. CASE Wipe BY <1>1, <2>5, WipeKeeps
    <2>6. CASE UNCHANGED storage_vars BY <1>1, <2>6, StutterKeeps
    <2> QED BY <1>1, <2>1, <2>2, <2>3, <2>4, <2>5, <2>6 DEF StorageNext, StoreNext
  <1> QED BY <1>1, Initially, PTL DEF StorageSpec

\* The staged credentials never outlive the call, whether it succeeds or not
\* (http_endpoint_proxy_parse_url).
THEOREM CredentialsAreWiped == StorageSpec => []NoCredentialLeft
  <1>1. IInv => NoCredentialLeft
    BY DEF IInv
  <1> QED BY <1>1, StorageInvariant, PTL

\* What is returned as the host name and the authorization is whole in the storage,
\* however tight it is.
THEOREM AuthorizationWhole == StorageSpec => []AuthorizationIsWhole
  <1>1. IInv => AuthorizationIsWhole
    BY DEF IInv
  <1> QED BY <1>1, StorageInvariant, PTL

-------------------------------------------------------------------------------
(* The configuration *)

EnvironmentIsText == \A name \in VariableNames : environment[name].text \in Text

\* What a variable of the environment holds is a text.
LEMMA StringsAreText == Seq(STRING) \subseteq Text
  <1> SUFFICES ASSUME NEW s \in Seq(STRING) PROVE s \in Seq(Char)
    BY DEF Text
  <1>1. Len(s) \in Nat /\ s = [i \in 1..Len(s) |-> s[i]] /\ \A i \in 1..Len(s) : s[i] \in Char
    BY ElementOfSeq DEF Char
  <1> QED
    BY <1>1

\* What the environment says is put in storage like any other lengths; what is bypassed
\* or malformed leaves the storage as it was.
LEMMA SetProxyKeeps ==
    ASSUME IInv, EnvironmentIsText, SetProxyFromEnvironment
    PROVE  IInv'
  <1> DEFINE url == ProxyUrl.text
             parsed == ParseUrl(url)
             c == IF parsed.credentials = <<>> THEN NoCredentials ELSE Len(parsed.credentials)
  <1>1. url \in Text
    BY DEF ProxyUrl, FirstSet, EnvironmentIsText, VariableNames
  <1>2. CASE parsed # Malformed /\ Begin(Len(parsed.hostname), c)
    <2>1. parsed.hostname \in Text /\ parsed.credentials \in Text
      <3> HIDE DEF url
      <3> QED
        BY <1>1, <1>2, UrlIsParsed
    <2>2. Len(parsed.hostname) \in Nat /\ c \in Nat \cup {NoCredentials}
      <3> HIDE DEF parsed
      <3> QED
        BY <2>1 DEF Text
    <2> HIDE DEF parsed, c
    <2> QED
      BY <1>2, <2>2, BeginKeeps
  <1>3. CASE /\ \E r \in {"ok", "invalid_argument"} : ReturnAs(r)
             /\ UNCHANGED <<storage, capacity, hostname_length, credentials_length>>
    <2>1. /\ at = "idle" /\ at' = "done" /\ storage' = storage /\ capacity' = capacity
          /\ hostname_length' = hostname_length /\ credentials_length' = credentials_length
      BY <1>3 DEF SetProxyFromEnvironment, ReturnAs
    <2> QED
      BY <2>1
      DEF IInv, StorageTypeOK, Fits, HasCredentials, HostIsStored, NothingStaged, OnlyStaged,
          IsEncoded, NotYet, IdleIsEmpty, NoCredentialLeft, AuthorizationIsWhole
  <1> HIDE DEF url, parsed, c
  <1>4. \/ /\ \E r \in {"ok", "invalid_argument"} : ReturnAs(r)
           /\ UNCHANGED <<storage, capacity, hostname_length, credentials_length>>
        \/ parsed # Malformed /\ Begin(Len(parsed.hostname), c)
    BY DEF SetProxyFromEnvironment, url, parsed, c
  <1> QED
    BY <1>2, <1>3, <1>4

\* Whatever the environment holds, the storage is as it is with any lengths.
THEOREM ConfigInvariant == Spec => [](IInv /\ EnvironmentIsText)
  <1>1. Init => IInv /\ EnvironmentIsText
    BY Initially, SituationsAssumption, StringsAreText DEF Init, EnvironmentIsText
  <1>2. ASSUME IInv, EnvironmentIsText, [Next]_vars
        PROVE  IInv' /\ EnvironmentIsText'
    <2>1. CASE SetProxyFromEnvironment
      <3>1. environment' = environment
        BY <2>1 DEF SetProxyFromEnvironment, config_vars
      <3> QED
        BY <1>2, <2>1, <3>1, SetProxyKeeps DEF EnvironmentIsText
    <2>2. CASE Store
      <3>1. StoreNext /\ environment' = environment
        BY <2>2 DEF Store
      <3>2. IInv'
        BY <1>2, <3>1, StoreHostnameKeeps, StageCredentialsKeeps, EncodeKeeps, WipeKeeps DEF StoreNext
      <3> QED
        BY <1>2, <3>1, <3>2 DEF EnvironmentIsText
    <2>3. CASE UNCHANGED vars
      <3>1. UNCHANGED storage_vars /\ environment' = environment
        BY <2>3 DEF vars, config_vars
      <3> QED
        BY <1>2, <3>1, StutterKeeps DEF EnvironmentIsText
    <2> QED
      BY <1>2, <2>1, <2>2, <2>3 DEF Next
  <1> QED
    BY <1>1, <1>2, PTL DEF Spec

\* From any environment: the staged credentials never outlive the call, whether it
\* succeeds or not (http_endpoint_config_set_proxy_from_environment).
THEOREM ConfigCredentialsAreWiped == Spec => []NoCredentialLeft
  <1>1. IInv => NoCredentialLeft
    BY DEF IInv
  <1> QED
    BY <1>1, ConfigInvariant, PTL

\* From any environment: what the configuration has as the proxy's host name and
\* authorization is whole in the storage, however tight it is.
THEOREM ConfigAuthorizationWhole == Spec => []AuthorizationIsWhole
  <1>1. IInv => AuthorizationIsWhole
    BY DEF IInv
  <1> QED
    BY <1>1, ConfigInvariant, PTL

-------------------------------------------------------------------------------
(* What is configured *)

\* The proxy that the rules find, and whether the rules let a host do without.
Parsed == ParseUrl(ProxyUrl.text)
Bypassed == NoProxyList.text # Unset /\ ShouldBypass(NoProxyList.text, remote.text)
Found == [hostname |-> Parsed.hostname, port |-> Parsed.port, credentials |-> Parsed.credentials]

\* The call clears the proxy, and sets it only as it returns, and only to what was found.
RulesAreFollowed ==
    /\ at = "idle" => result = "none"
    /\ at \notin {"idle", "done"} =>
          result = "none" /\ proxy = NoProxy /\ ~(ProxyUrl.text = Unset \/ Bypassed) /\ Parsed # Malformed
    /\ at = "done" =>
          IF ProxyUrl.text = Unset \/ Bypassed THEN result = "ok" /\ proxy = NoProxy
          ELSE IF Parsed = Malformed THEN result = "invalid_argument" /\ proxy = NoProxy
          ELSE result # "invalid_argument" /\ proxy = IF result = "ok" THEN Found ELSE NoProxy
IsSituation ==
    \E situation \in Situations : environment = situation.environment /\ remote = situation.remote

\* While environment, TLS and remote host stay, the rules find the same.
LEMMA InputsStay ==
    ASSUME environment' = environment, tls' = tls, remote' = remote
    PROVE  /\ ProxyUrl' = ProxyUrl /\ NoProxyList' = NoProxyList
           /\ Parsed' = Parsed /\ (Bypassed' <=> Bypassed) /\ Found' = Found
  <1>1. ProxyUrl' = ProxyUrl /\ NoProxyList' = NoProxyList
    BY DEF ProxyUrl, NoProxyList, FirstSet
  <1>2. Parsed' = Parsed
    BY <1>1 DEF Parsed
  <1> QED
    BY <1>1, <1>2 DEF Bypassed, Found

\* The beginning of the call, where the rules are applied, follows them.
LEMMA SettingFollows ==
    ASSUME RulesAreFollowed, SetProxyFromEnvironment
    PROVE  RulesAreFollowed'
  <1>1. /\ at = "idle" /\ proxy' = NoProxy /\ result = "none"
        /\ environment' = environment /\ tls' = tls /\ remote' = remote
    BY DEF SetProxyFromEnvironment, RulesAreFollowed
  <1>2. /\ ProxyUrl' = ProxyUrl /\ NoProxyList' = NoProxyList
        /\ Parsed' = Parsed /\ (Bypassed' <=> Bypassed) /\ Found' = Found
    BY <1>1, InputsStay
  <1>3. IF ProxyUrl.text = Unset \/ Bypassed THEN at' = "done" /\ result' = "ok"
        ELSE IF Parsed = Malformed THEN at' = "done" /\ result' = "invalid_argument"
        ELSE \/ at' = "done" /\ result' = "insufficient_size"
             \/ at' = "store" /\ result' = "none"
    <2>1. CASE ProxyUrl.text = Unset \/ Bypassed
      <3>1. ReturnAs("ok")
        BY <2>1, SetProxyFromEnvironment DEF SetProxyFromEnvironment, Bypassed
      <3> QED
        BY <2>1, <3>1 DEF ReturnAs
    <2>2. CASE ~(ProxyUrl.text = Unset \/ Bypassed) /\ Parsed = Malformed
      <3>1. ReturnAs("invalid_argument")
        BY <2>2, SetProxyFromEnvironment DEF SetProxyFromEnvironment, Bypassed, Parsed
      <3> QED
        BY <2>2, <3>1 DEF ReturnAs
    <2>3. CASE ~(ProxyUrl.text = Unset \/ Bypassed) /\ Parsed # Malformed
      <3>1. PICK h, c : Begin(h, c)
        BY <2>3, SetProxyFromEnvironment DEF SetProxyFromEnvironment, Bypassed, Parsed
      <3>2. \/ at' = "done" /\ result' = "insufficient_size"
            \/ at' = "store" /\ result' = "none"
        BY <1>1, <3>1 DEF Begin, ReturnAs
      <3> QED
        BY <2>3, <3>2
    <2> QED
      BY <2>1, <2>2, <2>3
  <1>4. CASE ProxyUrl.text = Unset \/ Bypassed
    <2>1. at' = "done" /\ result' = "ok" /\ proxy' = NoProxy
      BY <1>1, <1>3, <1>4
    <2> QED
      BY <1>2, <1>4, <2>1 DEF RulesAreFollowed
  <1>5. CASE ~(ProxyUrl.text = Unset \/ Bypassed) /\ Parsed = Malformed
    <2>1. at' = "done" /\ result' = "invalid_argument" /\ proxy' = NoProxy
      BY <1>1, <1>3, <1>5
    <2> QED
      BY <1>2, <1>5, <2>1 DEF RulesAreFollowed
  <1>6. CASE ~(ProxyUrl.text = Unset \/ Bypassed) /\ Parsed # Malformed
    <2>1. /\ proxy' = NoProxy
          /\ \/ at' = "done" /\ result' = "insufficient_size"
             \/ at' = "store" /\ result' = "none"
      BY <1>1, <1>3, <1>6
    <2> QED
      BY <1>2, <1>6, <2>1 DEF RulesAreFollowed
  <1> QED
    BY <1>4, <1>5, <1>6

\* Storing what was found, and filling in the proxy at the end, follow the rules.
LEMMA StoringFollows ==
    ASSUME RulesAreFollowed, Store
    PROVE  RulesAreFollowed'
  <1>1. /\ StoreNext /\ environment' = environment /\ tls' = tls /\ remote' = remote
        /\ proxy' = IF result' # "ok" THEN proxy ELSE Found
    BY DEF Store, Found, Parsed
  <1>2. /\ ProxyUrl' = ProxyUrl /\ NoProxyList' = NoProxyList
        /\ Parsed' = Parsed /\ (Bypassed' <=> Bypassed) /\ Found' = Found
    BY <1>1, InputsStay
  <1>3. /\ at \notin {"idle", "done"} /\ at' # "idle"
        /\ \/ at' # "done" /\ result' = result
           \/ at' = "done" /\ result' \in {"ok", "error"}
    BY <1>1 DEF StoreNext, StoreHostname, StageCredentials, Encode, Wipe, ReturnAs
  <1>4. /\ proxy = NoProxy /\ result = "none"
        /\ ~(ProxyUrl.text = Unset \/ Bypassed) /\ Parsed # Malformed
    BY <1>3 DEF RulesAreFollowed
  <1> QED
    BY <1>1, <1>2, <1>3, <1>4 DEF RulesAreFollowed

\* Whatever the variables hold and however much storage there is: a call returns with the
\* proxy that http_endpoint_proxy_parse_url finds in the variable that counts, unless it
\* is unset, malformed, or http_endpoint_proxy_should_bypass lets the host do without; and
\* while it works, or on failure, the configuration has none, whatever it had before.
THEOREM ConfigFollowsTheRules == Spec => [](RulesAreFollowed /\ IsSituation)
  <1>1. Init => RulesAreFollowed /\ IsSituation
    BY DEF Init, StorageInit, RulesAreFollowed, IsSituation
  <1>2. ASSUME RulesAreFollowed, IsSituation, [Next]_vars
        PROVE  RulesAreFollowed' /\ IsSituation'
    <2>1. CASE SetProxyFromEnvironment
      <3>1. IsSituation'
        BY <1>2, <2>1 DEF SetProxyFromEnvironment, IsSituation
      <3> QED
        BY <1>2, <2>1, <3>1, SettingFollows
    <2>2. CASE Store
      <3>1. IsSituation'
        BY <1>2, <2>2 DEF Store, IsSituation
      <3> QED
        BY <1>2, <2>2, <3>1, StoringFollows
    <2>3. CASE UNCHANGED vars
      <3>1. /\ environment' = environment /\ tls' = tls /\ remote' = remote
            /\ at' = at /\ result' = result /\ proxy' = proxy
        BY <2>3 DEF vars, config_vars, storage_vars
      <3>2. /\ ProxyUrl' = ProxyUrl /\ NoProxyList' = NoProxyList
            /\ Parsed' = Parsed /\ (Bypassed' <=> Bypassed) /\ Found' = Found
        BY <3>1, InputsStay
      <3> QED
        BY <1>2, <3>1, <3>2 DEF RulesAreFollowed, IsSituation
    <2> QED
      BY <1>2, <2>1, <2>2, <2>3 DEF Next
  <1> QED
    BY <1>1, <1>2, PTL DEF Spec

\* What a situation says of its texts is what the rules make of them.
UrlIsUnderstood(url) ==
    url.text # Unset =>
        LET parsed == ParseUrl(url.text)
        IN IF url.means = NoProxy THEN parsed = Malformed
           ELSE /\ parsed # Malformed
                /\ url.means = [hostname |-> parsed.hostname, port |-> parsed.port,
                                credentials |-> parsed.credentials]
ListIsUnderstood(list, host) ==
    (list.text # Unset /\ ShouldBypass(list.text, host.text))
        <=> \E name \in list.covers : name = <<"*">> \/ EndsWith(host.labels, name)
Understood ==
    \A situation \in Situations :
        /\ \A name \in VariableNames \ {"no_proxy", "NO_PROXY"} :
              UrlIsUnderstood(situation.environment[name])
        /\ \A name \in {"no_proxy", "NO_PROXY"} :
              ListIsUnderstood(situation.environment[name], situation.remote)

\* If the rules make of each text what its writer meant by it, the proxy is the one meant.
LEMMA FollowedAsMeant ==
    ASSUME Understood, RulesAreFollowed, IsSituation
    PROVE  ProxyIsTheOneMeant
  <1>1. PICK situation \in Situations :
           environment = situation.environment /\ remote = situation.remote
    BY DEF IsSituation
  <1>2. /\ MeantUrl = ProxyUrl /\ Meant("no_proxy", "NO_PROXY") = NoProxyList
        /\ ProxyUrl \in {environment[name] : name \in VariableNames \ {"no_proxy", "NO_PROXY"}}
        /\ NoProxyList \in {environment[name] : name \in {"no_proxy", "NO_PROXY"}}
    BY DEF MeantUrl, Meant, ProxyUrl, NoProxyList, FirstSet, VariableNames
  <1>3. UrlIsUnderstood(ProxyUrl) /\ ListIsUnderstood(NoProxyList, remote)
    BY <1>1, <1>2 DEF Understood
  <1>4. Bypassed <=> MeantToBypass
    BY <1>2, <1>3 DEF ListIsUnderstood, Bypassed, MeantToBypass
  <1>5. ProxyUrl.text # Unset =>
           IF MeantUrl.means = NoProxy THEN Parsed = Malformed
           ELSE Parsed # Malformed /\ MeantUrl.means = Found
    BY <1>2, <1>3 DEF UrlIsUnderstood, Parsed, Found
  <1> SUFFICES ASSUME at = "done"
              PROVE  IF MeantUrl.text = Unset \/ MeantToBypass THEN result = "ok" /\ proxy = NoProxy
                     ELSE IF MeantUrl.means = NoProxy
                     THEN result = "invalid_argument" /\ proxy = NoProxy
                     ELSE result # "invalid_argument" /\ proxy = IF result = "ok" THEN MeantUrl.means ELSE NoProxy
    BY DEF ProxyIsTheOneMeant
  <1>6. IF ProxyUrl.text = Unset \/ Bypassed THEN result = "ok" /\ proxy = NoProxy
        ELSE IF Parsed = Malformed THEN result = "invalid_argument" /\ proxy = NoProxy
        ELSE result # "invalid_argument" /\ proxy = IF result = "ok" THEN Found ELSE NoProxy
    BY DEF RulesAreFollowed
  <1>7. CASE MeantUrl.text = Unset \/ MeantToBypass
    BY <1>2, <1>4, <1>6, <1>7
  <1>8. CASE ~(MeantUrl.text = Unset \/ MeantToBypass) /\ MeantUrl.means = NoProxy
    BY <1>2, <1>4, <1>5, <1>6, <1>8
  <1>9. CASE ~(MeantUrl.text = Unset \/ MeantToBypass) /\ MeantUrl.means # NoProxy
    BY <1>2, <1>4, <1>5, <1>6, <1>9
  <1> QED
    BY <1>7, <1>8, <1>9

\* If the rules make of each text what its writer meant by it, then, however much storage
\* there is, a call of http_endpoint_config_set_proxy_from_environment returns with the
\* proxy that the variables mean, or with none where they mean none.
THEOREM ConfigProxyIsTheOneMeant == Understood => (Spec => []ProxyIsTheOneMeant)
  <1> SUFFICES ASSUME Understood PROVE Spec => []ProxyIsTheOneMeant
    OBVIOUS
  <1>1. RulesAreFollowed /\ IsSituation => ProxyIsTheOneMeant
    BY FollowedAsMeant
  <1> QED
    BY <1>1, ConfigFollowsTheRules, PTL

\* A URL that means a proxy is written as the grammar says, and one that means nothing is
\* malformed.
UrlIsWritten(url) ==
    url.text # Unset =>
        IF url.means = NoProxy THEN ParseUrl(url.text) = Malformed
        ELSE url.means \in Proxies /\ IsWritten(url.text, url.means)
AsWritten ==
    \A situation \in Situations :
        /\ \A name \in VariableNames \ {"no_proxy", "NO_PROXY"} :
              UrlIsWritten(situation.environment[name])
        /\ \A name \in {"no_proxy", "NO_PROXY"} :
              ListIsUnderstood(situation.environment[name], situation.remote)

\* The rules make of a URL that is written as the grammar says what its writer meant.
LEMMA WrittenIsUnderstood ==
    ASSUME NEW url, UrlIsWritten(url)
    PROVE  UrlIsUnderstood(url)
  <1> SUFFICES ASSUME url.text # Unset
              PROVE  IF url.means = NoProxy THEN ParseUrl(url.text) = Malformed
                     ELSE /\ ParseUrl(url.text) # Malformed
                          /\ url.means = [hostname |-> ParseUrl(url.text).hostname,
                                          port |-> ParseUrl(url.text).port,
                                          credentials |-> ParseUrl(url.text).credentials]
    BY DEF UrlIsUnderstood
  <1>1. CASE url.means = NoProxy
    BY <1>1 DEF UrlIsWritten
  <1>2. CASE url.means # NoProxy
    <2>1. PICK text : text = url.text
      OBVIOUS
    <2>2. PICK means \in Proxies : means = url.means /\ IsWritten(text, means)
      BY <1>2, <2>1 DEF UrlIsWritten
    <2>3. ParseUrl(text) = [result |-> "ok", hostname |-> means.hostname, port |-> means.port,
                            credentials |-> means.credentials]
      BY <2>2, UrlIsReadAsWritten
    <2>4. /\ ParseUrl(text).hostname = means.hostname /\ ParseUrl(text).port = means.port
          /\ ParseUrl(text).credentials = means.credentials
      BY <2>3
    <2>5. ParseUrl(text) # Malformed
      BY <2>3 DEF Malformed
    <2>6. means = [hostname |-> means.hostname, port |-> means.port,
                   credentials |-> means.credentials]
      BY <2>2 DEF Proxies
    <2> QED
      BY <1>2, <2>1, <2>2, <2>4, <2>5, <2>6
  <1> QED
    BY <1>1, <1>2

\* However the URLs of the environment are written, a call of
\* http_endpoint_config_set_proxy_from_environment returns with the proxy they mean, or
\* with none where they mean none or the host is listed.
THEOREM ConfigProxyIsAsWritten == AsWritten => (Spec => []ProxyIsTheOneMeant)
  <1>1. AsWritten => Understood
    BY WrittenIsUnderstood DEF AsWritten, Understood
  <1> QED
    BY <1>1, ConfigProxyIsTheOneMeant

\* The proxy that the call leaves has a host name and a port.
ProxyIsUsable == at # "idle" /\ proxy # NoProxy => proxy.hostname # <<>> /\ proxy.port \in Ports

\* Whatever the variables hold, http_endpoint_config_set_proxy_from_environment never
\* leaves a proxy in the configuration that could not be connected to: one without a host
\* name, or with port 0.
THEOREM ConfigProxyIsUsable == Spec => []ProxyIsUsable
  <1>1. ASSUME EnvironmentIsText, RulesAreFollowed
        PROVE  ProxyIsUsable
    <2> SUFFICES ASSUME at # "idle", proxy # NoProxy
                PROVE  proxy.hostname # <<>> /\ proxy.port \in Ports
      BY DEF ProxyIsUsable
    <2>1. Parsed # Malformed /\ proxy = Found
      BY <1>1 DEF RulesAreFollowed
    <2>2. PICK text \in Text : text = ProxyUrl.text
      BY <1>1 DEF ProxyUrl, FirstSet, EnvironmentIsText, VariableNames
    <2>3. Parsed = ParseUrl(text)
      BY <2>2 DEF Parsed
    <2>4. ParseUrl(text).hostname # <<>> /\ ParseUrl(text).port \in Ports
      BY <2>1, <2>3, AcceptedUrlsAreUsable
    <2>5. proxy.hostname = Parsed.hostname /\ proxy.port = Parsed.port
      BY <2>1 DEF Found
    <2> QED
      BY <2>3, <2>4, <2>5
  <1> QED
    BY <1>1, ConfigInvariant, ConfigFollowsTheRules, PTL
=================================================================================
