----------------------------- MODULE Text_proofs -----------------------------
(***************************************************************************)
(* Proofs about texts, and with them about Message and Forms: what one end *)
(* says is what the other end finds.                                       *)
(*                                                                         *)
(* Message: a text is known by where its lines begin and end; putting a    *)
(* line behind whole lines moves its lines and leaves the others where     *)
(* they are (LinesBehind), so what is found in the text grows with it      *)
(* (MeansMore).  The blank line behind whole lines is the first one        *)
(* (FirstBlank), which is why both parsers cut the head where the sender   *)
(* ended it, whatever is in the body.                                      *)
(*                                                                         *)
(* Forms: a text is known by the pieces it holds and where (Holds).  Field *)
(* after field is put behind the others (Places); one call of an iterator  *)
(* at the place of a field gives that field and comes to the next place    *)
(* (PairComes, PartComes), and what stands for a value in a query is       *)
(* decoded to that value (SpellingIsDecoded).                              *)
(*                                                                         *)
(* The actions of the models then follow one by one, by these facts.       *)
(***************************************************************************)
EXTENDS Message, Forms, FiniteSetTheorems, SequenceTheorems, TLAPS

-------------------------------------------------------------------------------
(* Numbers and sequences *)

\* Every non-empty set of natural numbers has a least element: among the intervals
\* 0..m for its elements m one is minimal under inclusion.
LEMMA LeastNumber ==
    ASSUME NEW S, S \subseteq Nat, S # {}
    PROVE  \E x \in S : \A y \in S : x <= y
  <1>1. PICK n \in S : TRUE
    OBVIOUS
  <1> DEFINE U == 0..n
             T == {0..m : m \in {k \in S : k <= n}}
             R == StrictSubsetOrdering(U)
  <1>2. IsWellFoundedOn(R, FiniteSubsetsOf(U))
    BY FS_StrictSubsetOrderingWellFounded
  <1>3. T \subseteq FiniteSubsetsOf(U)
    <2> SUFFICES ASSUME NEW m \in S, m <= n PROVE 0..m \in FiniteSubsetsOf(U)
      OBVIOUS
    <2>1. IsFiniteSet(0..m)
      BY FS_Interval
    <2> QED
      BY <2>1 DEF FiniteSubsetsOf
  <1>4. T # {}
    OBVIOUS
  <1>5. \E x \in T : \A y \in T : <<y, x>> \notin R
    <2> HIDE DEF U, T, R
    <2> QED
      BY <1>2, <1>3, <1>4, WFMin
  <1>6. PICK m \in S : m <= n /\ \A y \in T : <<y, 0..m>> \notin R
    BY <1>5
  <1>7. ASSUME NEW y \in S, y < m PROVE FALSE
    <2>1. 0..y \in T
      BY <1>6, <1>7
    <2>2. 0..y \in SUBSET U /\ 0..m \in SUBSET U /\ 0..y \subseteq 0..m /\ 0..y # 0..m
      BY <1>6, <1>7
    <2> QED
      BY <1>6, <2>1, <2>2 DEF StrictSubsetOrdering
  <1> QED
    BY <1>7

\* The least and the greatest of a set of numbers, once they are known.
LEMMA MinIs ==
    ASSUME NEW S, S \subseteq Int, NEW x \in S, \A y \in S : x <= y
    PROVE  Min(S) = x
  <1>1. Min(S) \in S /\ \A y \in S : Min(S) <= y
    <2>1. \E z \in S : \A y \in S : z <= y
      OBVIOUS
    <2> QED
      BY <2>1 DEF Min
  <1>2. PICK m \in S : m = Min(S) /\ \A y \in S : m <= y
    BY <1>1
  <1>3. m \in Int /\ x \in Int /\ m <= x /\ x <= m
    BY <1>2
  <1> QED
    BY <1>2, <1>3

\* The greatest element.
LEMMA MaxIs ==
    ASSUME NEW S, S \subseteq Int, NEW x \in S, \A y \in S : y <= x
    PROVE  Max(S) = x
  <1>1. Max(S) \in S /\ \A y \in S : Max(S) >= y
    <2>1. \E z \in S : \A y \in S : z >= y
      OBVIOUS
    <2> QED
      BY <2>1 DEF Max
  <1>2. PICK m \in S : m = Max(S) /\ \A y \in S : m >= y
    BY <1>1
  <1>3. m \in Int /\ x \in Int /\ m <= x /\ x <= m
    BY <1>2
  <1> QED
    BY <1>2, <1>3

\* A set of numbers that is not empty has a least member, and Min is it.
LEMMA MinExists ==
    ASSUME NEW S, S \subseteq Nat, S # {}
    PROVE  Min(S) \in S /\ \A y \in S : Min(S) <= y
  <1>1. \E z \in S : \A y \in S : z <= y
    BY LeastNumber
  <1> QED
    BY <1>1 DEF Min

\* Two sequences one behind the other.
LEMMA Cat ==
    ASSUME NEW T, NEW a \in Seq(T), NEW b \in Seq(T)
    PROVE  /\ a \o b \in Seq(T) /\ Len(a) \in Nat /\ Len(b) \in Nat /\ Len(a \o b) = Len(a) + Len(b)
           /\ \A i \in 1..Len(a) : (a \o b)[i] = a[i]
           /\ \A i \in 1..Len(b) : (a \o b)[Len(a) + i] = b[i]
           /\ \A i \in (Len(a) + 1)..(Len(a) + Len(b)) : (a \o b)[i] = b[i - Len(a)]
  OBVIOUS

\* Sequences of the same length with the same elements are the same.
LEMMA SameSeq ==
    ASSUME NEW T, NEW a \in Seq(T), NEW b \in Seq(T), Len(a) = Len(b),
           \A i \in 1..Len(a) : a[i] = b[i]
    PROVE  a = b
  OBVIOUS

\* A piece of a sequence.
LEMMA Sub ==
    ASSUME NEW T, NEW s \in Seq(T), NEW m \in Int, NEW n \in Int,
           1 <= m, m <= n + 1, n <= Len(s)
    PROVE  /\ SubSeq(s, m, n) \in Seq(T) /\ Len(SubSeq(s, m, n)) = (n - m) + 1
           /\ \A i \in 1..((n - m) + 1) : SubSeq(s, m, n)[i] = s[(m + i) - 1]
  <1>1. Len(s) \in Nat
    OBVIOUS
  <1>2. CASE m <= n
    <2>1. SubSeq(s, m, n) = [i \in 1..((n - m) + 1) |-> s[(m + i) - 1]]
      OBVIOUS
    <2>2. \A i \in 1..((n - m) + 1) : (m + i) - 1 \in 1..Len(s)
      BY <1>1, <1>2
    <2>3. (n - m) + 1 \in Nat
      BY <1>2
    <2>4. \A i \in 1..((n - m) + 1) : s[(m + i) - 1] \in T
      BY <2>2, ElementOfSeq
    <2> QED
      BY <2>1, <2>3, <2>4
  <1>3. CASE m = n + 1
    <2>1. SubSeq(s, m, n) = <<>>
      BY <1>3, <1>1
    <2> QED
      BY <2>1, <1>3
  <1> QED
    BY <1>2, <1>3

\* The two pieces of a sequence are the sequence.
LEMMA CutAndJoin ==
    ASSUME NEW T, NEW s \in Seq(T), NEW n \in 0..Len(s)
    PROVE  s = SubSeq(s, 1, n) \o SubSeq(s, n + 1, Len(s))
  <1> DEFINE a == SubSeq(s, 1, n)
             b == SubSeq(s, n + 1, Len(s))
  <1>1. Len(s) \in Nat /\ n \in Nat /\ n <= Len(s)
    OBVIOUS
  <1>2. a \in Seq(T) /\ Len(a) = n /\ \A i \in 1..n : a[i] = s[i]
    BY <1>1, Sub
  <1>3. b \in Seq(T) /\ Len(b) = Len(s) - n /\ \A i \in 1..(Len(s) - n) : b[i] = s[n + i]
    BY <1>1, Sub
  <1> HIDE DEF a, b
  <1>4. a \o b \in Seq(T) /\ Len(a \o b) = Len(s)
    <2>1. a \in Seq(T) /\ b \in Seq(T)
      BY <1>2, <1>3
    <2>2. a \o b \in Seq(T) /\ Len(a \o b) = Len(a) + Len(b)
      BY <2>1, Cat
    <2>3. Len(a) + Len(b) = Len(s)
      BY <1>1, <1>2, <1>3
    <2> QED
      BY <2>2, <2>3
  <1>5. \A i \in 1..Len(s) : (a \o b)[i] = s[i]
    <2> SUFFICES ASSUME NEW i \in 1..Len(s) PROVE (a \o b)[i] = s[i]
      OBVIOUS
    <2>1. CASE i <= n
      BY <1>1, <1>2, <1>3, <2>1
    <2>2. CASE i > n
      <3>1. i - n \in 1..(Len(s) - n) /\ n + (i - n) = i
        BY <1>1, <2>2
      <3>2. (a \o b)[i] = b[i - n]
        BY <1>1, <1>2, <1>3, <2>2, Cat
      <3> QED
        BY <1>3, <3>1, <3>2
    <2>3. i <= n \/ i > n
      BY <1>1
    <2> QED
      BY <2>1, <2>2, <2>3
  <1>6. a \o b = s
    BY <1>4, <1>5, SameSeq
  <1> QED
    BY <1>6 DEF a, b

\* And the pieces of two sequences one behind the other are these.
LEMMA Cut ==
    ASSUME NEW T, NEW a \in Seq(T), NEW b \in Seq(T)
    PROVE  /\ SubSeq(a \o b, 1, Len(a)) = a
           /\ SubSeq(a \o b, Len(a) + 1, Len(a \o b)) = b
  <1>1. /\ a \o b \in Seq(T) /\ Len(a) \in Nat /\ Len(b) \in Nat /\ Len(a \o b) = Len(a) + Len(b)
        /\ \A i \in 1..Len(a) : (a \o b)[i] = a[i]
        /\ \A i \in 1..Len(b) : (a \o b)[Len(a) + i] = b[i]
    BY Cat
  <1> DEFINE s == a \o b
  <1> HIDE DEF s
  <1>2. /\ s \in Seq(T) /\ Len(s) = Len(a) + Len(b)
        /\ \A i \in 1..Len(a) : s[i] = a[i]
        /\ \A i \in 1..Len(b) : s[Len(a) + i] = b[i]
    BY <1>1 DEF s
  <1>3. SubSeq(s, 1, Len(a)) = a
    <2>1. /\ SubSeq(s, 1, Len(a)) \in Seq(T) /\ Len(SubSeq(s, 1, Len(a))) = Len(a)
          /\ \A i \in 1..Len(a) : SubSeq(s, 1, Len(a))[i] = s[i]
      BY <1>1, <1>2, Sub
    <2> QED
      BY <1>2, <2>1, SameSeq
  <1>4. SubSeq(s, Len(a) + 1, Len(s)) = b
    <2>1. /\ SubSeq(s, Len(a) + 1, Len(s)) \in Seq(T)
          /\ Len(SubSeq(s, Len(a) + 1, Len(s))) = Len(b)
          /\ \A i \in 1..Len(b) : SubSeq(s, Len(a) + 1, Len(s))[i] = s[Len(a) + i]
      BY <1>1, <1>2, Sub
    <2> QED
      BY <1>2, <2>1, SameSeq
  <1> QED
    BY <1>3, <1>4 DEF s

-------------------------------------------------------------------------------
(* Header lines *)

\* One token as a text.
LEMMA OneToken ==
    ASSUME NEW T, NEW c \in T
    PROVE  <<c>> \in Seq(T) /\ Len(<<c>>) = 1 /\ <<c>>[1] = c
  OBVIOUS

\* Two tokens as a text.
LEMMA TwoTokens ==
    ASSUME NEW T, NEW c \in T, NEW d \in T
    PROVE  <<c, d>> \in Seq(T) /\ Len(<<c, d>>) = 2 /\ <<c, d>>[1] = c /\ <<c, d>>[2] = d
  OBVIOUS

\* Where a text of one token, or of two, occurs in another.
LEMMA OccursOne ==
    ASSUME NEW T, NEW text \in Seq(T), NEW c
    PROVE  Occurs(<<c>>, text) = {i \in 1..Len(text) : text[i] = c}
  <1>1. Len(text) \in Nat /\ Len(<<c>>) = 1
    OBVIOUS
  <1>2. ASSUME NEW i \in 1..Len(text)
        PROVE  SubSeq(text, i, (i + 1) - 1) = <<c>> <=> text[i] = c
    <2>1. SubSeq(text, i, i) = <<text[i]>>
      <3>1. /\ SubSeq(text, i, i) \in Seq(T) /\ Len(SubSeq(text, i, i)) = (i - i) + 1
            /\ \A j \in 1..((i - i) + 1) : SubSeq(text, i, i)[j] = text[(i + j) - 1]
        BY <1>1, Sub
      <3>2. (i - i) + 1 = 1 /\ (i + 1) - 1 = i /\ text[i] \in T
        BY <1>1, ElementOfSeq
      <3>3. /\ <<text[i]>> \in Seq(T) /\ Len(<<text[i]>>) = 1
            /\ \A j \in 1..1 : <<text[i]>>[j] = text[(i + j) - 1]
        <4>1. \A j \in 1..1 : j = 1
          OBVIOUS
        <4> QED
          BY <3>2, <4>1, OneToken
      <3> QED
        BY <3>1, <3>2, <3>3, SameSeq
    <2>2. (i + 1) - 1 = i
      BY <1>1
    <2> QED
      BY <2>1, <2>2
  <1>3. (Len(text) - 1) + 1 = Len(text)
    BY <1>1
  <1> QED
    BY <1>1, <1>2, <1>3 DEF Occurs

\* Where two tokens occur.
LEMMA OccursTwo ==
    ASSUME NEW T, NEW text \in Seq(T), NEW c, NEW d
    PROVE  Occurs(<<c, d>>, text) = {i \in 1..(Len(text) - 1) : text[i] = c /\ text[i + 1] = d}
  <1>1. Len(text) \in Nat /\ Len(<<c, d>>) = 2
    OBVIOUS
  <1>2. ASSUME NEW i \in 1..(Len(text) - 1)
        PROVE  SubSeq(text, i, (i + 2) - 1) = <<c, d>> <=> text[i] = c /\ text[i + 1] = d
    <2>1. SubSeq(text, i, i + 1) = <<text[i], text[i + 1]>>
      <3>1. /\ SubSeq(text, i, i + 1) \in Seq(T) /\ Len(SubSeq(text, i, i + 1)) = ((i + 1) - i) + 1
            /\ \A j \in 1..(((i + 1) - i) + 1) : SubSeq(text, i, i + 1)[j] = text[(i + j) - 1]
        BY <1>1, Sub
      <3>2. /\ ((i + 1) - i) + 1 = 2 /\ (i + 1) - 1 = i /\ (i + 2) - 1 = i + 1
            /\ text[i] \in T /\ text[i + 1] \in T
        BY <1>1, ElementOfSeq
      <3>3. /\ <<text[i], text[i + 1]>> \in Seq(T) /\ Len(<<text[i], text[i + 1]>>) = 2
            /\ \A j \in 1..2 : <<text[i], text[i + 1]>>[j] = text[(i + j) - 1]
        <4>1. \A j \in 1..2 : j = 1 \/ j = 2
          OBVIOUS
        <4> QED
          BY <3>2, <4>1, TwoTokens
      <3> QED
        BY <3>1, <3>2, <3>3, SameSeq, ZenonT(60)
    <2>2. (i + 2) - 1 = i + 1
      BY <1>1
    <2> QED
      BY <2>1, <2>2
  <1>3. (Len(text) - 2) + 1 = Len(text) - 1
    BY <1>1
  <1> QED
    BY <1>1, <1>2, <1>3 DEF Occurs

\* What is before and behind the first of some token.
LEMMA Split ==
    ASSUME NEW T, NEW a \in Seq(T), NEW c \in T, NEW b \in Seq(T),
           \A i \in 1..Len(a) : a[i] # c
    PROVE  /\ Occurs(<<c>>, a \o <<c>> \o b) # {}
           /\ Before(<<c>>, a \o <<c>> \o b) = a /\ Behind(<<c>>, a \o <<c>> \o b) = b
  <1> DEFINE ac == a \o <<c>>
             text == ac \o b
             n == Len(a)
  <1>1. n \in Nat /\ Len(b) \in Nat
    OBVIOUS
  <1>2. ac \in Seq(T) /\ Len(ac) = n + 1 /\ (\A i \in 1..n : ac[i] = a[i]) /\ ac[n + 1] = c
    <2>1. <<c>> \in Seq(T) /\ Len(<<c>>) = 1 /\ <<c>>[1] = c
      BY OneToken
    <2> QED
      BY <1>1, <2>1, Cat
  <1>3. SubSeq(ac, 1, n) = a /\ SubSeq(text, 1, n + 1) = ac /\ SubSeq(text, (n + 1) + 1, Len(text)) = b
    <2>1. SubSeq(ac, 1, n) = a
      BY OneToken, Cut
    <2>2. ac \in Seq(T)
      BY <1>2
    <2> HIDE DEF ac, n
    <2>3. SubSeq(text, 1, Len(ac)) = ac /\ SubSeq(text, Len(ac) + 1, Len(text)) = b
      BY <2>2, Cut
    <2> QED
      BY <1>2, <2>1, <2>3
  <1> HIDE DEF ac, n
  <1>4. text \in Seq(T) /\ Len(text) = (n + 1) + Len(b) /\ \A i \in 1..(n + 1) : text[i] = ac[i]
    <2>0. ac \in Seq(T)
      BY <1>2
    <2>1. text \in Seq(T) /\ Len(text) = Len(ac) + Len(b) /\ \A i \in 1..Len(ac) : text[i] = ac[i]
      BY <2>0, Cat
    <2> QED
      BY <1>2, <2>1
  <1> HIDE DEF text
  <1>5. Occurs(<<c>>, text) = {i \in 1..Len(text) : text[i] = c}
    BY <1>4, OccursOne
  <1>6. n + 1 \in Occurs(<<c>>, text) /\ \A i \in Occurs(<<c>>, text) : n + 1 <= i
    <2>1. n + 1 \in 1..Len(text) /\ text[n + 1] = c
      BY <1>1, <1>2, <1>4
    <2>2. ASSUME NEW i \in 1..Len(text), text[i] = c PROVE n + 1 <= i
      <3>1. i \in 1..n => text[i] = a[i] /\ a[i] # c
        BY <1>1, <1>2, <1>4 DEF n
      <3> QED
        BY <1>1, <2>2, <3>1
    <2> QED
      BY <1>5, <2>1, <2>2
  <1>7. Min(Occurs(<<c>>, text)) = n + 1
    BY <1>1, <1>5, <1>6, MinIs
  <1>8. Before(<<c>>, text) = a
    <2>1. (n + 1) - 1 = n
      BY <1>1
    <2>2. SubSeq(text, 1, n) = a
      <3>1. /\ SubSeq(text, 1, n) \in Seq(T) /\ Len(SubSeq(text, 1, n)) = n
            /\ \A i \in 1..n : SubSeq(text, 1, n)[i] = text[i]
        BY <1>1, <1>4, Sub
      <3>2. \A i \in 1..n : text[i] = a[i]
        BY <1>1, <1>2, <1>4
      <3> QED
        BY <3>1, <3>2, SameSeq DEF n
    <2> QED
      BY <1>7, <2>1, <2>2 DEF Before
  <1>9. Behind(<<c>>, text) = b
    <2>1. Len(<<c>>) = 1
      OBVIOUS
    <2> QED
      BY <1>3, <1>7, <2>1 DEF Behind
  <1> QED
    BY <1>6, <1>8, <1>9 DEF text, ac

\* Where a line ends.
LEMMA LineEndIs ==
    ASSUME NEW T, NEW text \in Seq(T), NEW i \in 1..Len(text), NEW e \in i..(Len(text) + 1),
           \A j \in i..(e - 1) : text[j] # "crlf", e <= Len(text) => text[e] = "crlf"
    PROVE  LineEnd(text, i) = e
  <1> DEFINE stops == {j \in i..Len(text) : text[j] = "crlf"} \cup {Len(text) + 1}
  <1>1. Len(text) \in Nat
    OBVIOUS
  <1>2. stops \subseteq Int /\ e \in stops
    BY <1>1
  <1>3. \A y \in stops : e <= y
    BY <1>1
  <1>4. Min(stops) = e
    <2> HIDE DEF stops
    <2> QED
      BY <1>2, <1>3, MinIs
  <1> QED
    BY <1>4 DEF LineEnd

\* A line ends at the first line end behind its beginning, or with the text.
LEMMA LineEnds ==
    ASSUME NEW T, NEW text \in Seq(T), NEW i \in 1..Len(text)
    PROVE  /\ LineEnd(text, i) \in i..(Len(text) + 1)
           /\ \A j \in i..(LineEnd(text, i) - 1) : text[j] # "crlf"
           /\ LineEnd(text, i) <= Len(text) => text[LineEnd(text, i)] = "crlf"
  <1> DEFINE stops == {j \in i..Len(text) : text[j] = "crlf"} \cup {Len(text) + 1}
  <1>1. Len(text) \in Nat
    OBVIOUS
  <1>2. stops \subseteq Nat /\ stops # {} /\ stops \subseteq i..(Len(text) + 1)
    BY <1>1
  <1>3. Min(stops) \in stops /\ \A y \in stops : Min(stops) <= y
    <2> HIDE DEF stops
    <2> QED
      BY <1>2, MinExists
  <1>4. PICK e \in stops : e = Min(stops) /\ \A y \in stops : e <= y
    BY <1>3
  <1>5. ASSUME NEW j \in i..(e - 1) PROVE text[j] # "crlf"
    <2>1. j \in i..Len(text) /\ j < e /\ e \in Int
      BY <1>1, <1>2, <1>4
    <2> QED
      BY <1>4, <2>1
  <1>6. e \in i..(Len(text) + 1) /\ (e <= Len(text) => text[e] = "crlf")
    BY <1>1, <1>2, <1>4
  <1>7. LineEnd(text, i) = e
    BY <1>4 DEF LineEnd
  <1> QED
    BY <1>5, <1>6, <1>7

\* A text that is behind whole lines begins a line of its own: its lines are found
\* behind theirs.
LEMMA LinesBehind ==
    ASSUME NEW T, NEW h \in Seq(T), NEW r \in Seq(T), h # <<>> => h[Len(h)] = "crlf"
    PROVE  /\ LineStarts(h \o r) = LineStarts(h) \cup {Len(h) + i : i \in LineStarts(r)}
           /\ \A i \in LineStarts(h) : LineAt(h \o r, i) = LineAt(h, i)
           /\ \A i \in LineStarts(r) : LineAt(h \o r, Len(h) + i) = LineAt(r, i)
  <1> DEFINE s == h \o r
             m == Len(h)
             n == Len(r)
  <1>1. /\ s \in Seq(T) /\ m \in Nat /\ n \in Nat /\ Len(s) = m + n
        /\ \A i \in 1..m : s[i] = h[i]
        /\ \A i \in 1..n : s[m + i] = r[i]
    BY Cat
  <1>2. DOMAIN h = 1..m /\ DOMAIN r = 1..n /\ DOMAIN s = 1..(m + n)
    BY <1>1
  <1>3. m > 0 => h[m] = "crlf"
    <2>1. m > 0 => h # <<>>
      OBVIOUS
    <2> QED
      BY <2>1
  <1> HIDE DEF s, m, n
  <1>4. ASSUME NEW i \in 1..m PROVE i \in LineStarts(s) <=> i \in LineStarts(h)
    <2>1. i \in 1..(m + n) /\ s[i] = h[i]
      BY <1>1
    <2>2. i # 1 => s[i - 1] = h[i - 1]
      BY <1>1
    <2> QED
      BY <1>2, <2>1, <2>2 DEF LineStarts
  <1>5. ASSUME NEW i \in 1..n PROVE m + i \in LineStarts(s) <=> i \in LineStarts(r)
    <2>1. m + i \in 1..(m + n) /\ s[m + i] = r[i]
      BY <1>1
    <2>2. CASE i = 1
      <3>1. m + i = 1 \/ s[(m + i) - 1] = "crlf"
        <4>1. CASE m = 0
          BY <2>2, <4>1
        <4>2. CASE m > 0
          <5>1. (m + i) - 1 = m /\ m \in 1..m
            BY <1>1, <2>2, <4>2
          <5> QED
            BY <1>1, <1>3, <4>2, <5>1
        <4> QED
          BY <1>1, <4>1, <4>2
      <3> QED
        BY <1>2, <2>1, <2>2, <3>1 DEF LineStarts
    <2>3. CASE i # 1
      <3>1. (m + i) - 1 = m + (i - 1) /\ i - 1 \in 1..n /\ m + i # 1
        BY <1>1, <2>3
      <3>2. s[(m + i) - 1] = r[i - 1]
        BY <1>1, <3>1
      <3> QED
        BY <1>2, <2>1, <2>3, <3>1, <3>2 DEF LineStarts
    <2> QED
      BY <2>2, <2>3
  <1>6. LineStarts(s) = LineStarts(h) \cup {m + i : i \in LineStarts(r)}
    <2>1. \A i \in 1..(m + n) : i \in 1..m \/ \E j \in 1..n : i = m + j
      <3> SUFFICES ASSUME NEW i \in 1..(m + n), i \notin 1..m PROVE \E j \in 1..n : i = m + j
        OBVIOUS
      <3>1. i - m \in 1..n /\ i = m + (i - m)
        BY <1>1
      <3> QED
        BY <3>1
    <2>2. LineStarts(s) \subseteq 1..(m + n) /\ LineStarts(h) \subseteq 1..m /\ LineStarts(r) \subseteq 1..n
      BY <1>2 DEF LineStarts
    <2>3. \A i \in LineStarts(s) : i \in LineStarts(h) \/ \E j \in LineStarts(r) : i = m + j
      BY <1>4, <1>5, <2>1, <2>2
    <2>4. \A i \in LineStarts(h) : i \in LineStarts(s)
      BY <1>4, <2>2
    <2>5. \A i \in LineStarts(r) : m + i \in LineStarts(s)
      BY <1>5, <2>2
    <2> QED
      BY <2>3, <2>4, <2>5
  <1>7. ASSUME NEW i \in LineStarts(h) PROVE LineAt(s, i) = LineAt(h, i)
    <2>1. PICK e : e = LineEnd(h, i)
      OBVIOUS
    <2>2. i \in 1..m /\ i \in 1..Len(h)
      BY <1>2 DEF LineStarts, m
    <2>3. e \in i..(m + 1) /\ (\A j \in i..(e - 1) : h[j] # "crlf") /\ (e <= m => h[e] = "crlf")
      BY <2>1, <2>2, LineEnds DEF m
    <2>4. e <= m
      <3>1. e # m + 1
        <4> SUFFICES ASSUME e = m + 1 PROVE FALSE
          OBVIOUS
        <4>1. m \in i..(e - 1) /\ m > 0
          BY <1>1, <2>2
        <4> QED
          BY <1>3, <2>3, <4>1
      <3> QED
        BY <1>1, <2>2, <2>3, <3>1
    <2>5. /\ e \in i..(Len(s) + 1) /\ i \in 1..Len(s)
          /\ (\A j \in i..(e - 1) : s[j] # "crlf") /\ (e <= Len(s) => s[e] = "crlf")
      <3>1. e \in 1..m /\ \A j \in i..(e - 1) : j \in 1..m
        BY <1>1, <2>2, <2>3, <2>4
      <3>2. s[e] = h[e] /\ \A j \in i..(e - 1) : s[j] = h[j]
        BY <1>1, <3>1
      <3> QED
        BY <1>1, <2>2, <2>3, <2>4, <3>2
    <2>6. LineEnd(s, i) = e
      BY <1>1, <2>5, LineEndIs
    <2>7. SubSeq(s, i, e - 1) = SubSeq(h, i, e - 1)
      <3>1. /\ i \in Int /\ e - 1 \in Int /\ 1 <= i /\ i <= (e - 1) + 1 /\ e - 1 <= Len(s) /\ e - 1 <= Len(h)
        BY <1>1, <2>2, <2>3, <2>4 DEF m
      <3>2. ASSUME NEW j \in 0..((e - 1) - i) PROVE s[i + j] = h[i + j]
        <4>1. i + j \in 1..m
          BY <1>1, <2>2, <2>3, <2>4
        <4> QED
          BY <1>1, <4>1
      <3>3. s \in Seq(T)
        BY <1>1
      <3>4. PICK last \in Int : last = e - 1
        BY <3>1
      <3>5. /\ i \in Int /\ 1 <= i /\ i <= last + 1 /\ last <= Len(s) /\ last <= Len(h)
            /\ \A j \in 0..(last - i) : s[i + j] = h[i + j]
        BY <3>1, <3>2, <3>4
      <3>60. PICK a : a = SubSeq(s, i, last)
        OBVIOUS
      <3>6. /\ a \in Seq(T) /\ Len(a) = (last - i) + 1
            /\ \A k \in 1..((last - i) + 1) : a[k] = s[(i + k) - 1]
        <4>1. /\ s \in Seq(T) /\ i \in Int /\ last \in Int
              /\ 1 <= i /\ i <= last + 1 /\ last <= Len(s)
          BY <1>1, <3>3, <3>5
        <4>2. /\ SubSeq(s, i, last) \in Seq(T) /\ Len(SubSeq(s, i, last)) = (last - i) + 1
              /\ \A k \in 1..((last - i) + 1) : SubSeq(s, i, last)[k] = s[(i + k) - 1]
          BY <4>1, Sub
        <4> QED
          BY <3>60, <4>2
      <3>70. PICK b : b = SubSeq(h, i, last)
        OBVIOUS
      <3>7. /\ b \in Seq(T) /\ Len(b) = (last - i) + 1
            /\ \A k \in 1..((last - i) + 1) : b[k] = h[(i + k) - 1]
        <4>1. /\ h \in Seq(T) /\ i \in Int /\ last \in Int
              /\ 1 <= i /\ i <= last + 1 /\ last <= Len(h)
          BY <1>1, <3>5
        <4>2. /\ SubSeq(h, i, last) \in Seq(T) /\ Len(SubSeq(h, i, last)) = (last - i) + 1
              /\ \A k \in 1..((last - i) + 1) : SubSeq(h, i, last)[k] = h[(i + k) - 1]
          BY <4>1, Sub
        <4> QED
          BY <3>70, <4>2
      <3>8. ASSUME NEW k \in 1..((last - i) + 1) PROVE a[k] = b[k]
        <4>1. k - 1 \in 0..(last - i) /\ i + (k - 1) = (i + k) - 1
          BY <3>5
        <4> QED
          BY <3>5, <3>6, <3>7, <4>1
      <3>9. a = b
        BY <3>6, <3>7, <3>8, SameSeq
      <3> QED
        BY <3>4, <3>60, <3>70, <3>9
    <2> QED
      BY <2>1, <2>6, <2>7 DEF LineAt
  <1>8. ASSUME NEW i \in LineStarts(r) PROVE LineAt(s, m + i) = LineAt(r, i)
    <2>1. PICK e : e = LineEnd(r, i)
      OBVIOUS
    <2>2. i \in 1..n /\ i \in 1..Len(r)
      BY <1>2 DEF LineStarts, n
    <2>3. e \in i..(n + 1) /\ (\A j \in i..(e - 1) : r[j] # "crlf") /\ (e <= n => r[e] = "crlf")
      BY <2>1, <2>2, LineEnds DEF n
    <2>5. /\ m + e \in (m + i)..(Len(s) + 1) /\ m + i \in 1..Len(s)
          /\ (\A j \in (m + i)..((m + e) - 1) : s[j] # "crlf") /\ (m + e <= Len(s) => s[m + e] = "crlf")
      <3>1. ASSUME NEW j \in (m + i)..((m + e) - 1) PROVE s[j] # "crlf"
        <4>1. j - m \in i..(e - 1) /\ j - m \in 1..n /\ m + (j - m) = j
          BY <1>1, <2>2, <2>3
        <4>2. s[j] = r[j - m]
          BY <1>1, <4>1
        <4> QED
          BY <2>3, <4>1, <4>2
      <3>2. m + e <= Len(s) => s[m + e] = "crlf"
        <4> SUFFICES ASSUME m + e <= Len(s) PROVE s[m + e] = "crlf"
          OBVIOUS
        <4>1. e \in 1..n /\ e <= n
          BY <1>1, <2>2, <2>3
        <4> QED
          BY <1>1, <2>3, <4>1
      <3> QED
        BY <1>1, <2>2, <2>3, <3>1, <3>2
    <2>6. LineEnd(s, m + i) = m + e
      BY <1>1, <2>5, LineEndIs
    <2>7. SubSeq(s, m + i, (m + e) - 1) = SubSeq(r, i, e - 1)
      <3>1. /\ i \in Int /\ e - 1 \in Int /\ 1 <= i /\ i <= (e - 1) + 1 /\ e - 1 <= Len(r)
            /\ m + i \in Int /\ (m + e) - 1 \in Int /\ 1 <= m + i /\ m + i <= ((m + e) - 1) + 1
            /\ (m + e) - 1 <= Len(s) /\ ((m + e) - 1) - (m + i) = (e - 1) - i
        <4>1. e \in Int /\ i \in Int /\ 1 <= i /\ i <= e /\ e <= n + 1
          BY <1>1, <2>2, <2>3
        <4>2. n = Len(r) /\ Len(s) = m + n
          BY <1>1 DEF n
        <4> QED
          BY <1>1, <4>1, <4>2
      <3>2. ASSUME NEW j \in 0..((e - 1) - i) PROVE s[(m + i) + j] = r[i + j]
        <4>1. i + j \in 1..n /\ (m + i) + j = m + (i + j)
          BY <1>1, <2>2, <2>3
        <4> QED
          BY <1>1, <4>1
      <3>3. s \in Seq(T)
        BY <1>1
      <3>4. PICK first \in Int, last \in Int, end \in Int :
                first = m + i /\ last = (m + e) - 1 /\ end = e - 1
        BY <3>1
      <3>5. /\ i \in Int /\ 1 <= i /\ i <= end + 1 /\ end <= Len(r)
            /\ 1 <= first /\ first <= last + 1 /\ last <= Len(s) /\ last - first = end - i
            /\ \A j \in 0..(last - first) : s[first + j] = r[i + j]
        BY <3>1, <3>2, <3>4
      <3>60. PICK a : a = SubSeq(s, first, last)
        OBVIOUS
      <3>6. /\ a \in Seq(T) /\ Len(a) = (last - first) + 1
            /\ \A k \in 1..((last - first) + 1) : a[k] = s[(first + k) - 1]
        <4>1. /\ s \in Seq(T) /\ first \in Int /\ last \in Int
              /\ 1 <= first /\ first <= last + 1 /\ last <= Len(s)
          BY <1>1, <3>3, <3>5
        <4>2. /\ SubSeq(s, first, last) \in Seq(T) /\ Len(SubSeq(s, first, last)) = (last - first) + 1
              /\ \A k \in 1..((last - first) + 1) : SubSeq(s, first, last)[k] = s[(first + k) - 1]
          BY <4>1, Sub
        <4> QED
          BY <3>60, <4>2
      <3>70. PICK b : b = SubSeq(r, i, end)
        OBVIOUS
      <3>7. /\ b \in Seq(T) /\ Len(b) = (end - i) + 1
            /\ \A k \in 1..((end - i) + 1) : b[k] = r[(i + k) - 1]
        <4>1. /\ r \in Seq(T) /\ i \in Int /\ end \in Int
              /\ 1 <= i /\ i <= end + 1 /\ end <= Len(r)
          BY <1>1, <3>5
        <4>2. /\ SubSeq(r, i, end) \in Seq(T) /\ Len(SubSeq(r, i, end)) = (end - i) + 1
              /\ \A k \in 1..((end - i) + 1) : SubSeq(r, i, end)[k] = r[(i + k) - 1]
          BY <4>1, Sub
        <4> QED
          BY <3>70, <4>2
      <3>8. ASSUME NEW k \in 1..((last - first) + 1) PROVE a[k] = b[k]
        <4>1. k - 1 \in 0..(last - first) /\ first + (k - 1) = (first + k) - 1
              /\ i + (k - 1) = (i + k) - 1 /\ k \in 1..((end - i) + 1)
          BY <3>5
        <4> QED
          BY <3>5, <3>6, <3>7, <4>1
      <3>9. a = b
        BY <3>5, <3>6, <3>7, <3>8, SameSeq
      <3> QED
        BY <3>4, <3>60, <3>70, <3>9
    <2> QED
      BY <2>1, <2>6, <2>7 DEF LineAt
  <1> QED
    BY <1>6, <1>7, <1>8 DEF s, m

\* A sequence of elements of a set is one of elements of any larger set.
LEMMA Widen ==
    ASSUME NEW S, NEW T, S \subseteq T, NEW s \in Seq(S)
    PROVE  s \in Seq(T)
  OBVIOUS

\* Bytes are numbers.
LEMMA BytesAreNumbers ==
    ASSUME NEW s \in Seq(0..255)
    PROVE  s \in Seq(Int)
  <1>1. 0..255 \subseteq Int
    OBVIOUS
  <1> QED
    BY <1>1, Widen

\* A sequence that agrees with a piece of another is that piece.
LEMMA SubIs ==
    ASSUME NEW T, NEW s \in Seq(T), NEW m \in Int, NEW n \in Int,
           1 <= m, m <= n + 1, n <= Len(s),
           NEW a \in Seq(T), Len(a) = (n - m) + 1,
           \A i \in 1..Len(a) : a[i] = s[(m + i) - 1]
    PROVE  SubSeq(s, m, n) = a
  <1>1. /\ SubSeq(s, m, n) \in Seq(T) /\ Len(SubSeq(s, m, n)) = (n - m) + 1
        /\ \A i \in 1..((n - m) + 1) : SubSeq(s, m, n)[i] = s[(m + i) - 1]
    BY Sub
  <1>2. PICK b : b = SubSeq(s, m, n)
    OBVIOUS
  <1>3. b \in Seq(T) /\ Len(b) = Len(a) /\ \A i \in 1..Len(b) : b[i] = a[i]
    BY <1>1, <1>2
  <1>4. b = a
    BY <1>3, SameSeq
  <1> QED
    BY <1>2, <1>4

\* The piece from the first element to the last is the sequence.
LEMMA Whole ==
    ASSUME NEW T, NEW s \in Seq(T)
    PROVE  SubSeq(s, 1, Len(s)) = s
  <1>1. Len(s) \in Nat /\ \A i \in 1..Len(s) : (1 + i) - 1 = i
    OBVIOUS
  <1> QED
    BY <1>1, SubIs

\* A line, with its end or without, is found as one line.
LEMMA OneLine ==
    ASSUME NEW T, "crlf" \in T, NEW l \in Seq(T), l # <<>>, \A i \in 1..Len(l) : l[i] # "crlf"
    PROVE  /\ LineStarts(l) = {1} /\ LineAt(l, 1) = l
           /\ LineStarts(l \o Crlf) = {1} /\ LineAt(l \o Crlf, 1) = l
  <1>1. Len(l) \in Nat /\ Len(l) >= 1 /\ DOMAIN l = 1..Len(l)
    OBVIOUS
  <1>2. LineStarts(l) = {1}
    <2>1. ASSUME NEW i \in 2..Len(l) PROVE l[i - 1] # "crlf"
      <3>1. i - 1 \in 1..Len(l)
        BY <1>1
      <3> QED
        BY <3>1
    <2>2. 1 \in 1..Len(l) /\ l[1] # "crlf" /\ \A i \in 1..Len(l) : i = 1 \/ i \in 2..Len(l)
      BY <1>1
    <2> QED
      BY <1>1, <2>1, <2>2 DEF LineStarts
  <1>3. LineAt(l, 1) = l
    <2>1. LineEnd(l, 1) = Len(l) + 1
      <3>1. /\ 1 \in 1..Len(l) /\ Len(l) + 1 \in 1..(Len(l) + 1) /\ (Len(l) + 1) - 1 = Len(l)
            /\ ~(Len(l) + 1 <= Len(l))
        BY <1>1
      <3> QED
        BY <3>1, LineEndIs
    <2>2. (Len(l) + 1) - 1 = Len(l)
      BY <1>1
    <2> QED
      BY <2>1, <2>2, Whole DEF LineAt
  <1>4. PICK n \in Nat : n = Len(l) /\ n >= 1
    BY <1>1
  <1>5. PICK s : s = l \o Crlf
    OBVIOUS
  <1>6. /\ s \in Seq(T) /\ Len(s) = n + 1 /\ (\A i \in 1..n : s[i] = l[i] /\ s[i] # "crlf")
        /\ s[n + 1] = "crlf"
    <2>1. Crlf \in Seq(T) /\ Len(Crlf) = 1 /\ Crlf[1] = "crlf"
      BY OneToken DEF Crlf
    <2>2. /\ l \o Crlf \in Seq(T) /\ Len(l \o Crlf) = Len(l) + Len(Crlf)
          /\ \A i \in 1..Len(l) : (l \o Crlf)[i] = l[i]
          /\ \A i \in 1..Len(Crlf) : (l \o Crlf)[Len(l) + i] = Crlf[i]
      BY <2>1, Cat
    <2> QED
      BY <1>4, <1>5, <2>1, <2>2
  <1>7. LineStarts(s) = {1}
    <2>0. DOMAIN s = 1..(n + 1)
      BY <1>6
    <2>1. ASSUME NEW i \in 2..(n + 1) PROVE s[i - 1] # "crlf"
      <3>1. i - 1 \in 1..n
        BY <1>4
      <3> QED
        BY <1>6, <3>1
    <2>2. 1 \in 1..n /\ 1 \in 1..(n + 1) /\ \A i \in 1..(n + 1) : i = 1 \/ i \in 2..(n + 1)
      BY <1>4
    <2>3. s[1] # "crlf"
      BY <1>6, <2>2
    <2> QED
      BY <2>0, <2>1, <2>2, <2>3 DEF LineStarts
  <1>8. LineAt(s, 1) = l
    <2>1. LineEnd(s, 1) = n + 1
      <3>1. /\ 1 \in 1..Len(s) /\ n + 1 \in 1..(Len(s) + 1) /\ (n + 1) - 1 = n
        BY <1>4, <1>6
      <3> QED
        BY <1>6, <3>1, LineEndIs
    <2>2. SubSeq(s, 1, n) = l
      <3>1. /\ 1 \in Int /\ n \in Int /\ 1 <= 1 /\ 1 <= n + 1 /\ n <= Len(s) /\ Len(l) = (n - 1) + 1
            /\ \A i \in 1..Len(l) : (1 + i) - 1 = i /\ i \in 1..n
        BY <1>4, <1>6
      <3>2. \A i \in 1..Len(l) : l[i] = s[(1 + i) - 1]
        BY <1>6, <3>1
      <3> QED
        BY <1>6, <3>1, <3>2, SubIs
    <2>3. (n + 1) - 1 = n
      BY <1>4
    <2> QED
      BY <2>1, <2>2, <2>3 DEF LineAt
  <1> QED
    BY <1>2, <1>3, <1>5, <1>7, <1>8

\* The names that are looked for.
Sought == Names \cup {"length", "encoding"}
Token == STRING \cup {"crlf", ":", "space", "start"}

\* A line that has the name and the value it means.
GoodLine(line) ==
    /\ line.text \in Seq(Token) /\ line.text # <<>>
    /\ \A i \in 1..Len(line.text) : line.text[i] # "crlf"
    /\ \A name \in Sought : Named(line.text, name) <=> line.name = name
    /\ \A name \in Sought :
          line.name = name => TrimOptionalWhitespace(Behind(<<":">>, line.text)) = line.value

\* No name that is looked for is a separator.
LEMMA SoughtNames ==
    \A name \in Sought : name \notin {"crlf", ":", "space", "LENGTH", ""}
  BY NamesAssumption DEF Sought

\* A line without a colon is found under no name.
LEMMA NoHeaderIsGood ==
    ASSUME NEW line, line.text \in Text, NoHeader(line)
    PROVE  GoodLine(line)
  <1>1. line.text \in Seq(Token)
    BY Widen DEF Text, Token
  <1>2. DOMAIN line.text = 1..Len(line.text)
    BY <1>1
  <1>3. Occurs(<<":">>, line.text) = {}
    <2>1. Occurs(<<":">>, line.text) = {i \in 1..Len(line.text) : line.text[i] = ":"}
      BY <1>1, OccursOne
    <2> QED
      BY <1>2, <2>1 DEF NoHeader
  <1>4. \A name \in Sought : ~Named(line.text, name) /\ line.name # name
    BY <1>3, SoughtNames DEF Named, NoHeader
  <1> QED
    BY <1>1, <1>2, <1>4 DEF GoodLine, NoHeader

\* Trimming leaves what is between the blanks.
LEMMA TrimIs ==
    ASSUME NEW T, NEW v \in Seq(T), NEW p \in Int, NEW q \in Int, 1 <= p, p <= q + 1, q <= Len(v),
           \A i \in 1..Len(v) : i < p \/ i > q => v[i] = "space",
           p <= q => v[p] # "space" /\ v[q] # "space"
    PROVE  TrimOptionalWhitespace(v) = SubSeq(v, p, q)
  <1> DEFINE ink == {i \in DOMAIN v : v[i] # "space"}
  <1>1. Len(v) \in Nat /\ DOMAIN v = 1..Len(v)
    OBVIOUS
  <1>2. CASE p = q + 1
    <2>1. \A i \in 1..Len(v) : i < p \/ i > q
      BY <1>1, <1>2
    <2>2. ink = {}
      BY <1>1, <2>1
    <2>3. SubSeq(v, p, q) = <<>>
      BY <1>1, <1>2
    <2> QED
      BY <2>2, <2>3 DEF TrimOptionalWhitespace
  <1>3. CASE p <= q
    <2>1. p \in ink /\ q \in ink /\ ink \subseteq Int /\ ink # {}
      BY <1>1, <1>3
    <2>2. ASSUME NEW i \in ink PROVE p <= i /\ i <= q
      <3>1. i \in 1..Len(v) /\ ~(i < p) /\ ~(i > q)
        BY <1>1
      <3> QED
        BY <1>1, <3>1
    <2> HIDE DEF ink
    <2>3. Min(ink) = p
      BY <2>1, <2>2, MinIs
    <2>4. Max(ink) = q
      BY <2>1, <2>2, MaxIs
    <2> QED
      BY <2>1, <2>3, <2>4 DEF TrimOptionalWhitespace, ink
  <1> QED
    BY <1>2, <1>3

\* The first element of a sequence that has one.
LEMMA FirstToken ==
    ASSUME NEW T, NEW s \in Seq(T), Len(s) >= 1
    PROVE  s[1] \in T
  OBVIOUS

\* A name as it is compared: in small letters.
LEMMA LowerIs ==
    ASSUME NEW c, NEW name, name # "LENGTH"
    PROVE  Lower(<<c>>) = <<name>> <=> name = IF c = "LENGTH" THEN "length" ELSE c
  <1>1. \A x, y : <<x>> = <<y>> <=> x = y
    OBVIOUS
  <1>2. CASE c = "LENGTH"
    <2>1. Lower(<<c>>) = <<"length">>
      BY <1>2 DEF Lower
    <2> QED
      BY <1>1, <1>2, <2>1
  <1>3. CASE c # "LENGTH"
    <2>1. <<c>> # <<"LENGTH">>
      BY <1>1, <1>3
    <2>2. Lower(<<c>>) = <<c>>
      BY <2>1 DEF Lower
    <2> QED
      BY <1>1, <1>3, <2>2
  <1> QED
    BY <1>2, <1>3

\* A header line of a peer is found under its name, with the value it means, whatever
\* the blanks around the value and the case of the name.
LEMMA HeaderIsGood ==
    ASSUME NEW line, line.text \in Seq(Token), IsHeader(line)
    PROVE  GoodLine(line)
  <1> DEFINE c == line.text[1]
             v == SubSeq(line.text, 3, Len(line.text))
  <1>1. PICK text : text = line.text
    OBVIOUS
  <1>2. PICK n \in Nat : n = Len(text) /\ n >= 2 /\ DOMAIN text = 1..n
    <2>1. text \in Seq(Token) /\ Len(text) >= 2
      BY <1>1 DEF IsHeader
    <2>2. Len(text) \in Nat /\ DOMAIN text = 1..Len(text)
      BY <2>1
    <2> QED
      BY <2>1, <2>2
  <1>3. /\ text \in Seq(Token) /\ text[1] \notin {"crlf", ":", "space", ""} /\ text[2] = ":"
        /\ line.name = (IF text[1] = "LENGTH" THEN "length" ELSE text[1]) /\ IsValue(line.value)
    BY <1>1 DEF IsHeader
  <1>4. PICK first \in 3..(n + 1), last \in 2..n :
            /\ first <= last + 1 /\ line.value = SubSeq(text, first, last)
            /\ \A i \in 3..n : i < first \/ i > last => text[i] = "space"
    BY <1>1, <1>2, ZenonT(60) DEF IsHeader
  <1>5. PICK a : a = SubSeq(text, 3, n)
    OBVIOUS
  <1>6. a \in Seq(Token) /\ Len(a) = n - 2 /\ \A i \in 1..(n - 2) : a[i] = text[i + 2]
    <2>1. 3 \in Int /\ n \in Int /\ 1 <= 3 /\ 3 <= n + 1 /\ n <= Len(text) /\ (n - 3) + 1 = n - 2
      BY <1>2
    <2>2. /\ SubSeq(text, 3, n) \in Seq(Token) /\ Len(SubSeq(text, 3, n)) = (n - 3) + 1
          /\ \A i \in 1..((n - 3) + 1) : SubSeq(text, 3, n)[i] = text[(3 + i) - 1]
      BY <1>3, <2>1, Sub, ZenonT(60)
    <2>3. \A i \in 1..(n - 2) : (3 + i) - 1 = i + 2
      BY <1>2
    <2> QED
      BY <1>5, <2>1, <2>2, <2>3
  <1>7. PICK b : b = SubSeq(text, first, last)
    OBVIOUS
  <1>8. b \in Seq(Token) /\ Len(b) = (last - first) + 1 /\ \A i \in 1..Len(b) : b[i] = text[(first + i) - 1]
    <2>1. /\ first \in Int /\ last \in Int /\ 1 <= first /\ first <= last + 1 /\ last <= Len(text)
      BY <1>2, <1>4
    <2>2. /\ SubSeq(text, first, last) \in Seq(Token) /\ Len(SubSeq(text, first, last)) = (last - first) + 1
          /\ \A i \in 1..((last - first) + 1) : SubSeq(text, first, last)[i] = text[(first + i) - 1]
      BY <1>3, <2>1, Sub
    <2> QED
      BY <1>7, <2>2
  <1>9. b = line.value
    BY <1>4, <1>7
  <1>10. text = <<text[1]>> \o <<":">> \o a
    <2>1. text[1] \in Token /\ ":" \in Token
      <3>1. text \in Seq(Token)
        BY <1>3
      <3>2. Len(text) >= 1
        BY <1>2
      <3>3. text[1] \in Token
        BY <3>1, <3>2, FirstToken
      <3> QED
        BY <3>3 DEF Token
    <2>2. PICK d : d = text[1]
      OBVIOUS
    <2>3. /\ <<d>> \in Seq(Token) /\ Len(<<d>>) = 1 /\ <<d>>[1] = d
          /\ <<":">> \in Seq(Token) /\ Len(<<":">>) = 1 /\ <<":">>[1] = ":"
      BY <2>1, <2>2, OneToken
    <2>4. PICK u : u = <<d>> \o <<":">>
      OBVIOUS
    <2>5. u \in Seq(Token) /\ Len(u) = 2 /\ u[1] = d /\ u[2] = ":"
      BY <2>3, <2>4
    <2>6. PICK w : w = u \o a
      OBVIOUS
    <2>7. w \in Seq(Token) /\ Len(w) = n /\ w[1] = d /\ w[2] = ":" /\ \A i \in 3..n : w[i] = a[i - 2]
      <3>1. /\ u \o a \in Seq(Token) /\ Len(u \o a) = Len(u) + Len(a)
            /\ \A i \in 1..Len(u) : (u \o a)[i] = u[i]
            /\ \A i \in (Len(u) + 1)..(Len(u) + Len(a)) : (u \o a)[i] = a[i - Len(u)]
        <4>1. u \in Seq(Token) /\ a \in Seq(Token)
          BY <1>6, <2>5
        <4> QED
          BY <4>1, Cat
      <3>2. 2 + (n - 2) = n /\ 1 \in 1..2 /\ 2 \in 1..2 /\ \A i \in 3..n : i \in (2 + 1)..n
        BY <1>2
      <3> QED
        BY <1>6, <2>5, <2>6, <3>1, <3>2
    <2>8. ASSUME NEW i \in 1..n PROVE w[i] = text[i]
      <3>1. i \in 3..n => i - 2 \in 1..(n - 2) /\ (i - 2) + 2 = i
        BY <1>2
      <3>2. i = 1 \/ i = 2 \/ i \in 3..n
        BY <1>2
      <3> QED
        BY <1>3, <1>6, <2>2, <2>7, <3>1, <3>2
    <2>9. w = text
      BY <1>2, <1>3, <2>7, <2>8, SameSeq
    <2> QED
      BY <2>2, <2>4, <2>6, <2>9
  <1>11. Occurs(<<":">>, text) # {} /\ Before(<<":">>, text) = <<text[1]>> /\ Behind(<<":">>, text) = a
    <2>1. PICK d : d = text[1]
      OBVIOUS
    <2>2. d \in Token /\ ":" \in Token /\ d # ":"
      <3>1. text \in Seq(Token)
        BY <1>3
      <3>2. Len(text) >= 1
        BY <1>2
      <3>3. text[1] \in Token
        BY <3>1, <3>2, FirstToken
      <3>4. ":" \in Token
        BY DEF Token
      <3> QED
        BY <1>3, <2>1, <3>3, <3>4
    <2>3. <<d>> \in Seq(Token) /\ \A i \in 1..Len(<<d>>) : <<d>>[i] # ":"
      BY <2>2
    <2>4. /\ Occurs(<<":">>, <<d>> \o <<":">> \o a) # {}
          /\ Before(<<":">>, <<d>> \o <<":">> \o a) = <<d>> /\ Behind(<<":">>, <<d>> \o <<":">> \o a) = a
      <3>1. a \in Seq(Token) /\ ":" \in Token /\ <<d>> \in Seq(Token)
        BY <1>6, <2>2, <2>3
      <3>2. PICK e : e = <<d>>
        OBVIOUS
      <3>3. e \in Seq(Token) /\ \A i \in 1..Len(e) : e[i] # ":"
        BY <2>3, <3>2
      <3>4. /\ Occurs(<<":">>, e \o <<":">> \o a) # {}
            /\ Before(<<":">>, e \o <<":">> \o a) = e /\ Behind(<<":">>, e \o <<":">> \o a) = a
        BY <3>1, <3>3, Split
      <3> QED
        BY <3>2, <3>4
    <2> QED
      BY <1>10, <2>1, <2>4
  <1>12. \A name \in Sought : Named(text, name) <=> line.name = name
    <2> SUFFICES ASSUME NEW name \in Sought PROVE Named(text, name) <=> line.name = name
      OBVIOUS
    <2>1. name # "LENGTH"
      BY SoughtNames
    <2>2. Lower(<<text[1]>>) = <<name>> <=> name = IF text[1] = "LENGTH" THEN "length" ELSE text[1]
      BY <2>1, LowerIs
    <2> QED
      BY <1>3, <1>11, <2>2 DEF Named
  <1>13. TrimOptionalWhitespace(a) = b
    <2>1. PICK p \in Int, q \in Int : p = first - 2 /\ q = last - 2
      BY <1>4
    <2>2. /\ 1 <= p /\ p <= q + 1 /\ q <= Len(a) /\ q - p = last - first /\ p <= n - 1 /\ Len(a) = n - 2
          /\ q >= 0 /\ first = p + 2 /\ last = q + 2
      BY <1>2, <1>4, <1>6, <2>1
    <2>3. \A i \in 1..Len(a) : i < p \/ i > q => a[i] = "space"
      <3> SUFFICES ASSUME NEW i \in 1..Len(a), i < p \/ i > q PROVE a[i] = "space"
        OBVIOUS
      <3>1. i \in 1..(n - 2) /\ i + 2 \in 3..n /\ (i + 2 < first \/ i + 2 > last)
        BY <1>2, <1>4, <2>1, <2>2
      <3> QED
        BY <1>4, <1>6, <3>1
    <2>4. p <= q => a[p] # "space" /\ a[q] # "space"
      <3> SUFFICES ASSUME p <= q PROVE a[p] # "space" /\ a[q] # "space"
        OBVIOUS
      <3>1. p \in 1..(n - 2) /\ q \in 1..(n - 2) /\ 1 \in 1..Len(b) /\ Len(b) \in 1..Len(b) /\ Len(b) \in Nat
            /\ (first + 1) - 1 = p + 2 /\ (first + Len(b)) - 1 = q + 2 /\ Len(b) > 0
        BY <1>2, <1>4, <1>8, <2>2
      <3>2. b[1] = a[p] /\ b[Len(b)] = a[q]
        BY <1>6, <1>8, <3>1
      <3>3. b # <<>>
        BY <3>1
      <3> QED
        BY <1>3, <1>9, <3>2, <3>3 DEF IsValue
    <2>5. TrimOptionalWhitespace(a) = SubSeq(a, p, q)
      BY <1>6, <2>2, <2>3, <2>4, TrimIs
    <2>6. SubSeq(a, p, q) = b
      <3>1. Len(b) = (q - p) + 1
        BY <1>8, <2>2
      <3>2. ASSUME NEW i \in 1..Len(b) PROVE b[i] = a[(p + i) - 1]
        <4>1. (p + i) - 1 \in 1..(n - 2) /\ ((p + i) - 1) + 2 = (first + i) - 1
          BY <1>2, <1>4, <2>2, <3>1
        <4> QED
          BY <1>6, <1>8, <4>1
      <3>3. a \in Seq(Token) /\ b \in Seq(Token)
        BY <1>6, <1>8
      <3> QED
        BY <2>2, <3>1, <3>2, <3>3, SubIs
    <2> QED
      BY <2>5, <2>6
  <1>14. \A i \in 1..n : text[i] # "crlf"
    <2> SUFFICES ASSUME NEW i \in 1..n PROVE text[i] # "crlf"
      OBVIOUS
    <2>1. CASE i \in first..last
      <3>1. (i - first) + 1 \in 1..Len(b) /\ (first + ((i - first) + 1)) - 1 = i /\ DOMAIN b = 1..Len(b)
        BY <1>4, <1>8, <2>1
      <3>2. b[(i - first) + 1] = text[i]
        BY <1>8, <3>1
      <3> QED
        BY <1>3, <1>9, <3>1, <3>2 DEF IsValue
    <2>2. CASE i \in 3..n /\ (i < first \/ i > last)
      BY <1>4, <2>2
    <2>3. i = 1 \/ i = 2 \/ i \in first..last \/ (i \in 3..n /\ (i < first \/ i > last))
      BY <1>2, <1>4
    <2> QED
      BY <1>3, <2>1, <2>2, <2>3
  <1>15. line.text \in Seq(Token) /\ line.text # <<>>
    <2>1. text \in Seq(Token) /\ Len(text) >= 2
      BY <1>2, <1>3
    <2>2. text # <<>>
      BY <2>1
    <2> QED
      BY <1>1, <2>1, <2>2
  <1> QED
    BY <1>1, <1>2, <1>9, <1>11, <1>12, <1>13, <1>14, <1>15 DEF GoodLine

-------------------------------------------------------------------------------
(* What is found *)

\* The lines of a name.
Hits(text, name) == {i \in LineStarts(text) : Named(LineAt(text, i), name)}
MeantAt(ls, name) == {i \in DOMAIN ls : ls[i].name = name}

\* A name is found in a text if and only if some of the lines give it a value, and
\* it is the value that is found.
Means(text, ls) ==
    \A name \in Sought :
        /\ Hits(text, name) = {} <=> MeantAt(ls, name) = {}
        /\ Hits(text, name) # {} => Find(text, name) = Meant(ls, name)

\* Lines that mean the same for every name that is looked for stay found.
LEMMA MeansSame ==
    ASSUME NEW text, NEW ls, Means(text, ls), NEW name \in Sought
    PROVE  Find(text, name) = Meant(ls, name)
  <1>1. CASE Hits(text, name) = {}
    <2>1. MeantAt(ls, name) = {}
      BY <1>1 DEF Means
    <2>2. Find(text, name) = NotFound
      BY <1>1 DEF Find, Hits
    <2>3. Meant(ls, name) = NotFound
      BY <2>1 DEF Meant, MeantAt
    <2> QED
      BY <2>2, <2>3
  <1>2. CASE Hits(text, name) # {}
    BY <1>2 DEF Means
  <1> QED
    BY <1>1, <1>2

\* Nothing is found in no lines.
LEMMA MeansNothing ==
    ASSUME NEW text, LineStarts(text) = {}
    PROVE  Means(text, <<>>)
  <1>1. \A name \in Sought : Hits(text, name) = {}
    BY DEF Hits
  <1>2. \A name \in Sought : MeantAt(<<>>, name) = {}
    BY DEF MeantAt
  <1> QED
    BY <1>1, <1>2 DEF Means

\* Found by a hit that is known to be the first.
LEMMA FindIs ==
    ASSUME NEW text, NEW name, NEW k \in Hits(text, name), Hits(text, name) \subseteq Int,
           \A i \in Hits(text, name) : k <= i
    PROVE  Find(text, name) = TrimOptionalWhitespace(Behind(<<":">>, LineAt(text, k)))
  <1>1. Min(Hits(text, name)) = k
    BY MinIs
  <1> QED
    BY <1>1 DEF Find, Hits

\* Meant by a line that is known to be the first with that name.
LEMMA MeantIs ==
    ASSUME NEW ls, NEW name, NEW k \in MeantAt(ls, name), MeantAt(ls, name) \subseteq Int,
           \A i \in MeantAt(ls, name) : k <= i
    PROVE  Meant(ls, name) = ls[k].value
  <1>1. Min(MeantAt(ls, name)) = k
    BY MinIs
  <1> QED
    BY <1>1 DEF Meant, MeantAt

\* A line more, in the text and among the lines.
LEMMA MeansMore ==
    ASSUME NEW L, NEW ls \in Seq(L), NEW line \in L, GoodLine(line),
           NEW h \in Seq(Token), h # <<>> => h[Len(h)] = "crlf", Means(h, ls)
    PROVE  Means(h \o (line.text \o Crlf), Append(ls, line))
  <1>1. PICK text : text = line.text
    OBVIOUS
  <1>2. /\ text \in Seq(Token) /\ text # <<>> /\ \A i \in 1..Len(text) : text[i] # "crlf"
    BY <1>1 DEF GoodLine
  <1>3. "crlf" \in Token
    BY DEF Token
  <1>4. PICK r : r = text \o Crlf
    OBVIOUS
  <1>5. LineStarts(r) = {1} /\ LineAt(r, 1) = text
    BY <1>2, <1>3, <1>4, OneLine
  <1>6. r \in Seq(Token)
    <2>1. Crlf \in Seq(Token)
      BY <1>3, OneToken DEF Crlf
    <2> QED
      BY <1>2, <1>4, <2>1, Cat
  <1>7. PICK s, m : s = h \o r /\ m = Len(h)
    OBVIOUS
  <1>8. m \in Nat /\ LineStarts(h) \subseteq 1..m
    BY <1>7 DEF LineStarts
  <1>9. /\ LineStarts(s) = LineStarts(h) \cup {m + 1}
        /\ (\A i \in LineStarts(h) : LineAt(s, i) = LineAt(h, i)) /\ LineAt(s, m + 1) = text
    <2>1. /\ LineStarts(h \o r) = LineStarts(h) \cup {Len(h) + i : i \in LineStarts(r)}
          /\ \A i \in LineStarts(h) : LineAt(h \o r, i) = LineAt(h, i)
          /\ \A i \in LineStarts(r) : LineAt(h \o r, Len(h) + i) = LineAt(r, i)
      BY <1>6, LinesBehind
    <2> QED
      BY <1>5, <1>7, <2>1
  <1>10. PICK k, more : k = Len(ls) /\ more = Append(ls, line)
    OBVIOUS
  <1>11. /\ k \in Nat /\ DOMAIN ls = 1..k /\ DOMAIN more = 1..(k + 1)
         /\ (\A i \in 1..k : more[i] = ls[i]) /\ more[k + 1] = line
    BY <1>10
  <1> SUFFICES ASSUME NEW name \in Sought
               PROVE  /\ Hits(s, name) = {} <=> MeantAt(more, name) = {}
                      /\ Hits(s, name) # {} => Find(s, name) = Meant(more, name)
    BY <1>1, <1>4, <1>7, <1>10 DEF Means
  <1>12. /\ Hits(h, name) = {} <=> MeantAt(ls, name) = {}
         /\ Hits(h, name) # {} => Find(h, name) = Meant(ls, name)
    BY DEF Means
  <1>13. Named(text, name) <=> line.name = name
    BY <1>1 DEF GoodLine
  <1>14. /\ Hits(h, name) \subseteq 1..m
         /\ Hits(s, name) = Hits(h, name) \cup {i \in {m + 1} : Named(text, name)}
    BY <1>8, <1>9 DEF Hits
  <1>15. /\ MeantAt(ls, name) \subseteq 1..k
         /\ MeantAt(more, name) = MeantAt(ls, name) \cup {i \in {k + 1} : line.name = name}
    BY <1>11 DEF MeantAt
  <1>16. CASE Hits(h, name) # {}
    <2>1. PICK x : x = Min(Hits(h, name))
      OBVIOUS
    <2>2. x \in Hits(h, name) /\ \A y \in Hits(h, name) : x <= y
      <3>1. Hits(h, name) \subseteq Nat
        BY <1>8, <1>14
      <3> QED
        BY <1>16, <2>1, <3>1, MinExists
    <2>3. PICK z : z = Min(MeantAt(ls, name))
      OBVIOUS
    <2>4. z \in MeantAt(ls, name) /\ \A y \in MeantAt(ls, name) : z <= y
      <3>1. MeantAt(ls, name) \subseteq Nat /\ MeantAt(ls, name) # {}
        BY <1>11, <1>12, <1>15, <1>16
      <3> QED
        BY <2>3, <3>1, MinExists
    <2>5. x \in 1..m /\ x \in LineStarts(h) /\ x \in Int /\ x <= m + 1
      BY <1>8, <1>14, <2>2 DEF Hits
    <2>6. z \in 1..k /\ z \in Int /\ z <= k + 1
      BY <1>11, <1>15, <2>4
    <2>7. x \in Hits(s, name) /\ Hits(s, name) \subseteq Int /\ \A y \in Hits(s, name) : x <= y
      BY <1>8, <1>14, <2>2, <2>5
    <2>8. z \in MeantAt(more, name) /\ MeantAt(more, name) \subseteq Int
          /\ \A y \in MeantAt(more, name) : z <= y
      BY <1>11, <1>15, <2>4, <2>6
    <2>9. Find(s, name) = TrimOptionalWhitespace(Behind(<<":">>, LineAt(s, x)))
      BY <2>7, FindIs
    <2>10. Find(h, name) = TrimOptionalWhitespace(Behind(<<":">>, LineAt(h, x)))
      <3>1. Hits(h, name) \subseteq Int
        BY <1>8, <1>14
      <3> QED
        BY <2>2, <3>1, FindIs
    <2>11. Meant(more, name) = more[z].value
      BY <2>8, MeantIs
    <2>12. Meant(ls, name) = ls[z].value
      <3>1. MeantAt(ls, name) \subseteq Int
        BY <1>11, <1>15
      <3> QED
        BY <2>4, <3>1, MeantIs
    <2>13. LineAt(s, x) = LineAt(h, x) /\ more[z] = ls[z]
      BY <1>9, <1>11, <2>5, <2>6
    <2> QED
      BY <1>12, <1>16, <2>7, <2>8, <2>9, <2>10, <2>11, <2>12, <2>13
  <1>17. CASE Hits(h, name) = {} /\ line.name = name
    <2>1. Hits(s, name) = {m + 1} /\ MeantAt(more, name) = {k + 1}
      BY <1>12, <1>13, <1>14, <1>15, <1>17
    <2>2. m + 1 \in Int /\ k + 1 \in Int /\ m + 1 <= m + 1 /\ k + 1 <= k + 1
      BY <1>8, <1>11
    <2>3. Find(s, name) = TrimOptionalWhitespace(Behind(<<":">>, LineAt(s, m + 1)))
      <3>1. m + 1 \in Hits(s, name) /\ Hits(s, name) \subseteq Int /\ \A y \in Hits(s, name) : m + 1 <= y
        BY <2>1, <2>2
      <3> QED
        BY <3>1, FindIs
    <2>4. Meant(more, name) = more[k + 1].value
      <3>1. k + 1 \in MeantAt(more, name) /\ MeantAt(more, name) \subseteq Int
            /\ \A y \in MeantAt(more, name) : k + 1 <= y
        BY <2>1, <2>2
      <3> QED
        BY <3>1, MeantIs
    <2>5. TrimOptionalWhitespace(Behind(<<":">>, text)) = line.value
      BY <1>1, <1>17 DEF GoodLine
    <2> QED
      BY <1>9, <1>11, <2>1, <2>3, <2>4, <2>5
  <1>18. CASE Hits(h, name) = {} /\ line.name # name
    <2>1. Hits(s, name) = {} /\ MeantAt(more, name) = {}
      BY <1>12, <1>13, <1>14, <1>15, <1>18
    <2> QED
      BY <2>1
  <1> QED
    BY <1>16, <1>17, <1>18

\* A last line that lacks its end is found all the same.
LEMMA MeansUnended ==
    ASSUME NEW l \in Seq(Token), l # <<>>, \A i \in 1..Len(l) : l[i] # "crlf",
           NEW ls, Means(l \o Crlf, ls)
    PROVE  Means(l, ls)
  <1>1. "crlf" \in Token
    BY DEF Token
  <1>2. /\ LineStarts(l) = {1} /\ LineAt(l, 1) = l
        /\ LineStarts(l \o Crlf) = {1} /\ LineAt(l \o Crlf, 1) = l
    BY <1>1, OneLine
  <1>3. \A name \in Sought : Hits(l \o Crlf, name) = Hits(l, name)
    BY <1>2 DEF Hits
  <1>4. ASSUME NEW name \in Sought, Hits(l, name) # {} PROVE Find(l, name) = Find(l \o Crlf, name)
    <2>1. Hits(l, name) = {1}
      BY <1>2, <1>4 DEF Hits
    <2>2. /\ 1 \in Hits(l, name) /\ 1 \in Hits(l \o Crlf, name)
          /\ Hits(l, name) \subseteq Int /\ Hits(l \o Crlf, name) \subseteq Int
          /\ (\A i \in Hits(l, name) : 1 <= i) /\ \A i \in Hits(l \o Crlf, name) : 1 <= i
      BY <1>3, <2>1
    <2>3. Find(l, name) = TrimOptionalWhitespace(Behind(<<":">>, LineAt(l, 1)))
      BY <2>2, FindIs
    <2>4. Find(l \o Crlf, name) = TrimOptionalWhitespace(Behind(<<":">>, LineAt(l \o Crlf, 1)))
      BY <2>2, FindIs
    <2> QED
      BY <1>2, <2>3, <2>4
  <1> QED
    BY <1>3, <1>4 DEF Means

-------------------------------------------------------------------------------
(* Whole lines *)

\* No line of a text is empty; the text is whole lines; it is one line that lacks its
\* end.
NoBlank(text) == \A i \in 1..(Len(text) - 1) : text[i] = "crlf" => text[i + 1] # "crlf"
Lined(text) ==
    text # <<>> => text[1] # "crlf" /\ text[Len(text)] = "crlf" /\ NoBlank(text)
Unended(text) == text # <<>> /\ \A i \in 1..Len(text) : text[i] # "crlf"

\* The two separators of http.
LEMMA CrlfIs ==
    /\ "crlf" \in Token /\ "start" \in Token
    /\ Crlf \in Seq(Token) /\ Len(Crlf) = 1 /\ Crlf[1] = "crlf"
    /\ Terminator = <<"crlf", "crlf">>
  <1>1. "crlf" \in Token /\ "start" \in Token
    BY DEF Token
  <1>2. Crlf \in Seq(Token) /\ Len(Crlf) = 1 /\ Crlf[1] = "crlf"
    BY <1>1, OneToken DEF Crlf
  <1>3. Crlf \o Crlf = <<"crlf", "crlf">>
    <2>1. /\ Crlf \o Crlf \in Seq(Token) /\ Len(Crlf \o Crlf) = 2
          /\ (Crlf \o Crlf)[1] = "crlf" /\ (Crlf \o Crlf)[2] = "crlf"
      <3>1. PICK c : c = Crlf
        OBVIOUS
      <3>2. c \in Seq(Token) /\ Len(c) = 1 /\ c[1] = "crlf"
        BY <1>2, <3>1
      <3>3. /\ c \o c \in Seq(Token) /\ Len(c \o c) = Len(c) + Len(c)
            /\ \A i \in 1..Len(c) : (c \o c)[i] = c[i]
            /\ \A i \in 1..Len(c) : (c \o c)[Len(c) + i] = c[i]
        BY <3>2, Cat
      <3>4. 1 \in 1..1 /\ 1 + 1 = 2
        OBVIOUS
      <3> QED
        BY <3>1, <3>2, <3>3, <3>4
    <2>2. /\ <<"crlf", "crlf">> \in Seq(Token) /\ Len(<<"crlf", "crlf">>) = 2
          /\ <<"crlf", "crlf">>[1] = "crlf" /\ <<"crlf", "crlf">>[2] = "crlf"
      BY <1>1, TwoTokens
    <2>3. \A i \in 1..2 : i = 1 \/ i = 2
      OBVIOUS
    <2> QED
      BY <2>1, <2>2, <2>3, SameSeq
  <1> QED
    BY <1>1, <1>2, <1>3 DEF Terminator

\* A text without empty lines holds no terminator.
LEMMA Blanks ==
    ASSUME NEW text \in Seq(Token)
    PROVE  /\ Occurs(Terminator, text) =
                {i \in 1..(Len(text) - 1) : text[i] = "crlf" /\ text[i + 1] = "crlf"}
           /\ Occurs(Terminator, text) = {} <=> NoBlank(text)
  <1>1. Occurs(Terminator, text) =
            {i \in 1..(Len(text) - 1) : text[i] = "crlf" /\ text[i + 1] = "crlf"}
    BY CrlfIs, OccursTwo
  <1> QED
    BY <1>1 DEF NoBlank

\* The line ends of a text.
LEMMA Ends ==
    ASSUME NEW text \in Seq(Token)
    PROVE  Occurs(Crlf, text) = {i \in 1..Len(text) : text[i] = "crlf"}
  BY OccursOne DEF Crlf

\* A line more leaves whole lines.
LEMMA LinedMore ==
    ASSUME NEW h \in Seq(Token), Lined(h), NEW l \in Seq(Token), Unended(l)
    PROVE  Lined(h \o (l \o Crlf)) /\ h \o (l \o Crlf) \in Seq(Token) /\ h \o (l \o Crlf) # <<>>
  <1>1. PICK m, n : m = Len(h) /\ n = Len(l)
    OBVIOUS
  <1>2. m \in Nat /\ n \in Nat /\ n >= 1 /\ (m > 0 <=> h # <<>>)
    BY <1>1 DEF Unended
  <1>3. PICK r : r = l \o Crlf
    OBVIOUS
  <1>4. r \in Seq(Token) /\ Len(r) = n + 1 /\ (\A i \in 1..n : r[i] = l[i]) /\ r[n + 1] = "crlf"
    <2>1. Crlf \in Seq(Token) /\ Len(Crlf) = 1 /\ Crlf[1] = "crlf"
      BY CrlfIs
    <2>2. /\ l \o Crlf \in Seq(Token) /\ Len(l \o Crlf) = Len(l) + Len(Crlf)
          /\ \A i \in 1..Len(l) : (l \o Crlf)[i] = l[i]
          /\ \A i \in 1..Len(Crlf) : (l \o Crlf)[Len(l) + i] = Crlf[i]
      BY <2>1, Cat
    <2> QED
      BY <1>1, <1>3, <2>1, <2>2
  <1>5. PICK s : s = h \o r
    OBVIOUS
  <1>6. /\ s \in Seq(Token) /\ Len(s) = m + (n + 1) /\ (\A i \in 1..m : s[i] = h[i])
        /\ \A i \in 1..(n + 1) : s[m + i] = r[i]
    <2>1. r \in Seq(Token)
      BY <1>4
    <2>2. /\ h \o r \in Seq(Token) /\ Len(h \o r) = Len(h) + Len(r)
          /\ \A i \in 1..Len(h) : (h \o r)[i] = h[i]
          /\ \A i \in 1..Len(r) : (h \o r)[Len(h) + i] = r[i]
      BY <2>1, Cat
    <2> QED
      BY <1>1, <1>4, <1>5, <2>2
  <1>7. \A i \in 1..n : r[i] # "crlf"
    BY <1>1, <1>4 DEF Unended
  <1>8. s # <<>>
    BY <1>2, <1>6
  <1>9. s[1] # "crlf"
    <2>1. CASE m = 0
      <3>1. 1 \in 1..n /\ 1 \in 1..(n + 1) /\ m + 1 = 1
        BY <1>2, <2>1
      <3> QED
        BY <1>6, <1>7, <3>1
    <2>2. CASE m > 0
      <3>1. 1 \in 1..m
        BY <1>2, <2>2
      <3> QED
        BY <1>2, <1>6, <2>2, <3>1 DEF Lined
    <2> QED
      BY <1>2, <2>1, <2>2
  <1>10. s[Len(s)] = "crlf"
    <2>1. n + 1 \in 1..(n + 1)
      BY <1>2
    <2> QED
      BY <1>4, <1>6, <2>1
  <1>11. NoBlank(s)
    <2> SUFFICES ASSUME NEW i \in 1..(Len(s) - 1), s[i] = "crlf" PROVE s[i + 1] # "crlf"
      BY DEF NoBlank
    <2>1. CASE i < m
      <3>1. i \in 1..m /\ i + 1 \in 1..m /\ i \in 1..(m - 1) /\ m > 0
        BY <1>2, <1>6, <2>1
      <3>2. h[i] = "crlf" => h[i + 1] # "crlf"
        BY <1>1, <1>2, <3>1 DEF Lined, NoBlank
      <3> QED
        BY <1>6, <3>1, <3>2
    <2>2. CASE i = m
      <3>1. 1 \in 1..n /\ 1 \in 1..(n + 1)
        BY <1>2
      <3> QED
        BY <1>6, <1>7, <2>2, <3>1
    <2>3. CASE i > m
      <3>1. i - m \in 1..n /\ i - m \in 1..(n + 1) /\ m + (i - m) = i
        BY <1>2, <1>6, <2>3
      <3> QED
        BY <1>6, <1>7, <3>1, SMTT(40)
    <2> QED
      BY <1>2, <2>1, <2>2, <2>3
  <1> QED
    BY <1>3, <1>5, <1>6, <1>8, <1>9, <1>10, <1>11 DEF Lined

\* The blank line behind whole lines is the first one.
LEMMA FirstBlank ==
    ASSUME NEW h \in Seq(Token), Lined(h), h # <<>>, NEW x \in Seq(Token)
    PROVE  /\ h \o (Crlf \o x) \in Seq(Token) /\ Len(h \o (Crlf \o x)) = Len(h) + (1 + Len(x))
           /\ Occurs(Terminator, h \o (Crlf \o x)) # {}
           /\ Min(Occurs(Terminator, h \o (Crlf \o x))) = Len(h)
           /\ SubSeq(h \o (Crlf \o x), 1, Len(h)) = h
           /\ SubSeq(h \o (Crlf \o x), 1, Len(h) + 1) = h \o Crlf
           /\ SubSeq(h \o (Crlf \o x), Len(h) + 2, Len(h \o (Crlf \o x))) = x
  <1>1. PICK m, n : m = Len(h) /\ n = Len(x)
    OBVIOUS
  <1>2. m \in Nat /\ n \in Nat /\ m >= 1
    BY <1>1
  <1>3. Crlf \in Seq(Token) /\ Len(Crlf) = 1 /\ Crlf[1] = "crlf"
    BY CrlfIs
  <1>4. PICK r, hc : r = Crlf \o x /\ hc = h \o Crlf
    OBVIOUS
  <1>5. /\ r \in Seq(Token) /\ Len(r) = 1 + n /\ r[1] = "crlf" /\ \A i \in 1..n : r[1 + i] = x[i]
    <2>0. Crlf \in Seq(Token) /\ x \in Seq(Token)
      BY <1>3
    <2>1. /\ Crlf \o x \in Seq(Token) /\ Len(Crlf \o x) = Len(Crlf) + Len(x)
          /\ \A i \in 1..Len(Crlf) : (Crlf \o x)[i] = Crlf[i]
          /\ \A i \in 1..Len(x) : (Crlf \o x)[Len(Crlf) + i] = x[i]
      BY <2>0, Cat
    <2>2. 1 \in 1..1
      OBVIOUS
    <2> QED
      BY <1>1, <1>3, <1>4, <2>1, <2>2
  <1>6. /\ hc \in Seq(Token) /\ Len(hc) = m + 1 /\ (\A i \in 1..m : hc[i] = h[i]) /\ hc[m + 1] = "crlf"
    <2>0. h \in Seq(Token) /\ Crlf \in Seq(Token)
      BY <1>3
    <2>1. /\ h \o Crlf \in Seq(Token) /\ Len(h \o Crlf) = Len(h) + Len(Crlf)
          /\ \A i \in 1..Len(h) : (h \o Crlf)[i] = h[i]
          /\ \A i \in 1..Len(Crlf) : (h \o Crlf)[Len(h) + i] = Crlf[i]
      BY <2>0, Cat
    <2>2. 1 \in 1..1
      OBVIOUS
    <2> QED
      BY <1>1, <1>3, <1>4, <2>1, <2>2
  <1>7. PICK s : s = h \o r
    OBVIOUS
  <1>8. /\ s \in Seq(Token) /\ Len(s) = m + (1 + n) /\ (\A i \in 1..m : s[i] = h[i])
        /\ \A i \in 1..(1 + n) : s[m + i] = r[i]
    <2>1. r \in Seq(Token)
      BY <1>5
    <2>2. /\ h \o r \in Seq(Token) /\ Len(h \o r) = Len(h) + Len(r)
          /\ \A i \in 1..Len(h) : (h \o r)[i] = h[i]
          /\ \A i \in 1..Len(r) : (h \o r)[Len(h) + i] = r[i]
      BY <2>1, Cat
    <2> QED
      BY <1>1, <1>5, <1>7, <2>2
  <1>9. s[m + 1] = "crlf"
    <2>1. 1 \in 1..(1 + n)
      BY <1>2
    <2> QED
      BY <1>5, <1>8, <2>1
  <1>10. Occurs(Terminator, s) = {i \in 1..(Len(s) - 1) : s[i] = "crlf" /\ s[i + 1] = "crlf"}
    <2>1. s \in Seq(Token)
      BY <1>8
    <2> QED
      BY <2>1, Blanks
  <1>11. m \in Occurs(Terminator, s)
    <2>1. m \in 1..(Len(s) - 1) /\ m \in 1..m
      BY <1>2, <1>8
    <2>2. s[m] = "crlf"
      BY <1>1, <1>8, <2>1 DEF Lined
    <2> QED
      BY <1>9, <1>10, <2>1, <2>2
  <1>12. ASSUME NEW i \in Occurs(Terminator, s) PROVE m <= i
    <2>1. i \in 1..(Len(s) - 1) /\ s[i] = "crlf" /\ s[i + 1] = "crlf"
      BY <1>10
    <2> SUFFICES ASSUME i < m PROVE FALSE
      BY <1>2, <2>1
    <2>2. i \in 1..(m - 1) /\ i \in 1..m /\ i + 1 \in 1..m
      BY <1>2, <2>1
    <2>3. h[i] = "crlf" /\ h[i + 1] = "crlf"
      BY <1>8, <2>1, <2>2
    <2> QED
      BY <1>1, <2>2, <2>3 DEF Lined, NoBlank
  <1>13. Min(Occurs(Terminator, s)) = m
    <2>1. Occurs(Terminator, s) \subseteq Int
      BY <1>10
    <2> QED
      BY <1>11, <1>12, <2>1, MinIs
  <1>14. SubSeq(s, 1, m) = h
    <2>1. 1 \in Int /\ m \in Int /\ 1 <= 1 /\ 1 <= m + 1 /\ m <= Len(s) /\ Len(h) = (m - 1) + 1
      BY <1>1, <1>2, <1>8
    <2>2. \A i \in 1..Len(h) : h[i] = s[(1 + i) - 1]
      <3>1. \A i \in 1..m : (1 + i) - 1 = i
        BY <1>2
      <3> QED
        BY <1>1, <1>8, <3>1
    <2>3. s \in Seq(Token)
      BY <1>8
    <2> QED
      BY <2>1, <2>2, <2>3, SubIs
  <1>15. SubSeq(s, 1, m + 1) = hc
    <2>1. 1 \in Int /\ m + 1 \in Int /\ 1 <= 1 /\ 1 <= (m + 1) + 1 /\ m + 1 <= Len(s)
          /\ Len(hc) = ((m + 1) - 1) + 1
      BY <1>2, <1>6, <1>8
    <2>2. ASSUME NEW i \in 1..Len(hc) PROVE hc[i] = s[(1 + i) - 1]
      <3>1. (1 + i) - 1 = i /\ (i \in 1..m \/ i = m + 1)
        BY <1>2, <1>6
      <3> QED
        BY <1>6, <1>8, <1>9, <3>1
    <2>3. s \in Seq(Token) /\ hc \in Seq(Token)
      BY <1>6, <1>8
    <2> QED
      BY <2>1, <2>2, <2>3, SubIs
  <1>16. SubSeq(s, m + 2, Len(s)) = x
    <2>1. m + 2 \in Int /\ Len(s) \in Int /\ 1 <= m + 2 /\ m + 2 <= Len(s) + 1 /\ Len(s) <= Len(s)
          /\ Len(x) = (Len(s) - (m + 2)) + 1
      BY <1>1, <1>2, <1>8
    <2>2. ASSUME NEW i \in 1..Len(x) PROVE x[i] = s[((m + 2) + i) - 1]
      <3>1. ((m + 2) + i) - 1 = m + (1 + i) /\ 1 + i \in 1..(1 + n) /\ i \in 1..n
        BY <1>1, <1>2
      <3> QED
        BY <1>5, <1>8, <3>1
    <2>3. s \in Seq(Token)
      BY <1>8
    <2> QED
      BY <2>1, <2>2, <2>3, SubIs
  <1> QED
    BY <1>1, <1>4, <1>7, <1>8, <1>11, <1>13, <1>14, <1>15, <1>16

-------------------------------------------------------------------------------
(* Parsing the header block *)

\* Texts are put together in any order; an empty one adds nothing.
LEMMA Assoc ==
    ASSUME NEW T, NEW a \in Seq(T), NEW b \in Seq(T), NEW c \in Seq(T)
    PROVE  (a \o b) \o c = a \o (b \o c)
  BY ConcatAssociative

\* Nothing put before or behind a text leaves it as it is.
LEMMA Empty ==
    ASSUME NEW T, NEW a \in Seq(T)
    PROVE  a \o <<>> = a /\ <<>> \o a = a /\ <<>> \in Seq(T)
  BY ConcatEmptySeq, EmptySeq

\* What http_headers_parse leaves of the texts that it is given.
LEMMA ParseLined ==
    ASSUME NEW h \in Seq(Token), Lined(h)
    PROVE  HeadersParse(h) = h
  <1>1. Len(h) \in Nat
    OBVIOUS
  <1>2. CASE h = <<>>
    <2>1. Len(h) = 0
      BY <1>2
    <2>2. Occurs(Terminator, h) = {} /\ Occurs(Crlf, h) = {}
      <3>1. Occurs(Terminator, h) = {i \in 1..(Len(h) - 1) : h[i] = "crlf" /\ h[i + 1] = "crlf"}
        BY Blanks
      <3>2. Occurs(Crlf, h) = {i \in 1..Len(h) : h[i] = "crlf"}
        BY Ends
      <3>3. 1..(Len(h) - 1) = {} /\ 1..Len(h) = {}
        BY <2>1
      <3> QED
        BY <3>1, <3>2, <3>3
    <2> QED
      BY <2>2 DEF HeadersParse
  <1>3. CASE h # <<>>
    <2>1. Occurs(Terminator, h) = {}
      BY <1>3, Blanks DEF Lined
    <2>2. Occurs(Crlf, h) = {i \in 1..Len(h) : h[i] = "crlf"}
      BY Ends
    <2>3. /\ Len(h) \in Occurs(Crlf, h) /\ Occurs(Crlf, h) \subseteq Int
          /\ \A i \in Occurs(Crlf, h) : i <= Len(h)
      <3>1. h[Len(h)] = "crlf" /\ Len(h) \in 1..Len(h)
        BY <1>1, <1>3 DEF Lined
      <3> QED
        BY <1>1, <2>2, <3>1
    <2>4. Max(Occurs(Crlf, h)) = Len(h)
      BY <1>1, <2>3, MaxIs
    <2>5. SubSeq(h, 1, Len(h)) = h
      BY Whole
    <2> QED
      BY <2>1, <2>3, <2>4, <2>5 DEF HeadersParse
  <1> QED
    BY <1>2, <1>3

\* The blank line behind whole lines is left out ...
LEMMA ParseBlank ==
    ASSUME NEW h \in Seq(Token), Lined(h), h # <<>>
    PROVE  HeadersParse(h \o Crlf) = h
  <1>1. <<>> \in Seq(Token) /\ Len(<<>>) = 0 /\ Crlf \o <<>> = Crlf
    BY CrlfIs, Empty
  <1>2. PICK s : s = h \o Crlf
    OBVIOUS
  <1>3. /\ s \in Seq(Token) /\ Len(s) = Len(h) + (1 + 0) /\ Occurs(Terminator, s) # {}
        /\ Min(Occurs(Terminator, s)) = Len(h) /\ SubSeq(s, 1, Len(h)) = h
    <2>1. PICK x : x = <<>>
      OBVIOUS
    <2>2. x \in Seq(Token) /\ Len(x) = 0 /\ Crlf \o x = Crlf
      BY <1>1, <2>1
    <2>3. /\ h \o (Crlf \o x) \in Seq(Token) /\ Len(h \o (Crlf \o x)) = Len(h) + (1 + Len(x))
          /\ Occurs(Terminator, h \o (Crlf \o x)) # {}
          /\ Min(Occurs(Terminator, h \o (Crlf \o x))) = Len(h)
          /\ SubSeq(h \o (Crlf \o x), 1, Len(h)) = h
      BY <2>2, FirstBlank
    <2> QED
      BY <1>2, <2>2, <2>3
  <1>4. Occurs(Terminator, s) = {i \in 1..(Len(s) - 1) : s[i] = "crlf" /\ s[i + 1] = "crlf"}
    <2>1. s \in Seq(Token)
      BY <1>3
    <2> QED
      BY <2>1, Blanks
  <1>5. PICK m \in Nat : m = Len(h)
    OBVIOUS
  <1>6. Occurs(Terminator, s) \subseteq 1..m
    BY <1>3, <1>4, <1>5
  <1>7. m \in Occurs(Terminator, s)
    <2>1. Occurs(Terminator, s) \subseteq Nat
      BY <1>6
    <2> QED
      BY <1>3, <1>5, <2>1, MinExists
  <1>8. Max(Occurs(Terminator, s)) = m
    <2>1. Occurs(Terminator, s) \subseteq Int /\ \A i \in Occurs(Terminator, s) : i <= m
      BY <1>5, <1>6
    <2> QED
      BY <1>7, <2>1, MaxIs
  <1> QED
    BY <1>2, <1>3, <1>5, <1>8 DEF HeadersParse

\* A block of no lines keeps the line end behind the head.
LEMMA ParseCrlf == HeadersParse(Crlf) = Crlf /\ Occurs(Terminator, Crlf) = {} /\ LineStarts(Crlf) = {}
  <1>1. Crlf \in Seq(Token) /\ Len(Crlf) = 1 /\ Crlf[1] = "crlf" /\ DOMAIN Crlf = 1..1
    BY CrlfIs
  <1>2. PICK s : s = Crlf
    OBVIOUS
  <1>3. s \in Seq(Token) /\ Len(s) = 1 /\ s[1] = "crlf" /\ DOMAIN s = 1..1
    BY <1>1, <1>2
  <1>4. Occurs(Terminator, s) = {}
    <2>1. s \in Seq(Token)
      BY <1>3
    <2>2. Occurs(Terminator, s) = {i \in 1..(Len(s) - 1) : s[i] = "crlf" /\ s[i + 1] = "crlf"}
      BY <2>1, Blanks
    <2> QED
      BY <1>3, <2>2
  <1>5. Occurs(Crlf, s) = {1}
    <2>1. s \in Seq(Token)
      BY <1>3
    <2>2. Occurs(Crlf, s) = {i \in 1..Len(s) : s[i] = "crlf"}
      BY <2>1, Ends
    <2> QED
      BY <1>3, <2>2
  <1>6. Max(Occurs(Crlf, s)) = 1
    BY <1>5, MaxIs
  <1>7. SubSeq(s, 1, 1) = s
    <2>1. s \in Seq(Token)
      BY <1>3
    <2>2. SubSeq(s, 1, Len(s)) = s
      BY <2>1, Whole
    <2> QED
      BY <1>3, <2>2
  <1>8. LineStarts(s) = {}
    BY <1>3 DEF LineStarts
  <1>9. HeadersParse(s) = s
    BY <1>4, <1>5, <1>6, <1>7 DEF HeadersParse
  <1> QED
    BY <1>2, <1>4, <1>8, <1>9

\* ... and a line without an end is kept as it is.
LEMMA ParseUnended ==
    ASSUME NEW l \in Seq(Token), Unended(l)
    PROVE  HeadersParse(l) = l /\ Occurs(Terminator, l) = {} /\ Occurs(Crlf, l) = {}
  <1>1. Len(l) \in Nat
    OBVIOUS
  <1>2. Occurs(Crlf, l) = {}
    BY Ends DEF Unended
  <1>3. NoBlank(l)
    BY <1>1 DEF Unended, NoBlank
  <1>4. Occurs(Terminator, l) = {}
    BY <1>3, Blanks
  <1> QED
    BY <1>2, <1>4 DEF HeadersParse

StartLine == <<"start", "crlf">>

\* The start line, token by token.
LEMMA StartLineIs ==
    /\ StartLine \in Seq(Token) /\ Len(StartLine) = 2
    /\ StartLine[1] = "start" /\ StartLine[2] = "crlf"
  BY CrlfIs, TwoTokens DEF StartLine

\* What is behind the start line is the rest of the message.
LEMMA BehindStart ==
    ASSUME NEW x \in Seq(Token)
    PROVE  StartLine \o x \in Seq(Token) /\ Behind(Crlf, StartLine \o x) = x
  <1>1. PICK a : a = <<"start">>
    OBVIOUS
  <1>2. a \in Seq(Token) /\ Len(a) = 1 /\ a[1] = "start" /\ \A i \in 1..Len(a) : a[i] # "crlf"
    <2>1. <<"start">> \in Seq(Token) /\ Len(<<"start">>) = 1 /\ <<"start">>[1] = "start"
      BY CrlfIs, OneToken
    <2>2. \A i \in 1..1 : i = 1
      OBVIOUS
    <2> QED
      BY <1>1, <2>1, <2>2
  <1>3. a \o Crlf = StartLine
    <2>1. a \in Seq(Token) /\ Crlf \in Seq(Token)
      BY <1>2, CrlfIs
    <2>2. /\ a \o Crlf \in Seq(Token) /\ Len(a \o Crlf) = Len(a) + Len(Crlf)
          /\ \A i \in 1..Len(a) : (a \o Crlf)[i] = a[i]
          /\ \A i \in 1..Len(Crlf) : (a \o Crlf)[Len(a) + i] = Crlf[i]
      BY <2>1, Cat
    <2>3. Len(Crlf) = 1 /\ Crlf[1] = "crlf"
      BY CrlfIs
    <2>4. 1 \in 1..1 /\ 1 + 1 = 2 /\ \A i \in 1..2 : i = 1 \/ i = 2
      OBVIOUS
    <2>5. /\ a \o Crlf \in Seq(Token) /\ Len(a \o Crlf) = 2
          /\ (a \o Crlf)[1] = "start" /\ (a \o Crlf)[2] = "crlf"
      BY <1>2, <2>2, <2>3, <2>4
    <2> QED
      BY <2>4, <2>5, StartLineIs, SameSeq
  <1>4. Behind(<<"crlf">>, a \o <<"crlf">> \o x) = x
    <2>1. a \in Seq(Token) /\ "crlf" \in Token
      BY <1>2, CrlfIs
    <2> QED
      BY <1>2, <2>1, Split
  <1>5. StartLine \o x \in Seq(Token)
    BY StartLineIs, Cat
  <1> QED
    BY <1>3, <1>4, <1>5 DEF Crlf

\* The start line is as good as a header line.
LEMMA StartLined ==
    ASSUME NEW h \in Seq(Token)
    PROVE  /\ StartLine \o h \in Seq(Token) /\ StartLine \o h # <<>>
           /\ Lined(h) => Lined(StartLine \o h)
           /\ Unended(h) => NoBlank(StartLine \o h)
  <1>1. PICK m \in Nat : m = Len(h)
    OBVIOUS
  <1>2. PICK s : s = StartLine \o h
    OBVIOUS
  <1>3. /\ s \in Seq(Token) /\ Len(s) = 2 + m /\ s[1] = "start" /\ s[2] = "crlf"
        /\ \A i \in 1..m : s[2 + i] = h[i]
    <2>1. StartLine \in Seq(Token)
      BY StartLineIs
    <2>2. /\ StartLine \o h \in Seq(Token) /\ Len(StartLine \o h) = Len(StartLine) + Len(h)
          /\ \A i \in 1..Len(StartLine) : (StartLine \o h)[i] = StartLine[i]
          /\ \A i \in 1..Len(h) : (StartLine \o h)[Len(StartLine) + i] = h[i]
      BY <2>1, Cat
    <2>3. 1 \in 1..2 /\ 2 \in 1..2
      OBVIOUS
    <2> QED
      BY <1>1, <1>2, <2>2, <2>3, StartLineIs
  <1>4. s # <<>>
    BY <1>3
  <1>5. ASSUME h # <<>> => h[1] # "crlf" /\ NoBlank(h) PROVE NoBlank(s)
    <2> SUFFICES ASSUME NEW i \in 1..(Len(s) - 1), s[i] = "crlf" PROVE s[i + 1] # "crlf"
      BY DEF NoBlank
    <2>1. CASE i = 1
      BY <1>3, <2>1
    <2>2. CASE i = 2
      <3>1. 1 \in 1..m /\ 2 + 1 = i + 1 /\ m > 0
        BY <1>3, <2>2
      <3>2. h # <<>>
        BY <1>1, <3>1
      <3> QED
        BY <1>3, <1>5, <3>1, <3>2
    <2>3. CASE i > 2
      <3>1. /\ i - 2 \in 1..m /\ i - 2 \in 1..(m - 1) /\ (i - 2) + 1 \in 1..m
            /\ 2 + (i - 2) = i /\ 2 + ((i - 2) + 1) = i + 1 /\ m > 0
        BY <1>3, <2>3
      <3>2. h # <<>>
        BY <1>1, <3>1
      <3>3. h[i - 2] = "crlf" => h[(i - 2) + 1] # "crlf"
        BY <1>1, <1>5, <3>1, <3>2 DEF NoBlank
      <3> QED
        BY <1>3, <3>1, <3>3
    <2> QED
      BY <1>3, <2>1, <2>2, <2>3
  <1>6. ASSUME Lined(h) PROVE Lined(s)
    <2>1. NoBlank(s)
      BY <1>5, <1>6 DEF Lined
    <2>2. s[Len(s)] = "crlf"
      <3>1. CASE m = 0
        BY <1>3, <3>1
      <3>2. CASE m > 0
        <4>1. m \in 1..m /\ h # <<>>
          BY <1>1, <3>2
        <4> QED
          BY <1>1, <1>3, <1>6, <4>1 DEF Lined
      <3> QED
        BY <3>1, <3>2
    <2> QED
      BY <1>3, <2>1, <2>2 DEF Lined
  <1>7. ASSUME Unended(h) PROVE NoBlank(s)
    <2>1. m >= 1 /\ 1 \in 1..m /\ h[1] # "crlf"
      BY <1>1, <1>7 DEF Unended
    <2>2. NoBlank(h)
      BY <1>7 DEF Unended, NoBlank
    <2> QED
      BY <1>5, <2>1, <2>2
  <1> QED
    BY <1>2, <1>3, <1>4, <1>6, <1>7

-------------------------------------------------------------------------------
(* The invariant *)

\* Every line that is added or written.
AllLines == PeerLines \cup {Line(<<name, ":", "space">> \o value, name, value) :
                               name \in Names, value \in Values}

\* The header lines that are to be sent.
Unsent == IF draft = <<>> THEN block ELSE draft

\* How a message may be on its way: with its blank line and its body, without the blank
\* line, without the end of its only header line.
SentWhole == wire = StartLine \o (Unsent \o (Crlf \o sent))
LacksBlank == sent = <<>> /\ lines # <<>> /\ wire = StartLine \o Unsent
LacksEnd == sent = <<>> /\ Len(lines) = 1 /\ wire = StartLine \o lines[1].text

\* What is to be sent is whole lines, and they mean what was added or written.
Written ==
    /\ block = <<>> \/ draft = <<>>
    /\ Unsent \in Seq(Token) /\ Lined(Unsent) /\ Means(Unsent, lines)
    /\ lines = <<>> <=> Unsent = <<>>
    /\ Len(lines) = 1 => Unsent = lines[1].text \o Crlf
    /\ wire # <<>> => SentWhole \/ LacksBlank \/ LacksEnd

\* What was parsed means what was sent.
ReadBack ==
    /\ Means(block, lines)
    /\ at = "whole" \/ Meant(lines, "length") # NotFound => got = sent

\* What was given and what is to be given are what there was to give.
Iteration ==
    /\ block \in Seq(Token) /\ (Lined(block) \/ Unended(block) \/ block = Crlf)
    /\ iterator \in Seq(Token) /\ pass \in Seq(Token) /\ begun \in 0..Len(block)
    /\ \/ (Lined(iterator) \/ Unended(iterator)) /\ pass \o iterator = SubSeq(block, 1, begun)
       \/ block = Crlf /\ iterator = Crlf /\ pass = <<>> /\ begun = 0

MessageIInv ==
    /\ lines \in Seq(AllLines) /\ sent \in Text /\ Len(sent) <= 4
    /\ wire = <<>> => sent = <<>>
    /\ wire # <<>> => Agree(lines, sent)
    /\ at \in {"built", "whole", "incremental", "refused"}
    /\ BodyHasHeaders =>
        /\ Iteration
        /\ at = "built" => Written
        /\ Received => ReadBack

\* A line that http_headers_add writes is a header line as IsHeader describes them.
LEMMA AddedIsHeader ==
    ASSUME NEW name \in Names, NEW value \in Values
    PROVE  /\ <<name, ":", "space">> \o value \in Seq(Token)
           /\ IsHeader(Line(<<name, ":", "space">> \o value, name, value))
  <1>1. /\ value \in Text /\ (\A i \in DOMAIN value : value[i] # "crlf") /\ IsValue(value)
    BY ValuesAssumption DEF IsValue
  <1>2. value \in Seq(Token)
    BY <1>1, Widen DEF Text, Token
  <1>3. name \in Token /\ ":" \in Token /\ "space" \in Token
    BY NamesAssumption DEF Token
  <1>4. PICK p : p = <<name, ":", "space">>
    OBVIOUS
  <1>5. p \in Seq(Token) /\ Len(p) = 3 /\ p[1] = name /\ p[2] = ":" /\ p[3] = "space"
    BY <1>3, <1>4
  <1>6. PICK text, k : text = p \o value /\ k = Len(value)
    OBVIOUS
  <1>7. /\ text \in Seq(Token) /\ k \in Nat /\ Len(text) = 3 + k
        /\ text[1] = name /\ text[2] = ":" /\ text[3] = "space"
        /\ \A i \in 1..k : text[3 + i] = value[i]
    <2>0. p \in Seq(Token)
      BY <1>5
    <2>1. /\ p \o value \in Seq(Token) /\ Len(p \o value) = Len(p) + Len(value) /\ Len(value) \in Nat
          /\ \A i \in 1..Len(p) : (p \o value)[i] = p[i]
          /\ \A i \in 1..Len(value) : (p \o value)[Len(p) + i] = value[i]
      BY <1>2, <2>0, Cat
    <2>2. 1 \in 1..3 /\ 2 \in 1..3 /\ 3 \in 1..3
      OBVIOUS
    <2> QED
      BY <1>5, <1>6, <2>1, <2>2
  <1>8. SubSeq(text, 4, Len(text)) = value
    <2>1. /\ 4 \in Int /\ Len(text) \in Int /\ 1 <= 4 /\ 4 <= Len(text) + 1 /\ Len(text) <= Len(text)
          /\ Len(value) = (Len(text) - 4) + 1
      BY <1>6, <1>7
    <2>2. \A i \in 1..Len(value) : value[i] = text[(4 + i) - 1]
      <3>1. \A i \in 1..k : (4 + i) - 1 = 3 + i
        BY <1>7
      <3> QED
        BY <1>6, <1>7, <3>1
    <2>3. text \in Seq(Token)
      BY <1>7
    <2> QED
      BY <1>2, <2>1, <2>2, <2>3, SubIs
  <1>9. \E first \in 3..(Len(text) + 1), last \in 2..Len(text) :
            /\ first <= last + 1 /\ value = SubSeq(text, first, last)
            /\ \A i \in 3..Len(text) : i < first \/ i > last => text[i] = "space"
    <2>1. /\ 4 \in 3..(Len(text) + 1) /\ Len(text) \in 2..Len(text) /\ 4 <= Len(text) + 1
          /\ \A i \in 3..Len(text) : i < 4 \/ i > Len(text) => i = 3
      BY <1>7
    <2>2. \A i \in 3..Len(text) : i < 4 \/ i > Len(text) => text[i] = "space"
      BY <1>7, <2>1
    <2> QED
      BY <1>8, <2>1, <2>2
  <1>10. name \notin {"crlf", ":", "space", ""} /\ name # "LENGTH" /\ Len(text) >= 2
    <2>1. Len(text) >= 2
      BY <1>7
    <2>2. name \notin {"crlf", ":", "space", ""} /\ name # "LENGTH"
      BY NamesAssumption
    <2> QED
      BY <2>1, <2>2
  <1>11. PICK line : line = Line(text, name, value)
    OBVIOUS
  <1>12. line.text = text /\ line.name = name /\ line.value = value
    BY <1>11 DEF Line
  <1>13. IsHeader(line)
    <2>1. text[1] = name /\ text[2] = ":"
      BY <1>7
    <2>2. \E first \in 3..(Len(line.text) + 1), last \in 2..Len(line.text) :
              /\ first <= last + 1 /\ line.value = SubSeq(line.text, first, last)
              /\ \A i \in 3..Len(line.text) : i < first \/ i > last => line.text[i] = "space"
      BY <1>9, <1>12
    <2>3. /\ IsValue(line.value) /\ Len(line.text) >= 2
          /\ line.text[1] \notin {"crlf", ":", "space", ""} /\ line.text[2] = ":"
          /\ line.name = IF line.text[1] = "LENGTH" THEN "length" ELSE line.text[1]
      BY <1>1, <1>10, <1>12, <2>1
    <2> QED
      BY <2>2, <2>3 DEF IsHeader
  <1> QED
    BY <1>4, <1>6, <1>7, <1>11, <1>13

\* Every line that is added or written is found as it is meant.
LEMMA LinesAreGood ==
    ASSUME NEW line \in AllLines
    PROVE  GoodLine(line) /\ line.text \in Seq(Token) /\ Unended(line.text)
  <1>1. GoodLine(line)
    <2>1. CASE line \in PeerLines
      <3>1. line.text \in Text /\ (NoHeader(line) \/ IsHeader(line))
        BY <2>1, PeerLinesAssumption
      <3>2. line.text \in Seq(Token)
        BY <3>1, Widen DEF Text, Token
      <3> QED
        BY <3>1, <3>2, NoHeaderIsGood, HeaderIsGood
    <2>2. CASE line \notin PeerLines
      <3>1. PICK name \in Names, value \in Values :
                line = Line(<<name, ":", "space">> \o value, name, value)
        BY <2>2 DEF AllLines
      <3>2. <<name, ":", "space">> \o value \in Seq(Token) /\ IsHeader(line)
        BY <3>1, AddedIsHeader
      <3>3. line.text = <<name, ":", "space">> \o value
        BY <3>1 DEF Line
      <3> QED
        BY <3>2, <3>3, HeaderIsGood
    <2> QED
      BY <2>1, <2>2
  <1> QED
    BY <1>1 DEF GoodLine, Unended

\* What a text that grows at its end still begins with.
LEMMA Prefix ==
    ASSUME NEW T, NEW h \in Seq(T), NEW r \in Seq(T), NEW n \in 0..Len(h)
    PROVE  n \in 0..Len(h \o r) /\ SubSeq(h \o r, 1, n) = SubSeq(h, 1, n)
  <1>1. Len(h) \in Nat /\ n \in Nat /\ n <= Len(h)
    OBVIOUS
  <1>2. PICK s : s = h \o r
    OBVIOUS
  <1>3. s \in Seq(T) /\ Len(s) = Len(h) + Len(r) /\ Len(r) \in Nat /\ \A i \in 1..Len(h) : s[i] = h[i]
    BY <1>2, Cat
  <1>4. PICK a : a = SubSeq(h, 1, n)
    OBVIOUS
  <1>5. a \in Seq(T) /\ Len(a) = (n - 1) + 1 /\ \A i \in 1..n : a[i] = h[i]
    <2>1. /\ SubSeq(h, 1, n) \in Seq(T) /\ Len(SubSeq(h, 1, n)) = (n - 1) + 1
          /\ \A i \in 1..((n - 1) + 1) : SubSeq(h, 1, n)[i] = h[(1 + i) - 1]
      BY <1>1, Sub
    <2>2. (n - 1) + 1 = n /\ \A i \in 1..n : (1 + i) - 1 = i
      BY <1>1
    <2> QED
      BY <1>4, <2>1, <2>2
  <1>6. SubSeq(s, 1, n) = a
    <2>1. 1 \in Int /\ n \in Int /\ 1 <= 1 /\ 1 <= n + 1 /\ n <= Len(s) /\ Len(a) = n
      BY <1>1, <1>3, <1>5
    <2>2. \A i \in 1..Len(a) : a[i] = s[(1 + i) - 1]
      <3>1. \A i \in 1..n : (1 + i) - 1 = i /\ i \in 1..Len(h)
        BY <1>1
      <3> QED
        BY <1>3, <1>5, <2>1, <3>1
    <2>3. s \in Seq(T) /\ a \in Seq(T)
      BY <1>3, <1>5
    <2> QED
      BY <1>5, <2>1, <2>2, <2>3, SubIs
  <1>7. n \in 0..Len(s)
    BY <1>1, <1>3
  <1> QED
    BY <1>2, <1>4, <1>6, <1>7

\* Nothing that the invariant speaks of changes.
LEMMA MessageStutter ==
    ASSUME MessageIInv,
           UNCHANGED <<block, iterator, draft, lines, wire, sent, got, at, pass, begun>>
    PROVE  MessageIInv'
  <1>1. (Iteration <=> Iteration') /\ (BodyHasHeaders <=> BodyHasHeaders')
        /\ (Received <=> Received') /\ (ReadBack <=> ReadBack')
    BY DEF Iteration, BodyHasHeaders, Received, ReadBack
  <1>2. Unsent' = Unsent
    BY DEF Unsent
  <1>3. (SentWhole <=> SentWhole') /\ (LacksBlank <=> LacksBlank') /\ (LacksEnd <=> LacksEnd')
    BY <1>2 DEF SentWhole, LacksBlank, LacksEnd
  <1>4. Written => Written'
    BY <1>2, <1>3 DEF Written
  <1> QED
    BY <1>1, <1>4 DEF MessageIInv

\* A fresh header object holds no line, and there is none to be found.
LEMMA MessageInitial == MessageInit => MessageIInv
  <1> SUFFICES ASSUME MessageInit PROVE MessageIInv
    OBVIOUS
  <1> USE DEF MessageInit
  <1>1. Lined(<<>>) /\ <<>> \in Seq(Token) /\ <<>> \in Text /\ Len(<<>>) = 0
    BY DEF Lined, Text
  <1>2. Means(<<>>, <<>>)
    <2>1. LineStarts(<<>>) = {}
      BY DEF LineStarts
    <2> QED
      BY <2>1, MeansNothing
  <1>3. <<>> \o <<>> = SubSeq(<<>>, 1, 0)
    OBVIOUS
  <1>4. Iteration
    BY <1>1, <1>3 DEF Iteration
  <1>5. Unsent = <<>>
    BY DEF Unsent
  <1>6. Written
    BY <1>1, <1>2, <1>5 DEF Written
  <1> QED
    BY <1>1, <1>4, <1>6 DEF MessageIInv, BodyHasHeaders, Received

-------------------------------------------------------------------------------
(* The steps *)

\* The same of texts.
LEMMA TextAssoc == \A a, b, c \in Seq(Token) : (a \o b) \o c = a \o (b \o c)
  BY Assoc

\* Texts made of texts are texts.
LEMMA TextsJoin ==
    /\ \A a \in Seq(Token) : a \o <<>> = a
    /\ \A a, b \in Seq(Token) : a \o b \in Seq(Token)
    /\ \A a \in Seq(Token) :
          /\ Len(a) \in Nat /\ Len(a \o Crlf) = Len(a) + 1 /\ a \o Crlf \in Seq(Token)
          /\ SubSeq(a \o Crlf, 1, Len(a)) = a
  <1>2. \A a \in Seq(Token) : a \o <<>> = a
    BY Empty
  <1>3. \A a, b \in Seq(Token) : a \o b \in Seq(Token)
    BY Cat
  <1>4. ASSUME NEW a \in Seq(Token)
        PROVE  /\ Len(a) \in Nat /\ Len(a \o Crlf) = Len(a) + 1 /\ a \o Crlf \in Seq(Token)
               /\ SubSeq(a \o Crlf, 1, Len(a)) = a
    <2>1. Crlf \in Seq(Token)
      BY CrlfIs
    <2>2. Len(Crlf) = 1
      BY CrlfIs
    <2>3. Len(a \o Crlf) = Len(a) + Len(Crlf) /\ a \o Crlf \in Seq(Token) /\ Len(a) \in Nat
      BY <2>1, Cat
    <2>4. SubSeq(a \o Crlf, 1, Len(a)) = a
      BY <2>1, Cut
    <2> QED
      BY <2>2, <2>3, <2>4
  <1> QED
    BY <1>2, <1>3, <1>4

\* A line more to be sent.
LEMMA WrittenMore ==
    ASSUME NEW h \in Seq(Token), Lined(h), NEW ls \in Seq(AllLines), Means(h, ls),
           ls = <<>> <=> h = <<>>, NEW line \in AllLines
    PROVE  /\ h \o line.text \o Crlf \in Seq(Token) /\ Lined(h \o line.text \o Crlf)
           /\ h \o line.text \o Crlf # <<>> /\ h \o line.text \o Crlf = h \o (line.text \o Crlf)
           /\ Append(ls, line) \in Seq(AllLines) /\ Append(ls, line) # <<>>
           /\ Means(h \o line.text \o Crlf, Append(ls, line))
           /\ Len(Append(ls, line)) = 1 =>
                h \o line.text \o Crlf = Append(ls, line)[1].text \o Crlf
  <1>1. PICK text : text = line.text
    OBVIOUS
  <1>2. text \in Seq(Token) /\ Unended(text) /\ GoodLine(line)
    BY <1>1, LinesAreGood
  <1>3. Crlf \in Seq(Token)
    BY CrlfIs
  <1>4. h \o text \o Crlf = h \o (text \o Crlf)
    BY <1>2, <1>3, Assoc, SMTT(40)
  <1>5. /\ Lined(h \o (text \o Crlf)) /\ h \o (text \o Crlf) \in Seq(Token)
        /\ h \o (text \o Crlf) # <<>>
    BY <1>2, LinedMore
  <1>6. Means(h \o (text \o Crlf), Append(ls, line))
    <2>1. h # <<>> => h[Len(h)] = "crlf"
      BY DEF Lined
    <2> QED
      BY <1>1, <1>2, <2>1, MeansMore
  <1>7. /\ Append(ls, line) \in Seq(AllLines) /\ Append(ls, line) # <<>>
        /\ Len(Append(ls, line)) = Len(ls) + 1 /\ Len(ls) \in Nat
    OBVIOUS
  <1>8. ASSUME Len(Append(ls, line)) = 1
        PROVE  h \o (text \o Crlf) = Append(ls, line)[1].text \o Crlf
    <2>1. Len(ls) = 0
      BY <1>7, <1>8
    <2>2. ls = <<>>
      BY <2>1
    <2>3. Append(ls, line)[1] = line
      BY <2>1
    <2>4. h = <<>>
      BY <2>2
    <2>5. text \o Crlf \in Seq(Token)
      BY <1>2, <1>3, Cat
    <2>6. h \o (text \o Crlf) = text \o Crlf
      BY <2>4, <2>5, Empty
    <2> QED
      BY <1>1, <2>3, <2>6
  <1> QED
    BY <1>1, <1>4, <1>5, <1>6, <1>7, <1>8

\* http_headers_add appends a line to the block, or reports that there is no room.
LEMMA StepAdd ==
    ASSUME MessageIInv, NEW name \in Names, NEW value \in Values, Add(name, value)
    PROVE  MessageIInv'
  <1> DEFINE appended == block' = block \o (<<name, ":", "space">> \o value) \o Crlf
  <1>1. CASE UNCHANGED <<block, lines>>
    BY <1>1, MessageStutter DEF Add
  <1>2. CASE appended /\ lines' = Append(lines, Line(<<name, ":", "space">> \o value, name, value))
    <2>1. PICK line : line = Line(<<name, ":", "space">> \o value, name, value)
      OBVIOUS
    <2>2. line \in AllLines /\ line.text = <<name, ":", "space">> \o value
      <3>1. line \in {Line(<<n, ":", "space">> \o v, n, v) : n \in Names, v \in Values}
        BY <2>1
      <3>2. line \in AllLines
        BY <3>1 DEF AllLines
      <3>3. line.text = <<name, ":", "space">> \o value
        BY <2>1 DEF Line
      <3> QED
        BY <3>2, <3>3
    <2>3. /\ at = "built" /\ wire = <<>> /\ draft = <<>>
          /\ block' = block \o line.text \o Crlf /\ lines' = Append(lines, line)
          /\ UNCHANGED <<iterator, draft, wire, sent, got, at, pass, begun>>
      BY <1>2, <2>1, <2>2 DEF Add
    <2>4. Iteration /\ Written /\ Unsent = block /\ BodyHasHeaders /\ sent = <<>>
      BY <2>3 DEF MessageIInv, BodyHasHeaders, Unsent
    <2>5. /\ block \in Seq(Token) /\ Lined(block) /\ lines \in Seq(AllLines) /\ Means(block, lines)
          /\ lines = <<>> <=> block = <<>>
      BY <2>4 DEF Written, MessageIInv
    <2>6. /\ block' \in Seq(Token) /\ Lined(block') /\ block' # <<>> /\ block' = block \o (line.text \o Crlf)
          /\ lines' \in Seq(AllLines) /\ lines' # <<>> /\ Means(block', lines')
          /\ Len(lines') = 1 => block' = lines'[1].text \o Crlf
      BY <2>2, <2>3, <2>5, WrittenMore
    <2>7. Iteration'
      <3>1. line.text \o Crlf \in Seq(Token)
        BY <2>2, LinesAreGood, CrlfIs, Cat
      <3>2. begun \in 0..Len(block)
        BY <2>4 DEF Iteration
      <3>3. begun \in 0..Len(block') /\ SubSeq(block', 1, begun) = SubSeq(block, 1, begun)
        BY <2>5, <2>6, <3>1, <3>2, Prefix
      <3>4. block # Crlf
        BY <2>5, CrlfIs DEF Lined
      <3> QED
        BY <2>3, <2>4, <2>6, <3>3, <3>4 DEF Iteration
    <2>8. Unsent' = block'
      BY <2>3 DEF Unsent
    <2>9. Written'
      BY <2>3, <2>6, <2>8 DEF Written
    <2> QED
      BY <2>3, <2>6, <2>7, <2>9 DEF MessageIInv, Received
  <1> QED
    BY <1>1, <1>2 DEF Add

\* Another program writes a line.
LEMMA StepPeerWrites ==
    ASSUME MessageIInv, NEW line \in PeerLines, PeerWrites(line)
    PROVE  MessageIInv'
  <1>1. line \in AllLines
    BY DEF AllLines
  <1>2. /\ at = "built" /\ wire = <<>> /\ block = <<>>
        /\ draft' = draft \o line.text \o Crlf /\ lines' = Append(lines, line)
        /\ UNCHANGED <<block, iterator, wire, sent, got, at, pass, begun>>
    BY DEF PeerWrites
  <1>3. Iteration /\ Written /\ Unsent = draft /\ BodyHasHeaders /\ sent = <<>>
    BY <1>2 DEF MessageIInv, BodyHasHeaders, Unsent
  <1>4. /\ draft \in Seq(Token) /\ Lined(draft) /\ lines \in Seq(AllLines) /\ Means(draft, lines)
        /\ lines = <<>> <=> draft = <<>>
    BY <1>3 DEF Written, MessageIInv
  <1>5. /\ draft' \in Seq(Token) /\ Lined(draft') /\ draft' # <<>>
        /\ lines' \in Seq(AllLines) /\ lines' # <<>> /\ Means(draft', lines')
        /\ Len(lines') = 1 => draft' = lines'[1].text \o Crlf
    BY <1>1, <1>2, <1>4, WrittenMore
  <1>6. Iteration'
    BY <1>2, <1>3 DEF Iteration
  <1>7. Unsent' = draft'
    BY <1>5 DEF Unsent
  <1>8. Written'
    BY <1>2, <1>5, <1>7 DEF Written
  <1> QED
    BY <1>2, <1>3, <1>5, <1>6, <1>8 DEF MessageIInv, Received

\* The ways a message is put together.
LEMMA Joined ==
    ASSUME NEW h \in Seq(Token), NEW x \in Seq(Token)
    PROVE  /\ StartLine \o h \o Crlf \o x = StartLine \o (h \o (Crlf \o x))
           /\ StartLine \o (h \o (Crlf \o x)) = (StartLine \o h) \o (Crlf \o x)
           /\ StartLine \o h \o Crlf \o x # <<>> /\ StartLine \o h # <<>>
  <1>1. StartLine \in Seq(Token) /\ Crlf \in Seq(Token)
    BY StartLineIs, CrlfIs
  <1>2. StartLine \o h \in Seq(Token)
    BY StartLined
  <1>3. Crlf \o x \in Seq(Token)
    BY <1>1, TextsJoin
  <1>4. h \o (Crlf \o x) \in Seq(Token)
    BY <1>3, TextsJoin
  <1>5. (StartLine \o h \o Crlf) \o x = (StartLine \o h) \o (Crlf \o x)
    BY <1>1, <1>2, TextAssoc
  <1>6. (StartLine \o h) \o (Crlf \o x) = StartLine \o (h \o (Crlf \o x))
    BY <1>1, <1>3, TextAssoc, SMTT(40)
  <1>7. StartLine \o (h \o (Crlf \o x)) # <<>> /\ StartLine \o h # <<>>
    BY <1>4, StartLined
  <1> QED
    BY <1>5, <1>6, <1>7

\* http_request_serialize_to or http_response_serialize_to puts the message together.
LEMMA StepSerialize ==
    ASSUME MessageIInv, NEW body \in Bodies, Serialize(body)
    PROVE  MessageIInv'
  <1>1. /\ at = "built" /\ wire = <<>> /\ draft = <<>> /\ Agree(lines, body)
        /\ sent' = body /\ wire' = StartLine \o block \o Crlf \o body
        /\ UNCHANGED <<block, iterator, draft, lines, got, at, pass, begun>>
    BY DEF Serialize, StartLine
  <1>2. Iteration /\ Written /\ Unsent = block
    BY <1>1 DEF MessageIInv, BodyHasHeaders, Unsent
  <1>3. body \in Text /\ Len(body) <= 4
    BY BodiesAssumption
  <1>4. body \in Seq(Token)
    BY <1>3, Widen DEF Text, Token
  <1>5. block \in Seq(Token)
    BY <1>2 DEF Written
  <1>6. wire' = StartLine \o (block \o (Crlf \o body)) /\ wire' # <<>>
    BY <1>1, <1>4, <1>5, Joined
  <1>7. Unsent' = Unsent
    BY <1>1 DEF Unsent
  <1>8. SentWhole'
    BY <1>1, <1>2, <1>6, <1>7 DEF SentWhole
  <1>9. Written'
    BY <1>1, <1>2, <1>6, <1>7, <1>8 DEF Written
  <1>10. Iteration'
    BY <1>1, <1>2 DEF Iteration
  <1> QED
    BY <1>1, <1>3, <1>6, <1>9, <1>10 DEF MessageIInv, Received

\* Another program sends its message, whole or without its last line ends.
LEMMA StepPeerSends ==
    ASSUME MessageIInv, NEW body \in Bodies, NEW lacks \in 0..2, PeerSends(body, lacks)
    PROVE  MessageIInv'
  <1>1. PICK text : text = StartLine \o draft \o Crlf \o body
    OBVIOUS
  <1>2. /\ at = "built" /\ wire = <<>> /\ block = <<>> /\ Agree(lines, body)
        /\ lacks > 0 => body = <<>> /\ lines # <<>>
        /\ lacks > 1 => Len(lines) = 1
        /\ sent' = body /\ wire' = SubSeq(text, 1, Len(text) - lacks)
        /\ UNCHANGED <<block, iterator, draft, lines, got, at, pass, begun>>
    BY <1>1 DEF PeerSends, StartLine
  <1>3. Iteration /\ Written /\ Unsent = draft
    BY <1>2 DEF MessageIInv, BodyHasHeaders, Unsent
  <1>4. body \in Text /\ Len(body) <= 4
    BY BodiesAssumption
  <1>5. body \in Seq(Token)
    BY <1>4, Widen DEF Text, Token
  <1>6. draft \in Seq(Token)
    BY <1>3 DEF Written
  <1>7. /\ text = StartLine \o (draft \o (Crlf \o body)) /\ text = (StartLine \o draft) \o (Crlf \o body)
        /\ text # <<>>
    BY <1>1, <1>5, <1>6, Joined
  <1>8. Unsent' = draft
    BY <1>2, <1>3 DEF Unsent
  <1>9. Crlf \in Seq(Token) /\ Len(Crlf) = 1
    BY CrlfIs
  <1>10. StartLine \o draft \in Seq(Token) /\ StartLine \o draft # <<>>
    BY <1>6, StartLined
  <1>11. text \in Seq(Token) /\ Len(text) \in Nat
    BY <1>5, <1>7, <1>9, <1>10, Cat
  <1>12. ASSUME lacks = 0 PROVE wire' # <<>> /\ (SentWhole' \/ LacksBlank' \/ LacksEnd')
    <2>1. wire' = text
      <3>1. Len(text) - 0 = Len(text)
        BY <1>11
      <3> QED
        BY <1>2, <1>11, <1>12, <3>1, Whole
    <2> QED
      BY <1>2, <1>7, <1>8, <2>1 DEF SentWhole
  <1>13. ASSUME lacks = 1 PROVE wire' # <<>> /\ (SentWhole' \/ LacksBlank' \/ LacksEnd')
    <2>1. body = <<>> /\ lines # <<>> /\ Crlf \o body = Crlf
      <3>1. body = <<>> /\ lines # <<>>
        BY <1>2, <1>13
      <3>2. Crlf \o <<>> = Crlf
        BY CrlfIs, TextsJoin
      <3> QED
        BY <3>1, <3>2
    <2>2. wire' = StartLine \o draft
      <3>1. PICK g : g = StartLine \o draft
        OBVIOUS
      <3>2. g \in Seq(Token) /\ text = g \o Crlf
        BY <1>7, <1>10, <2>1, <3>1
      <3>3. Len(g \o Crlf) = Len(g) + 1 /\ Len(g) \in Nat /\ SubSeq(g \o Crlf, 1, Len(g)) = g
        <4>1. g \in Seq(Token)
          BY <3>2
        <4> QED
          BY <4>1, TextsJoin
      <3>4. Len(text) - 1 = Len(g)
        BY <3>2, <3>3
      <3> QED
        BY <1>2, <1>13, <3>1, <3>2, <3>3, <3>4
    <2>3. wire' # <<>>
      BY <1>10, <2>2
    <2> QED
      BY <1>2, <1>8, <2>1, <2>2, <2>3 DEF LacksBlank
  <1>14. ASSUME lacks = 2 PROVE wire' # <<>> /\ (SentWhole' \/ LacksBlank' \/ LacksEnd')
    <2>1. body = <<>> /\ Len(lines) = 1 /\ Crlf \o body = Crlf
      <3>1. body = <<>> /\ Len(lines) = 1
        BY <1>2, <1>14
      <3>2. Crlf \o <<>> = Crlf
        BY CrlfIs, TextsJoin
      <3> QED
        BY <3>1, <3>2
    <2>2. PICK l : l = lines[1].text
      OBVIOUS
    <2>3. l \in Seq(Token) /\ Unended(l) /\ draft = l \o Crlf
      <3>1. lines[1] \in AllLines
        BY <2>1 DEF MessageIInv
      <3> QED
        BY <1>3, <2>1, <2>2, <3>1, LinesAreGood DEF Written
    <2>4. PICK g : g = StartLine \o l
      OBVIOUS
    <2>5. g \in Seq(Token) /\ g # <<>>
      BY <2>3, <2>4, StartLined
    <2>6. StartLine \o draft = g \o Crlf
      <3>1. StartLine \in Seq(Token) /\ l \in Seq(Token) /\ Crlf \in Seq(Token)
        BY <2>3, StartLineIs, CrlfIs
      <3>2. (StartLine \o l) \o Crlf = StartLine \o (l \o Crlf)
        BY <3>1, TextAssoc
      <3> QED
        BY <2>3, <2>4, <3>2
    <2>7. wire' = g
      <3>1. text = (g \o Crlf) \o Crlf
        BY <1>7, <2>1, <2>6
      <3>2. PICK gc : gc = g \o Crlf
        OBVIOUS
      <3>3. gc \in Seq(Token) /\ Len(gc) = Len(g) + 1 /\ Len(g) \in Nat /\ SubSeq(gc, 1, Len(g)) = g
        <4>1. g \in Seq(Token)
          BY <2>5
        <4> QED
          BY <3>2, <4>1, TextsJoin
      <3>4. Len(gc \o Crlf) = Len(gc) + 1
        <4>1. gc \in Seq(Token)
          BY <3>3
        <4> QED
          BY <4>1, TextsJoin
      <3>5. Len(text) - 2 = Len(g) /\ Len(g) \in 0..Len(gc)
        BY <3>1, <3>2, <3>3, <3>4
      <3>6. SubSeq(gc \o Crlf, 1, Len(g)) = SubSeq(gc, 1, Len(g))
        BY <1>9, <3>3, <3>5, Prefix
      <3> QED
        BY <1>2, <1>14, <3>1, <3>2, <3>3, <3>5, <3>6
    <2> QED
      BY <1>2, <2>1, <2>2, <2>4, <2>5, <2>7 DEF LacksEnd
  <1>15. wire' # <<>> /\ (SentWhole' \/ LacksBlank' \/ LacksEnd')
    <2>1. lacks = 0 \/ lacks = 1 \/ lacks = 2
      OBVIOUS
    <2> QED
      BY <1>12, <1>13, <1>14, <2>1
  <1>16. Written'
    BY <1>2, <1>3, <1>8, <1>15 DEF Written
  <1>17. Iteration'
    BY <1>2, <1>3 DEF Iteration
  <1> QED
    BY <1>2, <1>4, <1>15, <1>16, <1>17 DEF MessageIInv, Received

\* A pass begins with what was parsed.
LEMMA PassBegins ==
    ASSUME NEW b \in Seq(Token), Lined(b) \/ Unended(b) \/ b = Crlf,
           block' = b, iterator' = b, pass' = <<>>, begun' = ToGive(b)
    PROVE  Iteration'
  <1>1. Len(b) \in Nat /\ <<>> \in Seq(Token) /\ Len(Crlf) = 1
    BY CrlfIs
  <1>2. CASE b = Crlf
    <2>1. begun' = 0 /\ 0 \in 0..Len(b)
      BY <1>1, <1>2 DEF ToGive
    <2> QED
      BY <1>1, <1>2, <2>1 DEF Iteration
  <1>3. CASE b # Crlf
    <2>1. begun' = Len(b) /\ Len(b) \in 0..Len(b)
      BY <1>1, <1>3 DEF ToGive
    <2>2. <<>> \o b = b /\ SubSeq(b, 1, Len(b)) = b
      BY Empty, Whole
    <2>3. pass' \o iterator' = SubSeq(block', 1, begun')
      BY <2>1, <2>2
    <2> QED
      BY <1>1, <1>3, <2>1, <2>3 DEF Iteration
  <1> QED
    BY <1>2, <1>3

\* http_request_parse or http_response_parse takes the message in one go.
LEMMA StepParseWhole ==
    ASSUME MessageIInv, ParseWhole
    PROVE  MessageIInv'
  <1>1. PICK rest : rest = Behind(Crlf, wire)
    OBVIOUS
  <1>2. /\ at = "built" /\ wire # <<>> /\ at' = "whole"
        /\ UNCHANGED <<draft, lines, wire, sent>>
        /\ IF Occurs(Terminator, rest) # {}
           THEN /\ Parsed(SubSeq(rest, 1, BlankLine(rest)))
                /\ got' = SubSeq(rest, BlankLine(rest) + 2, Len(rest))
           ELSE Parsed(rest) /\ got' = <<>>
    BY <1>1 DEF ParseWhole
  <1> SUFFICES ASSUME BodyHasHeaders' PROVE Iteration' /\ ReadBack'
    BY <1>2 DEF MessageIInv
  <1>3. BodyHasHeaders
    BY <1>2 DEF BodyHasHeaders
  <1>4. Written
    BY <1>2, <1>3 DEF MessageIInv
  <1>5. PICK h : h = Unsent
    OBVIOUS
  <1>6. h \in Seq(Token) /\ Lined(h) /\ Means(h, lines) /\ (lines = <<>> <=> h = <<>>)
    BY <1>4, <1>5 DEF Written
  <1>7. sent \in Seq(Token)
    <2>1. sent \in Seq(STRING)
      BY DEF MessageIInv, Text
    <2> QED
      BY <2>1, Widen DEF Token
  <1>8. SUFFICES \E b \in Seq(Token) :
                    /\ Lined(b) \/ Unended(b) \/ b = Crlf
                    /\ block' = b /\ iterator' = b /\ pass' = <<>> /\ begun' = ToGive(b)
                    /\ Means(b, lines) /\ got' = sent
    <2>1. PICK b \in Seq(Token) :
                    /\ Lined(b) \/ Unended(b) \/ b = Crlf
                    /\ block' = b /\ iterator' = b /\ pass' = <<>> /\ begun' = ToGive(b)
                    /\ Means(b, lines) /\ got' = sent
      BY <1>8
    <2>2. Iteration'
      BY <2>1, PassBegins
    <2>3. Means(b, lines') /\ block' = b /\ got' = sent'
      BY <1>2, <2>1
    <2> QED
      BY <2>2, <2>3 DEF ReadBack
  <1>9. CASE SentWhole /\ h # <<>>
    <2>1. Crlf \o sent \in Seq(Token)
      BY <1>7, CrlfIs, TextsJoin
    <2>2. h \o (Crlf \o sent) \in Seq(Token)
      BY <1>6, <2>1, TextsJoin
    <2>3. rest = h \o (Crlf \o sent)
      <3>1. wire = StartLine \o (h \o (Crlf \o sent))
        BY <1>5, <1>9 DEF SentWhole
      <3> QED
        BY <1>1, <2>2, <3>1, BehindStart
    <2>4. /\ Occurs(Terminator, rest) # {} /\ BlankLine(rest) = Len(h)
          /\ SubSeq(rest, 1, Len(h)) = h /\ SubSeq(rest, Len(h) + 2, Len(rest)) = sent
      <3>1. h \in Seq(Token) /\ Lined(h) /\ h # <<>>
        BY <1>6, <1>9
      <3>2. /\ Occurs(Terminator, h \o (Crlf \o sent)) # {}
            /\ Min(Occurs(Terminator, h \o (Crlf \o sent))) = Len(h)
            /\ SubSeq(h \o (Crlf \o sent), 1, Len(h)) = h
            /\ SubSeq(h \o (Crlf \o sent), Len(h) + 2, Len(h \o (Crlf \o sent))) = sent
        BY <1>7, <3>1, FirstBlank
      <3> QED
        BY <2>3, <3>2 DEF BlankLine
    <2>5. Parsed(h) /\ got' = sent
      BY <1>2, <2>4
    <2>6. HeadersParse(h) = h
      BY <1>6, ParseLined
    <2> QED
      BY <1>6, <2>5, <2>6 DEF Parsed
  <1>10. CASE SentWhole /\ h = <<>>
    <2>1. lines = <<>> /\ sent = <<>>
      BY <1>3, <1>6, <1>10 DEF BodyHasHeaders
    <2>2. rest = Crlf
      <3>1. <<>> \o (Crlf \o <<>>) = Crlf
        BY CrlfIs, Empty
      <3>2. wire = StartLine \o Crlf
        BY <1>5, <1>10, <2>1, <3>1 DEF SentWhole
      <3> QED
        BY <1>1, <3>2, BehindStart, CrlfIs
    <2>3. Parsed(Crlf) /\ got' = <<>>
      BY <1>2, <2>2, ParseCrlf
    <2>4. HeadersParse(Crlf) = Crlf /\ Crlf \in Seq(Token)
      BY ParseCrlf, CrlfIs
    <2>5. Means(Crlf, <<>>)
      BY ParseCrlf, MeansNothing
    <2> QED
      BY <2>1, <2>3, <2>4, <2>5 DEF Parsed
  <1>11. CASE LacksBlank
    <2>1. sent = <<>> /\ h # <<>> /\ wire = StartLine \o h
      BY <1>5, <1>6, <1>11 DEF LacksBlank
    <2>2. rest = h
      BY <1>1, <1>6, <2>1, BehindStart
    <2>3. Occurs(Terminator, h) = {}
      BY <1>6, <2>1, Blanks DEF Lined
    <2>4. Parsed(h) /\ got' = <<>>
      BY <1>2, <2>2, <2>3
    <2>5. HeadersParse(h) = h
      BY <1>6, ParseLined
    <2> QED
      BY <1>6, <2>1, <2>4, <2>5 DEF Parsed
  <1>12. CASE LacksEnd
    <2>1. PICK l : l = lines[1].text
      OBVIOUS
    <2>2. sent = <<>> /\ Len(lines) = 1 /\ wire = StartLine \o l /\ h = l \o Crlf
      BY <1>4, <1>5, <1>12, <2>1 DEF LacksEnd, Written
    <2>3. l \in Seq(Token) /\ Unended(l)
      <3>1. lines[1] \in AllLines
        <4>1. Len(lines) = 1
          BY <2>2
        <4> QED
          BY <4>1 DEF MessageIInv
      <3> QED
        BY <2>1, <3>1, LinesAreGood
    <2>4. rest = l
      BY <1>1, <2>2, <2>3, BehindStart
    <2>5. HeadersParse(l) = l /\ Occurs(Terminator, l) = {}
      BY <2>3, ParseUnended
    <2>6. Parsed(l) /\ got' = <<>>
      BY <1>2, <2>4, <2>5
    <2>7. Means(l, lines)
      BY <1>6, <2>2, <2>3, MeansUnended DEF Unended
    <2> QED
      BY <2>2, <2>3, <2>5, <2>6, <2>7 DEF Parsed
  <1> QED
    BY <1>2, <1>4, <1>9, <1>10, <1>11, <1>12 DEF Written

\* The digits are no two the same, and none is the mark for a missing header.
LEMMA DigitsDiffer ==
    /\ DOMAIN Digits = 0..4
    /\ \A i, j \in 0..4 : <<Digits[i]>> = <<Digits[j]>> => i = j
    /\ \A i \in 0..4 : <<Digits[i]>> # NotFound
  <1>1. /\ Digits[0] = "0" /\ Digits[1] = "1" /\ Digits[2] = "2" /\ Digits[3] = "3" /\ Digits[4] = "4"
        /\ DOMAIN Digits = 0..4
    BY DEF Digits
  <1>2. \A x, y : <<x>> = <<y>> => x = y
    OBVIOUS
  <1>3. \A i \in 0..4 : i = 0 \/ i = 1 \/ i = 2 \/ i = 3 \/ i = 4
    OBVIOUS
  <1>4. \A i, j \in 0..4 : Digits[i] = Digits[j] => i = j
    BY <1>1, <1>3
  <1>5. \A i \in 0..4 : Digits[i] # "not_found"
    BY <1>1, <1>3
  <1> QED
    BY <1>1, <1>2, <1>4, <1>5 DEF NotFound

\* http_request_parser_feed takes the head at the first blank line, and of the rest as
\* many bytes as Content-Length says.
LEMMA StepParseHead ==
    ASSUME MessageIInv, ParseHead
    PROVE  MessageIInv'
  <1> DEFINE end == BlankLine(wire) + 1
             rest == Behind(Crlf, SubSeq(wire, 1, end))
             length == Find(HeadersParse(rest), "length")
             size == {n \in DOMAIN Digits : length = <<Digits[n]>>}
             refused == (length # NotFound /\ size = {})
                        \/ Find(HeadersParse(rest), "encoding") # NotFound
  <1>1. /\ at = "built" /\ Occurs(Terminator, wire) # {} /\ UNCHANGED <<draft, lines, wire, sent>>
        /\ refused => at' = "refused" /\ UNCHANGED <<block, iterator, got, pass, begun>>
        /\ ~refused => /\ Parsed(rest) /\ at' = "incremental"
                       /\ got' = IF size = {} THEN <<>> ELSE SubSeq(wire, end + 1, end + Max(size))
    BY DEF ParseHead
  <1> HIDE DEF end, rest, length, size, refused
  <1>2. at' \in {"built", "whole", "incremental", "refused"} /\ at' # "built"
    BY <1>1
  <1> SUFFICES ASSUME BodyHasHeaders' PROVE Iteration' /\ (Received' => ReadBack')
    BY <1>1, <1>2 DEF MessageIInv
  <1>3. BodyHasHeaders
    BY <1>1 DEF BodyHasHeaders
  <1>4. Written /\ Iteration
    BY <1>1, <1>3 DEF MessageIInv
  <1>5. CASE refused
    BY <1>1, <1>4, <1>5 DEF Iteration, Received
  <1>6. CASE ~refused
    <2>1. PICK h : h = Unsent
      OBVIOUS
    <2>2. h \in Seq(Token) /\ Lined(h) /\ Means(h, lines) /\ (lines = <<>> <=> h = <<>>)
      BY <1>4, <2>1 DEF Written
    <2>3. sent \in Seq(Token)
      <3>1. sent \in Seq(STRING)
        BY DEF MessageIInv, Text
      <3> QED
        BY <3>1, Widen DEF Token
    <2>4. wire # <<>>
      <3>1. CASE wire = <<>>
        <4>1. Occurs(Terminator, <<>>) = {}
          <5>1. <<>> \in Seq(Token) /\ NoBlank(<<>>)
            BY DEF NoBlank
          <5> QED
            BY <5>1, Blanks
        <4> QED
          BY <1>1, <3>1, <4>1
      <3> QED
        BY <3>1
    <2>5. SentWhole
      <3>1. ~LacksBlank
        <4> SUFFICES ASSUME LacksBlank PROVE FALSE
          OBVIOUS
        <4>1. wire = StartLine \o h
          BY <2>1 DEF LacksBlank
        <4>2. wire \in Seq(Token) /\ wire # <<>> /\ Lined(wire)
          BY <2>2, <4>1, StartLined
        <4> QED
          BY <1>1, <4>2, Blanks DEF Lined
      <3>2. ~LacksEnd
        <4> SUFFICES ASSUME LacksEnd PROVE FALSE
          OBVIOUS
        <4>1. PICK l : l = lines[1].text
          OBVIOUS
        <4>2. wire = StartLine \o l
          BY <4>1 DEF LacksEnd
        <4>3. l \in Seq(Token) /\ Unended(l)
          <5>1. lines[1] \in AllLines
            <6>1. Len(lines) >= 1
              BY DEF LacksEnd
            <6>2. lines \in Seq(AllLines)
              BY DEF MessageIInv
            <6> QED
              BY <6>1, <6>2, FirstToken
          <5> QED
            BY <4>1, <5>1, LinesAreGood
        <4>4. wire \in Seq(Token) /\ NoBlank(wire)
          BY <4>2, <4>3, StartLined
        <4> QED
          BY <1>1, <4>4, Blanks
      <3> QED
        BY <1>4, <2>4, <3>1, <3>2 DEF Written
    <2>6. PICK g : g = StartLine \o h
      OBVIOUS
    <2>7. g \in Seq(Token) /\ g # <<>> /\ Lined(g)
      BY <2>2, <2>6, StartLined
    <2>8. wire = g \o (Crlf \o sent)
      BY <2>1, <2>2, <2>3, <2>5, <2>6, Joined DEF SentWhole
    <2>9. /\ BlankLine(wire) = Len(g) /\ SubSeq(wire, 1, Len(g) + 1) = g \o Crlf
          /\ SubSeq(wire, Len(g) + 2, Len(wire)) = sent /\ Len(wire) = Len(g) + (1 + Len(sent))
      <3>1. /\ Len(g \o (Crlf \o sent)) = Len(g) + (1 + Len(sent))
            /\ Min(Occurs(Terminator, g \o (Crlf \o sent))) = Len(g)
            /\ SubSeq(g \o (Crlf \o sent), 1, Len(g) + 1) = g \o Crlf
            /\ SubSeq(g \o (Crlf \o sent), Len(g) + 2, Len(g \o (Crlf \o sent))) = sent
        BY <2>3, <2>7, FirstBlank
      <3> QED
        BY <2>8, <3>1 DEF BlankLine
    <2>10. rest = h \o Crlf /\ end = Len(g) + 1
      <3>1. end = Len(g) + 1
        BY <2>9 DEF end
      <3>2. g \o Crlf = StartLine \o (h \o Crlf)
        BY <2>2, <2>6, StartLineIs, CrlfIs, TextAssoc
      <3>3. h \o Crlf \in Seq(Token)
        BY <2>2, TextsJoin
      <3>4. Behind(Crlf, StartLine \o (h \o Crlf)) = h \o Crlf
        BY <3>3, BehindStart
      <3> QED
        BY <2>9, <3>1, <3>2, <3>4 DEF rest
    <2>11. PICK b : b = HeadersParse(rest)
      OBVIOUS
    <2>12. b \in Seq(Token) /\ (Lined(b) \/ b = Crlf) /\ Means(b, lines)
      <3>1. CASE h # <<>>
        <4>1. HeadersParse(h \o Crlf) = h
          BY <2>2, <3>1, ParseBlank
        <4> QED
          BY <2>2, <2>10, <2>11, <4>1
      <3>2. CASE h = <<>>
        <4>1. <<>> \o Crlf = Crlf /\ lines = <<>>
          BY <2>2, <3>2, CrlfIs, Empty
        <4>2. b = Crlf
          BY <2>10, <2>11, <3>2, <4>1, ParseCrlf
        <4>3. Means(Crlf, <<>>)
          BY ParseCrlf, MeansNothing
        <4> QED
          BY <4>1, <4>2, <4>3, CrlfIs
      <3> QED
        BY <3>1, <3>2
    <2>13. block' = b /\ iterator' = b /\ pass' = <<>> /\ begun' = ToGive(b)
      BY <1>1, <1>6, <2>11 DEF Parsed
    <2>14. Iteration'
      BY <2>12, <2>13, PassBegins
    <2>15. length = Meant(lines, "length")
      <3>1. "length" \in Sought
        BY DEF Sought
      <3> QED
        BY <2>11, <2>12, <3>1, MeansSame DEF length
    <2>16. ASSUME Meant(lines, "length") # NotFound PROVE got' = sent
      <3>1. size # {}
        BY <1>6, <2>15, <2>16 DEF refused
      <3>2. Len(sent) \in 0..4
        <4>1. PICK k \in Nat : k = Len(sent)
          BY <2>3
        <4>2. k <= 4
          BY <4>1 DEF MessageIInv
        <4>3. k \in 0..4
          BY <4>2
        <4> QED
          BY <4>1, <4>3
      <3>3. length = <<Digits[Len(sent)]>>
        <4>1. PICK n \in DOMAIN Digits : length = <<Digits[n]>>
          BY <3>1 DEF size
        <4>2. Meant(lines, "length") \in Numbers
          BY <2>15, <4>1 DEF Numbers
        <4> QED
          BY <2>4, <2>15, <4>2 DEF MessageIInv, Agree
      <3>4. size = {Len(sent)}
        BY <3>2, <3>3, DigitsDiffer DEF size
      <3>5. Max(size) = Len(sent)
        <4>1. PICK k \in 0..4 : k = Len(sent)
          BY <3>2
        <4>2. k \in size /\ size \subseteq Int /\ \A y \in size : y <= k
          BY <3>4, <4>1
        <4> QED
          BY <4>1, <4>2, MaxIs
      <3>6. end + 1 = Len(g) + 2 /\ end + Max(size) = Len(wire)
        <4>1. Len(g) \in Nat /\ Len(sent) \in Nat
          BY <2>3, <2>7
        <4>2. Len(wire) = Len(g) + (1 + Len(sent)) /\ end = Len(g) + 1
          BY <2>9, <2>10
        <4> QED
          BY <3>5, <4>1, <4>2
      <3>7. got' = SubSeq(wire, end + 1, end + Max(size))
        BY <1>1, <1>6, <3>1
      <3> QED
        BY <2>9, <3>6, <3>7
    <2>17. ReadBack'
      <3>1. Means(b, lines') /\ block' = b /\ at' = "incremental" /\ lines' = lines /\ sent' = sent
        BY <1>1, <1>6, <2>12, <2>13
      <3> QED
        BY <2>16, <3>1 DEF ReadBack
    <2> QED
      BY <2>14, <2>17
  <1> QED
    BY <1>5, <1>6

\* The first of some whole lines, and the others.
LEMMA TakeLine ==
    ASSUME NEW it \in Seq(Token), Lined(it), it # <<>>
    PROVE  /\ Before(Crlf, it) \in Seq(Token) /\ Behind(Crlf, it) \in Seq(Token)
           /\ it = Before(Crlf, it) \o Crlf \o Behind(Crlf, it)
           /\ Lined(Behind(Crlf, it))
  <1>1. PICK n \in Nat : n = Len(it)
    OBVIOUS
  <1>2. n >= 1 /\ it[1] # "crlf" /\ it[n] = "crlf" /\ NoBlank(it)
    BY <1>1 DEF Lined
  <1>3. PICK stops : stops = Occurs(Crlf, it)
    OBVIOUS
  <1>4. stops = {i \in 1..n : it[i] = "crlf"}
    BY <1>1, <1>3, Ends
  <1>5. PICK e : e = Min(stops)
    OBVIOUS
  <1>6. e \in stops
    <2>1. stops \subseteq Nat /\ stops # {}
      BY <1>2, <1>4
    <2> QED
      BY <1>5, <2>1, MinExists
  <1>7. e \in 1..n /\ e \in Nat /\ 1 <= e /\ e <= n /\ it[e] = "crlf"
    BY <1>4, <1>6
  <1>8. PICK a, b, ae : a = SubSeq(it, 1, e - 1) /\ b = SubSeq(it, e + 1, n) /\ ae = SubSeq(it, 1, e)
    OBVIOUS
  <1>9. a \in Seq(Token) /\ Len(a) = e - 1 /\ \A i \in 1..(e - 1) : a[i] = it[i]
    <2>1. 1 \in Int /\ e - 1 \in Int /\ 1 <= 1 /\ 1 <= (e - 1) + 1 /\ e - 1 <= Len(it)
      BY <1>1, <1>7
    <2>2. /\ SubSeq(it, 1, e - 1) \in Seq(Token) /\ Len(SubSeq(it, 1, e - 1)) = ((e - 1) - 1) + 1
          /\ \A i \in 1..(((e - 1) - 1) + 1) : SubSeq(it, 1, e - 1)[i] = it[(1 + i) - 1]
      BY <2>1, Sub
    <2>3. ((e - 1) - 1) + 1 = e - 1 /\ \A i \in 1..(e - 1) : (1 + i) - 1 = i
      BY <1>7
    <2> QED
      BY <1>8, <2>2, <2>3
  <1>10. b \in Seq(Token) /\ Len(b) = n - e /\ \A i \in 1..(n - e) : b[i] = it[e + i]
    <2>1. e + 1 \in Int /\ n \in Int /\ 1 <= e + 1 /\ e + 1 <= n + 1 /\ n <= Len(it)
      BY <1>1, <1>7
    <2>2. /\ SubSeq(it, e + 1, n) \in Seq(Token) /\ Len(SubSeq(it, e + 1, n)) = (n - (e + 1)) + 1
          /\ \A i \in 1..((n - (e + 1)) + 1) : SubSeq(it, e + 1, n)[i] = it[((e + 1) + i) - 1]
      BY <2>1, Sub
    <2>3. (n - (e + 1)) + 1 = n - e /\ \A i \in 1..(n - e) : ((e + 1) + i) - 1 = e + i
      BY <1>7
    <2> QED
      BY <1>8, <2>2, <2>3
  <1>11. it = ae \o b
    <2>1. e \in 0..Len(it)
      BY <1>1, <1>7
    <2>2. it = SubSeq(it, 1, e) \o SubSeq(it, e + 1, Len(it))
      BY <2>1, CutAndJoin
    <2> QED
      BY <1>1, <1>8, <2>2
  <1>12. ae = a \o Crlf
    <2>1. PICK s : s = a \o Crlf
      OBVIOUS
    <2>2. s \in Seq(Token) /\ Len(s) = e /\ (\A i \in 1..(e - 1) : s[i] = a[i]) /\ s[e] = "crlf"
      <3>1. a \in Seq(Token) /\ Crlf \in Seq(Token)
        BY <1>9, CrlfIs
      <3>2. /\ a \o Crlf \in Seq(Token) /\ Len(a \o Crlf) = Len(a) + Len(Crlf)
            /\ \A i \in 1..Len(a) : (a \o Crlf)[i] = a[i]
            /\ \A i \in 1..Len(Crlf) : (a \o Crlf)[Len(a) + i] = Crlf[i]
        BY <3>1, Cat
      <3>3. Len(Crlf) = 1 /\ Crlf[1] = "crlf"
        BY CrlfIs
      <3>4. (e - 1) + 1 = e /\ 1 \in 1..1
        BY <1>7
      <3>5. Len(a) = e - 1
        BY <1>9
      <3> QED
        BY <2>1, <3>2, <3>3, <3>4, <3>5
    <2>3. 1 \in Int /\ e \in Int /\ 1 <= 1 /\ 1 <= e + 1 /\ e <= Len(it) /\ Len(s) = (e - 1) + 1
      BY <1>1, <1>7, <2>2
    <2>4. ASSUME NEW i \in 1..Len(s) PROVE s[i] = it[(1 + i) - 1]
      <3>1. (1 + i) - 1 = i /\ (i \in 1..(e - 1) \/ i = e)
        BY <1>7, <2>2
      <3> QED
        BY <1>7, <1>9, <2>2, <3>1
    <2>5. s \in Seq(Token)
      BY <2>2
    <2>6. SubSeq(it, 1, e) = s
      BY <2>3, <2>4, <2>5, SubIs
    <2> QED
      BY <1>8, <2>1, <2>6
  <1>13. Lined(b)
    <2> SUFFICES ASSUME b # <<>> PROVE b[1] # "crlf" /\ b[Len(b)] = "crlf" /\ NoBlank(b)
      BY DEF Lined
    <2>1. n - e >= 1
      <3>1. Len(b) # 0
        BY <1>10
      <3> QED
        BY <1>7, <1>10, <3>1
    <2>2. b[1] # "crlf"
      <3>1. e \in 1..(Len(it) - 1) /\ 1 \in 1..(n - e)
        BY <1>1, <1>7, <2>1
      <3>2. it[e + 1] # "crlf"
        BY <1>2, <1>7, <3>1 DEF NoBlank
      <3> QED
        BY <1>10, <3>1, <3>2
    <2>3. b[n - e] = "crlf"
      <3>1. n - e \in 1..(n - e) /\ e + (n - e) = n
        BY <1>7, <2>1
      <3> QED
        BY <1>2, <1>10, <3>1
    <2>4. NoBlank(b)
      <3> SUFFICES ASSUME NEW i \in 1..(Len(b) - 1), b[i] = "crlf" PROVE b[i + 1] # "crlf"
        BY DEF NoBlank
      <3>1. /\ i \in 1..(n - e) /\ i + 1 \in 1..(n - e) /\ e + i \in 1..(Len(it) - 1)
            /\ e + (i + 1) = (e + i) + 1
        BY <1>1, <1>7, <1>10
      <3>2. it[e + i] = "crlf" => it[(e + i) + 1] # "crlf"
        BY <1>2, <3>1 DEF NoBlank
      <3> QED
        BY <1>10, <3>1, <3>2
    <2> QED
      BY <1>10, <2>2, <2>3, <2>4
  <1>14. Before(Crlf, it) = a /\ Behind(Crlf, it) = b
    <2>1. Len(Crlf) = 1
      BY CrlfIs
    <2> QED
      BY <1>1, <1>3, <1>5, <1>8, <2>1 DEF Before, Behind
  <1> QED
    BY <1>9, <1>10, <1>11, <1>12, <1>13, <1>14

\* http_headers_get_next gives the next line, or ends the pass and rewinds.
LEMMA StepGetNext ==
    ASSUME MessageIInv, GetNext
    PROVE  MessageIInv'
  <1>1. UNCHANGED <<block, draft, lines, wire, sent, got, at>>
    BY DEF GetNext
  <1>2. (BodyHasHeaders <=> BodyHasHeaders') /\ (Received <=> Received') /\ (ReadBack <=> ReadBack')
    BY <1>1 DEF BodyHasHeaders, Received, ReadBack
  <1>3. Written => Written'
    <2>1. Unsent' = Unsent
      BY <1>1 DEF Unsent
    <2>2. (SentWhole <=> SentWhole') /\ (LacksBlank <=> LacksBlank') /\ (LacksEnd <=> LacksEnd')
      BY <1>1, <2>1 DEF SentWhole, LacksBlank, LacksEnd
    <2> QED
      BY <1>1, <2>1, <2>2 DEF Written
  <1>4. ASSUME Iteration PROVE Iteration'
    <2>1. CASE UNCHANGED <<iterator, pass, begun>>
      BY <1>1, <1>4, <2>1 DEF Iteration
    <2>2. CASE block # <<>> /\ iterator \in {<<>>, Crlf}
      <3>1. iterator' = block /\ pass' = <<>> /\ begun' = ToGive(block) /\ block' = block
        BY <1>1, <2>2 DEF GetNext, Rewound
      <3>2. block \in Seq(Token) /\ (Lined(block) \/ Unended(block) \/ block = Crlf)
        BY <1>4 DEF Iteration
      <3> QED
        BY <3>1, <3>2, PassBegins
    <2>3. CASE /\ block # <<>> /\ iterator \notin {<<>>, Crlf} /\ Occurs(Crlf, iterator) # {}
      <3>1. PICK it, a, b : it = iterator /\ a = Before(Crlf, it) /\ b = Behind(Crlf, it)
        OBVIOUS
      <3>2. iterator' = b /\ pass' = pass \o a \o Crlf /\ begun' = begun
        BY <2>3, <3>1 DEF GetNext
      <3>3. it \in Seq(Token) /\ it # <<>> /\ pass \in Seq(Token)
        BY <1>4, <2>3, <3>1 DEF Iteration
      <3>4. Lined(it) /\ pass \o it = SubSeq(block, 1, begun)
        <4>1. ~Unended(it)
          BY <2>3, <3>1, <3>3, ParseUnended
        <4> QED
          BY <1>4, <2>3, <3>1, <4>1 DEF Iteration
      <3>5. a \in Seq(Token) /\ b \in Seq(Token) /\ it = a \o Crlf \o b /\ Lined(b)
        BY <3>1, <3>3, <3>4, TakeLine
      <3>6. pass \o a \o Crlf \o b = pass \o it /\ pass \o a \o Crlf \in Seq(Token)
        <4>1. a \in Seq(Token) /\ b \in Seq(Token) /\ Crlf \in Seq(Token) /\ pass \in Seq(Token)
          BY <3>3, <3>5, CrlfIs
        <4>2. a \o Crlf \in Seq(Token) /\ pass \o a \in Seq(Token)
          BY <4>1, TextsJoin
        <4>3. (pass \o a) \o Crlf = pass \o (a \o Crlf)
          BY <4>1, TextAssoc
        <4>4. (pass \o (a \o Crlf)) \o b = pass \o ((a \o Crlf) \o b)
          BY <4>1, <4>2, TextAssoc, SMTT(40)
        <4>5. (pass \o a) \o Crlf \in Seq(Token)
          BY <4>2, TextsJoin
        <4> QED
          BY <3>5, <4>3, <4>4, <4>5
      <3>7. pass' \o iterator' = SubSeq(block', 1, begun')
        BY <1>1, <3>2, <3>4, <3>6
      <3>8. /\ block \in Seq(Token) /\ (Lined(block) \/ Unended(block) \/ block = Crlf)
            /\ begun \in 0..Len(block)
        BY <1>4 DEF Iteration
      <3> QED
        BY <1>1, <3>2, <3>5, <3>6, <3>7, <3>8 DEF Iteration
    <2> QED
      BY <2>1, <2>2, <2>3 DEF GetNext
  <1> QED
    BY <1>1, <1>2, <1>3, <1>4 DEF MessageIInv

\* Every step keeps the invariant.
LEMMA MessageStep == MessageIInv /\ [MessageNext]_message_vars => MessageIInv'
  <1> SUFFICES ASSUME MessageIInv, [MessageNext]_message_vars PROVE MessageIInv'
    OBVIOUS
  <1>1. ASSUME NEW name \in Names, NEW value \in Values, Add(name, value) PROVE MessageIInv'
    BY <1>1, StepAdd
  <1>2. ASSUME NEW body \in Bodies, Serialize(body) PROVE MessageIInv'
    BY <1>2, StepSerialize
  <1>3. ASSUME NEW line \in PeerLines, PeerWrites(line) PROVE MessageIInv'
    BY <1>3, StepPeerWrites
  <1>4. ASSUME NEW body \in Bodies, NEW lacks \in 0..2, PeerSends(body, lacks) PROVE MessageIInv'
    BY <1>4, StepPeerSends
  <1>5. CASE ParseWhole
    BY <1>5, StepParseWhole
  <1>6. CASE ParseHead
    BY <1>6, StepParseHead
  <1>7. CASE GetNext
    BY <1>7, StepGetNext
  <1>8. CASE UNCHANGED message_vars
    BY <1>8, MessageStutter DEF message_vars
  <1> QED
    BY <1>1, <1>2, <1>3, <1>4, <1>5, <1>6, <1>7, <1>8 DEF MessageNext

-------------------------------------------------------------------------------
\* Whatever is added, written, sent and parsed, the invariant holds: what is to be sent is
\* whole header lines that mean what was added or written (Written), what was parsed means
\* what was sent (ReadBack), and what a pass gave and has yet to give is what there was to
\* give (Iteration).
THEOREM MessageInvariant == MessageSpec => []MessageIInv
  BY MessageInitial, MessageStep, PTL DEF MessageSpec

\* What one end says is what the other end finds (http_headers_add, _find and _parse): each
\* header, however its line is written, with any blanks around its value, and the body,
\* whatever bytes are in it, for any names, values, bodies and header lines of a peer.
THEOREM HeadersComeBack == MessageSpec => []MessageComesBack
  <1>1. MessageIInv => MessageComesBack
    <2> SUFFICES ASSUME MessageIInv PROVE MessageComesBack
      OBVIOUS
    <2>1. \A name \in Names : name \in Sought
      BY DEF Sought
    <2>2. ASSUME NEW name \in Names, at = "built", wire = <<>>, draft = <<>>
          PROVE  Find(block, name) = Meant(lines, name)
      <3>1. BodyHasHeaders
        BY <2>2 DEF MessageIInv, BodyHasHeaders
      <3>2. Means(block, lines)
        BY <2>2, <3>1 DEF MessageIInv, Written, Unsent
      <3> QED
        BY <2>1, <3>2, MeansSame
    <2>3. ASSUME Received, BodyHasHeaders
          PROVE  /\ \A name \in Names : Find(block, name) = Meant(lines, name)
                 /\ at = "whole" \/ Meant(lines, "length") # NotFound => got = sent
      <3>1. ReadBack
        BY <2>3 DEF MessageIInv
      <3> QED
        BY <2>1, <3>1, MeansSame DEF ReadBack
    <2> QED
      BY <2>2, <2>3 DEF MessageComesBack
  <1> QED
    BY <1>1, MessageInvariant, PTL

\* A pass of http_headers_get_next that ends has given every line that was there when it
\* began, once and in order, also when some of them were answered with an error.
THEOREM PassesComplete == MessageSpec => PassesAreComplete
  <1>1. MessageIInv /\ [MessageNext]_message_vars =>
            [GetNext /\ returned' = "eof" /\ BodyHasHeaders => pass = SubSeq(block, 1, begun)]_message_vars
    <2> SUFFICES ASSUME MessageIInv, GetNext, returned' = "eof", BodyHasHeaders
                 PROVE  pass = SubSeq(block, 1, begun)
      OBVIOUS
    <2>1. Iteration
      BY DEF MessageIInv
    <2>2. block = <<>> \/ iterator \in {<<>>, Crlf}
      BY DEF GetNext
    <2>3. Len(Crlf) = 1 /\ Crlf[1] = "crlf" /\ Crlf # <<>>
      BY CrlfIs
    <2>4. CASE iterator = <<>>
      <3>1. pass \in Seq(Token) /\ pass \o <<>> = pass
        BY <2>1, TextsJoin DEF Iteration
      <3> QED
        BY <2>1, <2>3, <2>4, <3>1 DEF Iteration
    <2>5. CASE iterator = Crlf
      <3>1. ~Lined(Crlf) /\ ~Unended(Crlf)
        BY <2>3 DEF Lined, Unended
      <3>2. block = Crlf /\ pass = <<>> /\ begun = 0
        BY <2>1, <2>5, <3>1 DEF Iteration
      <3>3. SubSeq(Crlf, 1, 0) = <<>>
        BY CrlfIs
      <3> QED
        BY <3>2, <3>3
    <2>6. CASE block = <<>>
      <3>1. Len(block) = 0 /\ begun = 0
        BY <2>1, <2>6 DEF Iteration
      <3>2. SubSeq(block, 1, begun) = <<>>
        BY <2>6, <3>1
      <3>3. pass \o iterator = <<>>
        BY <2>1, <2>3, <2>6, <3>2 DEF Iteration
      <3>4. pass \in Seq(Token) /\ iterator \in Seq(Token)
        BY <2>1 DEF Iteration
      <3>5. pass = <<>>
        <4>1. Len(pass \o iterator) = Len(pass) + Len(iterator) /\ Len(pass) \in Nat /\ Len(iterator) \in Nat
          BY <3>4, Cat
        <4>2. Len(pass) = 0
          BY <3>3, <4>1
        <4> QED
          BY <3>4, <4>2
      <3> QED
        BY <3>2, <3>5
    <2> QED
      BY <2>2, <2>4, <2>5, <2>6
  <1> QED
    BY <1>1, MessageInvariant, PTL DEF MessageSpec, PassesAreComplete

-------------------------------------------------------------------------------
(* Forms: what a text holds *)

\* Behind a place in a text there is some piece.
Holds(text, pos, piece) ==
    /\ pos + Len(piece) <= Len(text)
    /\ \A i \in 1..Len(piece) : text[pos + i] = piece[i]

\* A text holds two pieces one behind the other if it holds each in its place.
LEMMA HoldsBoth ==
    ASSUME NEW T, NEW text \in Seq(T), NEW pos \in Nat, NEW a \in Seq(T), NEW b \in Seq(T)
    PROVE  Holds(text, pos, a \o b) <=> Holds(text, pos, a) /\ Holds(text, pos + Len(a), b)
  <1>1. PICK m \in Nat, n \in Nat : m = Len(a) /\ n = Len(b)
    OBVIOUS
  <1>2. PICK s : s = a \o b
    OBVIOUS
  <1>3. /\ s \in Seq(T) /\ Len(s) = m + n
        /\ \A i \in 1..m : s[i] = a[i]
        /\ \A i \in 1..n : s[m + i] = b[i]
    BY <1>1, <1>2, Cat
  <1>4. Len(text) \in Nat
    OBVIOUS
  <1>5. ASSUME Holds(text, pos, s) PROVE Holds(text, pos, a) /\ Holds(text, pos + m, b)
    <2>1. pos + (m + n) <= Len(text) /\ \A i \in 1..(m + n) : text[pos + i] = s[i]
      BY <1>3, <1>5 DEF Holds
    <2>2. \A i \in 1..m : text[pos + i] = a[i]
      BY <1>3, <2>1
    <2>3. ASSUME NEW i \in 1..n PROVE text[(pos + m) + i] = b[i]
      <3>1. m + i \in 1..(m + n) /\ pos + (m + i) = (pos + m) + i
        OBVIOUS
      <3> QED
        BY <1>3, <2>1, <3>1
    <2> QED
      BY <1>1, <1>4, <2>1, <2>2, <2>3 DEF Holds
  <1>6. ASSUME Holds(text, pos, a), Holds(text, pos + m, b) PROVE Holds(text, pos, s)
    <2>1. (pos + m) + n <= Len(text) /\ \A i \in 1..n : text[(pos + m) + i] = b[i]
      BY <1>1, <1>6 DEF Holds
    <2>2. \A i \in 1..m : text[pos + i] = a[i]
      BY <1>1, <1>6 DEF Holds
    <2>3. ASSUME NEW i \in 1..(m + n) PROVE text[pos + i] = s[i]
      <3>1. CASE i <= m
        BY <1>3, <2>2, <3>1
      <3>2. CASE i > m
        <4>1. PICK j \in 1..n : i = m + j
          <5>1. i - m \in 1..n /\ i = m + (i - m)
            BY <3>2
          <5> QED
            BY <5>1
        <4>2. pos + i = (pos + m) + j
          BY <4>1
        <4> QED
          BY <1>3, <2>1, <4>1, <4>2
      <3> QED
        BY <3>1, <3>2
    <2> QED
      BY <1>3, <1>4, <2>1, <2>3 DEF Holds
  <1> QED
    BY <1>1, <1>2, <1>5, <1>6

\* A text that grows pos its end still holds what it held, and what was put there.
LEMMA HoldsMore ==
    ASSUME NEW T, NEW text \in Seq(T), NEW pos \in Nat, NEW piece \in Seq(T), NEW more \in Seq(T),
           Holds(text, pos, piece)
    PROVE  Holds(text \o more, pos, piece)
  <1>1. PICK m \in Nat, n \in Nat, k \in Nat : m = Len(text) /\ n = Len(more) /\ k = Len(piece)
    OBVIOUS
  <1>2. PICK s : s = text \o more
    OBVIOUS
  <1>3. Len(s) = m + n /\ \A i \in 1..m : s[i] = text[i]
    BY <1>1, <1>2, Cat
  <1>4. pos + k <= m /\ \A i \in 1..k : text[pos + i] = piece[i]
    BY <1>1 DEF Holds
  <1>5. \A i \in 1..k : pos + i \in 1..m
    BY <1>4
  <1>6. \A i \in 1..k : s[pos + i] = piece[i]
    BY <1>3, <1>4, <1>5
  <1> QED
    BY <1>1, <1>2, <1>3, <1>4, <1>6 DEF Holds

\* A piece put behind a text is held there.
LEMMA HoldsNew ==
    ASSUME NEW T, NEW text \in Seq(T), NEW piece \in Seq(T)
    PROVE  Holds(text \o piece, Len(text), piece)
  BY Cat DEF Holds

\* What is behind a place in a text holds the same pieces.
LEMMA HoldsBehind ==
    ASSUME NEW T, NEW text \in Seq(T), NEW from \in Nat, NEW pos \in Nat, NEW piece \in Seq(T),
           Holds(text, from + pos, piece)
    PROVE  /\ SubSeq(text, from + 1, Len(text)) \in Seq(T)
           /\ Len(SubSeq(text, from + 1, Len(text))) = Len(text) - from
           /\ Holds(SubSeq(text, from + 1, Len(text)), pos, piece)
  <1>1. PICK m \in Nat, k \in Nat : m = Len(text) /\ k = Len(piece)
    OBVIOUS
  <1>2. (from + pos) + k <= m /\ \A i \in 1..k : text[(from + pos) + i] = piece[i]
    BY <1>1 DEF Holds
  <1>3. PICK s : s = SubSeq(text, from + 1, m)
    OBVIOUS
  <1>4. s \in Seq(T) /\ Len(s) = m - from /\ \A i \in 1..(m - from) : s[i] = text[from + i]
    <2>1. from + 1 \in Int /\ 1 <= from + 1 /\ from + 1 <= m + 1 /\ m <= Len(text) /\ m \in Int
      BY <1>1, <1>2
    <2>2. /\ s \in Seq(T) /\ Len(s) = (m - (from + 1)) + 1
          /\ \A i \in 1..((m - (from + 1)) + 1) : s[i] = text[((from + 1) + i) - 1]
      BY <1>3, <2>1, Sub
    <2>3. (m - (from + 1)) + 1 = m - from /\ \A i \in 1..(m - from) : ((from + 1) + i) - 1 = from + i
      BY <1>1
    <2> QED
      BY <2>2, <2>3
  <1>5. ASSUME NEW i \in 1..k PROVE s[pos + i] = piece[i]
    <2>1. pos + i \in 1..(m - from) /\ from + (pos + i) = (from + pos) + i
      BY <1>2
    <2> QED
      BY <1>2, <1>4, <2>1
  <1>6. pos + k <= m - from
    BY <1>2
  <1> QED
    BY <1>1, <1>3, <1>4, <1>5, <1>6 DEF Holds

\* A piece that is held is the piece cut out.
LEMMA HoldsIs ==
    ASSUME NEW T, NEW text \in Seq(T), NEW pos \in Nat, NEW piece \in Seq(T), Holds(text, pos, piece)
    PROVE  SubSeq(text, pos + 1, pos + Len(piece)) = piece
  <1>1. PICK m \in Nat, k \in Nat : m = Len(text) /\ k = Len(piece)
    OBVIOUS
  <1>2. pos + k <= m /\ \A i \in 1..k : text[pos + i] = piece[i]
    BY <1>1 DEF Holds
  <1>3. /\ pos + 1 \in Int /\ pos + k \in Int /\ 1 <= pos + 1 /\ pos + 1 <= (pos + k) + 1
        /\ pos + k <= Len(text) /\ Len(piece) = ((pos + k) - (pos + 1)) + 1
    BY <1>1, <1>2
  <1>4. \A i \in 1..Len(piece) : piece[i] = text[((pos + 1) + i) - 1]
    <2>1. \A i \in 1..k : ((pos + 1) + i) - 1 = pos + i
      OBVIOUS
    <2> QED
      BY <1>1, <1>2, <2>1
  <1> QED
    BY <1>1, <1>3, <1>4, SubIs

-------------------------------------------------------------------------------
(* Forms: query strings *)

\* The first of some places, or the place behind the last.
LEMMA FirstIs ==
    ASSUME NEW n \in Nat, NEW from \in Nat, NEW S, S \subseteq from..n,
           NEW e \in from..(n + 1), e <= n => e \in S, \A y \in S : e <= y
    PROVE  Min(S \cup {n + 1}) = e
  <1>1. S \cup {n + 1} \subseteq Int /\ e \in S \cup {n + 1}
    OBVIOUS
  <1>2. \A y \in S \cup {n + 1} : e <= y
    OBVIOUS
  <1> QED
    BY <1>1, <1>2, MinIs

\* The first element of a set of places, or the place behind the text.
LEMMA FirstExists ==
    ASSUME NEW n \in Nat, NEW from \in Nat, from <= n + 1, NEW S, S \subseteq from..n
    PROVE  /\ Min(S \cup {n + 1}) \in from..(n + 1)
           /\ Min(S \cup {n + 1}) <= n => Min(S \cup {n + 1}) \in S
           /\ \A y \in S : Min(S \cup {n + 1}) <= y
  <1>1. S \cup {n + 1} \subseteq Nat /\ S \cup {n + 1} # {}
    OBVIOUS
  <1>2. PICK e : e = Min(S \cup {n + 1})
    OBVIOUS
  <1>3. e \in S \cup {n + 1} /\ \A y \in S \cup {n + 1} : e <= y
    BY <1>1, <1>2, MinExists
  <1>4. e \in from..(n + 1) /\ (e <= n => e \in S) /\ \A y \in S : e <= y
    BY <1>3
  <1> QED
    BY <1>2, <1>4

\* FirstOf is a place in the text or the one behind it.
LEMMA FirstOfExists ==
    ASSUME NEW T, NEW text \in Seq(T), NEW from \in Nat, from <= Len(text) + 1, NEW bytes
    PROVE  FirstOf(text, from, bytes) \in from..(Len(text) + 1)
  <1>1. PICK n \in Nat : n = Len(text)
    OBVIOUS
  <1>2. PICK S : S = {i \in from..n : text[i] \in bytes}
    OBVIOUS
  <1>3. S \subseteq from..n /\ from <= n + 1
    BY <1>1, <1>2
  <1>4. Min(S \cup {n + 1}) \in from..(n + 1)
    BY <1>3, FirstExists
  <1> QED
    BY <1>1, <1>2, <1>4 DEF FirstOf

\* FirstOf is the place up to which none of the bytes is found.
LEMMA FirstOfIs ==
    ASSUME NEW T, NEW text \in Seq(T), NEW from \in Nat, NEW bytes, NEW e \in from..(Len(text) + 1),
           e <= Len(text) => text[e] \in bytes,
           \A i \in from..(e - 1) : text[i] \notin bytes
    PROVE  FirstOf(text, from, bytes) = e
  <1>1. PICK n \in Nat : n = Len(text)
    OBVIOUS
  <1>2. PICK S : S = {i \in from..n : text[i] \in bytes}
    OBVIOUS
  <1>3. S \subseteq from..n /\ e \in from..(n + 1) /\ (e <= n => e \in S)
    BY <1>1, <1>2
  <1>4. \A y \in S : e <= y
    <2> SUFFICES ASSUME NEW y \in S, y < e PROVE FALSE
      BY <1>2
    <2>1. y \in from..(e - 1) /\ text[y] \in bytes
      BY <1>2
    <2> QED
      BY <2>1
  <1>5. Min(S \cup {n + 1}) = e
    BY <1>3, <1>4, FirstIs
  <1> QED
    BY <1>1, <1>2, <1>5 DEF FirstOf

\* What http_query_iterator_next gives, once the places are known where a name begins
\* and ends and where the pair does.
LEMMA QueryNextIs ==
    ASSUME NEW q \in Seq(Int), NEW c \in Nat, NEW s \in (c + 1)..Len(q), NEW m \in s..(Len(q) + 1),
           NEW e \in m..(Len(q) + 1),
           \A i \in (c + 1)..(s - 1) : q[i] = Ampersand, q[s] # Ampersand,
           FirstOf(q, s, {Equals, Ampersand}) = m,
           e = IF m <= Len(q) /\ q[m] = Equals THEN FirstOf(q, m + 1, {Ampersand}) ELSE m
    PROVE  QueryNext([query |-> q, cursor |-> c]) =
              [result |-> "ok", name |-> SubSeq(q, s, m - 1), value |-> SubSeq(q, m + 1, e - 1),
               it |-> [query |-> q, cursor |-> IF e <= Len(q) THEN e ELSE Len(q)]]
  <1>1. PICK n \in Nat : n = Len(q)
    OBVIOUS
  <1>2. PICK it : it = [query |-> q, cursor |-> c]
    OBVIOUS
  <1>5. it.query = q /\ it.cursor = c
    BY <1>2
  <1>3. PICK S : S = {i \in (it.cursor + 1)..Len(it.query) : it.query[i] # Ampersand}
    OBVIOUS
  <1>9. \A i : i \in S <=> i \in (c + 1)..n /\ q[i] # Ampersand
    BY <1>1, <1>3, <1>5
  <1>4. Min(S \cup {n + 1}) = s
    <2>1. S \subseteq (c + 1)..n /\ s \in S /\ s \in (c + 1)..(n + 1) /\ c + 1 \in Nat
      BY <1>1, <1>9
    <2>2. \A y \in S : s <= y
      <3> SUFFICES ASSUME NEW y \in S, y < s PROVE FALSE
        BY <1>9
      <3>1. y \in (c + 1)..(s - 1) /\ q[y] # Ampersand
        BY <1>9
      <3> QED
        BY <3>1
    <2> QED
      BY <2>1, <2>2, FirstIs
  <1>6. \A k : [it EXCEPT !.cursor = k] = [query |-> q, cursor |-> k]
    BY <1>2
  <1>7. ~(s > n)
    BY <1>1
  <1>8. QueryNext(it) =
          [result |-> "ok", name |-> SubSeq(q, s, m - 1), value |-> SubSeq(q, m + 1, e - 1),
           it |-> [it EXCEPT !.cursor = IF e <= n THEN e ELSE n]]
    <2>1. Min({i \in (it.cursor + 1)..Len(it.query) : it.query[i] # Ampersand} \cup {Len(it.query) + 1}) = s
      BY <1>1, <1>3, <1>4, <1>5
    <2>2. FirstOf(it.query, s, {Equals, Ampersand}) = m
      BY <1>5
    <2>3. e = IF m <= Len(it.query) /\ it.query[m] = Equals
              THEN FirstOf(it.query, m + 1, {Ampersand}) ELSE m
      BY <1>5
    <2>4. ~(s > Len(it.query))
      BY <1>1, <1>5, <1>7
    <2>5. QueryNext(it) =
            [result |-> "ok", name |-> SubSeq(it.query, s, m - 1),
             value |-> SubSeq(it.query, m + 1, e - 1),
             it |-> [it EXCEPT !.cursor = IF e <= Len(it.query) THEN e ELSE Len(it.query)]]
      BY <2>1, <2>2, <2>3, <2>4 DEF QueryNext
    <2> QED
      BY <1>1, <1>5, <2>5
  <1> QED
    BY <1>1, <1>2, <1>6, <1>8

\* Behind the last pair there is nothing.
LEMMA QueryNextEnds ==
    ASSUME NEW q \in Seq(Int)
    PROVE  QueryNext([query |-> q, cursor |-> Len(q)]) =
              [result |-> "end_of_data", it |-> [query |-> q, cursor |-> Len(q)]]
  <1>1. PICK n \in Nat : n = Len(q)
    OBVIOUS
  <1>2. PICK it : it = [query |-> q, cursor |-> n]
    OBVIOUS
  <1>3. PICK S : S = {i \in (n + 1)..n : q[i] # Ampersand}
    OBVIOUS
  <1>4. Min(S \cup {n + 1}) = n + 1
    <2>1. S \cup {n + 1} = {n + 1}
      BY <1>3
    <2>2. PICK M : M = S \cup {n + 1}
      OBVIOUS
    <2>3. M \subseteq Int /\ n + 1 \in M /\ \A y \in M : n + 1 <= y
      BY <2>1, <2>2
    <2>4. Min(M) = n + 1
      BY <2>3, MinIs
    <2> QED
      BY <2>2, <2>4
  <1>5. it.query = q /\ it.cursor = n /\ [it EXCEPT !.cursor = n] = [query |-> q, cursor |-> n]
    BY <1>2
  <1>6. n + 1 > n
    OBVIOUS
  <1>7. QueryNext(it) = [result |-> "end_of_data", it |-> [it EXCEPT !.cursor = n]]
    <2>1. {i \in (it.cursor + 1)..Len(it.query) : it.query[i] # Ampersand} = S
      BY <1>1, <1>3, <1>5
    <2>2. Min({i \in (it.cursor + 1)..Len(it.query) : it.query[i] # Ampersand} \cup {Len(it.query) + 1}) = n + 1
      BY <1>1, <1>4, <1>5, <2>1
    <2>3. n + 1 > Len(it.query) /\ Len(it.query) = n
      BY <1>1, <1>5, <1>6
    <2> QED
      BY <2>2, <2>3 DEF QueryNext
  <1> QED
    BY <1>1, <1>2, <1>5, <1>7

\* Whatever the text is, a call that gives a pair has moved on.
LEMMA QueryNextAdvances ==
    ASSUME NEW q \in Seq(Int), NEW c \in 0..Len(q)
    PROVE  LET next == QueryNext([query |-> q, cursor |-> c])
           IN \E k \in 0..Len(q) : /\ next.it = [query |-> q, cursor |-> k]
                                   /\ next.result \in {"ok", "end_of_data"}
                                   /\ next.result = "ok" => k > c
  <1>1. PICK n \in Nat : n = Len(q)
    OBVIOUS
  <1>2. PICK S : S = {i \in (c + 1)..n : q[i] # Ampersand}
    OBVIOUS
  <1>3. c + 1 \in Nat /\ c + 1 <= n + 1 /\ S \subseteq (c + 1)..n /\ c \in Nat
    BY <1>1, <1>2
  <1>4. PICK s : s = Min(S \cup {n + 1})
    OBVIOUS
  <1>7. s \in (c + 1)..(n + 1) /\ (s <= n => s \in S) /\ \A y \in S : s <= y
    BY <1>3, <1>4, FirstExists
  <1>5. CASE s > n
    <2>1. PICK it : it = [query |-> q, cursor |-> c]
      OBVIOUS
    <2>2. it.query = q /\ it.cursor = c /\ [it EXCEPT !.cursor = n] = [query |-> q, cursor |-> n]
      BY <2>1
    <2>3. QueryNext(it) = [result |-> "end_of_data", it |-> [it EXCEPT !.cursor = n]]
      <3>1. {i \in (it.cursor + 1)..Len(it.query) : it.query[i] # Ampersand} = S
        BY <1>1, <1>2, <2>2
      <3>2. Min({i \in (it.cursor + 1)..Len(it.query) : it.query[i] # Ampersand} \cup {Len(it.query) + 1}) = s
        BY <1>1, <1>4, <2>2, <3>1
      <3>3. s > Len(it.query) /\ Len(it.query) = n
        BY <1>1, <1>5, <2>2
      <3> QED
        BY <3>2, <3>3 DEF QueryNext
    <2>4. QueryNext(it).it = [query |-> q, cursor |-> n] /\ QueryNext(it).result = "end_of_data"
      BY <2>2, <2>3
    <2>5. n \in 0..n
      OBVIOUS
    <2> QED
      BY <1>1, <2>1, <2>4, <2>5
  <1>6. CASE s <= n
    <2>1. s \in (c + 1)..n /\ q[s] # Ampersand /\ s \in Nat
      BY <1>2, <1>3, <1>6, <1>7
    <2>2. ASSUME NEW i \in (c + 1)..(s - 1) PROVE q[i] = Ampersand
      <3>1. i \in (c + 1)..n /\ ~(s <= i)
        BY <2>1
      <3> QED
        BY <1>2, <1>7, <3>1
    <2>3. PICK m : m = FirstOf(q, s, {Equals, Ampersand})
      OBVIOUS
    <2>8. m \in s..(n + 1)
      BY <1>1, <2>1, <2>3, FirstOfExists
    <2>4. PICK e : e = IF m <= n /\ q[m] = Equals THEN FirstOf(q, m + 1, {Ampersand}) ELSE m
      OBVIOUS
    <2>9. e \in m..(n + 1)
      <3>1. CASE m <= n /\ q[m] = Equals
        <4>1. m + 1 \in Nat /\ m + 1 <= n + 1 /\ m \in Int
          BY <2>1, <2>8, <3>1
        <4>2. FirstOf(q, m + 1, {Ampersand}) \in (m + 1)..(n + 1)
          BY <1>1, <4>1, FirstOfExists
        <4> QED
          BY <2>4, <3>1, <4>1, <4>2
      <3>2. CASE ~(m <= n /\ q[m] = Equals)
        BY <2>1, <2>4, <2>8, <3>2
      <3> QED
        BY <3>1, <3>2
    <2>5. QueryNext([query |-> q, cursor |-> c]) =
              [result |-> "ok", name |-> SubSeq(q, s, m - 1), value |-> SubSeq(q, m + 1, e - 1),
               it |-> [query |-> q, cursor |-> IF e <= Len(q) THEN e ELSE Len(q)]]
      <3>1. /\ s \in (c + 1)..Len(q) /\ m \in s..(Len(q) + 1) /\ e \in m..(Len(q) + 1) /\ c \in Nat
            /\ e = IF m <= Len(q) /\ q[m] = Equals THEN FirstOf(q, m + 1, {Ampersand}) ELSE m
        BY <1>1, <1>3, <2>1, <2>4, <2>8, <2>9
      <3>2. FirstOf(q, s, {Equals, Ampersand}) = m
        BY <2>3
      <3>3. q[s] # Ampersand
        BY <2>1
      <3> QED
        BY <2>2, <3>1, <3>2, <3>3, QueryNextIs, ZenonT(60)
    <2>6. PICK k : k = IF e <= n THEN e ELSE n
      OBVIOUS
    <2>7. k \in 0..n /\ k > c
      BY <1>1, <2>1, <2>8, <2>9, <2>6
    <2> QED
      BY <1>1, <2>5, <2>6, <2>7, SMTT(40)
  <1>8. s > n \/ s <= n
    BY <1>7
  <1> QED
    BY <1>5, <1>6, <1>8

\* A pair, and where its pieces are.
LEMMA PairHeld ==
    ASSUME NEW q \in Seq(Int), NEW c \in Nat, NEW name \in Seq(Int), NEW raw \in Seq(Int), NEW bare
    PROVE  /\ Pair(name, raw, bare) \in Seq(Int) /\ Len(Pair(name, raw, bare)) > Len(name) + Len(raw)
           /\ Holds(q, c, Pair(name, raw, bare)) =>
                 \E m \in Nat, e \in Nat :
                    /\ m = c + Len(name) + 1 /\ e = c + Len(Pair(name, raw, bare))
                    /\ e <= Len(q) /\ q[e] = Ampersand /\ Holds(q, c, name)
                    /\ \/ raw = <<>> /\ m = e
                       \/ q[m] = Equals /\ e = m + Len(raw) + 1 /\ Holds(q, m, raw)
  <1>1. PICK n \in Nat, r \in Nat : n = Len(name) /\ r = Len(raw)
    OBVIOUS
  <1>2. /\ <<Equals>> \in Seq(Int) /\ Len(<<Equals>>) = 1 /\ <<Equals>>[1] = Equals
        /\ <<Ampersand>> \in Seq(Int) /\ Len(<<Ampersand>>) = 1 /\ <<Ampersand>>[1] = Ampersand
    BY OneToken DEF Equals, Ampersand
  <1>3. PICK sep : sep = IF raw = <<>> /\ bare THEN <<>> ELSE <<Equals>>
    OBVIOUS
  <1>4. PICK p : p = Pair(name, raw, bare)
    OBVIOUS
  <1>5. \/ raw = <<>> /\ r = 0 /\ sep = <<>> /\ Len(sep) = 0
        \/ sep = <<Equals>> /\ Len(sep) = 1
    BY <1>1, <1>2, <1>3
  <1>6. sep \in Seq(Int) /\ Len(sep) \in Nat
    BY <1>2, <1>3
  <1>7. PICK a : a = name \o sep
    OBVIOUS
  <1>8. a \in Seq(Int) /\ Len(a) = n + Len(sep)
    BY <1>1, <1>6, <1>7, Cat
  <1>9. PICK b : b = a \o raw
    OBVIOUS
  <1>15. b \in Seq(Int) /\ Len(b) = Len(a) + Len(raw)
    BY <1>8, <1>9, Cat
  <1>10. b \in Seq(Int) /\ Len(b) = (n + Len(sep)) + r
    BY <1>1, <1>8, <1>15
  <1>11. p = b \o <<Ampersand>>
    BY <1>3, <1>4, <1>7, <1>9 DEF Pair
  <1>12. p \in Seq(Int) /\ Len(p) = ((n + Len(sep)) + r) + 1
    BY <1>2, <1>10, <1>11, Cat
  <1>13. ASSUME Holds(q, c, p)
         PROVE  \E m \in Nat, e \in Nat :
                    /\ m = c + n + 1 /\ e = c + Len(p)
                    /\ e <= Len(q) /\ q[e] = Ampersand /\ Holds(q, c, name)
                    /\ \/ raw = <<>> /\ m = e
                       \/ q[m] = Equals /\ e = m + r + 1 /\ Holds(q, m, raw)
    <2>1. Holds(q, c, b) /\ Holds(q, c + Len(b), <<Ampersand>>)
      BY <1>2, <1>10, <1>11, <1>13, HoldsBoth
    <2>2. Holds(q, c, a) /\ Holds(q, c + Len(a), raw)
      BY <1>8, <1>9, <2>1, HoldsBoth
    <2>3. Holds(q, c, name) /\ Holds(q, c + Len(name), sep)
      BY <1>6, <1>7, <2>2, HoldsBoth
    <2>4. PICK e \in Nat : e = c + Len(p)
      BY <1>1, <1>6, <1>12
    <2>5. e = (c + Len(b)) + 1
      BY <1>1, <1>6, <1>10, <1>12, <2>4
    <2>6. e <= Len(q) /\ q[e] = Ampersand
      BY <1>2, <2>1, <2>5 DEF Holds
    <2>7. PICK m \in Nat : m = c + n + 1
      OBVIOUS
    <2>8. CASE sep = <<>>
      <3>1. raw = <<>> /\ m = e
        BY <1>2, <1>5, <1>6, <1>12, <2>4, <2>7, <2>8
      <3> QED
        BY <2>3, <2>4, <2>6, <2>7, <3>1
    <2>9. CASE sep = <<Equals>>
      <3>1. Len(sep) = 1 /\ sep[1] = Equals
        BY <1>2, <2>9
      <3>2. q[m] = Equals
        BY <1>1, <2>3, <2>7, <3>1 DEF Holds
      <3>3. c + Len(a) = m /\ e = m + r + 1
        BY <1>8, <1>12, <2>4, <2>7, <3>1
      <3>4. Holds(q, m, raw)
        BY <2>2, <3>3
      <3> QED
        BY <2>3, <2>4, <2>6, <2>7, <3>2, <3>3, <3>4
    <2> QED
      BY <1>5, <2>8, <2>9
  <1>14. Len(p) > n + r
    BY <1>6, <1>12
  <1> QED
    BY <1>1, <1>4, <1>12, <1>13, <1>14

\* What separates pairs is in no name and in no writing of a value.
Legible(name, raw) ==
    /\ name # <<>> /\ \A i \in 1..Len(name) : name[i] \notin {Equals, Ampersand}
    /\ \A i \in 1..Len(raw) : raw[i] # Ampersand

\* Where its name begins and ends, and where it does.
PairPlaces(q, c, name, raw, bare, s, m, e) ==
    /\ s \in (c + 1)..Len(q) /\ m \in s..(Len(q) + 1) /\ e \in m..(Len(q) + 1)
    /\ \A i \in (c + 1)..(s - 1) : q[i] = Ampersand
    /\ q[s] # Ampersand /\ FirstOf(q, s, {Equals, Ampersand}) = m
    /\ e = IF m <= Len(q) /\ q[m] = Equals THEN FirstOf(q, m + 1, {Ampersand}) ELSE m
    /\ SubSeq(q, s, m - 1) = name /\ SubSeq(q, m + 1, e - 1) = raw
    /\ (IF e <= Len(q) THEN e ELSE Len(q)) = c + Len(Pair(name, raw, bare))

\* A pair that a text holds, taken apart by its separators.
LEMMA PairBegins ==
    ASSUME NEW q \in Seq(Int), NEW c \in Nat, NEW name \in Seq(Int), NEW raw \in Seq(Int), NEW bare,
           Legible(name, raw), Holds(q, c, Pair(name, raw, bare))
    PROVE  \E s, m, e : PairPlaces(q, c, name, raw, bare, s, m, e)
  <1>1. PICK n \in Nat, r \in Nat, l \in Nat : n = Len(name) /\ r = Len(raw) /\ l = Len(q)
    OBVIOUS
  <1>0. \E m \in Nat, e \in Nat :
                    /\ m = c + Len(name) + 1 /\ e = c + Len(Pair(name, raw, bare))
                    /\ e <= Len(q) /\ q[e] = Ampersand /\ Holds(q, c, name)
                    /\ \/ raw = <<>> /\ m = e
                       \/ q[m] = Equals /\ e = m + Len(raw) + 1 /\ Holds(q, m, raw)
    BY PairHeld
  <1>2. PICK m \in Nat, e \in Nat :
                    /\ m = c + n + 1 /\ e = c + Len(Pair(name, raw, bare))
                    /\ e <= l /\ q[e] = Ampersand /\ Holds(q, c, name)
                    /\ \/ raw = <<>> /\ m = e
                       \/ q[m] = Equals /\ e = m + r + 1 /\ Holds(q, m, raw)
    BY <1>0, <1>1
  <1>18. /\ \A i \in 1..n : name[i] \notin {Equals, Ampersand}
         /\ \A i \in 1..r : raw[i] # Ampersand
    BY <1>1 DEF Legible
  <1>3. n >= 1
    BY <1>1 DEF Legible
  <1>4. PICK s \in Nat : s = c + 1
    OBVIOUS
  <1>5. c + n <= l /\ \A i \in 1..n : q[c + i] = name[i]
    BY <1>1, <1>2 DEF Holds
  <1>6. s \in (c + 1)..l /\ m \in s..(l + 1) /\ e \in m..(l + 1) /\ s - 1 = c
    <2>1. m <= e /\ e <= l
      BY <1>2
    <2> QED
      BY <1>2, <1>3, <1>4, <1>5, <2>1
  <1>7. q[s] \notin {Equals, Ampersand}
    <2>1. 1 \in 1..n
      BY <1>3
    <2>2. q[c + 1] = name[1]
      BY <1>5, <2>1
    <2> QED
      BY <1>4, <1>18, <2>1, <2>2
  <1>8. ASSUME NEW i \in s..(m - 1) PROVE q[i] \notin {Equals, Ampersand}
    <2>1. i - c \in 1..n /\ c + (i - c) = i
      BY <1>2, <1>4
    <2>2. q[i] = name[i - c]
      BY <1>5, <2>1
    <2> QED
      BY <1>18, <2>1, <2>2
  <1>9. q[m] \in {Equals, Ampersand} /\ m <= l
    BY <1>2, <1>6
  <1>10. FirstOf(q, s, {Equals, Ampersand}) = m
    BY <1>1, <1>6, <1>8, <1>9, FirstOfIs
  <1>11. e = IF m <= l /\ q[m] = Equals THEN FirstOf(q, m + 1, {Ampersand}) ELSE m
    <2>1. CASE q[m] = Equals
      <3>1. q[e] # Equals
        BY <1>2 DEF Equals, Ampersand
      <3>2. e = m + r + 1 /\ Holds(q, m, raw)
        BY <1>2, <2>1, <3>1
      <3>3. \A i \in 1..r : q[m + i] = raw[i]
        BY <1>1, <3>2 DEF Holds
      <3>4. ASSUME NEW i \in (m + 1)..(e - 1) PROVE q[i] \notin {Ampersand}
        <4>1. i - m \in 1..r /\ m + (i - m) = i
          BY <3>2
        <4>2. q[i] = raw[i - m]
          BY <3>3, <4>1
        <4> QED
          BY <1>18, <4>1, <4>2
      <3>5. m + 1 \in Nat /\ e \in (m + 1)..(l + 1) /\ q[e] \in {Ampersand}
        BY <1>2, <3>2
      <3>6. FirstOf(q, m + 1, {Ampersand}) = e
        BY <1>1, <3>4, <3>5, FirstOfIs
      <3> QED
        BY <1>9, <2>1, <3>6
    <2>2. CASE q[m] # Equals
      BY <1>2, <2>2
    <2> QED
      BY <2>1, <2>2
  <1>12. \A i \in (c + 1)..(s - 1) : q[i] = Ampersand
    BY <1>4
  <1>17. q[s] # Ampersand
    BY <1>7
  <1>13. /\ s \in (c + 1)..Len(q) /\ m \in s..(Len(q) + 1) /\ e \in m..(Len(q) + 1)
         /\ e = IF m <= Len(q) /\ q[m] = Equals THEN FirstOf(q, m + 1, {Ampersand}) ELSE m
    BY <1>1, <1>6, <1>11
  <1>14. SubSeq(q, s, m - 1) = name
    <2>1. s = c + 1 /\ m - 1 = c + Len(name)
      BY <1>1, <1>2, <1>4
    <2>2. SubSeq(q, c + 1, c + Len(name)) = name
      BY <1>2, HoldsIs
    <2> QED
      BY <2>1, <2>2
  <1>15. SubSeq(q, m + 1, e - 1) = raw
    <2>1. CASE raw = <<>> /\ m = e
      <3>1. /\ m + 1 \in Int /\ m - 1 \in Int /\ 1 <= m + 1 /\ e - 1 = m - 1
        BY <2>1
      <3>2. SubSeq(q, m + 1, m - 1) = <<>>
        BY <3>1
      <3> QED
        BY <2>1, <3>1, <3>2
    <2>2. CASE e = m + r + 1 /\ Holds(q, m, raw)
      <3>1. e - 1 = m + Len(raw)
        BY <1>1, <2>2
      <3>2. SubSeq(q, m + 1, m + Len(raw)) = raw
        BY <2>2, HoldsIs
      <3> QED
        BY <3>1, <3>2
    <2> QED
      BY <1>2, <2>1, <2>2
  <1>16. (IF e <= Len(q) THEN e ELSE Len(q)) = c + Len(Pair(name, raw, bare))
    BY <1>1, <1>2
  <1> QED
    BY <1>10, <1>12, <1>13, <1>14, <1>15, <1>16, <1>17 DEF PairPlaces

\* A pair that a text holds behind the cursor is the next one that comes.
LEMMA PairComes ==
    ASSUME NEW q \in Seq(Int), NEW c \in Nat, NEW name \in Seq(Int), NEW raw \in Seq(Int), NEW bare,
           Legible(name, raw), Holds(q, c, Pair(name, raw, bare))
    PROVE  QueryNext([query |-> q, cursor |-> c]) =
              [result |-> "ok", name |-> name, value |-> raw,
               it |-> [query |-> q, cursor |-> c + Len(Pair(name, raw, bare))]]
  <1>1. PICK s, m, e : PairPlaces(q, c, name, raw, bare, s, m, e)
    BY PairBegins
  <1>2. /\ s \in (c + 1)..Len(q) /\ m \in s..(Len(q) + 1) /\ e \in m..(Len(q) + 1)
        /\ e = IF m <= Len(q) /\ q[m] = Equals THEN FirstOf(q, m + 1, {Ampersand}) ELSE m
        /\ q[s] # Ampersand /\ FirstOf(q, s, {Equals, Ampersand}) = m
    BY <1>1 DEF PairPlaces
  <1>3. \A i \in (c + 1)..(s - 1) : q[i] = Ampersand
    BY <1>1 DEF PairPlaces
  <1>4. QueryNext([query |-> q, cursor |-> c]) =
              [result |-> "ok", name |-> SubSeq(q, s, m - 1), value |-> SubSeq(q, m + 1, e - 1),
               it |-> [query |-> q, cursor |-> IF e <= Len(q) THEN e ELSE Len(q)]]
    BY <1>2, <1>3, QueryNextIs, ZenonT(60)
  <1> QED
    BY <1>1, <1>4 DEF PairPlaces

\* A set with 0, and with the successor of each of its numbers, has them all.
LEMMA SetInduction ==
    ASSUME NEW S, 0 \in S, \A n \in Nat : n \in S => n + 1 \in S
    PROVE  Nat \subseteq S
  <1> SUFFICES ASSUME Nat \ S # {} PROVE FALSE
    OBVIOUS
  <1>1. PICK n \in Nat \ S : \A k \in Nat \ S : n <= k
    BY LeastNumber
  <1>2. n # 0 /\ n - 1 \in Nat /\ n - 1 \in S
    BY <1>1
  <1> QED
    BY <1>1, <1>2

-------------------------------------------------------------------------------
(* Forms: decoding *)

\* The digits of a byte are read as it.
LEMMA DigitRead ==
    ASSUME NEW n \in 0..15, NEW d \in HexDigits(n)
    PROVE  HexValue(d) = n /\ d \notin {Percent, Plus, Ampersand} /\ d \in Int
  <1>1. CASE n < 10
    <2>1. d = 48 + n
      BY <1>1 DEF HexDigits
    <2>2. d \in 48..57 /\ d - 48 = n
      BY <1>1, <2>1
    <2> QED
      BY <2>2 DEF HexValue, Percent, Plus, Ampersand
  <1>2. CASE n >= 10
    <2>1. d = 65 + (n - 10) \/ d = 97 + (n - 10)
      BY <1>2 DEF HexDigits
    <2>2. CASE d = 65 + (n - 10)
      <3>1. d \in 65..70 /\ d \notin 48..57 /\ d \notin 97..102 /\ 10 + (d - 65) = n
        BY <1>2, <2>2
      <3> QED
        BY <3>1 DEF HexValue, Percent, Plus, Ampersand
    <2>3. CASE d = 97 + (n - 10)
      <3>1. d \in 97..102 /\ d \notin 48..57 /\ 10 + (d - 97) = n
        BY <1>2, <2>3
      <3> QED
        BY <3>1 DEF HexValue, Percent, Plus, Ampersand
    <2> QED
      BY <2>1, <2>2, <2>3
  <1> QED
    BY <1>1, <1>2

\* From a place to another there is what stands for a byte.
Stands(raw, i, j, c) ==
    \/ j = i + 1 /\ raw[i] = c /\ c \notin {Percent, Plus, Ampersand}
    \/ j = i + 1 /\ raw[i] = Plus /\ c = Blank
    \/ /\ j = i + 3 /\ raw[i] = Percent
       /\ HexValue(raw[i + 1]) \in 0..15 /\ HexValue(raw[i + 2]) \in 0..15
       /\ raw[i + 1] # Ampersand /\ raw[i + 2] # Ampersand
       /\ HexValue(raw[i + 1]) * 16 + HexValue(raw[i + 2]) = c

\* A writing of a byte, and what it stands for.
LEMMA WritingStands ==
    ASSUME NEW raw \in Seq(Int), NEW i \in 1..Len(raw), NEW j \in (i + 1)..(Len(raw) + 1),
           NEW c \in 0..255, SubSeq(raw, i, j - 1) \in Writings(c)
    PROVE  Stands(raw, i, j, c)
  <1>1. PICK w : w = SubSeq(raw, i, j - 1)
    OBVIOUS
  <1>2. /\ w \in Seq(Int) /\ Len(w) = ((j - 1) - i) + 1
        /\ \A k \in 1..(((j - 1) - i) + 1) : w[k] = raw[(i + k) - 1]
    <2>1. /\ i \in Int /\ j - 1 \in Int /\ 1 <= i /\ i <= (j - 1) + 1 /\ j - 1 <= Len(raw)
      OBVIOUS
    <2> QED
      BY <1>1, <2>1, Sub, ZenonT(60)
  <1>3. Len(w) = j - i /\ \A k \in 1..(j - i) : w[k] = raw[(i + k) - 1]
    <2>1. ((j - 1) - i) + 1 = j - i
      OBVIOUS
    <2> QED
      BY <1>2, <2>1
  <1>4. \/ w \in Escapes(c)
        \/ w = <<c>> /\ c \notin {Percent, Plus, Ampersand}
        \/ w = <<Plus>> /\ c = Blank
    BY <1>1 DEF Writings
  <1>5. ASSUME NEW d, w = <<d>> PROVE j = i + 1 /\ raw[i] = d
    <2>1. Len(w) = 1 /\ w[1] = d
      BY <1>5
    <2>2. j - i = 1
      BY <1>3, <2>1
    <2>3. j = i + 1 /\ 1 \in 1..(j - i) /\ (i + 1) - 1 = i
      BY <2>2
    <2>4. w[1] = raw[(i + 1) - 1]
      BY <1>3, <2>3
    <2> QED
      BY <2>1, <2>3, <2>4
  <1>6. CASE w \in Escapes(c)
    <2>2. PICK h \in 0..15, l \in 0..15 : h = c \div 16 /\ l = c % 16 /\ h * 16 + l = c
      <3>1. c \div 16 \in 0..15
        OBVIOUS
      <3>2. c % 16 \in 0..15
        OBVIOUS
      <3>3. c % 16 = c - 16 * (c \div 16)
        OBVIOUS
      <3>4. PICK h \in 0..15, l \in 0..15 : h = c \div 16 /\ l = c % 16
        BY <3>1, <3>2
      <3>5. l = c - 16 * h
        BY <3>3, <3>4
      <3>6. h * 16 + l = c
        BY <3>5
      <3> QED
        BY <3>4, <3>6
    <2>1. PICK hi \in HexDigits(h), lo \in HexDigits(l) : w = <<Percent, hi, lo>>
      BY <1>6, <2>2 DEF Escapes
    <2>3. /\ HexValue(hi) = h /\ HexValue(lo) = l
          /\ hi # Ampersand /\ lo # Ampersand
      BY DigitRead
    <2>4. Len(w) = 3 /\ w[1] = Percent /\ w[2] = hi /\ w[3] = lo
      BY <2>1
    <2>8. j - i = 3
      BY <1>3, <2>4
    <2>5. j = i + 3 /\ 1 \in 1..(j - i) /\ 2 \in 1..(j - i) /\ 3 \in 1..(j - i)
      BY <2>8
    <2>6. (i + 1) - 1 = i /\ (i + 2) - 1 = i + 1 /\ (i + 3) - 1 = i + 2
      OBVIOUS
    <2>7. raw[i] = Percent /\ raw[i + 1] = hi /\ raw[i + 2] = lo
      BY <1>3, <2>4, <2>5, <2>6
    <2> QED
      BY <2>2, <2>3, <2>5, <2>7 DEF Stands
  <1> QED
    BY <1>4, <1>5, <1>6 DEF Stands

\* Where in a text the bytes of a value are written.
Spells(pos, raw, value) ==
    /\ pos \in [1..(Len(value) + 1) -> 1..(Len(raw) + 1)]
    /\ pos[1] = 1 /\ pos[Len(value) + 1] = Len(raw) + 1
    /\ \A i \in 1..Len(value) : pos[i] < pos[i + 1] /\ Stands(raw, pos[i], pos[i + 1], value[i])

\* The writings of the bytes of a value, by where each begins.
LEMMA EncodingSpells ==
    ASSUME NEW raw \in Seq(Int), NEW value \in Seq(0..255), Encodes(raw, value)
    PROVE  \E pos : Spells(pos, raw, value)
  <1>1. PICK n \in Nat, l \in Nat : n = Len(raw) /\ l = Len(value)
    OBVIOUS
  <1>2. PICK pos \in [1..(l + 1) -> 1..(n + 1)] :
           /\ pos[1] = 1 /\ pos[l + 1] = n + 1
           /\ \A i \in 1..l :
                 pos[i] < pos[i + 1] /\ SubSeq(raw, pos[i], pos[i + 1] - 1) \in Writings(value[i])
    BY <1>1 DEF Encodes
  <1>3. ASSUME NEW i \in 1..l PROVE Stands(raw, pos[i], pos[i + 1], value[i])
    <2>1. i \in 1..(l + 1) /\ i + 1 \in 1..(l + 1)
      OBVIOUS
    <2>2. PICK x, y, c : x = pos[i] /\ y = pos[i + 1] /\ c = value[i]
      OBVIOUS
    <2>7. x \in 1..(n + 1) /\ y \in 1..(n + 1)
      BY <1>2, <2>1, <2>2
    <2>8. x < y
      BY <1>2, <2>2
    <2>9. c \in 0..255
      BY <1>1, <2>2
    <2>3. x \in 1..(n + 1) /\ y \in 1..(n + 1) /\ x < y /\ c \in 0..255
      BY <2>7, <2>8, <2>9
    <2>4. x \in 1..Len(raw) /\ y \in (x + 1)..(Len(raw) + 1)
      BY <1>1, <2>3
    <2>5. SubSeq(raw, x, y - 1) \in Writings(c)
      BY <1>2, <2>2
    <2>6. Stands(raw, x, y, c)
      BY <2>3, <2>4, <2>5, WritingStands
    <2> QED
      BY <2>2, <2>6
  <1> QED
    BY <1>1, <1>2, <1>3 DEF Spells

\* A value takes room for each of its bytes, has no separator in it, and is itself if
\* nothing stands for something else.
LEMMA SpellingIsLegible ==
    ASSUME NEW raw \in Seq(Int), NEW value \in Seq(0..255), NEW pos, Spells(pos, raw, value)
    PROVE  /\ Len(value) <= Len(raw)
           /\ \A x \in 1..Len(raw) : raw[x] # Ampersand
           /\ NeedsDecoding(raw) \/ raw = value
  <1>1. PICK n \in Nat, l \in Nat : n = Len(raw) /\ l = Len(value)
    OBVIOUS
  <1>2. /\ pos \in [1..(l + 1) -> 1..(n + 1)] /\ pos[1] = 1 /\ pos[l + 1] = n + 1
        /\ \A i \in 1..l : pos[i] < pos[i + 1] /\ Stands(raw, pos[i], pos[i + 1], value[i])
    BY <1>1 DEF Spells
  <1> DEFINE Good(k) ==
                /\ k + 1 <= pos[k + 1]
                /\ \A x \in 1..(pos[k + 1] - 1) : raw[x] # Ampersand
                /\ ~NeedsDecoding(raw) =>
                      pos[k + 1] = k + 1 /\ \A x \in 1..k : raw[x] = value[x]
             S == {k \in Nat : k <= l => Good(k)}
  <1>3. 0 \in S
    BY <1>2
  <1>4. ASSUME NEW k \in Nat, k \in S PROVE k + 1 \in S
    <2> SUFFICES ASSUME k + 1 <= l PROVE Good(k + 1)
      OBVIOUS
    <2>1. Good(k)
      BY <1>4
    <2> HIDE DEF Good
    <2>2. PICK i \in 1..l : i = k + 1
      OBVIOUS
    <2>3. i \in 1..(l + 1) /\ i + 1 \in 1..(l + 1)
      OBVIOUS
    <2>4. PICK x \in Nat, y \in Nat : x = pos[i] /\ y = pos[i + 1]
      BY <1>2, <2>3
    <2>5. PICK c : c = value[i]
      OBVIOUS
    <2>6. x < y /\ Stands(raw, x, y, c) /\ x \in 1..(n + 1) /\ y \in 1..(n + 1)
      BY <1>2, <2>2, <2>3, <2>4, <2>5
    <2>7. /\ i <= x /\ \A z \in 1..(x - 1) : raw[z] # Ampersand
          /\ ~NeedsDecoding(raw) => x = i /\ \A z \in 1..k : raw[z] = value[z]
      BY <2>1, <2>2, <2>4 DEF Good
    <2>8. i + 1 <= y
      BY <2>6, <2>7
    <2>9. ASSUME NEW z \in 1..(y - 1) PROVE raw[z] # Ampersand
      <3>1. CASE z <= x - 1
        BY <2>7, <3>1
      <3>2. CASE z > x - 1
        <4>1. \/ y = x + 1 /\ raw[x] # Ampersand
              \/ y = x + 3 /\ raw[x] # Ampersand /\ raw[x + 1] # Ampersand /\ raw[x + 2] # Ampersand
          BY <2>6 DEF Stands, Percent, Plus, Ampersand
        <4>2. z \in x..(y - 1)
          BY <3>2
        <4>3. CASE y = x + 1 /\ raw[x] # Ampersand
          <5>1. z = x
            BY <4>2, <4>3
          <5> QED
            BY <4>3, <5>1
        <4>4. CASE y = x + 3 /\ raw[x] # Ampersand /\ raw[x + 1] # Ampersand /\ raw[x + 2] # Ampersand
          <5>1. z = x \/ z = x + 1 \/ z = x + 2
            BY <4>2, <4>4
          <5> QED
            BY <4>4, <5>1
        <4> QED
          BY <4>1, <4>3, <4>4
      <3> QED
        BY <3>1, <3>2
    <2>10. ASSUME ~NeedsDecoding(raw)
           PROVE  y = i + 1 /\ \A z \in 1..(k + 1) : raw[z] = value[z]
      <3>1. x = i /\ \A z \in 1..k : raw[z] = value[z]
        BY <2>7, <2>10
      <3>2. x \in 1..n
        BY <2>6
      <3>3. raw[x] \notin {Percent, Plus}
        BY <1>1, <2>10, <3>2 DEF NeedsDecoding
      <3>4. y = x + 1 /\ raw[x] = c
        BY <2>6, <3>3 DEF Stands
      <3>5. \A z \in 1..(k + 1) : z \in 1..k \/ z = i
        BY <2>2
      <3> QED
        BY <2>5, <3>1, <3>4, <3>5
    <2>11. i = k + 1 /\ i + 1 = (k + 1) + 1 /\ y = pos[(k + 1) + 1]
      BY <2>2, <2>4
    <2> QED
      BY <2>8, <2>9, <2>10, <2>11 DEF Good
  <1>5. l \in S
    <2> HIDE DEF S
    <2> QED
      BY <1>3, <1>4, SetInduction
  <1>6. Good(l)
    BY <1>5, SMTT(40)
  <1> HIDE DEF S
  <1>7. l <= n
    BY <1>2, <1>6
  <1>8. \A x \in 1..n : raw[x] # Ampersand
    <2>1. (n + 1) - 1 = n
      OBVIOUS
    <2> QED
      BY <1>2, <1>6, <2>1
  <1>9. ASSUME ~NeedsDecoding(raw) PROVE raw = value
    <2>1. l = n
      BY <1>2, <1>6, <1>9
    <2>2. \A x \in 1..l : raw[x] = value[x]
      BY <1>6, <1>9
    <2>4. 0..255 \subseteq Int
      OBVIOUS
    <2>3. value \in Seq(Int)
      BY <2>4, Widen
    <2> QED
      BY <1>1, <2>1, <2>2, <2>3, SameSeq
  <1> QED
    BY <1>1, <1>7, <1>8, <1>9

\* What begins with an element goes on with what is behind it.
LEMMA HeadTail ==
    ASSUME NEW T, NEW value \in Seq(T), NEW i \in 1..Len(value)
    PROVE  <<value[i]>> \o SubSeq(value, i + 1, Len(value)) = SubSeq(value, i, Len(value))
  <1>1. PICK c : c = value[i]
    OBVIOUS
  <1>4. PICK l \in Nat : l = Len(value)
    OBVIOUS
  <1>2. c \in T
    BY <1>1, <1>4
  <1>3. <<c>> \o SubSeq(value, i + 1, l) = SubSeq(value, i, l)
    <2>1. PICK t : t = SubSeq(value, i + 1, l)
      OBVIOUS
    <2>2. /\ t \in Seq(T) /\ Len(t) = (l - (i + 1)) + 1
          /\ \A z \in 1..((l - (i + 1)) + 1) : t[z] = value[((i + 1) + z) - 1]
      <3>1. /\ i + 1 \in Int /\ l \in Int /\ 1 <= i + 1 /\ i + 1 <= l + 1 /\ l <= Len(value)
        BY <1>1, <1>4
      <3> QED
        BY <2>1, <3>1, Sub
    <2>3. Len(t) = l - i /\ \A z \in 1..(l - i) : t[z] = value[i + z]
      <3>1. (l - (i + 1)) + 1 = l - i /\ \A z \in 1..(l - i) : ((i + 1) + z) - 1 = i + z
        OBVIOUS
      <3> QED
        BY <2>2, <3>1
    <2>4. PICK s : s = <<c>> \o t
      OBVIOUS
    <2>5. <<c>> \in Seq(T) /\ Len(<<c>>) = 1 /\ <<c>>[1] = c
      BY <1>2
    <2>6. /\ s \in Seq(T) /\ Len(s) = 1 + (l - i) /\ s[1] = c
          /\ \A z \in 1..(l - i) : s[1 + z] = t[z]
      BY <2>2, <2>3, <2>4, <2>5, Cat
    <2>7. ASSUME NEW z \in 1..Len(s) PROVE s[z] = value[(i + z) - 1]
      <3>1. CASE z = 1
        BY <1>1, <1>4, <2>6, <3>1
      <3>2. CASE z # 1
        <4>1. PICK w \in 1..(l - i) : z = 1 + w
          <5>1. z - 1 \in 1..(l - i) /\ z = 1 + (z - 1)
            BY <2>6, <3>2
          <5> QED
            BY <5>1
        <4>2. (i + z) - 1 = i + w
          BY <4>1
        <4> QED
          BY <2>3, <2>6, <4>1, <4>2
      <3> QED
        BY <3>1, <3>2
    <2>8. i \in Int /\ l \in Int /\ 1 <= i /\ i <= l + 1 /\ l <= Len(value) /\ Len(s) = (l - i) + 1
      BY <1>1, <1>4, <2>6
    <2>9. SubSeq(value, i, l) = s
      BY <2>6, <2>7, <2>8, SubIs
    <2> QED
      BY <2>1, <2>4, <2>9
  <1> QED
    BY <1>1, <1>4, <1>3

\* What a value was written as is decoded to it.
LEMMA SpellingIsDecoded ==
    ASSUME NEW raw \in Seq(Int), NEW value \in Seq(0..255), NEW pos, Spells(pos, raw, value)
    PROVE  Decoded(raw) = [result |-> "ok", text |-> value]
  <1> DEFINE n == Len(raw)
             Put(byte, rest) == [result |-> rest.result, text |-> <<byte>> \o rest.text]
             Step(f, i) ==
                IF i > n THEN [result |-> "ok", text |-> <<>>]
                ELSE IF raw[i] = Plus THEN Put(Blank, f[i + 1])
                ELSE IF raw[i] # Percent THEN Put(raw[i], f[i + 1])
                ELSE IF i + 2 > n \/ HexValue(raw[i + 1]) < 0 \/ HexValue(raw[i + 2]) < 0
                THEN [result |-> "unexpected_char", text |-> <<>>]
                ELSE Put(HexValue(raw[i + 1]) * 16 + HexValue(raw[i + 2]), f[i + 3])
             from == CHOOSE f : f = [i \in 1..(n + 1) |-> Step(f, i)]
  <1>1. n \in Nat
    OBVIOUS
  <1>2. Decoded(raw) = from[1]
    BY DEF Decoded
  <1>3. ASSUME NEW f, NEW g, NEW i \in 1..(n + 1),
               \A j \in (i + 1)..(n + 1) : f[j] = g[j]
        PROVE  Step(f, i) = Step(g, i)
    <2>1. i <= n => f[i + 1] = g[i + 1]
      BY <1>1, <1>3
    <2>2. i + 2 <= n => f[i + 3] = g[i + 3]
      BY <1>1, <1>3
    <2>3. CASE i > n
      BY <2>3
    <2>4. CASE i <= n /\ raw[i] # Percent
      BY <2>1, <2>4
    <2>5. CASE i <= n /\ raw[i] = Percent
      <3>1. CASE i + 2 > n \/ HexValue(raw[i + 1]) < 0 \/ HexValue(raw[i + 2]) < 0
        BY <1>1, <2>5, <3>1 DEF Percent, Plus
      <3>2. CASE ~(i + 2 > n \/ HexValue(raw[i + 1]) < 0 \/ HexValue(raw[i + 2]) < 0)
        <4>1. f[i + 3] = g[i + 3]
          BY <1>1, <2>2, <3>2
        <4> QED
          BY <1>1, <2>5, <3>2, <4>1 DEF Percent, Plus
      <3> QED
        BY <3>1, <3>2
    <2>6. i > n \/ (i <= n /\ raw[i] # Percent) \/ (i <= n /\ raw[i] = Percent)
      BY <1>1
    <2> HIDE DEF Step
    <2> QED
      BY <2>3, <2>4, <2>5, <2>6
  <1>4. ASSUME NEW f, NEW i \in 1..n, NEW j \in (i + 1)..(n + 1), NEW c \in 0..255,
               Stands(raw, i, j, c)
        PROVE  Step(f, i) = Put(c, f[j])
    <2>1. CASE j = i + 1 /\ raw[i] = c /\ c \notin {Percent, Plus, Ampersand}
      BY <1>1, <2>1
    <2>2. CASE j = i + 1 /\ raw[i] = Plus /\ c = Blank
      BY <1>1, <2>2
    <2>3. CASE /\ j = i + 3 /\ raw[i] = Percent
               /\ HexValue(raw[i + 1]) \in 0..15 /\ HexValue(raw[i + 2]) \in 0..15
               /\ HexValue(raw[i + 1]) * 16 + HexValue(raw[i + 2]) = c
      <3>1. ~(i > n) /\ raw[i] # Plus /\ raw[i] = Percent
        BY <1>1, <2>3 DEF Percent, Plus
      <3>2. ~(i + 2 > n \/ HexValue(raw[i + 1]) < 0 \/ HexValue(raw[i + 2]) < 0)
        <4>1. i + 2 <= n
          BY <1>1, <2>3
        <4>2. \A h \in 0..15 : ~(h < 0)
          OBVIOUS
        <4>3. ~(HexValue(raw[i + 1]) < 0) /\ ~(HexValue(raw[i + 2]) < 0)
          BY <2>3, <4>2, Zenon
        <4>4. ~(i + 2 > n)
          BY <1>1, <4>1
        <4> QED
          BY <4>3, <4>4
      <3>3. Step(f, i) = Put(HexValue(raw[i + 1]) * 16 + HexValue(raw[i + 2]), f[i + 3])
        BY <3>1, <3>2
      <3> QED
        BY <2>3, <3>3
    <2> QED
      BY <1>4, <2>1, <2>2, <2>3 DEF Stands
  <1>5. \A f : Step(f, n + 1) = [result |-> "ok", text |-> <<>>]
    BY <1>1
  <1> HIDE DEF Step
  \* There is a solution: it can be extended to the front, byte by byte.
  <1>7. \E f : f = [i \in 1..(n + 1) |-> Step(f, i)]
    <2> DEFINE Solves(f, m) == f = [i \in m..(n + 1) |-> Step(f, i)]
               S == {k \in Nat : k <= n => \E f : Solves(f, (n + 1) - k)}
    <2>1. 0 \in S
      <3> DEFINE e == [i \in {} |-> 0]
                 f == [i \in (n + 1)..(n + 1) |-> Step(e, i)]
      <3>1. \A i \in (n + 1)..(n + 1) : i \in 1..(n + 1) /\ (i + 1)..(n + 1) = {}
        BY <1>1
      <3>2. \A i \in (n + 1)..(n + 1) : Step(e, i) = Step(f, i)
        <4> HIDE DEF e, f
        <4> QED
          BY <1>3, <3>1
      <3>3. f = [i \in (n + 1)..(n + 1) |-> Step(f, i)]
        <4> HIDE DEF e
        <4>1. f = [i \in (n + 1)..(n + 1) |-> Step(e, i)]
          OBVIOUS
        <4> HIDE DEF f
        <4> QED
          BY <3>2, <4>1
      <3>4. (n + 1) - 0 = n + 1
        BY <1>1
      <3> QED
        BY <3>3, <3>4
    <2>2. ASSUME NEW k \in Nat, k \in S
          PROVE  k + 1 \in S
      <3> SUFFICES ASSUME k + 1 <= n PROVE \E f : Solves(f, (n + 1) - (k + 1))
        OBVIOUS
      <3>0. (n + 1) - (k + 1) \in 1..n
        <4> HIDE DEF n
        <4> QED
          BY <1>1
      <3>1. PICK m \in 1..n : m = (n + 1) - (k + 1)
        BY <3>0
      <3>2. (n + 1) - k = m + 1
        BY <1>1, <3>1
      <3>3. PICK f : Solves(f, m + 1)
        BY <1>1, <2>2, <3>2
      <3> DEFINE g == [i \in m..(n + 1) |-> Step(f, i)]
      <3>4. ASSUME NEW i \in (m + 1)..(n + 1) PROVE f[i] = g[i]
        <4>1. f[i] = Step(f, i)
          BY <3>3
        <4>2. i \in m..(n + 1)
          BY <1>1, <3>1
        <4> QED
          BY <4>1, <4>2
      <3>5. ASSUME NEW i \in m..(n + 1)
            PROVE  Step(f, i) = Step(g, i)
        <4>1. i \in 1..(n + 1) /\ \A j \in (i + 1)..(n + 1) : j \in (m + 1)..(n + 1)
          BY <1>1, <3>1
        <4>2. \A j \in (i + 1)..(n + 1) : f[j] = g[j]
          BY <3>4, <4>1
        <4> HIDE DEF g
        <4> QED
          BY <1>3, <4>1, <4>2
      <3>6. g = [i \in m..(n + 1) |-> Step(g, i)]
        <4>1. g = [i \in m..(n + 1) |-> Step(f, i)]
          OBVIOUS
        <4> HIDE DEF g
        <4> QED
          BY <3>5, <4>1
      <3> QED
        BY <3>1, <3>6
    <2>3. n \in S
      <3> HIDE DEF S
      <3> QED
        BY <1>1, <2>1, <2>2, SetInduction
    <2>4. (n + 1) - n = 1
      BY <1>1
    <2> QED
      BY <1>1, <2>3, <2>4
  <1>8. from = [i \in 1..(n + 1) |-> Step(from, i)]
    BY <1>7
  <1> HIDE DEF from
  \* And behind where a byte is written, what was written from there on.
  <1>9. PICK l \in Nat : l = Len(value)
    OBVIOUS
  <1>10. /\ pos \in [1..(l + 1) -> 1..(n + 1)] /\ pos[1] = 1 /\ pos[l + 1] = n + 1
         /\ \A i \in 1..l : pos[i] < pos[i + 1] /\ Stands(raw, pos[i], pos[i + 1], value[i])
    BY <1>9 DEF Spells
  <1>11. from[pos[1]] = [result |-> "ok", text |-> SubSeq(value, 1, l)]
    <2> DEFINE Good(i) == from[pos[i]] = [result |-> "ok", text |-> SubSeq(value, i, l)]
               S == {k \in Nat : k <= l => Good((l + 1) - k)}
    <2>1. 0 \in S
      <3>1. from[n + 1] = [result |-> "ok", text |-> <<>>]
        BY <1>1, <1>5, <1>8
      <3>2. SubSeq(value, l + 1, l) = <<>>
        BY <1>9
      <3>3. (l + 1) - 0 = l + 1
        OBVIOUS
      <3> QED
        BY <1>10, <3>1, <3>2, <3>3
    <2>2. ASSUME NEW k \in Nat, k \in S PROVE k + 1 \in S
      <3> SUFFICES ASSUME k + 1 <= l PROVE Good((l + 1) - (k + 1))
        OBVIOUS
      <3>1. (l + 1) - (k + 1) \in 1..l /\ (l + 1) - k = ((l + 1) - (k + 1)) + 1
        OBVIOUS
      <3>2. PICK i \in 1..l : i = (l + 1) - (k + 1)
        BY <3>1
      <3>3. Good(i + 1)
        BY <2>2, <3>1, <3>2
      <3> SUFFICES Good(i)
        BY <3>2
      <3>4. i \in 1..(l + 1) /\ i + 1 \in 1..(l + 1)
        OBVIOUS
      <3>5. PICK x, y, c : x = pos[i] /\ y = pos[i + 1] /\ c = value[i]
        OBVIOUS
      <3>6. x \in 1..(n + 1) /\ y \in 1..(n + 1)
        BY <1>10, <3>4, <3>5
      <3>7. x < y /\ Stands(raw, x, y, c)
        BY <1>10, <3>5
      <3>8. c \in 0..255
        BY <1>9, <3>5
      <3>9. x \in 1..n /\ y \in (x + 1)..(n + 1)
        BY <1>1, <3>6, <3>7
      <3>10. Step(from, x) = Put(c, from[y])
        BY <1>4, <3>7, <3>8, <3>9
      <3>11. from[x] = Put(c, from[y])
        BY <1>8, <3>6, <3>10
      <3>12. from[y] = [result |-> "ok", text |-> SubSeq(value, i + 1, l)]
        BY <3>3, <3>5
      <3>13. from[x] = [result |-> "ok", text |-> <<c>> \o SubSeq(value, i + 1, l)]
        BY <3>11, <3>12
      <3>14. <<c>> \o SubSeq(value, i + 1, l) = SubSeq(value, i, l)
        <4>1. i \in 1..Len(value) /\ l = Len(value)
          BY <1>9
        <4> QED
          BY <3>5, <4>1, HeadTail
      <3> QED
        BY <3>5, <3>13, <3>14
    <2>3. l \in S
      <3> HIDE DEF S
      <3> QED
        BY <2>1, <2>2, SetInduction
    <2>4. (l + 1) - l = 1
      OBVIOUS
    <2>5. Good((l + 1) - l)
      BY <2>3
    <2> HIDE DEF S
    <2>6. Good(1)
      BY <2>4, <2>5
    <2> QED
      BY <2>6
  <1>12. SubSeq(value, 1, l) = value
    BY <1>9, Whole
  <1> QED
    BY <1>2, <1>10, <1>11, <1>12

-------------------------------------------------------------------------------
(* Forms: searching *)

\* A text begins with what is held at its front.
LEMMA RestBegins ==
    ASSUME NEW text \in Seq(Int), NEW p \in 0..Len(text), NEW what \in Seq(Int)
    PROVE  StartsWith(Rest(text, p + 1), what) <=> Holds(text, p, what)
  <1>1. PICK n \in Nat, l \in Nat : n = Len(text) /\ l = Len(what)
    OBVIOUS
  <1>2. PICK s : s = SubSeq(text, p + 1, n)
    OBVIOUS
  <1>3. s \in Seq(Int) /\ Len(s) = n - p /\ \A i \in 1..(n - p) : s[i] = text[p + i]
    <2>1. p + 1 \in Int /\ n \in Int /\ 1 <= p + 1 /\ p + 1 <= n + 1 /\ n <= Len(text)
      BY <1>1
    <2>2. /\ s \in Seq(Int) /\ Len(s) = (n - (p + 1)) + 1
          /\ \A i \in 1..((n - (p + 1)) + 1) : s[i] = text[((p + 1) + i) - 1]
      BY <1>2, <2>1, Sub, SMTT(40)
    <2>3. (n - (p + 1)) + 1 = n - p /\ \A i \in 1..(n - p) : ((p + 1) + i) - 1 = p + i
      BY <1>1
    <2> QED
      BY <2>2, <2>3
  <1>4. ASSUME p + l <= n
        PROVE  SubSeq(s, 1, l) = what <=> \A i \in 1..l : text[p + i] = what[i]
    <2>1. 1 \in Int /\ l \in Int /\ 1 <= 1 /\ 1 <= l + 1 /\ l <= Len(s)
      BY <1>1, <1>3, <1>4
    <2>2. PICK t : t = SubSeq(s, 1, l)
      OBVIOUS
    <2>3. t \in Seq(Int) /\ Len(t) = (l - 1) + 1 /\ \A i \in 1..((l - 1) + 1) : t[i] = s[(1 + i) - 1]
      BY <1>3, <2>1, <2>2, Sub
    <2>4. Len(t) = l /\ \A i \in 1..l : t[i] = text[p + i]
      <3>1. (l - 1) + 1 = l /\ \A i \in 1..l : (1 + i) - 1 = i /\ i \in 1..(n - p)
        BY <1>1, <1>4
      <3> QED
        BY <1>3, <2>3, <3>1
    <2>5. t = what => \A i \in 1..l : text[p + i] = what[i]
      BY <2>4
    <2>6. (\A i \in 1..l : text[p + i] = what[i]) => t = what
      BY <1>1, <2>3, <2>4, SameSeq
    <2> QED
      BY <2>2, <2>5, <2>6
  <1>5. StartsWith(s, what) <=> n - p >= l /\ SubSeq(s, 1, l) = what
    BY <1>1, <1>3 DEF StartsWith
  <1>6. n - p >= l <=> p + l <= n
    BY <1>1
  <1>7. Holds(text, p, what) <=> p + l <= n /\ \A i \in 1..l : text[p + i] = what[i]
    BY <1>1 DEF Holds
  <1>8. Rest(text, p + 1) = s
    BY <1>1, <1>2 DEF Rest
  <1> QED
    BY <1>4, <1>5, <1>6, <1>7, <1>8

\* Where a text is found is where it is held.
LEMMA FoundWhere ==
    ASSUME NEW text \in Seq(Int), NEW from \in Nat \ {0}, NEW what \in Seq(Int)
    PROVE  {i \in from..(Len(text) - Len(what) + 1) : SubSeq(text, i, i + Len(what) - 1) = what}
              = {i \in Nat : from <= i /\ Holds(text, i - 1, what)}
  <1>1. PICK n \in Nat, l \in Nat : n = Len(text) /\ l = Len(what)
    OBVIOUS
  <1>2. ASSUME NEW i \in from..(n - l + 1)
        PROVE  SubSeq(text, i, i + l - 1) = what <=> Holds(text, i - 1, what)
    <2>1. PICK p \in Nat : p = i - 1
      <3>1. i - 1 \in Nat
        OBVIOUS
      <3> QED
        BY <3>1
    <2>2. p + l <= n /\ p + 1 = i /\ p + l = i + l - 1
      BY <1>2, <2>1
    <2>3. Holds(text, p, what) => SubSeq(text, i, i + l - 1) = what
      <3>1. ASSUME Holds(text, p, what) PROVE SubSeq(text, p + 1, p + Len(what)) = what
        BY <3>1, HoldsIs
      <3> QED
        BY <1>1, <2>2, <3>1
    <2>4. ASSUME SubSeq(text, i, i + l - 1) = what PROVE Holds(text, p, what)
      <3>1. /\ p + 1 \in Int /\ p + l \in Int /\ 1 <= p + 1 /\ p + 1 <= (p + l) + 1 /\ p + l <= Len(text)
        BY <1>1, <2>2
      <3>2. PICK t : t = SubSeq(text, p + 1, p + l)
        OBVIOUS
      <3>3. \A k \in 1..(((p + l) - (p + 1)) + 1) : t[k] = text[((p + 1) + k) - 1]
        BY <3>1, <3>2, Sub
      <3>4. ((p + l) - (p + 1)) + 1 = l /\ \A k \in 1..l : ((p + 1) + k) - 1 = p + k
        OBVIOUS
      <3>5. \A k \in 1..l : t[k] = text[p + k]
        BY <3>3, <3>4
      <3>6. t = what
        BY <2>2, <2>4, <3>2
      <3> QED
        BY <1>1, <2>2, <3>5, <3>6 DEF Holds
    <2> QED
      BY <2>1, <2>3, <2>4
  <1>3. ASSUME NEW i \in Nat, from <= i, Holds(text, i - 1, what) PROVE i \in from..(n - l + 1)
    <2>1. (i - 1) + l <= n
      BY <1>1, <1>3 DEF Holds
    <2> QED
      BY <1>3, <2>1
  <1>4. \A i \in from..(n - l + 1) : i \in Nat /\ from <= i
    OBVIOUS
  <1> QED
    BY <1>1, <1>2, <1>3, <1>4

\* FindFrom finds the first place that holds what is looked for.
LEMMA FindFromIs ==
    ASSUME NEW text \in Seq(Int), NEW from \in Nat \ {0}, NEW what \in Seq(Int), NEW e \in Nat,
           from <= e, Holds(text, e - 1, what),
           \A i \in from..(e - 1) : ~Holds(text, i - 1, what)
    PROVE  FindFrom(text, from, what) = e
  <1>1. PICK S : S = {i \in Nat : from <= i /\ Holds(text, i - 1, what)}
    OBVIOUS
  <1>2. S = {i \in from..(Len(text) - Len(what) + 1) : SubSeq(text, i, i + Len(what) - 1) = what}
    BY <1>1, FoundWhere, ZenonT(60)
  <1>3. S \subseteq Int /\ e \in S
    BY <1>1
  <1>4. \A y \in S : e <= y
    <2> SUFFICES ASSUME NEW y \in S, y < e PROVE FALSE
      BY <1>1
    <2>1. y \in from..(e - 1) /\ Holds(text, y - 1, what)
      BY <1>1
    <2> QED
      BY <2>1
  <1>5. Min(S) = e
    BY <1>3, <1>4, MinIs
  <1>6. S # {}
    BY <1>3
  <1> QED
    BY <1>2, <1>5, <1>6 DEF FindFrom

\* FindFrom finds nothing if no place holds what is looked for.
LEMMA FindNone ==
    ASSUME NEW text \in Seq(Int), NEW from \in Nat \ {0}, NEW what \in Seq(Int)
    PROVE  FindFrom(text, from, what) = 0
              <=> \A i \in Nat : from <= i => ~Holds(text, i - 1, what)
  <1>1. PICK S : S = {i \in Nat : from <= i /\ Holds(text, i - 1, what)}
    OBVIOUS
  <1>2. S = {i \in from..(Len(text) - Len(what) + 1) : SubSeq(text, i, i + Len(what) - 1) = what}
    BY <1>1, FoundWhere, ZenonT(60)
  <1>3. FindFrom(text, from, what) = IF S = {} THEN 0 ELSE Min(S)
    BY <1>2 DEF FindFrom
  <1>4. S # {} => Min(S) # 0
    <2> SUFFICES ASSUME S # {} PROVE Min(S) # 0
      OBVIOUS
    <2>1. S \subseteq Nat
      BY <1>1
    <2>2. Min(S) \in S
      BY <2>1, MinExists
    <2>3. \A i \in S : i # 0
      BY <1>1
    <2> QED
      BY <2>2, <2>3
  <1>5. S = {} <=> \A i \in Nat : from <= i => ~Holds(text, i - 1, what)
    BY <1>1
  <1> QED
    BY <1>3, <1>4, <1>5

\* What FindFrom gives is a number.
LEMMA FindRange ==
    ASSUME NEW text \in Seq(Int), NEW from \in Nat \ {0}, NEW what \in Seq(Int)
    PROVE  FindFrom(text, from, what) \in Nat
  <1>1. PICK S : S = {i \in Nat : from <= i /\ Holds(text, i - 1, what)}
    OBVIOUS
  <1>2. S = {i \in from..(Len(text) - Len(what) + 1) : SubSeq(text, i, i + Len(what) - 1) = what}
    BY <1>1, FoundWhere, ZenonT(60)
  <1>3. FindFrom(text, from, what) = IF S = {} THEN 0 ELSE Min(S)
    BY <1>2 DEF FindFrom
  <1>4. S # {} => Min(S) \in Nat
    <2> SUFFICES ASSUME S # {} PROVE Min(S) \in Nat
      OBVIOUS
    <2>1. S \subseteq Nat
      BY <1>1
    <2>2. Min(S) \in S
      BY <2>1, MinExists
    <2> QED
      BY <2>1, <2>2
  <1> QED
    BY <1>3, <1>4

-------------------------------------------------------------------------------
(* Forms: delimiters *)

\* What find_boundary finds are dashes and the boundary, in the text and not before
\* the place it begins at.
LEMMA DashesWhere ==
    ASSUME NEW text \in Seq(Int), NEW offset \in Nat \ {0}, NEW d \in DashesSeen(text, offset)
    PROVE  d \in offset..(Len(text) - 1) /\ text[d] = Dash /\ text[d + 1] = Dash
  <1>1. PICK n \in Nat : n = Len(text)
    OBVIOUS
  <1>2. PICK run \in offset..d : \A i \in run..(d + 1) : text[i] = Dash
    BY DEF DashesSeen
  <1>3. d \in offset..(n - 1)
    BY <1>1 DEF DashesSeen
  <1>4. d \in run..(d + 1) /\ d + 1 \in run..(d + 1)
    BY <1>2, <1>3
  <1> QED
    BY <1>1, <1>2, <1>3, <1>4

\* A delimiter is two dashes and the boundary.
LEMMA DelimiterHeld ==
    ASSUME NEW text \in Seq(Int), NEW p \in Nat, NEW bound \in Seq(Int)
    PROVE  /\ DashBoundary(bound) \in Seq(Int) /\ Len(DashBoundary(bound)) = 2 + Len(bound)
           /\ Holds(text, p, DashBoundary(bound)) <=>
                 /\ p + 2 <= Len(text) /\ text[p + 1] = Dash /\ text[p + 2] = Dash
                 /\ Holds(text, p + 2, bound)
  <1>1. DashDash \in Seq(Int) /\ Len(DashDash) = 2 /\ DashDash[1] = Dash /\ DashDash[2] = Dash
    BY TwoTokens DEF DashDash, Dash
  <1>2. DashBoundary(bound) = DashDash \o bound
    BY DEF DashBoundary
  <1>3. DashBoundary(bound) \in Seq(Int) /\ Len(DashBoundary(bound)) = 2 + Len(bound)
    <2>1. PICK dd : dd = DashDash
      OBVIOUS
    <2>2. dd \in Seq(Int) /\ Len(dd) = 2
      BY <1>1, <2>1
    <2>3. dd \o bound \in Seq(Int) /\ Len(dd \o bound) = Len(dd) + Len(bound)
      BY <2>2, Cat
    <2> QED
      BY <1>2, <2>1, <2>2, <2>3
  <1>4. Holds(text, p, DashDash) <=> p + 2 <= Len(text) /\ text[p + 1] = Dash /\ text[p + 2] = Dash
    <2>1. \A i : i \in 1..2 <=> i = 1 \/ i = 2
      OBVIOUS
    <2> QED
      BY <1>1, <2>1 DEF Holds
  <1>5. Holds(text, p, DashBoundary(bound)) <=> Holds(text, p, DashDash) /\ Holds(text, p + 2, bound)
    <2>1. PICK dd : dd = DashDash
      OBVIOUS
    <2>2. dd \in Seq(Int) /\ p + Len(dd) = p + 2
      BY <1>1, <2>1
    <2>3. Holds(text, p, dd \o bound) <=> Holds(text, p, dd) /\ Holds(text, p + Len(dd), bound)
      BY <2>2, HoldsBoth
    <2> QED
      BY <1>2, <2>1, <2>2, <2>3
  <1> QED
    BY <1>3, <1>4, <1>5

\* The set it takes the first of.
LEMMA BoundaryFound ==
    ASSUME NEW text \in Seq(Int), NEW offset \in Nat \ {0}, NEW bound \in Seq(Int)
    PROVE  LET hits == {d \in DashesSeen(text, offset) : Holds(text, d - 1, DashBoundary(bound))}
           IN FindBoundary(text, offset, bound) = IF hits = {} THEN 0 ELSE Min(hits)
  <1>1. ASSUME NEW d \in DashesSeen(text, offset)
        PROVE  StartsWith(Rest(text, d + 2), bound) <=> Holds(text, d - 1, DashBoundary(bound))
    <2>1. d \in offset..(Len(text) - 1) /\ text[d] = Dash /\ text[d + 1] = Dash
      BY DashesWhere
    <2>2. PICK p \in Nat : p = d - 1
      <3>1. d - 1 \in Nat
        BY <2>1
      <3> QED
        BY <3>1
    <2>3. p + 1 = d /\ p + 2 = d + 1 /\ p + 2 \in 0..Len(text) /\ (p + 2) + 1 = d + 2
      BY <2>1, <2>2
    <2>4. StartsWith(Rest(text, (p + 2) + 1), bound) <=> Holds(text, p + 2, bound)
      BY <2>3, RestBegins
    <2>5. Holds(text, p, DashBoundary(bound)) <=>
                 /\ p + 2 <= Len(text) /\ text[p + 1] = Dash /\ text[p + 2] = Dash
                 /\ Holds(text, p + 2, bound)
      BY DelimiterHeld
    <2>6. p + 2 <= Len(text) /\ text[p + 1] = Dash /\ text[p + 2] = Dash
      <3>1. Len(text) \in Nat
        OBVIOUS
      <3>2. d + 1 <= Len(text)
        BY <2>1, <3>1
      <3> QED
        BY <2>1, <2>3, <3>2
    <2>7. Holds(text, p, DashBoundary(bound)) <=> Holds(text, p + 2, bound)
      BY <2>5, <2>6
    <2>8. StartsWith(Rest(text, d + 2), bound) <=> Holds(text, p + 2, bound)
      BY <2>3, <2>4
    <2> QED
      BY <2>2, <2>7, <2>8
  <1>2. {d \in DashesSeen(text, offset) : StartsWith(Rest(text, d + 2), bound)}
           = {d \in DashesSeen(text, offset) : Holds(text, d - 1, DashBoundary(bound))}
    BY <1>1
  <1> QED
    BY <1>2 DEF FindBoundary

\* The first delimiter is found: dashes before it are none of it, nor behind one another.
LEMMA BoundaryIs ==
    ASSUME NEW text \in Seq(Int), NEW offset \in Nat \ {0}, NEW bound \in Seq(Int), NEW e \in Nat,
           offset <= e, Holds(text, e - 1, DashBoundary(bound)),
           e = offset \/ text[e - 1] # Dash,
           \A i \in offset..(e - 1) : ~Holds(text, i - 1, DashBoundary(bound))
    PROVE  FindBoundary(text, offset, bound) = e
  <1>1. PICK hits : hits = {d \in DashesSeen(text, offset) : Holds(text, d - 1, DashBoundary(bound))}
    OBVIOUS
  <1>2. PICK p \in Nat : p = e - 1
    <2>1. e - 1 \in Nat
      OBVIOUS
    <2> QED
      BY <2>1
  <1>3. e + 1 <= Len(text) /\ text[e] = Dash /\ text[e + 1] = Dash
    <2>1. p + 2 <= Len(text) /\ text[p + 1] = Dash /\ text[p + 2] = Dash
      BY <1>2, DelimiterHeld
    <2>2. p + 1 = e /\ p + 2 = e + 1
      BY <1>2
    <2> QED
      BY <2>1, <2>2
  <1>4. e \in DashesSeen(text, offset)
    <2>1. e \in offset..(Len(text) - 1) /\ e \in offset..e
      BY <1>3
    <2>2. \A i \in e..(e + 1) : text[i] = Dash
      <3>1. \A i \in e..(e + 1) : i = e \/ i = e + 1
        OBVIOUS
      <3> QED
        BY <1>3, <3>1
    <2>3. (e - e) % 2 = 0
      OBVIOUS
    <2> QED
      BY <2>1, <2>2, <2>3 DEF DashesSeen
  <1>5. hits \subseteq Int /\ e \in hits
    <2>1. \A d \in DashesSeen(text, offset) : d \in Int
      BY DashesWhere
    <2> QED
      BY <1>1, <1>4, <2>1
  <1>6. ASSUME NEW y \in hits PROVE e <= y
    <2>1. y \in offset..(Len(text) - 1) /\ Holds(text, y - 1, DashBoundary(bound))
      BY <1>1, DashesWhere
    <2> SUFFICES ASSUME y < e PROVE FALSE
      BY <2>1
    <2>2. y \in offset..(e - 1)
      BY <2>1
    <2> QED
      BY <2>1, <2>2
  <1>7. Min(hits) = e
    BY <1>5, <1>6, MinIs
  <1>8. FindBoundary(text, offset, bound) = IF hits = {} THEN 0 ELSE Min(hits)
    BY <1>1, BoundaryFound
  <1> QED
    BY <1>5, <1>7, <1>8

\* Whatever the text is, what is found is in it and not before the place.
LEMMA BoundaryRange ==
    ASSUME NEW text \in Seq(Int), NEW offset \in Nat \ {0}, NEW bound \in Seq(Int),
           FindBoundary(text, offset, bound) # 0
    PROVE  FindBoundary(text, offset, bound) \in offset..(Len(text) - 1)
  <1>1. PICK hits : hits = {d \in DashesSeen(text, offset) : Holds(text, d - 1, DashBoundary(bound))}
    OBVIOUS
  <1>2. FindBoundary(text, offset, bound) = IF hits = {} THEN 0 ELSE Min(hits)
    BY <1>1, BoundaryFound
  <1>3. \A d \in hits : d \in offset..(Len(text) - 1)
    BY <1>1, DashesWhere
  <1>4. hits \subseteq Nat /\ hits # {}
    BY <1>2, <1>3
  <1>5. Min(hits) \in hits
    BY <1>4, MinExists
  <1> QED
    BY <1>2, <1>3, <1>4, <1>5

\* What an iterator over parts may be.
Reader == [boundary : Seq(Int), cursor : Seq(Int), done : BOOLEAN]

\* Whatever the text is, a call that gives a part leaves less of it.
LEMMA PartNextAdvances ==
    ASSUME NEW it \in Reader
    PROVE  /\ PartNext(it).it \in Reader
           /\ PartNext(it).result = "ok" => Len(PartNext(it).it.cursor) < Len(it.cursor)
  <1> DEFINE c == it.cursor
             first == FindBoundary(c, 1, it.boundary)
             after == first + 2 + Len(it.boundary)
             headers == IF StartsWith(Rest(c, after), CrLf) THEN after + 2 ELSE after
             hend == FindFrom(c, headers, CrLf \o CrLf)
             start == hend + 4
             next == FindBoundary(c, start, it.boundary)
             ends_here == \/ it.done \/ first = 0 \/ StartsWith(Rest(c, after), DashDash)
                          \/ hend = 0 \/ next = 0
  <1>1. c \in Seq(Int) /\ it.boundary \in Seq(Int) /\ Len(it.boundary) \in Nat /\ Len(c) \in Nat
    BY DEF Reader
  <1>2. ends_here =>
           PartNext(it).result = "end_of_data" /\ PartNext(it).it = [it EXCEPT !.done = TRUE]
    BY DEF PartNext
  <1>3. ~ends_here =>
           PartNext(it).result = "ok" /\ PartNext(it).it = [it EXCEPT !.cursor = Rest(c, next)]
    BY DEF PartNext, Onward
  <1>4. [it EXCEPT !.done = TRUE] \in Reader
    BY DEF Reader
  <1>5. ASSUME ~ends_here
        PROVE  Rest(c, next) \in Seq(Int) /\ Len(Rest(c, next)) < Len(c)
    <2> HIDE DEF c
    <2>1. CrLf \o CrLf \in Seq(Int)
      <3>1. CrLf \in Seq(Int)
        BY TwoTokens DEF CrLf, Cr, Lf
      <3> QED
        BY <3>1, Cat
    <2>2. first \in Nat \ {0}
      <3>1. first # 0
        BY <1>5
      <3>2. first \in 1..(Len(c) - 1)
        BY <1>1, <3>1, BoundaryRange
      <3> QED
        BY <3>2
    <2> HIDE DEF first
    <2>12. after \in Nat \ {0}
      <3>1. PICK f \in Nat, l \in Nat : f = first /\ l = Len(it.boundary) /\ f # 0
        BY <1>1, <2>2
      <3>2. (f + 2) + l \in Nat /\ (f + 2) + l # 0
        OBVIOUS
      <3>3. after = (f + 2) + l
        BY <3>1
      <3> QED
        BY <3>2, <3>3
    <2> HIDE DEF after
    <2>13. headers = after \/ headers = after + 2
      OBVIOUS
    <2>3. headers \in Nat \ {0}
      BY <2>12, <2>13
    <2> HIDE DEF headers
    <2>4. hend \in Nat
      BY <1>1, <2>1, <2>3, FindRange
    <2> HIDE DEF hend
    <2>5. start \in Nat \ {0} /\ start >= 2
      BY <2>4
    <2> HIDE DEF start
    <2>6. next # 0
      BY <1>5
    <2>7. next \in start..(Len(c) - 1)
      BY <1>1, <2>5, <2>6, BoundaryRange
    <2> HIDE DEF next
    <2>8. PICK n \in Nat, m \in Nat : n = Len(c) /\ m = next
      BY <1>1, <2>5, <2>7
    <2>9. m \in Int /\ n \in Int /\ 1 <= m /\ m <= n + 1 /\ n <= Len(c) /\ m >= 2
      BY <2>5, <2>7, <2>8
    <2>10. SubSeq(c, m, n) \in Seq(Int) /\ Len(SubSeq(c, m, n)) = (n - m) + 1
      BY <1>1, <2>9, Sub
    <2>11. (n - m) + 1 < n
      BY <2>9
    <2> QED
      BY <2>8, <2>10, <2>11 DEF Rest
  <1>6. ASSUME NEW d \in Seq(Int) PROVE [it EXCEPT !.cursor = d] \in Reader /\ [it EXCEPT !.cursor = d].cursor = d
    BY DEF Reader
  <1> HIDE DEF ends_here, next
  <1>7. CASE ends_here
    <2>1. PartNext(it).result # "ok"
      BY <1>2, <1>7
    <2> QED
      BY <1>2, <1>4, <1>7, <2>1
  <1>8. CASE ~ends_here
    <2>1. PICK d \in Seq(Int) : d = Rest(c, next) /\ Len(d) < Len(c)
      BY <1>5, <1>8
    <2>2. PartNext(it).it = [it EXCEPT !.cursor = d]
      BY <1>3, <1>8, <2>1
    <2> QED
      BY <1>6, <2>1, <2>2
  <1> QED
    BY <1>7, <1>8

-------------------------------------------------------------------------------
(* Forms: parameters of headers *)

\* A text holds itself.
LEMMA HoldsSelf ==
    ASSUME NEW text \in Seq(Int)
    PROVE  Holds(text, 0, text)
  <1>1. PICK n \in Nat : n = Len(text)
    OBVIOUS
  <1>2. 0 + n <= n /\ \A i \in 1..n : text[0 + i] = text[i]
    OBVIOUS
  <1> QED
    BY <1>1, <1>2 DEF Holds

\* Short pieces, byte by byte.
LEMMA HoldsOne ==
    ASSUME NEW text \in Seq(Int), NEW p \in Nat, NEW a \in Int
    PROVE  Holds(text, p, <<a>>) <=> p + 1 <= Len(text) /\ text[p + 1] = a
  <1>1. PICK s : s = <<a>>
    OBVIOUS
  <1>2. Len(s) = 1 /\ s[1] = a
    BY <1>1
  <1>3. \A i : i \in 1..1 <=> i = 1
    OBVIOUS
  <1> QED
    BY <1>1, <1>2, <1>3 DEF Holds

\* The same of two bytes.
LEMMA HoldsTwo ==
    ASSUME NEW text \in Seq(Int), NEW p \in Nat, NEW a \in Int, NEW b \in Int
    PROVE  Holds(text, p, <<a, b>>) <=> p + 2 <= Len(text) /\ text[p + 1] = a /\ text[p + 2] = b
  <1>1. PICK s : s = <<a, b>>
    OBVIOUS
  <1>2. Len(s) = 2 /\ s[1] = a /\ s[2] = b
    BY <1>1
  <1>3. \A i : i \in 1..2 <=> i = 1 \/ i = 2
    OBVIOUS
  <1> QED
    BY <1>1, <1>2, <1>3 DEF Holds

\* A line end, byte by byte.
LEMMA CrLfHeld ==
    /\ CrLf \in Seq(Int) /\ Len(CrLf) = 2
    /\ \A text \in Seq(Int), p \in Nat :
          Holds(text, p, CrLf) <=> p + 2 <= Len(text) /\ text[p + 1] = Cr /\ text[p + 2] = Lf
  <1>1. CrLf \in Seq(Int) /\ Len(CrLf) = 2 /\ Cr \in Int /\ Lf \in Int
    BY TwoTokens DEF CrLf, Cr, Lf
  <1>2. ASSUME NEW text \in Seq(Int), NEW p \in Nat
        PROVE  Holds(text, p, CrLf) <=> p + 2 <= Len(text) /\ text[p + 1] = Cr /\ text[p + 2] = Lf
    BY <1>1, HoldsTwo DEF CrLf
  <1> QED
    BY <1>1, <1>2

\* A text begins behind its blanks.
LEMMA TrimmedFrom ==
    ASSUME NEW text \in Seq(Int), NEW e \in 1..Len(text), text[e] # Space,
           \A i \in 1..(e - 1) : text[i] = Space
    PROVE  Trimmed(text) = SubSeq(text, e, Len(text))
  <1>1. PICK ink : ink = {i \in DOMAIN text : text[i] # Space}
    OBVIOUS
  <1>2. DOMAIN text = 1..Len(text) /\ Len(text) \in Nat
    OBVIOUS
  <1>3. ink \subseteq Int /\ e \in ink
    BY <1>1, <1>2
  <1>4. ASSUME NEW y \in ink PROVE e <= y
    <2>1. y \in 1..Len(text) /\ text[y] # Space
      BY <1>1, <1>2
    <2> SUFFICES ASSUME y < e PROVE FALSE
      BY <1>2, <2>1
    <2>2. y \in 1..(e - 1)
      BY <1>2, <2>1
    <2> QED
      BY <2>1, <2>2
  <1>5. Min(ink) = e
    BY <1>3, <1>4, MinIs
  <1>6. ink # {}
    BY <1>3
  <1>7. Trimmed(text) = Rest(text, Min(ink))
    BY <1>1, <1>6 DEF Trimmed
  <1> QED
    BY <1>5, <1>7 DEF Rest

\* Quotes around a value are taken off.
LEMMA UnquotedIs ==
    ASSUME NEW y \in Seq(Int)
    PROVE  /\ Unquoted(<<Quote>> \o y \o <<Quote>>) = y
           /\ y = <<>> \/ y[1] # Quote => Unquoted(y) = y
  <1>1. PICK n \in Nat : n = Len(y)
    OBVIOUS
  <1>2. PICK q : q = <<Quote>>
    OBVIOUS
  <1>3. q \in Seq(Int) /\ Len(q) = 1 /\ q[1] = Quote /\ Quote \in Int
    BY <1>2, OneToken DEF Quote
  <1>4. PICK a : a = q \o y
    OBVIOUS
  <1>5. a \in Seq(Int) /\ Len(a) = 1 + n /\ a[1] = Quote
    <2>1. /\ q \o y \in Seq(Int) /\ Len(q \o y) = Len(q) + Len(y)
          /\ \A i \in 1..Len(q) : (q \o y)[i] = q[i]
      <3>1. q \in Seq(Int)
        BY <1>3
      <3> QED
        BY <3>1, Cat
    <2>2. 1 \in 1..Len(q)
      BY <1>3
    <2> QED
      BY <1>1, <1>3, <1>4, <2>1, <2>2
  <1>6. PICK s : s = a \o q
    OBVIOUS
  <1>7. s \in Seq(Int) /\ Len(s) = (1 + n) + 1 /\ s[1] = Quote /\ s[(1 + n) + 1] = Quote
    <2>1. /\ s \in Seq(Int) /\ Len(s) = Len(a) + Len(q)
          /\ \A i \in 1..Len(a) : s[i] = a[i]
          /\ \A i \in 1..Len(q) : s[Len(a) + i] = q[i]
      <3>1. q \in Seq(Int) /\ a \in Seq(Int)
        BY <1>3, <1>5
      <3>2. /\ a \o q \in Seq(Int) /\ Len(a \o q) = Len(a) + Len(q)
            /\ \A i \in 1..Len(a) : (a \o q)[i] = a[i]
            /\ \A i \in 1..Len(q) : (a \o q)[Len(a) + i] = q[i]
        BY <3>1, Cat
      <3> QED
        BY <1>6, <3>2
    <2>2. 1 \in 1..Len(a) /\ 1 \in 1..Len(q)
      BY <1>3, <1>5
    <2>3. s[1] = a[1] /\ s[Len(a) + 1] = q[1]
      BY <2>1, <2>2
    <2> QED
      BY <1>3, <1>5, <2>1, <2>3
  <1>8. Holds(s, 1, y)
    <2>1. Holds(s, 0, s)
      BY <1>7, HoldsSelf
    <2>2. Holds(s, 0, a)
      BY <1>3, <1>5, <1>6, <1>7, <2>1, HoldsBoth
    <2>3. Holds(s, 0 + Len(q), y)
      BY <1>3, <1>4, <1>7, <2>2, HoldsBoth
    <2> QED
      BY <1>3, <2>3
  <1>9. SubSeq(s, 1 + 1, 1 + Len(y)) = y
    BY <1>7, <1>8, HoldsIs
  <1>10. SubSeq(s, 2, Len(s) - 1) = y
    <2>1. 1 + 1 = 2 /\ 1 + Len(y) = Len(s) - 1
      BY <1>1, <1>7
    <2> QED
      BY <1>9, <2>1
  <1>11. Unquoted(s) = y
    <2>1. ~(s = <<>> \/ s[1] # Quote)
      BY <1>7
    <2>2. Len(s) > 1 /\ s[Len(s)] = Quote
      BY <1>7
    <2> QED
      BY <1>10, <2>1, <2>2 DEF Unquoted
  <1>12. y = <<>> \/ y[1] # Quote => Unquoted(y) = y
    BY DEF Unquoted
  <1> QED
    BY <1>2, <1>4, <1>6, <1>11, <1>12

\* The parameter of a header with one is its value.
LEMMA ParamIs ==
    ASSUME NEW h \in Seq(Int), NEW x \in Seq(Int), NEW key \in Int, key \notin {Space, Semicolon},
           Len(h) = 5 + Len(x), h[1] = FormData, h[2] = Semicolon, h[3] = Space, h[4] = key,
           h[5] = Equal, Holds(h, 5, x), \A i \in 1..Len(x) : x[i] # Semicolon
    PROVE  ParamValue(h, key) = Unquoted(x)
  <1>1. PICK n \in Nat, l \in Nat : n = Len(h) /\ l = Len(x) /\ n = 5 + l
    <2>1. Len(h) \in Nat /\ Len(x) \in Nat
      OBVIOUS
    <2> QED
      BY <2>1
  <1>2. \A i \in 1..l : h[5 + i] = x[i] /\ x[i] # Semicolon
    BY <1>1 DEF Holds
  <1>3. PICK what : what = <<key, Equal>>
    OBVIOUS
  <1>4. what \in Seq(Int) /\ Len(what) = 2 /\ what[1] = key /\ what[2] = Equal
    BY <1>3, TwoTokens DEF Equal
  <1>5. ~StartsWith(Segment(h, 1), what)
    <2>1. PICK J : J = {j \in 1..n : h[j] = Semicolon}
      OBVIOUS
    <2>2. Min(J \cup {n + 1}) = 2
      <3>1. J \subseteq 1..n /\ 2 \in J /\ 2 \in 1..(n + 1) /\ 1 \in Nat
        BY <1>1, <2>1
      <3>2. 1 \notin J
        BY <2>1 DEF FormData, Semicolon
      <3>3. \A y \in J : 2 <= y
        BY <3>1, <3>2
      <3>4. PICK M : M = J \cup {n + 1}
        OBVIOUS
      <3>5. M \subseteq Int /\ 2 \in M /\ \A y \in M : 2 <= y
        BY <3>1, <3>3, <3>4
      <3>6. Min(M) = 2
        BY <3>5, MinIs
      <3> QED
        BY <3>4, <3>6
    <2>3. PICK s : s = SubSeq(h, 1, 2 - 1)
      OBVIOUS
    <2>4. s \in Seq(Int) /\ Len(s) = 1 /\ s[1] = FormData
      <3>1. 2 - 1 = 1 /\ 1 \in Int /\ 1 <= 1 /\ 1 <= 1 + 1 /\ 1 <= Len(h) /\ (1 - 1) + 1 = 1
        BY <1>1
      <3>2. /\ SubSeq(h, 1, 1) \in Seq(Int) /\ Len(SubSeq(h, 1, 1)) = (1 - 1) + 1
            /\ \A i \in 1..((1 - 1) + 1) : SubSeq(h, 1, 1)[i] = h[(1 + i) - 1]
        BY <3>1, Sub
      <3>3. 1 \in 1..((1 - 1) + 1) /\ (1 + 1) - 1 = 1
        OBVIOUS
      <3> QED
        BY <2>3, <3>1, <3>2, <3>3
    <2>5. Segment(h, 1) = Trimmed(s)
      BY <1>1, <2>1, <2>2, <2>3 DEF Segment
    <2>6. Trimmed(s) = SubSeq(s, 1, 1)
      <3>1. 1 \in 1..Len(s) /\ s[1] # Space
        BY <2>4 DEF FormData, Space
      <3>2. \A i \in 1..(1 - 1) : s[i] = Space
        OBVIOUS
      <3>3. Trimmed(s) = SubSeq(s, 1, Len(s))
        BY <2>4, <3>1, <3>2, TrimmedFrom
      <3> QED
        BY <2>4, <3>3
    <2>7. SubSeq(s, 1, 1) = s
      BY <2>4, Whole
    <2> QED
      BY <1>4, <2>4, <2>5, <2>6, <2>7 DEF StartsWith
  <1>6. PICK g : g = Segment(h, 3)
    OBVIOUS
  <1>7. g \in Seq(Int) /\ Len(g) = n - 3 /\ \A i \in 1..(n - 3) : g[i] = h[3 + i]
    <2>1. PICK J : J = {j \in 3..n : h[j] = Semicolon}
      OBVIOUS
    <2>2. Min(J \cup {n + 1}) = n + 1
      <3>1. ASSUME NEW j \in 3..n PROVE h[j] # Semicolon
        <4>1. j = 3 \/ j = 4 \/ j = 5 \/ j - 5 \in 1..l
          BY <1>1
        <4>2. CASE j - 5 \in 1..l
          <5>1. 5 + (j - 5) = j
            OBVIOUS
          <5>2. h[5 + (j - 5)] # Semicolon
            BY <1>2, <4>2
          <5> QED
            BY <5>1, <5>2
        <4>3. h[3] # Semicolon /\ h[4] # Semicolon /\ h[5] # Semicolon
          BY DEF Space, Semicolon, Equal
        <4> QED
          BY <4>1, <4>2, <4>3
      <3>2. J \cup {n + 1} = {n + 1}
        BY <2>1, <3>1
      <3>3. PICK M : M = J \cup {n + 1}
        OBVIOUS
      <3>4. M \subseteq Int /\ n + 1 \in M /\ \A y \in M : n + 1 <= y
        BY <3>2, <3>3
      <3>5. Min(M) = n + 1
        BY <3>4, MinIs
      <3> QED
        BY <3>3, <3>5
    <2>3. PICK s : s = SubSeq(h, 3, (n + 1) - 1)
      OBVIOUS
    <2>4. s \in Seq(Int) /\ Len(s) = n - 2 /\ \A i \in 1..(n - 2) : s[i] = h[2 + i]
      <3>1. (n + 1) - 1 = n /\ 3 \in Int /\ n \in Int /\ 1 <= 3 /\ 3 <= n + 1 /\ n <= Len(h)
        BY <1>1
      <3>2. /\ SubSeq(h, 3, n) \in Seq(Int) /\ Len(SubSeq(h, 3, n)) = (n - 3) + 1
            /\ \A i \in 1..((n - 3) + 1) : SubSeq(h, 3, n)[i] = h[(3 + i) - 1]
        BY <3>1, Sub, SMTT(40)
      <3>3. (n - 3) + 1 = n - 2 /\ \A i \in 1..(n - 2) : (3 + i) - 1 = 2 + i
        OBVIOUS
      <3>4. s = SubSeq(h, 3, n)
        BY <2>3, <3>1
      <3> QED
        BY <3>2, <3>3, <3>4
    <2>5. g = Trimmed(s)
      BY <1>1, <1>6, <2>1, <2>2, <2>3 DEF Segment
    <2>6. Trimmed(s) = SubSeq(s, 2, n - 2)
      <3>1. 1 \in 1..(n - 2) /\ 2 \in 1..(n - 2) /\ 2 + 1 = 3 /\ 2 + 2 = 4
        BY <1>1
      <3>2. s[1] = h[3] /\ s[2] = h[4]
        BY <2>4, <3>1
      <3>3. 2 \in 1..Len(s) /\ s[2] # Space
        BY <2>4, <3>1, <3>2
      <3>4. \A i \in 1..(2 - 1) : i = 1
        OBVIOUS
      <3>5. \A i \in 1..(2 - 1) : s[i] = Space
        BY <3>2, <3>4
      <3>6. Trimmed(s) = SubSeq(s, 2, Len(s))
        BY <2>4, <3>3, <3>5, TrimmedFrom
      <3> QED
        BY <2>4, <3>6
    <2>7. 2 \in Int /\ n - 2 \in Int /\ 1 <= 2 /\ 2 <= (n - 2) + 1 /\ n - 2 <= Len(s)
      BY <1>1, <2>4
    <2>8. /\ SubSeq(s, 2, n - 2) \in Seq(Int) /\ Len(SubSeq(s, 2, n - 2)) = ((n - 2) - 2) + 1
          /\ \A i \in 1..(((n - 2) - 2) + 1) : SubSeq(s, 2, n - 2)[i] = s[(2 + i) - 1]
      BY <2>4, <2>7, Sub, SMTT(40)
    <2>9. /\ ((n - 2) - 2) + 1 = n - 3
          /\ \A i \in 1..(n - 3) : (2 + i) - 1 = i + 1 /\ i + 1 \in 1..(n - 2) /\ 2 + (i + 1) = 3 + i
      OBVIOUS
    <2>10. \A i \in 1..(n - 3) : SubSeq(s, 2, n - 2)[i] = h[3 + i]
      BY <2>4, <2>8, <2>9
    <2> QED
      BY <2>5, <2>6, <2>8, <2>9, <2>10
  <1>8. StartsWith(g, what)
    <2>1. /\ 1 \in Int /\ 2 \in Int /\ 1 <= 1 /\ 1 <= 2 + 1 /\ 2 <= Len(g) /\ Len(what) = (2 - 1) + 1
      BY <1>1, <1>4, <1>7
    <2>2. 1 \in 1..(n - 3) /\ 2 \in 1..(n - 3) /\ 3 + 1 = 4 /\ 3 + 2 = 5
      BY <1>1
    <2>3. g[1] = what[1] /\ g[2] = what[2]
      BY <1>4, <1>7, <2>2
    <2>4. \A i \in 1..Len(what) : (i = 1 \/ i = 2) /\ (1 + i) - 1 = i
      BY <1>4
    <2>5. \A i \in 1..Len(what) : what[i] = g[(1 + i) - 1]
      BY <2>3, <2>4
    <2>6. SubSeq(g, 1, 2) = what
      BY <1>4, <1>7, <2>1, <2>5, SubIs
    <2> QED
      BY <1>4, <2>1, <2>6 DEF StartsWith
  <1>9. Rest(g, 3) = x
    <2>1. 3 \in Int /\ n - 3 \in Int /\ 1 <= 3 /\ 3 <= (n - 3) + 1 /\ n - 3 <= Len(g)
      BY <1>1, <1>7
    <2>2. Len(x) = ((n - 3) - 3) + 1
      BY <1>1
    <2>3. ASSUME NEW i \in 1..Len(x) PROVE x[i] = g[(3 + i) - 1]
      <3>1. i \in 1..l /\ (3 + i) - 1 \in 1..(n - 3) /\ 3 + ((3 + i) - 1) = 5 + i
        BY <1>1
      <3> QED
        BY <1>2, <1>7, <3>1
    <2>4. SubSeq(g, 3, n - 3) = x
      BY <1>7, <2>1, <2>2, <2>3, SubIs
    <2> QED
      BY <1>7, <2>4 DEF Rest
  <1>10. PICK hits : hits = {i \in 1..(Len(h) + 1) :
                                /\ i = 1 \/ h[i - 1] = Semicolon
                                /\ StartsWith(Segment(h, i), <<key, Equal>>)}
    OBVIOUS
  <1>11. \A i \in hits : i = 3
    <2> SUFFICES ASSUME NEW i \in hits, i # 3 PROVE FALSE
      OBVIOUS
    <2>1. i \in 1..(n + 1) /\ (i = 1 \/ h[i - 1] = Semicolon) /\ StartsWith(Segment(h, i), what)
      BY <1>1, <1>3, <1>10
    <2>2. i # 1 /\ h[i - 1] = Semicolon
      BY <1>5, <2>1
    <2>3. i - 1 = 1 \/ i - 1 = 3 \/ i - 1 = 4 \/ i - 1 = 5 \/ i - 6 \in 1..l
      BY <1>1, <2>1, <2>2
    <2>4. h[1] # Semicolon /\ h[3] # Semicolon /\ h[4] # Semicolon /\ h[5] # Semicolon
      BY DEF FormData, Space, Semicolon, Equal
    <2>5. CASE i - 6 \in 1..l
      <3>1. 5 + (i - 6) = i - 1
        BY <2>1
      <3>2. h[5 + (i - 6)] # Semicolon
        BY <1>2, <2>5
      <3> QED
        BY <2>2, <3>1, <3>2
    <2> QED
      BY <2>2, <2>3, <2>4, <2>5
  <1>12. 3 \in hits
    <2>1. 3 \in 1..(Len(h) + 1) /\ 3 - 1 = 2
      BY <1>1
    <2>2. StartsWith(Segment(h, 3), <<key, Equal>>)
      BY <1>3, <1>6, <1>8
    <2> QED
      BY <1>10, <2>1, <2>2
  <1>13. Min(hits) = 3
    <2>1. hits \subseteq Int /\ \A y \in hits : 3 <= y
      BY <1>11
    <2> QED
      BY <1>12, <2>1, MinIs
  <1>14. hits # {}
    BY <1>12
  <1>15. ParamValue(h, key) = Unquoted(Rest(Segment(h, Min(hits)), 3))
    BY <1>10, <1>14 DEF ParamValue
  <1> QED
    BY <1>6, <1>9, <1>13, <1>15

\* A short text, byte by byte.
LEMMA FiveTokens ==
    ASSUME NEW a \in Int, NEW b \in Int, NEW c \in Int, NEW d \in Int, NEW e \in Int
    PROVE  /\ <<a, b, c, d, e>> \in Seq(Int) /\ Len(<<a, b, c, d, e>>) = 5
           /\ <<a, b, c, d, e>>[1] = a /\ <<a, b, c, d, e>>[2] = b /\ <<a, b, c, d, e>>[3] = c
           /\ <<a, b, c, d, e>>[4] = d /\ <<a, b, c, d, e>>[5] = e
  OBVIOUS

\* A parameter of a header, quoted or not.
LEMMA HeaderParam ==
    ASSUME NEW x \in Seq(Int), NEW key \in Int, key \notin {Space, Semicolon},
           \A i \in 1..Len(x) : x[i] # Semicolon
    PROVE  ParamValue(<<FormData, Semicolon, Space, key, Equal>> \o x, key) = Unquoted(x)
  <1>1. PICK a : a = <<FormData, Semicolon, Space, key, Equal>>
    OBVIOUS
  <1>2. FormData \in Int /\ Semicolon \in Int /\ Space \in Int /\ Equal \in Int
    BY DEF FormData, Semicolon, Space, Equal
  <1>3. /\ a \in Seq(Int) /\ Len(a) = 5 /\ a[1] = FormData /\ a[2] = Semicolon /\ a[3] = Space
        /\ a[4] = key /\ a[5] = Equal
    BY <1>1, <1>2, FiveTokens
  <1>4. PICK h : h = a \o x
    OBVIOUS
  <1>5. a \in Seq(Int)
    BY <1>3
  <1>6. h \in Seq(Int) /\ Len(h) = Len(a) + Len(x) /\ \A i \in 1..Len(a) : h[i] = a[i]
    <2>1. a \o x \in Seq(Int) /\ Len(a \o x) = Len(a) + Len(x) /\ \A i \in 1..Len(a) : (a \o x)[i] = a[i]
      BY <1>5, Cat
    <2> QED
      BY <1>4, <2>1
  <1>7. /\ Len(h) = 5 + Len(x)
        /\ h[1] = FormData /\ h[2] = Semicolon /\ h[3] = Space /\ h[4] = key /\ h[5] = Equal
    <2>1. 1 \in 1..Len(a) /\ 2 \in 1..Len(a) /\ 3 \in 1..Len(a) /\ 4 \in 1..Len(a) /\ 5 \in 1..Len(a)
      BY <1>3
    <2> QED
      BY <1>3, <1>6, <2>1
  <1>8. Holds(h, 5, x)
    <2>1. Holds(h, 0, h)
      BY <1>6, HoldsSelf
    <2>2. Holds(h, 0 + Len(a), x)
      BY <1>4, <1>5, <1>6, <2>1, HoldsBoth
    <2>3. 0 + Len(a) = 5
      BY <1>3
    <2> QED
      BY <2>2, <2>3
  <1>9. ParamValue(h, key) = Unquoted(x)
    BY <1>6, <1>7, <1>8, ParamIs
  <1> QED
    BY <1>1, <1>4, <1>9

\* A value in quotes.
LEMMA QuotedParam ==
    ASSUME NEW y \in Seq(Int), NEW key \in Int, key \notin {Space, Semicolon},
           \A i \in 1..Len(y) : y[i] # Semicolon
    PROVE  /\ <<Quote>> \o y \o <<Quote>> \in Seq(Int) /\ Len(<<Quote>> \o y \o <<Quote>>) = Len(y) + 2
           /\ ParamValue(<<FormData, Semicolon, Space, key, Equal>> \o (<<Quote>> \o y \o <<Quote>>), key) = y
  <1>0. PICK q : q = <<Quote>>
    OBVIOUS
  <1>1. PICK n \in Nat : n = Len(y)
    OBVIOUS
  <1>2. q \in Seq(Int) /\ Len(q) = 1 /\ q[1] # Semicolon
    BY <1>0, OneToken DEF Quote, Semicolon
  <1>3. PICK a : a = q \o y
    OBVIOUS
  <1>4. q \in Seq(Int)
    BY <1>2
  <1>5. /\ q \o y \in Seq(Int) /\ Len(q \o y) = Len(q) + Len(y)
        /\ \A i \in 1..Len(q) : (q \o y)[i] = q[i]
        /\ \A i \in 1..Len(y) : (q \o y)[Len(q) + i] = y[i]
    BY <1>4, Cat
  <1>6. a \in Seq(Int) /\ Len(a) = 1 + n
    BY <1>1, <1>2, <1>3, <1>5
  <1>7. ASSUME NEW i \in 1..(1 + n) PROVE a[i] # Semicolon
    <2>1. CASE i = 1
      <3>1. 1 \in 1..Len(q)
        BY <1>2
      <3> QED
        BY <1>2, <1>3, <1>5, <2>1, <3>1
    <2>2. CASE i # 1
      <3>1. i - 1 \in 1..n /\ 1 + (i - 1) = i
        BY <2>2
      <3>2. a[1 + (i - 1)] = y[i - 1]
        BY <1>1, <1>2, <1>3, <1>5, <3>1
      <3> QED
        BY <1>1, <3>1, <3>2
    <2> QED
      BY <2>1, <2>2
  <1>8. PICK s : s = a \o q
    OBVIOUS
  <1>9. a \in Seq(Int)
    BY <1>6
  <1>10. /\ a \o q \in Seq(Int) /\ Len(a \o q) = Len(a) + Len(q)
         /\ \A i \in 1..Len(a) : (a \o q)[i] = a[i]
         /\ \A i \in 1..Len(q) : (a \o q)[Len(a) + i] = q[i]
    BY <1>4, <1>9, Cat
  <1>11. s \in Seq(Int) /\ Len(s) = n + 2
    BY <1>2, <1>6, <1>8, <1>10
  <1>12. ASSUME NEW i \in 1..Len(s) PROVE s[i] # Semicolon
    <2>1. i \in 1..(1 + n) \/ i = (1 + n) + 1
      BY <1>11
    <2>2. CASE i \in 1..(1 + n)
      BY <1>6, <1>7, <1>8, <1>10, <2>2
    <2>3. CASE i = (1 + n) + 1
      <3>1. 1 \in 1..Len(q)
        BY <1>2
      <3>2. (a \o q)[Len(a) + 1] = q[1]
        BY <1>10, <3>1
      <3> QED
        BY <1>2, <1>6, <1>8, <2>3, <3>2
    <2> QED
      BY <2>1, <2>2, <2>3
  <1>13. ParamValue(<<FormData, Semicolon, Space, key, Equal>> \o s, key) = Unquoted(s)
    BY <1>11, <1>12, HeaderParam
  <1>14. Unquoted(s) = y
    BY <1>0, <1>3, <1>8, UnquotedIs
  <1> QED
    BY <1>0, <1>1, <1>3, <1>8, <1>11, <1>13, <1>14

\* The boundary of a content type is the one that was put there.
LEMMA BoundaryOfType ==
    ASSUME NEW bound \in Seq(Int), NEW quoted, bound # <<>>,
           \A i \in 1..Len(bound) : bound[i] \notin {Quote, Semicolon}
    PROVE  ParamValue(ContentTypeOf(bound, quoted), Boundary) = bound
  <1>1. Boundary \in Int /\ Boundary \notin {Space, Semicolon}
    BY DEF Boundary, Space, Semicolon
  <1>2. \A i \in 1..Len(bound) : bound[i] # Semicolon
    OBVIOUS
  <1>3. CASE quoted
    <2>1. ContentTypeOf(bound, quoted) =
            <<FormData, Semicolon, Space, Boundary, Equal>> \o (<<Quote>> \o bound \o <<Quote>>)
      BY <1>3 DEF ContentTypeOf
    <2>2. ParamValue(<<FormData, Semicolon, Space, Boundary, Equal>> \o (<<Quote>> \o bound \o <<Quote>>),
                     Boundary) = bound
      BY <1>1, <1>2, QuotedParam
    <2> QED
      BY <2>1, <2>2
  <1>4. CASE ~quoted
    <2>1. ContentTypeOf(bound, quoted) = <<FormData, Semicolon, Space, Boundary, Equal>> \o bound
      BY <1>4 DEF ContentTypeOf
    <2>2. bound[1] # Quote
      <3>1. 1 \in 1..Len(bound)
        OBVIOUS
      <3> QED
        BY <3>1
    <2>3. Unquoted(bound) = bound
      BY <2>2, UnquotedIs
    <2>4. ParamValue(<<FormData, Semicolon, Space, Boundary, Equal>> \o bound, Boundary) = Unquoted(bound)
      BY <1>1, <1>2, HeaderParam
    <2> QED
      BY <2>1, <2>3, <2>4
  <1> QED
    BY <1>3, <1>4

-------------------------------------------------------------------------------
(* Forms: parts *)

\* The header that some parts have before the one with the name, and what is before the name.
TypeLine(typed) == IF typed THEN <<ContentType, Colon, Space, FormData>> \o CrLf ELSE <<>>
NameBegins == <<ContentDisposition, Colon, Space, FormData, Semicolon, Space, Name, Equal, Quote>>
Words == {ContentDisposition, ContentType, Colon, Space, FormData, Semicolon, Name, Equal, Quote}

\* The headers of a part, byte by byte: the type takes some place, or none.
TypeAt(text, p) ==
    /\ text[p + 1] = ContentType /\ text[p + 2] = Colon /\ text[p + 3] = Space
    /\ text[p + 4] = FormData /\ text[p + 5] = Cr /\ text[p + 6] = Lf
NameAt(text, p) ==
    /\ text[p + 1] = ContentDisposition /\ text[p + 2] = Colon /\ text[p + 3] = Space
    /\ text[p + 4] = FormData /\ text[p + 5] = Semicolon /\ text[p + 6] = Space
    /\ text[p + 7] = Name /\ text[p + 8] = Equal /\ text[p + 9] = Quote
BlockAt(text, p, t, name) ==
    /\ t = 0 \/ (t = 6 /\ TypeAt(text, p))
    /\ NameAt(text, p + t) /\ Holds(text, p + t + 9, name)
    /\ LET n == p + t + 9 + Len(name) IN
       text[n + 1] = Quote /\ text[n + 2] = Cr /\ text[n + 3] = Lf /\ n + 3 <= Len(text)

\* A text that holds the type of a part, byte by byte.
LEMMA TypeHeld ==
    ASSUME NEW text \in Seq(Int), NEW p \in Nat, NEW typed
    PROVE  /\ TypeLine(typed) \in Seq(Int)
           /\ typed => Len(TypeLine(typed)) = 6
           /\ ~typed => Len(TypeLine(typed)) = 0
           /\ typed /\ Holds(text, p, TypeLine(typed)) => TypeAt(text, p)
  <1>1. PICK a : a = <<ContentType, Colon, Space, FormData>>
    OBVIOUS
  <1>2. /\ a \in Seq(Int) /\ Len(a) = 4
        /\ a[1] = ContentType /\ a[2] = Colon /\ a[3] = Space /\ a[4] = FormData
    BY <1>1 DEF ContentType, Colon, Space, FormData
  <1>3. a \in Seq(Int) /\ CrLf \in Seq(Int) /\ Len(CrLf) = 2
    BY <1>2, CrLfHeld
  <1>4. PICK s : s = a \o CrLf
    OBVIOUS
  <1>5. s \in Seq(Int) /\ Len(s) = 6
    <2>1. a \o CrLf \in Seq(Int) /\ Len(a \o CrLf) = Len(a) + Len(CrLf)
      BY <1>3, Cat
    <2> QED
      BY <1>2, <1>3, <1>4, <2>1
  <1>6. ASSUME Holds(text, p, s) PROVE TypeAt(text, p)
    <2>1. Holds(text, p, a) /\ Holds(text, p + Len(a), CrLf)
      BY <1>3, <1>4, <1>6, HoldsBoth
    <2>2. \A i \in 1..4 : text[p + i] = a[i]
      BY <1>2, <2>1 DEF Holds
    <2>3. 1 \in 1..4 /\ 2 \in 1..4 /\ 3 \in 1..4 /\ 4 \in 1..4
      OBVIOUS
    <2>4. Holds(text, p + 4, CrLf) /\ p + 4 \in Nat
      BY <1>2, <2>1
    <2>5. text[(p + 4) + 1] = Cr /\ text[(p + 4) + 2] = Lf
      BY <2>4, CrLfHeld
    <2>6. (p + 4) + 1 = p + 5 /\ (p + 4) + 2 = p + 6
      OBVIOUS
    <2> QED
      BY <1>2, <2>2, <2>3, <2>5, <2>6 DEF TypeAt
  <1>7. CASE typed
    BY <1>1, <1>4, <1>5, <1>6, <1>7 DEF TypeLine
  <1>8. CASE ~typed
    <2>1. TypeLine(typed) = <<>>
      BY <1>8 DEF TypeLine
    <2> QED
      BY <1>8, <2>1
  <1> QED
    BY <1>7, <1>8

\* A text that holds what is before the name of a part, byte by byte.
LEMMA NameBeginsHeld ==
    /\ NameBegins \in Seq(Int) /\ Len(NameBegins) = 9
    /\ \A text \in Seq(Int), p \in Nat : Holds(text, p, NameBegins) => NameAt(text, p)
  <1>1. PICK a : a = NameBegins
    OBVIOUS
  <1>2. /\ a \in Seq(Int) /\ Len(a) = 9
        /\ a[1] = ContentDisposition /\ a[2] = Colon /\ a[3] = Space /\ a[4] = FormData
        /\ a[5] = Semicolon /\ a[6] = Space /\ a[7] = Name /\ a[8] = Equal /\ a[9] = Quote
    BY <1>1 DEF NameBegins, ContentDisposition, Colon, Space, FormData, Semicolon, Name, Equal, Quote
  <1>3. ASSUME NEW text \in Seq(Int), NEW p \in Nat, Holds(text, p, a) PROVE NameAt(text, p)
    <2>1. \A i \in 1..9 : text[p + i] = a[i]
      BY <1>2, <1>3 DEF Holds
    <2>2. /\ 1 \in 1..9 /\ 2 \in 1..9 /\ 3 \in 1..9 /\ 4 \in 1..9 /\ 5 \in 1..9
          /\ 6 \in 1..9 /\ 7 \in 1..9 /\ 8 \in 1..9 /\ 9 \in 1..9
      OBVIOUS
    <2> QED
      BY <1>2, <2>1, <2>2 DEF NameAt
  <1> QED
    BY <1>1, <1>2, <1>3

\* A part, and where its pieces are.
PartAt(text, bound, name, value, b, t, m, v) ==
    /\ b = Len(bound) /\ m = Len(name) /\ v = Len(value)
    /\ Holds(text, 0, DashBoundary(bound)) /\ Holds(text, b + 2, CrLf)
    /\ BlockAt(text, b + 4, t, name)
    /\ Holds(text, b + 16 + t + m, CrLf)
    /\ Holds(text, b + 18 + t + m, value)
    /\ Holds(text, b + 18 + t + m + v, CrLf)

\* A text that holds a part, piece by piece.
LEMMA PartHeld ==
    ASSUME NEW text \in Seq(Int), NEW bound \in Seq(Int), NEW name \in Seq(Int),
           NEW value \in Seq(Int), NEW typed
    PROVE  /\ Part(bound, name, value, typed) \in Seq(Int)
           /\ Holds(text, 0, Part(bound, name, value, typed)) =>
                 \E b \in Nat, t \in Nat, m \in Nat, v \in Nat :
                    /\ PartAt(text, bound, name, value, b, t, m, v)
                    /\ Len(Part(bound, name, value, typed)) = b + 20 + t + m + v
  <1>1. PICK b \in Nat, m \in Nat, v \in Nat : b = Len(bound) /\ m = Len(name) /\ v = Len(value)
    OBVIOUS
  <1>2. PICK db : db = DashBoundary(bound)
    OBVIOUS
  <1>3. PICK tl : tl = TypeLine(typed)
    OBVIOUS
  <1>4. PICK nb : nb = NameBegins
    OBVIOUS
  <1>5. PICK q : q = <<Quote>>
    OBVIOUS
  <1>6. PICK crlf : crlf = CrLf
    OBVIOUS
  <1>7. db \in Seq(Int) /\ Len(db) = 2 + b
    BY <1>1, <1>2, DelimiterHeld
  <1>8. PICK t \in Nat : tl \in Seq(Int) /\ Len(tl) = t /\ (typed => t = 6) /\ (~typed => t = 0)
    <2>1. tl \in Seq(Int) /\ (typed => Len(tl) = 6) /\ (~typed => Len(tl) = 0)
      BY <1>3, TypeHeld
    <2> QED
      BY <2>1
  <1>9. /\ nb \in Seq(Int) /\ Len(nb) = 9 /\ q \in Seq(Int) /\ Len(q) = 1
        /\ crlf \in Seq(Int) /\ Len(crlf) = 2
    BY <1>4, <1>5, <1>6, NameBeginsHeld, CrLfHeld, OneToken DEF Quote
  <1>10. PICK a1 : a1 = db \o crlf
    OBVIOUS
  <1>11. PICK a2 : a2 = a1 \o tl
    OBVIOUS
  <1>12. PICK a3 : a3 = a2 \o nb
    OBVIOUS
  <1>13. PICK a4 : a4 = a3 \o name
    OBVIOUS
  <1>14. PICK a5 : a5 = a4 \o q
    OBVIOUS
  <1>15. PICK a6 : a6 = a5 \o crlf
    OBVIOUS
  <1>16. PICK a7 : a7 = a6 \o crlf
    OBVIOUS
  <1>17. PICK a8 : a8 = a7 \o value
    OBVIOUS
  <1>18. PICK a9 : a9 = a8 \o crlf
    OBVIOUS
  <1>19. Part(bound, name, value, typed) = a9
    BY <1>2, <1>3, <1>4, <1>5, <1>6, <1>10, <1>11, <1>12, <1>13, <1>14, <1>15, <1>16, <1>17, <1>18
       DEF Part, TypeLine, NameBegins
  <1>21. a1 \in Seq(Int) /\ Len(a1) = b + 4
    <2>1. db \in Seq(Int) /\ crlf \in Seq(Int)
      BY <1>7, <1>9
    <2>2. db \o crlf \in Seq(Int) /\ Len(db \o crlf) = Len(db) + Len(crlf)
      BY <2>1, Cat
    <2> QED
      BY <1>7, <1>9, <1>10, <2>2
  <1>22. a2 \in Seq(Int) /\ Len(a2) = b + 4 + t
    <2>1. a1 \in Seq(Int) /\ tl \in Seq(Int)
      BY <1>8, <1>21
    <2>2. a1 \o tl \in Seq(Int) /\ Len(a1 \o tl) = Len(a1) + Len(tl)
      BY <2>1, Cat
    <2>3. Len(a1) = b + 4 /\ Len(tl) = t
      BY <1>8, <1>21
    <2> QED
      BY <1>11, <2>2, <2>3
  <1>23. a3 \in Seq(Int) /\ Len(a3) = b + 13 + t
    <2>1. a2 \in Seq(Int) /\ nb \in Seq(Int)
      BY <1>9, <1>22
    <2>2. a2 \o nb \in Seq(Int) /\ Len(a2 \o nb) = Len(a2) + Len(nb)
      BY <2>1, Cat
    <2> QED
      BY <1>9, <1>22, <1>12, <2>2
  <1>24. a4 \in Seq(Int) /\ Len(a4) = b + 13 + t + m
    <2>1. a3 \in Seq(Int) /\ name \in Seq(Int)
      BY <1>23
    <2>2. a3 \o name \in Seq(Int) /\ Len(a3 \o name) = Len(a3) + Len(name)
      BY <2>1, Cat
    <2> QED
      BY <1>23, <1>1, <1>13, <2>2
  <1>25. a5 \in Seq(Int) /\ Len(a5) = b + 14 + t + m
    <2>1. a4 \in Seq(Int) /\ q \in Seq(Int)
      BY <1>9, <1>24
    <2>2. a4 \o q \in Seq(Int) /\ Len(a4 \o q) = Len(a4) + Len(q)
      BY <2>1, Cat
    <2> QED
      BY <1>9, <1>24, <1>14, <2>2
  <1>26. a6 \in Seq(Int) /\ Len(a6) = b + 16 + t + m
    <2>1. a5 \in Seq(Int) /\ crlf \in Seq(Int)
      BY <1>9, <1>25
    <2>2. a5 \o crlf \in Seq(Int) /\ Len(a5 \o crlf) = Len(a5) + Len(crlf)
      BY <2>1, Cat
    <2> QED
      BY <1>9, <1>25, <1>15, <2>2
  <1>27. a7 \in Seq(Int) /\ Len(a7) = b + 18 + t + m
    <2>1. a6 \in Seq(Int) /\ crlf \in Seq(Int)
      BY <1>9, <1>26
    <2>2. a6 \o crlf \in Seq(Int) /\ Len(a6 \o crlf) = Len(a6) + Len(crlf)
      BY <2>1, Cat
    <2> QED
      BY <1>9, <1>26, <1>16, <2>2
  <1>28. a8 \in Seq(Int) /\ Len(a8) = b + 18 + t + m + v
    <2>1. a7 \in Seq(Int) /\ value \in Seq(Int)
      BY <1>27
    <2>2. a7 \o value \in Seq(Int) /\ Len(a7 \o value) = Len(a7) + Len(value)
      BY <2>1, Cat
    <2> QED
      BY <1>27, <1>1, <1>17, <2>2
  <1>29. a9 \in Seq(Int) /\ Len(a9) = b + 20 + t + m + v
    <2>1. a8 \in Seq(Int) /\ crlf \in Seq(Int)
      BY <1>9, <1>28
    <2>2. a8 \o crlf \in Seq(Int) /\ Len(a8 \o crlf) = Len(a8) + Len(crlf)
      BY <2>1, Cat
    <2> QED
      BY <1>9, <1>28, <1>18, <2>2
  <1>30. ASSUME Holds(text, 0, a9) PROVE PartAt(text, bound, name, value, b, t, m, v)
    <2> DEFINE At(x, y) == Holds(text, Len(x), y)
    <2>1. \A x \in Seq(Int), y \in Seq(Int) : Holds(text, 0, x \o y) => Holds(text, 0, x) /\ At(x, y)
      <3>1. ASSUME NEW x \in Seq(Int), NEW y \in Seq(Int), Holds(text, 0, x \o y)
            PROVE  Holds(text, 0, x) /\ Holds(text, Len(x), y)
        <4>1. Holds(text, 0, x) /\ Holds(text, 0 + Len(x), y)
          BY <3>1, HoldsBoth
        <4>2. 0 + Len(x) = Len(x)
          OBVIOUS
        <4> QED
          BY <4>1, <4>2
      <3> QED
        BY <3>1
    <2> HIDE DEF At
    <2>2. Holds(text, 0, a8) /\ At(a8, crlf)
      BY <1>9, <1>18, <1>28, <1>30, <2>1
    <2>3. Holds(text, 0, a7) /\ At(a7, value)
      BY <1>17, <1>27, <2>1, <2>2
    <2>4. Holds(text, 0, a6) /\ At(a6, crlf)
      BY <1>9, <1>16, <1>26, <2>1, <2>3
    <2>5. Holds(text, 0, a5) /\ At(a5, crlf)
      BY <1>9, <1>15, <1>25, <2>1, <2>4
    <2>6. Holds(text, 0, a4) /\ At(a4, q)
      BY <1>9, <1>14, <1>24, <2>1, <2>5
    <2>7. Holds(text, 0, a3) /\ At(a3, name)
      BY <1>13, <1>23, <2>1, <2>6
    <2>8. Holds(text, 0, a2) /\ At(a2, nb)
      BY <1>9, <1>12, <1>22, <2>1, <2>7
    <2>9. Holds(text, 0, a1) /\ At(a1, tl)
      BY <1>8, <1>11, <1>21, <2>1, <2>8
    <2>10. Holds(text, 0, db) /\ At(db, crlf)
      BY <1>7, <1>9, <1>10, <2>1, <2>9
    <2>11. Holds(text, b + 18 + t + m + v, CrLf)
      BY <1>6, <1>28, <2>2 DEF At
    <2>12. Holds(text, b + 18 + t + m, value)
      BY <1>27, <2>3 DEF At
    <2>13. Holds(text, b + 16 + t + m, CrLf)
      BY <1>6, <1>26, <2>4 DEF At
    <2>14. Holds(text, 0, DashBoundary(bound)) /\ Holds(text, b + 2, CrLf)
      <3>1. Len(db) = b + 2
        BY <1>7
      <3> QED
        BY <1>2, <1>6, <2>10, <3>1 DEF At
    <2>15. BlockAt(text, b + 4, t, name)
      <3>1. PICK p \in Nat : p = b + 4
        OBVIOUS
      <3>2. t = 0 \/ (t = 6 /\ TypeAt(text, p))
        <4>1. Holds(text, p, TypeLine(typed))
          BY <1>3, <1>21, <2>9, <3>1 DEF At
        <4>2. typed => TypeAt(text, p)
          BY <4>1, TypeHeld
        <4> QED
          BY <1>8, <4>2
      <3>3. NameAt(text, p + t)
        <4>1. Len(a2) = p + t /\ p + t \in Nat
          BY <1>22, <3>1
        <4>2. Holds(text, p + t, NameBegins)
          BY <1>4, <2>8, <4>1 DEF At
        <4> QED
          BY <4>1, <4>2, NameBeginsHeld
      <3>4. Holds(text, p + t + 9, name)
        <4>1. Len(a3) = p + t + 9
          BY <1>23, <3>1
        <4> QED
          BY <2>7, <4>1 DEF At
      <3>5. PICK n \in Nat : n = p + t + 9 + Len(name)
        BY <1>1
      <3>6. text[n + 1] = Quote
        <4>1. Len(a4) = n
          BY <1>1, <1>24, <3>1, <3>5
        <4>2. Holds(text, n, <<Quote>>)
          BY <1>5, <2>6, <4>1 DEF At
        <4>3. Quote \in Int
          BY DEF Quote
        <4> QED
          BY <4>2, <4>3, HoldsOne
      <3>7. text[n + 2] = Cr /\ text[n + 3] = Lf /\ n + 3 <= Len(text)
        <4>1. Len(a5) = n + 1 /\ n + 1 \in Nat
          BY <1>1, <1>25, <3>1, <3>5
        <4>2. Holds(text, n + 1, CrLf)
          BY <1>6, <2>5, <4>1 DEF At
        <4>3. (n + 1) + 2 <= Len(text) /\ text[(n + 1) + 1] = Cr /\ text[(n + 1) + 2] = Lf
          BY <4>1, <4>2, CrLfHeld
        <4>4. (n + 1) + 1 = n + 2 /\ (n + 1) + 2 = n + 3
          OBVIOUS
        <4> QED
          BY <4>3, <4>4
      <3>8. BlockAt(text, p, t, name)
        BY <3>2, <3>3, <3>4, <3>5, <3>6, <3>7 DEF BlockAt
      <3> QED
        BY <3>1, <3>8
    <2> QED
      BY <1>1, <2>11, <2>12, <2>13, <2>14, <2>15 DEF PartAt
  <1> QED
    BY <1>19, <1>29, <1>30

\* A name that may be put in a header.
PlainName(name) ==
    name \in Seq(0..255) /\ \A i \in 1..Len(name) : name[i] \notin {Semicolon, Cr, Lf}

\* The bytes of the headers of a part.
BlockIsSpelled(head, t, m, name) ==
    /\ t = 0 \/ (t = 6 /\ TypeAt(head, 0))
    /\ NameAt(head, t)
    /\ \A i \in 1..m : head[t + 9 + i] = name[i]
    /\ head[t + 10 + m] = Quote /\ head[t + 11 + m] = Cr /\ head[t + 12 + m] = Lf
    /\ \A k \in (t + 1)..(t + 10 + m) : head[k] \notin {Cr, Lf}

\* Where the lines of a part's headers end.
LEMMA BlockBytes ==
    ASSUME NEW head \in Seq(Int), NEW t \in Nat, NEW m \in Nat, NEW name, PlainName(name),
           m = Len(name), BlockAt(head, 0, t, name), Len(head) = t + 12 + m
    PROVE  BlockIsSpelled(head, t, m, name)
  <1>1. /\ t = 0 \/ (t = 6 /\ TypeAt(head, 0))
        /\ NameAt(head, 0 + t) /\ Holds(head, 0 + t + 9, name)
        /\ head[(0 + t + 9 + m) + 1] = Quote /\ head[(0 + t + 9 + m) + 2] = Cr
        /\ head[(0 + t + 9 + m) + 3] = Lf
    BY DEF BlockAt
  <1>2. /\ 0 + t = t /\ 0 + t + 9 = t + 9 /\ (0 + t + 9 + m) + 1 = t + 10 + m
        /\ (0 + t + 9 + m) + 2 = t + 11 + m /\ (0 + t + 9 + m) + 3 = t + 12 + m
    OBVIOUS
  <1>3. \A i \in 1..m : head[t + 9 + i] = name[i]
    BY <1>1, <1>2 DEF Holds
  <1>4. NameAt(head, t)
    BY <1>1, <1>2
  <1>5. ASSUME NEW k \in (t + 1)..(t + 10 + m) PROVE head[k] \notin {Cr, Lf}
    <2>1. k \in (t + 1)..(t + 9) \/ k - (t + 9) \in 1..m \/ k = t + 10 + m
      BY SMTT(40)
    <2>2. CASE k \in (t + 1)..(t + 9)
      <3>1. \/ k = t + 1 \/ k = t + 2 \/ k = t + 3 \/ k = t + 4 \/ k = t + 5
            \/ k = t + 6 \/ k = t + 7 \/ k = t + 8 \/ k = t + 9
        BY <2>2
      <3>2. \A w \in Words : w \notin {Cr, Lf}
        BY DEF Words, ContentDisposition, ContentType, Colon, Space, FormData, Semicolon, Name, Equal,
               Quote, Cr, Lf
      <3>3. head[k] \in Words
        BY <1>4, <3>1 DEF NameAt, Words
      <3> QED
        BY <3>2, <3>3
    <2>3. CASE k - (t + 9) \in 1..m
      <3>1. t + 9 + (k - (t + 9)) = k
        OBVIOUS
      <3>2. PICK j : j = k - (t + 9)
        OBVIOUS
      <3>3. j \in 1..m /\ head[t + 9 + j] = head[k]
        BY <2>3, <3>1, <3>2
      <3>4. head[k] = name[j]
        BY <1>3, <3>3
      <3>5. name[j] \notin {Cr, Lf}
        BY <3>3 DEF PlainName
      <3> QED
        BY <3>4, <3>5
    <2>4. CASE k = t + 10 + m
      <3>1. head[k] = Quote
        <4>1. head[t + 10 + m] = Quote
          BY <1>1, <1>2
        <4> QED
          BY <2>4, <4>1
      <3>2. Quote \notin {Cr, Lf}
        BY DEF Quote, Cr, Lf
      <3> QED
        BY <3>1, <3>2
    <2> QED
      BY <2>1, <2>2, <2>3, <2>4
  <1> QED
    BY <1>1, <1>2, <1>3, <1>4, <1>5 DEF BlockIsSpelled

\* The lines of the headers of a part.
LEMMA BlockLines ==
    ASSUME NEW head \in Seq(Int), NEW t \in Nat, NEW m \in Nat, NEW name, PlainName(name),
           m = Len(name), BlockAt(head, 0, t, name), Len(head) = t + 12 + m
    PROVE  /\ HeaderStarts(head) \subseteq {1, t + 1, Len(head) + 1}
           /\ 1 \in HeaderStarts(head) /\ t + 1 \in HeaderStarts(head)
           /\ HeaderLine(head, t + 1) = SubSeq(head, t + 1, t + 10 + m)
           /\ t = 6 => HeaderLine(head, 1) = SubSeq(head, 1, 4)
           /\ HeaderLine(head, Len(head) + 1) = <<>>
  <1>1. PICK n \in Nat : n = Len(head) /\ n = t + 12 + m
    OBVIOUS
  <1>0. BlockIsSpelled(head, t, m, name)
    BY BlockBytes
  <1>2. /\ t = 0 \/ (t = 6 /\ TypeAt(head, 0))
        /\ NameAt(head, t)
        /\ head[t + 11 + m] = Cr /\ head[t + 12 + m] = Lf
    BY <1>0 DEF BlockIsSpelled
  <1>3. \A k \in (t + 1)..(t + 10 + m) : head[k] # Cr
    <2>1. \A k \in (t + 1)..(t + 10 + m) : head[k] \notin {Cr, Lf}
      BY <1>0 DEF BlockIsSpelled
    <2> QED
      BY <2>1
  <1>4. CrLf \in Seq(Int) /\ Len(CrLf) = 2
    BY CrLfHeld
  <1>5. ASSUME NEW i \in Nat, i # 0
        PROVE  Holds(head, i - 1, CrLf) <=> i + 1 <= n /\ head[i] = Cr /\ head[i + 1] = Lf
    <2>1. PICK p \in Nat : p = i - 1
      <3>1. i - 1 \in Nat
        BY <1>5
      <3> QED
        BY <3>1
    <2>2. p + 2 = i + 1 /\ p + 1 = i
      BY <2>1
    <2>3. Holds(head, p, CrLf) <=> p + 2 <= Len(head) /\ head[p + 1] = Cr /\ head[p + 2] = Lf
      BY CrLfHeld
    <2> QED
      BY <1>1, <2>1, <2>2, <2>3
  <1>6. /\ t = 6 => /\ head[1] # Cr /\ head[2] # Cr /\ head[3] # Cr /\ head[4] # Cr
                    /\ head[5] = Cr /\ head[6] = Lf
    <2>1. 0 + 1 = 1 /\ 0 + 2 = 2 /\ 0 + 3 = 3 /\ 0 + 4 = 4 /\ 0 + 5 = 5 /\ 0 + 6 = 6
      OBVIOUS
    <2> QED
      BY <1>2, <2>1, SMTT(40) DEF TypeAt, ContentType, Colon, Space, FormData, Cr
  <1>7. FindFrom(head, t + 1, CrLf) = t + 11 + m
    <2>1. PICK e \in Nat : e = t + 11 + m
      OBVIOUS
    <2>2. PICK from \in Nat : from = t + 1
      OBVIOUS
    <2>3. e # 0 /\ from # 0 /\ from <= e /\ e + 1 <= n /\ e + 1 = t + 12 + m
      BY <1>1, <2>1, <2>2
    <2>4. Holds(head, e - 1, CrLf)
      BY <1>2, <1>5, <2>1, <2>3
    <2>5. ASSUME NEW i \in from..(e - 1) PROVE ~Holds(head, i - 1, CrLf)
      <3>1. i \in Nat /\ i # 0 /\ i \in (t + 1)..(t + 10 + m)
        BY <2>1, <2>2
      <3> QED
        BY <1>3, <1>5, <3>1
    <2>6. from \in Nat \ {0}
      BY <2>3
    <2>7. FindFrom(head, from, CrLf) = e
      BY <1>4, <2>3, <2>4, <2>5, <2>6, FindFromIs
    <2> QED
      BY <2>1, <2>2, <2>7
  <1>8. t = 6 => FindFrom(head, 1, CrLf) = 5
    <2> SUFFICES ASSUME t = 6 PROVE FindFrom(head, 1, CrLf) = 5
      OBVIOUS
    <2>1. PICK e \in Nat, from \in Nat : e = 5 /\ from = 1
      OBVIOUS
    <2>2. e # 0 /\ from \in Nat \ {0} /\ from <= e /\ e + 1 <= n /\ e + 1 = 6
      BY <1>1, <2>1
    <2>3. Holds(head, e - 1, CrLf)
      BY <1>5, <1>6, <2>1, <2>2
    <2>4. ASSUME NEW i \in from..(e - 1) PROVE ~Holds(head, i - 1, CrLf)
      <3>1. i \in Nat /\ i # 0 /\ (i = 1 \/ i = 2 \/ i = 3 \/ i = 4)
        BY <2>1
      <3>2. head[i] # Cr
        BY <1>6, <3>1
      <3> QED
        BY <1>5, <3>1, <3>2
    <2>5. from \in Nat \ {0}
      BY <2>2
    <2>6. FindFrom(head, from, CrLf) = e
      BY <1>4, <2>2, <2>3, <2>4, <2>5, FindFromIs
    <2> QED
      BY <2>1, <2>6
  <1>9. FindFrom(head, n + 1, CrLf) = 0
    <2>1. PICK from \in Nat : from = n + 1
      OBVIOUS
    <2>2. ASSUME NEW i \in Nat, from <= i PROVE ~Holds(head, i - 1, CrLf)
      <3>1. i # 0 /\ ~(i + 1 <= n)
        BY <2>1, <2>2
      <3> QED
        BY <1>5, <3>1
    <2>3. from \in Nat \ {0}
      BY <2>1
    <2>4. FindFrom(head, from, CrLf) = 0
      BY <1>4, <2>2, <2>3, FindNone
    <2> QED
      BY <2>1, <2>4
  <1>10. HeaderLine(head, t + 1) = SubSeq(head, t + 1, t + 10 + m)
    <2>1. (t + 11 + m) - 1 = t + 10 + m /\ t + 11 + m # 0
      OBVIOUS
    <2> QED
      BY <1>7, <2>1 DEF HeaderLine
  <1>11. t = 6 => HeaderLine(head, 1) = SubSeq(head, 1, 4)
    <2>1. 5 - 1 = 4 /\ 5 # 0
      OBVIOUS
    <2> QED
      BY <1>8, <2>1 DEF HeaderLine
  <1>12. HeaderLine(head, Len(head) + 1) = <<>>
    <2>1. SubSeq(head, n + 1, n) = <<>>
      BY <1>1
    <2> QED
      BY <1>1, <1>9, <2>1 DEF HeaderLine
  <1>13. ASSUME NEW i \in 3..(n + 1)
         PROVE  SubSeq(head, i - 2, i - 1) = CrLf <=> head[i - 2] = Cr /\ head[i - 1] = Lf
    <2>1. /\ i - 2 \in Int /\ i - 1 \in Int /\ 1 <= i - 2 /\ i - 2 <= (i - 1) + 1 /\ i - 1 <= Len(head)
      BY <1>1
    <2>2. PICK s : s = SubSeq(head, i - 2, i - 1)
      OBVIOUS
    <2>3. /\ s \in Seq(Int) /\ Len(s) = ((i - 1) - (i - 2)) + 1
          /\ \A k \in 1..(((i - 1) - (i - 2)) + 1) : s[k] = head[((i - 2) + k) - 1]
      BY <2>1, <2>2, Sub
    <2>4. /\ ((i - 1) - (i - 2)) + 1 = 2 /\ ((i - 2) + 1) - 1 = i - 2 /\ ((i - 2) + 2) - 1 = i - 1
          /\ 1 \in 1..2 /\ 2 \in 1..2
      OBVIOUS
    <2>5. Len(s) = 2 /\ s[1] = head[i - 2] /\ s[2] = head[i - 1]
      BY <2>3, <2>4
    <2>6. PICK w : w = CrLf
      OBVIOUS
    <2>7. w \in Seq(Int) /\ Len(w) = 2 /\ w[1] = Cr /\ w[2] = Lf
      BY <2>6, TwoTokens DEF CrLf, Cr, Lf
    <2>8. s = w => s[1] = Cr /\ s[2] = Lf
      BY <2>7
    <2>9. ASSUME s[1] = Cr, s[2] = Lf PROVE s = w
      <3>1. \A k \in 1..Len(s) : k = 1 \/ k = 2
        BY <2>5
      <3>2. \A k \in 1..Len(s) : s[k] = w[k]
        BY <2>7, <2>9, <3>1
      <3> QED
        BY <2>3, <2>5, <2>7, <3>2, SameSeq
    <2> QED
      BY <2>2, <2>5, <2>6, <2>8, <2>9
  <1>14. ASSUME NEW i \in HeaderStarts(head) PROVE i \in {1, t + 1, n + 1}
    <2>1. i \in 1..(n + 1) /\ (i = 1 \/ (i > 2 /\ SubSeq(head, i - 2, i - 1) = CrLf))
      BY <1>1 DEF HeaderStarts
    <2> SUFFICES ASSUME i # 1, i # t + 1, i # n + 1 PROVE FALSE
      OBVIOUS
    <2>2. i \in 3..(n + 1)
      BY <2>1
    <2>3. head[i - 2] = Cr /\ head[i - 1] = Lf
      BY <1>13, <2>1, <2>2
    <2>4. CASE i - 2 >= t + 1
      <3>1. i - 2 \in (t + 1)..(t + 10 + m)
        BY <1>1, <2>1, <2>2, <2>4, SMTT(40)
      <3> QED
        BY <1>3, <2>3, <3>1
    <2>5. CASE i - 2 <= t
      <3>1. t = 6 /\ (i - 2 = 1 \/ i - 2 = 2 \/ i - 2 = 3 \/ i - 2 = 4 \/ i - 2 = 6)
        BY <1>2, <2>2, <2>5
      <3>2. head[6] # Cr
        BY <1>6, <3>1 DEF Cr, Lf
      <3> QED
        BY <1>6, <2>3, <3>1, <3>2
    <2> QED
      BY <2>2, <2>4, <2>5
  <1>15. 1 \in HeaderStarts(head)
    BY <1>1 DEF HeaderStarts
  <1>16. t + 1 \in HeaderStarts(head)
    <2>1. CASE t = 0
      BY <1>15, <2>1
    <2>2. CASE t = 6
      <3>1. 7 \in 3..(n + 1) /\ 7 \in 1..(n + 1) /\ 7 - 2 = 5 /\ 7 - 1 = 6 /\ 7 > 2
        BY <1>1, <2>2
      <3>2. SubSeq(head, 7 - 2, 7 - 1) = CrLf
        BY <1>6, <1>13, <2>2, <3>1
      <3>3. 7 \in HeaderStarts(head)
        BY <1>1, <3>1, <3>2 DEF HeaderStarts
      <3> QED
        BY <2>2, <3>3
    <2> QED
      BY <1>2, <2>1, <2>2
  <1>17. HeaderStarts(head) \subseteq {1, t + 1, Len(head) + 1}
    BY <1>1, <1>14
  <1> QED
    BY <1>10, <1>11, <1>12, <1>15, <1>16, <1>17

\* The disposition is the header that is found, and the name is its parameter.
LEMMA NameOfBlock ==
    ASSUME NEW head \in Seq(Int), NEW t \in Nat, NEW m \in Nat, NEW name, PlainName(name),
           m = Len(name), BlockAt(head, 0, t, name), Len(head) = t + 12 + m
    PROVE  ParamValue(HeaderValue(head, ContentDisposition), Name) = name
  <1>1. PICK n \in Nat : n = Len(head) /\ n = t + 12 + m
    OBVIOUS
  <1>0. BlockIsSpelled(head, t, m, name)
    BY BlockBytes
  <1>2. (t = 0 \/ (t = 6 /\ TypeAt(head, 0))) /\ NameAt(head, t)
    BY <1>0 DEF BlockIsSpelled
  <1>3. (\A i \in 1..m : head[t + 9 + i] = name[i]) /\ head[t + 10 + m] = Quote
    BY <1>0 DEF BlockIsSpelled
  <1>4. /\ HeaderStarts(head) \subseteq {1, t + 1, n + 1}
        /\ 1 \in HeaderStarts(head) /\ t + 1 \in HeaderStarts(head)
    <2>1. HeaderStarts(head) \subseteq {1, t + 1, Len(head) + 1}
      BY BlockLines
    <2>2. 1 \in HeaderStarts(head)
      BY BlockLines
    <2>3. t + 1 \in HeaderStarts(head)
      BY BlockLines
    <2>4. Len(head) + 1 = n + 1
      BY <1>1
    <2> QED
      BY <2>1, <2>2, <2>3, <2>4
  <1>5. PICK line : line = HeaderLine(head, t + 1)
    OBVIOUS
  <1>6. line \in Seq(Int) /\ Len(line) = m + 10 /\ \A i \in 1..(m + 10) : line[i] = head[t + i]
    <2>1. line = SubSeq(head, t + 1, t + 10 + m)
      BY <1>5, BlockLines
    <2>2. /\ t + 1 \in Int /\ t + 10 + m \in Int /\ 1 <= t + 1 /\ t + 1 <= (t + 10 + m) + 1
          /\ t + 10 + m <= Len(head)
      BY <1>1
    <2>5. PICK e \in Int : e = t + 10 + m
      OBVIOUS
    <2>6. PICK f \in Int : f = t + 1
      OBVIOUS
    <2>7. /\ SubSeq(head, f, e) \in Seq(Int) /\ Len(SubSeq(head, f, e)) = (e - f) + 1
          /\ \A i \in 1..((e - f) + 1) : SubSeq(head, f, e)[i] = head[(f + i) - 1]
      <3>1. 1 <= f /\ f <= e + 1 /\ e <= Len(head)
        BY <2>2, <2>5, <2>6
      <3> QED
        BY <3>1, Sub
    <2>3. /\ line \in Seq(Int) /\ Len(line) = ((t + 10 + m) - (t + 1)) + 1
          /\ \A i \in 1..(((t + 10 + m) - (t + 1)) + 1) : line[i] = head[((t + 1) + i) - 1]
      BY <2>1, <2>5, <2>6, <2>7
    <2>4. /\ ((t + 10 + m) - (t + 1)) + 1 = m + 10
          /\ \A i \in 1..(m + 10) : ((t + 1) + i) - 1 = t + i
      OBVIOUS
    <2> QED
      BY <2>3, <2>4
  <1>7. /\ line[1] = ContentDisposition /\ line[2] = Colon /\ line[3] = Space /\ line[4] = FormData
        /\ line[5] = Semicolon /\ line[6] = Space /\ line[7] = Name /\ line[8] = Equal
        /\ line[9] = Quote
    <2>1. /\ 1 \in 1..(m + 10) /\ 2 \in 1..(m + 10) /\ 3 \in 1..(m + 10) /\ 4 \in 1..(m + 10)
          /\ 5 \in 1..(m + 10) /\ 6 \in 1..(m + 10) /\ 7 \in 1..(m + 10) /\ 8 \in 1..(m + 10)
          /\ 9 \in 1..(m + 10)
      OBVIOUS
    <2> QED
      BY <1>2, <1>6, <2>1 DEF NameAt
  <1>8. (\A i \in 1..m : line[9 + i] = name[i]) /\ line[10 + m] = Quote
    <2>1. ASSUME NEW i \in 1..m PROVE line[9 + i] = name[i]
      <3>1. 9 + i \in 1..(m + 10) /\ t + (9 + i) = t + 9 + i
        OBVIOUS
      <3> QED
        BY <1>3, <1>6, <3>1
    <2>2. 10 + m \in 1..(m + 10) /\ t + (10 + m) = t + 10 + m
      OBVIOUS
    <2> QED
      BY <1>3, <1>6, <2>1, <2>2
  <1> DEFINE NoColon(i) == \A j \in DOMAIN HeaderLine(head, i) : HeaderLine(head, i)[j] # Colon
  <1>9. PICK hits : hits = {i \in HeaderStarts(head) :
                              /\ \A j \in HeaderStarts(head) : j <= i => ~NoColon(j)
                              /\ StartsWith(HeaderLine(head, i), <<ContentDisposition, Colon>>)}
    OBVIOUS
  <1>10. PICK what : what = <<ContentDisposition, Colon>>
    OBVIOUS
  <1>11. what \in Seq(Int) /\ Len(what) = 2 /\ what[1] = ContentDisposition /\ what[2] = Colon
    BY <1>10, TwoTokens DEF ContentDisposition, Colon
  <1>12. ~NoColon(t + 1)
    <2>1. 2 \in DOMAIN line
      BY <1>6
    <2> QED
      BY <1>5, <1>7, <2>1
  <1>13. t = 6 => ~NoColon(1) /\ ~StartsWith(HeaderLine(head, 1), what)
    <2> SUFFICES ASSUME t = 6 PROVE ~NoColon(1) /\ ~StartsWith(HeaderLine(head, 1), what)
      OBVIOUS
    <2>1. PICK first : first = HeaderLine(head, 1)
      OBVIOUS
    <2>2. first = SubSeq(head, 1, 4)
      BY <2>1, BlockLines
    <2>3. 1 \in Int /\ 4 \in Int /\ 1 <= 1 /\ 1 <= 4 + 1 /\ 4 <= Len(head)
      BY <1>1
    <2>4. /\ first \in Seq(Int) /\ Len(first) = (4 - 1) + 1
          /\ \A i \in 1..((4 - 1) + 1) : first[i] = head[(1 + i) - 1]
      BY <2>2, <2>3, Sub
    <2>5. (4 - 1) + 1 = 4 /\ (1 + 1) - 1 = 1 /\ (1 + 2) - 1 = 2 /\ 1 \in 1..4 /\ 2 \in 1..4
      OBVIOUS
    <2>6. Len(first) = 4 /\ first[1] = head[1] /\ first[2] = head[2]
      BY <2>4, <2>5
    <2>7. head[1] = ContentType /\ head[2] = Colon
      <3>1. 0 + 1 = 1 /\ 0 + 2 = 2
        OBVIOUS
      <3> QED
        BY <1>2, <3>1 DEF TypeAt
    <2>8. ~NoColon(1)
      <3>1. 2 \in DOMAIN first
        BY <2>4, <2>6
      <3> QED
        BY <2>1, <2>6, <2>7, <3>1
    <2>9. ~StartsWith(first, what)
      <3> SUFFICES ASSUME StartsWith(first, what) PROVE FALSE
        OBVIOUS
      <3>1. SubSeq(first, 1, 2) = what
        BY <1>11 DEF StartsWith
      <3>2. 1 \in Int /\ 2 \in Int /\ 1 <= 1 /\ 1 <= 2 + 1 /\ 2 <= Len(first)
        BY <2>6
      <3>3. \A i \in 1..((2 - 1) + 1) : SubSeq(first, 1, 2)[i] = first[(1 + i) - 1]
        BY <2>4, <3>2, Sub
      <3>4. 1 \in 1..((2 - 1) + 1) /\ (1 + 1) - 1 = 1
        OBVIOUS
      <3>5. what[1] = first[1]
        BY <3>1, <3>3, <3>4
      <3> QED
        BY <1>11, <2>6, <2>7, <3>5 DEF ContentType, ContentDisposition
    <2> QED
      BY <2>1, <2>8, <2>9
  <1>14. NoColon(n + 1)
    <2>1. HeaderLine(head, n + 1) = <<>>
      BY <1>1, BlockLines
    <2> QED
      BY <2>1
  <1>15. StartsWith(line, what)
    <2>1. /\ 1 \in Int /\ 2 \in Int /\ 1 <= 1 /\ 1 <= 2 + 1 /\ 2 <= Len(line) /\ Len(what) = (2 - 1) + 1
      BY <1>6, <1>11
    <2>2. \A i \in 1..Len(what) : (i = 1 \/ i = 2) /\ (1 + i) - 1 = i
      BY <1>11
    <2>3. \A i \in 1..Len(what) : what[i] = line[(1 + i) - 1]
      BY <1>7, <1>11, <2>2
    <2>4. SubSeq(line, 1, 2) = what
      BY <1>6, <1>11, <2>1, <2>3, SubIs
    <2> QED
      BY <1>11, <2>1, <2>4 DEF StartsWith
  <1> HIDE DEF NoColon
  <1>16. t + 1 \in hits
    <2>1. ASSUME NEW j \in HeaderStarts(head), j <= t + 1 PROVE ~NoColon(j)
      <3>1. j = 1 \/ j = t + 1
        BY <1>1, <1>4, <2>1
      <3>2. j = t + 1 \/ (j = 1 /\ t = 6)
        BY <1>2, <3>1
      <3> QED
        BY <1>12, <1>13, <3>2
    <2> QED
      BY <1>4, <1>5, <1>9, <1>10, <1>15, <2>1
  <1>17. ASSUME NEW i \in hits PROVE i = t + 1
    <2>1. /\ i \in HeaderStarts(head) /\ StartsWith(HeaderLine(head, i), what)
          /\ \A j \in HeaderStarts(head) : j <= i => ~NoColon(j)
      BY <1>9, <1>10
    <2>2. i = 1 \/ i = t + 1 \/ i = n + 1
      BY <1>4, <2>1
    <2>3. i # n + 1
      <3> SUFFICES ASSUME i = n + 1 PROVE FALSE
        OBVIOUS
      <3>1. i <= i
        BY <1>1
      <3>2. ~NoColon(i)
        BY <2>1, <3>1
      <3> QED
        BY <1>14, <3>2
    <2>4. i = 1 => t = 0
      BY <1>2, <1>13, <2>1
    <2> QED
      BY <2>2, <2>3, <2>4
  <1>18. Max(hits) = t + 1
    <2>1. hits \subseteq Int /\ \A y \in hits : y <= t + 1
      BY <1>17
    <2> QED
      BY <1>16, <2>1, MaxIs
  <1>19. HeaderValue(head, ContentDisposition) = Trimmed(Rest(line, 3))
    <2>1. hits # {}
      BY <1>16
    <2>2. HeaderValue(head, ContentDisposition) = Trimmed(Rest(HeaderLine(head, Max(hits)), 3))
      BY <1>9, <2>1 DEF HeaderValue, NoColon
    <2> QED
      BY <1>5, <1>18, <2>2
  <1> HIDE DEF NoColon
  <1>20. PICK r : r = Rest(line, 3)
    OBVIOUS
  <1>21. r \in Seq(Int) /\ Len(r) = m + 8 /\ \A i \in 1..(m + 8) : r[i] = line[2 + i]
    <2>1. r = SubSeq(line, 3, m + 10)
      BY <1>6, <1>20 DEF Rest
    <2>2. /\ 3 \in Int /\ m + 10 \in Int /\ 1 <= 3 /\ 3 <= (m + 10) + 1 /\ m + 10 <= Len(line)
      BY <1>6
    <2>3. /\ r \in Seq(Int) /\ Len(r) = ((m + 10) - 3) + 1
          /\ \A i \in 1..(((m + 10) - 3) + 1) : r[i] = line[(3 + i) - 1]
      <3>1. line \in Seq(Int)
        BY <1>6
      <3>2. PICK f \in Int, e \in Int : f = 3 /\ e = m + 10
        BY <2>2
      <3>3. 1 <= f /\ f <= e + 1 /\ e <= Len(line)
        BY <2>2, <3>2
      <3>4. /\ SubSeq(line, f, e) \in Seq(Int) /\ Len(SubSeq(line, f, e)) = (e - f) + 1
            /\ \A i \in 1..((e - f) + 1) : SubSeq(line, f, e)[i] = line[(f + i) - 1]
        BY <3>1, <3>3, Sub, SMTT(40)
      <3> QED
        BY <2>1, <3>2, <3>4
    <2>4. ((m + 10) - 3) + 1 = m + 8 /\ \A i \in 1..(m + 8) : (3 + i) - 1 = 2 + i
      OBVIOUS
    <2> QED
      BY <2>3, <2>4
  <1>22. PICK h : h = Trimmed(r)
    OBVIOUS
  <1>23. h = SubSeq(r, 2, Len(r))
    <2>1. 1 \in 1..(m + 8) /\ 2 \in 1..(m + 8) /\ 2 + 1 = 3 /\ 2 + 2 = 4
      OBVIOUS
    <2>2. r[1] = Space /\ r[2] = FormData
      BY <1>7, <1>21, <2>1
    <2>3. 2 \in 1..Len(r) /\ r[2] # Space
      BY <1>21, <2>1, <2>2 DEF Space, FormData
    <2>4. \A i \in 1..(2 - 1) : i = 1
      OBVIOUS
    <2>5. \A i \in 1..(2 - 1) : r[i] = Space
      BY <2>2, <2>4
    <2> QED
      BY <1>21, <1>22, <2>3, <2>5, TrimmedFrom
  <1>24. h \in Seq(Int) /\ Len(h) = m + 7 /\ \A i \in 1..(m + 7) : h[i] = line[3 + i]
    <2>1. 2 \in Int /\ m + 8 \in Int /\ 1 <= 2 /\ 2 <= (m + 8) + 1 /\ m + 8 <= Len(r)
      BY <1>21
    <2>2. h = SubSeq(r, 2, m + 8)
      BY <1>21, <1>23
    <2>6. PICK e \in Int : e = m + 8
      OBVIOUS
    <2>7. /\ SubSeq(r, 2, e) \in Seq(Int) /\ Len(SubSeq(r, 2, e)) = (e - 2) + 1
          /\ \A i \in 1..((e - 2) + 1) : SubSeq(r, 2, e)[i] = r[(2 + i) - 1]
      <3>1. 2 \in Int /\ 1 <= 2 /\ 2 <= e + 1 /\ e <= Len(r)
        BY <2>1, <2>6
      <3>2. r \in Seq(Int)
        BY <1>21
      <3> QED
        BY <3>1, <3>2, Sub
    <2>3. /\ h \in Seq(Int) /\ Len(h) = ((m + 8) - 2) + 1
          /\ \A i \in 1..(((m + 8) - 2) + 1) : h[i] = r[(2 + i) - 1]
      BY <2>2, <2>6, <2>7
    <2>4. /\ ((m + 8) - 2) + 1 = m + 7
          /\ \A i \in 1..(m + 7) : (2 + i) - 1 = i + 1 /\ i + 1 \in 1..(m + 8) /\ 2 + (i + 1) = 3 + i
      OBVIOUS
    <2>5. Len(h) = m + 7 /\ \A i \in 1..(m + 7) : h[i] = r[i + 1]
      BY <2>3, <2>4
    <2>8. ASSUME NEW i \in 1..(m + 7) PROVE h[i] = line[3 + i]
      <3>1. i + 1 \in 1..(m + 8) /\ 2 + (i + 1) = 3 + i
        BY <2>4
      <3>2. r[i + 1] = line[2 + (i + 1)]
        BY <1>21, <3>1
      <3> QED
        BY <2>5, <3>1, <3>2
    <2>9. h \in Seq(Int)
      BY <2>3
    <2> QED
      BY <2>5, <2>8, <2>9
  <1>25. PICK q : q = <<Quote>>
    OBVIOUS
  <1>26. PICK five : five = <<FormData, Semicolon, Space, Name, Equal>>
    OBVIOUS
  <1>27. /\ q \in Seq(Int) /\ Len(q) = 1
         /\ five \in Seq(Int) /\ Len(five) = 5 /\ five[1] = FormData /\ five[2] = Semicolon
         /\ five[3] = Space /\ five[4] = Name /\ five[5] = Equal
    BY <1>25, <1>26, OneToken, FiveTokens DEF Quote, FormData, Semicolon, Space, Name, Equal
  <1>28. name \in Seq(Int) /\ \A i \in 1..Len(name) : name[i] # Semicolon
    <2>1. 0..255 \subseteq Int
      OBVIOUS
    <2> QED
      BY <2>1, Widen, SMTT(40) DEF PlainName
  <1>29. Holds(h, 0, five)
    <2>1. \A i : i \in 1..5 <=> i = 1 \/ i = 2 \/ i = 3 \/ i = 4 \/ i = 5
      OBVIOUS
    <2>2. /\ 1 \in 1..(m + 7) /\ 2 \in 1..(m + 7) /\ 3 \in 1..(m + 7) /\ 4 \in 1..(m + 7)
          /\ 5 \in 1..(m + 7) /\ 0 + 5 <= m + 7
          /\ 3 + 1 = 4 /\ 3 + 2 = 5 /\ 3 + 3 = 6 /\ 3 + 4 = 7 /\ 3 + 5 = 8
      OBVIOUS
    <2>3. h[1] = five[1] /\ h[2] = five[2] /\ h[3] = five[3] /\ h[4] = five[4] /\ h[5] = five[5]
      BY <1>7, <1>24, <1>27, <2>2
    <2>4. \A i \in 1..5 : 0 + i = i /\ h[i] = five[i]
      BY <2>1, <2>3, SMTT(40)
    <2> QED
      BY <1>24, <1>27, <2>2, <2>4 DEF Holds
  <1>30. Holds(h, 5, q)
    <2>1. 5 + 1 = 6 /\ 6 \in 1..(m + 7) /\ 3 + 6 = 9 /\ 5 + 1 <= m + 7 /\ 5 \in Nat
      OBVIOUS
    <2>2. h[5 + 1] = Quote /\ 5 + 1 <= Len(h) /\ Quote \in Int
      BY <1>7, <1>24, <2>1, SMTT(40) DEF Quote
    <2> QED
      BY <1>24, <1>25, <2>1, <2>2, HoldsOne, SMTT(40)
  <1>31. Holds(h, 6, name)
    <2>1. 6 + m <= m + 7
      OBVIOUS
    <2>2. ASSUME NEW i \in 1..m PROVE h[6 + i] = name[i]
      <3>1. 6 + i \in 1..(m + 7) /\ 3 + (6 + i) = 9 + i
        OBVIOUS
      <3> QED
        BY <1>8, <1>24, <3>1, ZenonT(60)
    <2> QED
      BY <1>24, <2>1, <2>2 DEF Holds
  <1>32. Holds(h, 6 + m, q)
    <2>1. (6 + m) + 1 = m + 7 /\ m + 7 \in 1..(m + 7) /\ 3 + (m + 7) = 10 + m /\ 6 + m \in Nat
      OBVIOUS
    <2>3. h[m + 7] = line[10 + m]
      BY <1>24, <2>1
    <2>4. line[10 + m] = Quote
      BY <1>8
    <2>5. (6 + m) + 1 <= Len(h)
      BY <1>24, <2>1
    <2>2. h[(6 + m) + 1] = Quote /\ (6 + m) + 1 <= Len(h) /\ Quote \in Int
      BY <2>1, <2>3, <2>4, <2>5 DEF Quote
    <2> QED
      BY <1>24, <1>25, <2>1, <2>2, HoldsOne
  <1>33. PICK a : a = q \o name
    OBVIOUS
  <1>34. PICK s : s = a \o q
    OBVIOUS
  <1>35. a \in Seq(Int) /\ Len(a) = 1 + m
    <2>1. q \in Seq(Int) /\ name \in Seq(Int)
      BY <1>27, <1>28
    <2>2. q \o name \in Seq(Int) /\ Len(q \o name) = Len(q) + Len(name)
      BY <2>1, Cat
    <2> QED
      BY <1>27, <1>33, <2>2
  <1>36. s \in Seq(Int) /\ Len(s) = m + 2
    <2>1. q \in Seq(Int) /\ a \in Seq(Int)
      BY <1>27, <1>35
    <2>2. a \o q \in Seq(Int) /\ Len(a \o q) = Len(a) + Len(q)
      BY <2>1, Cat
    <2> QED
      BY <1>27, <1>34, <1>35, <2>2
  <1>37. PICK u : u = five \o s
    OBVIOUS
  <1>38. u \in Seq(Int) /\ Len(u) = m + 7
    <2>1. five \in Seq(Int) /\ s \in Seq(Int)
      BY <1>27, <1>36
    <2>2. five \o s \in Seq(Int) /\ Len(five \o s) = Len(five) + Len(s)
      BY <2>1, Cat
    <2> QED
      BY <1>27, <1>36, <1>37, <2>2
  <1>39. Holds(h, 0, u)
    <2>1. Holds(h, 5, a)
      <3>1. 5 + Len(q) = 6
        BY <1>27
      <3>2. Holds(h, 5 + Len(q), name)
        BY <1>31, <3>1
      <3>3. 5 \in Nat /\ q \in Seq(Int)
        BY <1>27
      <3> QED
        BY <1>24, <1>28, <1>30, <1>33, <3>2, <3>3, HoldsBoth
    <2>2. Holds(h, 5, s)
      <3>1. 5 + Len(a) = 6 + m
        BY <1>35
      <3>2. Holds(h, 5 + Len(a), q)
        BY <1>32, <3>1
      <3>3. 5 \in Nat /\ q \in Seq(Int) /\ a \in Seq(Int)
        BY <1>27, <1>35
      <3> QED
        BY <1>24, <1>34, <2>1, <3>2, <3>3, HoldsBoth
    <2>3. 0 + Len(five) = 5
      BY <1>27
    <2>4. Holds(h, 0 + Len(five), s)
      BY <2>2, <2>3
    <2>5. 0 \in Nat /\ five \in Seq(Int) /\ s \in Seq(Int)
      BY <1>27, <1>36
    <2> QED
      BY <1>24, <1>29, <1>37, <2>4, <2>5, HoldsBoth
  <1>40. h = u
    <2>1. SubSeq(h, 0 + 1, 0 + Len(u)) = u
      BY <1>24, <1>38, <1>39, HoldsIs
    <2>2. 0 + 1 = 1 /\ 0 + Len(u) = Len(h)
      BY <1>24, <1>38
    <2>3. SubSeq(h, 1, Len(h)) = h
      BY <1>24, Whole
    <2> QED
      BY <2>1, <2>2, <2>3
  <1>41. ParamValue(u, Name) = name
    <2>1. Name \in Int /\ Name \notin {Space, Semicolon}
      BY DEF Name, Space, Semicolon
    <2>2. ParamValue(<<FormData, Semicolon, Space, Name, Equal>> \o (<<Quote>> \o name \o <<Quote>>), Name)
            = name
      BY <1>28, <2>1, QuotedParam
    <2> QED
      BY <1>25, <1>26, <1>33, <1>34, <1>37, <2>2
  <1> QED
    BY <1>19, <1>20, <1>22, <1>40, <1>41

\* The headers of a part, cut out.
LEMMA BlockMoves ==
    ASSUME NEW c \in Seq(Int), NEW p \in Nat, NEW t \in Nat, NEW m \in Nat, NEW name,
           PlainName(name), m = Len(name), BlockAt(c, p, t, name),
           NEW head \in Seq(Int), Len(head) = t + 12 + m,
           \A k \in 1..(t + 12 + m) : head[k] = c[p + k]
    PROVE  BlockAt(head, 0, t, name)
  <1>1. /\ t = 0 \/ (t = 6 /\ TypeAt(c, p))
        /\ NameAt(c, p + t) /\ Holds(c, p + t + 9, name)
        /\ c[(p + t + 9 + m) + 1] = Quote /\ c[(p + t + 9 + m) + 2] = Cr
        /\ c[(p + t + 9 + m) + 3] = Lf
    BY DEF BlockAt
  <1>2. t = 6 => TypeAt(head, 0)
    <2> SUFFICES ASSUME t = 6 PROVE TypeAt(head, 0)
      OBVIOUS
    <2>1. TypeAt(c, p)
      BY <1>1
    <2>2. \A k \in 1..6 : k \in 1..(t + 12 + m) /\ 0 + k = k
      OBVIOUS
    <2>3. \A k \in 1..6 : head[0 + k] = c[p + k]
      BY <2>2
    <2>4. 1 \in 1..6 /\ 2 \in 1..6 /\ 3 \in 1..6 /\ 4 \in 1..6 /\ 5 \in 1..6 /\ 6 \in 1..6
      OBVIOUS
    <2> QED
      BY <2>1, <2>3, <2>4 DEF TypeAt
  <1>3. NameAt(head, 0 + t)
    <2>1. PICK s \in Nat : s = 0 + t /\ s = t
      OBVIOUS
    <2>5. PICK r \in Nat : r = p + t
      OBVIOUS
    <2>2. \A i \in 1..9 : s + i \in 1..(t + 12 + m) /\ p + (s + i) = r + i
      BY <2>1, <2>5
    <2>3. \A i \in 1..9 : head[s + i] = c[r + i]
      BY <2>2
    <2>6. NameAt(c, r)
      BY <1>1, <2>5
    <2>4. /\ 1 \in 1..9 /\ 2 \in 1..9 /\ 3 \in 1..9 /\ 4 \in 1..9 /\ 5 \in 1..9
          /\ 6 \in 1..9 /\ 7 \in 1..9 /\ 8 \in 1..9 /\ 9 \in 1..9
      OBVIOUS
    <2>7. NameAt(head, s)
      BY <2>3, <2>4, <2>6 DEF NameAt
    <2> QED
      BY <2>1, <2>7
  <1>4. Holds(head, 0 + t + 9, name)
    <2>1. PICK s \in Nat : s = 0 + t + 9 /\ s = t + 9
      OBVIOUS
    <2>2. ASSUME NEW i \in 1..m PROVE head[s + i] = name[i]
      <3>1. s + i \in 1..(t + 12 + m) /\ p + (s + i) = (p + t + 9) + i
        BY <2>1
      <3>2. c[(p + t + 9) + i] = name[i]
        BY <1>1 DEF Holds
      <3> QED
        BY <3>1, <3>2
    <2>3. s + m <= Len(head)
      BY <2>1
    <2> QED
      BY <2>1, <2>2, <2>3 DEF Holds
  <1>5. PICK n \in Nat : n = 0 + t + 9 + m /\ n = t + 9 + m
    OBVIOUS
  <1>6. head[n + 1] = Quote /\ head[n + 2] = Cr /\ head[n + 3] = Lf /\ n + 3 <= Len(head)
    <2>1. t + 12 + m = n + 3 /\ p + t + 9 + m = p + n
      BY <1>5
    <2>2. \A k \in 1..(n + 3) : head[k] = c[p + k]
      BY <2>1
    <2>3. c[(p + n) + 1] = Quote /\ c[(p + n) + 2] = Cr /\ c[(p + n) + 3] = Lf
      BY <1>1, <2>1
    <2>4. n + 1 \in 1..(n + 3) /\ n + 2 \in 1..(n + 3) /\ n + 3 \in 1..(n + 3)
      OBVIOUS
    <2>5. p + (n + 1) = (p + n) + 1 /\ p + (n + 2) = (p + n) + 2 /\ p + (n + 3) = (p + n) + 3
      OBVIOUS
    <2>6. head[n + 1] = Quote /\ head[n + 2] = Cr /\ head[n + 3] = Lf
      <3>1. PICK x : x = n + 1
        OBVIOUS
      <3>2. PICK y : y = n + 2
        OBVIOUS
      <3>3. PICK z : z = n + 3
        OBVIOUS
      <3>4. head[x] = c[p + x] /\ head[y] = c[p + y] /\ head[z] = c[p + z]
        BY <2>2, <2>4, <3>1, <3>2, <3>3
      <3>5. c[p + x] = Quote /\ c[p + y] = Cr /\ c[p + z] = Lf
        BY <2>3, <2>5, <3>1, <3>2, <3>3
      <3> QED
        BY <3>1, <3>2, <3>3, <3>4, <3>5
    <2> QED
      BY <2>1, <2>6
  <1> QED
    BY <1>1, <1>2, <1>3, <1>4, <1>5, <1>6 DEF BlockAt

\* What a boundary is made of.
PlainBound(bound) ==
    bound \in Seq(0..255) /\ bound # <<>>
    /\ \A i \in 1..Len(bound) : bound[i] \notin {Quote, Semicolon, Cr, Lf}

\* The headers of a part, cut out of a text, and where they end in it.
BlockIn(c, b, t, m, name, head) ==
    /\ head \in Seq(Int) /\ head = SubSeq(c, b + 5, b + 16 + t + m) /\ Len(head) = t + 12 + m
    /\ \A k \in 1..(t + 12 + m) : head[k] = c[(b + 4) + k]
    /\ BlockAt(head, 0, t, name)

\* The first blank line behind the delimiter of a part ends its headers.
LEMMA BlockCut ==
    ASSUME NEW c \in Seq(Int), NEW bound, NEW name, NEW value,
           PlainName(name), NEW b \in Nat, NEW t \in Nat, NEW m \in Nat, NEW v \in Nat,
           PartAt(c, bound, name, value, b, t, m, v)
    PROVE  BlockIn(c, b, t, m, name, SubSeq(c, b + 5, b + 16 + t + m))
  <1>1. BlockAt(c, b + 4, t, name) /\ Holds(c, b + 16 + t + m, CrLf) /\ m = Len(name)
    BY DEF PartAt
  <1>2. PICK f \in Int : f = b + 5
    OBVIOUS
  <1>3. PICK e \in Int : e = b + 16 + t + m
    OBVIOUS
  <1>4. PICK head : head = SubSeq(c, f, e)
    OBVIOUS
  <1>5. /\ SubSeq(c, f, e) \in Seq(Int) /\ Len(SubSeq(c, f, e)) = (e - f) + 1
        /\ \A i \in 1..((e - f) + 1) : SubSeq(c, f, e)[i] = c[(f + i) - 1]
    <2>1. e + 2 <= Len(c)
      BY <1>1, <1>3, CrLfHeld DEF Holds
    <2>2. 1 <= f /\ f <= e + 1 /\ e <= Len(c)
      BY <1>2, <1>3, <2>1
    <2> QED
      BY <2>2, Sub, SMTT(40)
  <1>6. (e - f) + 1 = t + 12 + m /\ \A k \in 1..(t + 12 + m) : (f + k) - 1 = (b + 4) + k
    BY <1>2, <1>3
  <1>7. head \in Seq(Int) /\ Len(head) = t + 12 + m /\ \A k \in 1..(t + 12 + m) : head[k] = c[(b + 4) + k]
    BY <1>4, <1>5, <1>6
  <1>8. PICK p \in Nat : p = b + 4
    OBVIOUS
  <1>9. BlockAt(c, p, t, name) /\ \A k \in 1..(t + 12 + m) : head[k] = c[p + k]
    BY <1>1, <1>7, <1>8
  <1>10. BlockAt(head, 0, t, name)
    BY <1>1, <1>7, <1>9, BlockMoves, ZenonT(60)
  <1> QED
    BY <1>2, <1>3, <1>4, <1>7, <1>10 DEF BlockIn

\* The headers end at the first blank line.
LEMMA HeadersEnd ==
    ASSUME NEW c \in Seq(Int), NEW bound, NEW name, NEW value,
           PlainName(name), NEW b \in Nat, NEW t \in Nat, NEW m \in Nat, NEW v \in Nat,
           PartAt(c, bound, name, value, b, t, m, v)
    PROVE  FindFrom(c, b + 5, CrLf \o CrLf) = b + 15 + t + m
  <1>1. m = Len(name) /\ Holds(c, b + 16 + t + m, CrLf)
    BY DEF PartAt
  <1>2. PICK head \in Seq(Int) :
              /\ head = SubSeq(c, b + 5, b + 16 + t + m) /\ Len(head) = t + 12 + m
              /\ \A k \in 1..(t + 12 + m) : head[k] = c[(b + 4) + k]
              /\ BlockAt(head, 0, t, name)
    <2>1. BlockIn(c, b, t, m, name, SubSeq(c, b + 5, b + 16 + t + m))
      BY BlockCut
    <2> QED
      BY <2>1 DEF BlockIn
  <1>20. BlockAt(head, 0, t, name)
    BY <1>2
  <1>21. Len(head) = t + 12 + m
    BY <1>2
  <1>22. m = Len(name)
    BY <1>1
  <1>23. BlockIsSpelled(head, t, m, name)
    BY <1>20, <1>21, <1>22, BlockBytes
  <1>3. t = 0 \/ (t = 6 /\ TypeAt(head, 0))
    BY <1>23 DEF BlockIsSpelled
  <1>4. NameAt(head, t)
    BY <1>23 DEF BlockIsSpelled
  <1>5. head[t + 11 + m] = Cr /\ head[t + 12 + m] = Lf
    <2>1. head[(0 + t + 9 + m) + 2] = Cr /\ head[(0 + t + 9 + m) + 3] = Lf
      BY <1>20, <1>22 DEF BlockAt
    <2>2. (0 + t + 9 + m) + 2 = t + 11 + m /\ (0 + t + 9 + m) + 3 = t + 12 + m
      OBVIOUS
    <2> QED
      BY <2>1, <2>2
  <1>6. \A k \in (t + 1)..(t + 10 + m) : head[k] \notin {Cr, Lf}
    BY <1>23 DEF BlockIsSpelled
  <1>7. PICK e \in Nat : e = b + 15 + t + m
    OBVIOUS
  <1>8. PICK f \in Nat \ {0} : f = b + 5
    OBVIOUS
  <1>9. PICK crlf : crlf = CrLf
    OBVIOUS
  <1>10. PICK blank : blank = crlf \o crlf
    OBVIOUS
  <1>11. crlf \in Seq(Int) /\ Len(crlf) = 2
    BY <1>9, CrLfHeld
  <1>12. blank \in Seq(Int)
    BY <1>10, <1>11, Cat
  <1>13. c[e] = Cr /\ c[e + 1] = Lf /\ e + 3 <= Len(c)
    <2>1. /\ t + 11 + m \in 1..(t + 12 + m) /\ t + 12 + m \in 1..(t + 12 + m)
          /\ (b + 4) + (t + 11 + m) = e /\ (b + 4) + (t + 12 + m) = e + 1
      BY <1>7
    <2>2. (b + 16 + t + m) + 2 <= Len(c)
      BY <1>1, <1>9, <1>11 DEF Holds
    <2> QED
      BY <1>2, <1>5, <1>7, <2>1, <2>2
  <1>14. Holds(c, e - 1, blank)
    <2>1. PICK d \in Nat : d = e - 1
      BY <1>7
    <2>2. Holds(c, d, crlf)
      <3>1. d + 2 <= Len(c) /\ d + 1 = e /\ d + 2 = e + 1
        BY <1>13, <2>1
      <3> QED
        BY <1>9, <1>13, <3>1, CrLfHeld
    <2>3. Holds(c, d + Len(crlf), crlf)
      <3>1. d + Len(crlf) = b + 16 + t + m
        BY <1>7, <1>11, <2>1
      <3> QED
        BY <1>1, <1>9, <3>1
    <2>4. Holds(c, d, crlf \o crlf)
      BY <1>11, <2>2, <2>3, HoldsBoth
    <2> QED
      BY <1>10, <2>1, <2>4
  <1>15. ASSUME NEW i \in f..(e - 1) PROVE ~Holds(c, i - 1, blank)
    <2> SUFFICES ASSUME Holds(c, i - 1, blank) PROVE FALSE
      OBVIOUS
    <2>1. PICK d \in Nat : d = i - 1
      BY <1>8
    <2>2. Holds(c, d, crlf \o crlf)
      BY <1>10, <2>1
    <2>3. Holds(c, d, crlf) /\ Holds(c, d + Len(crlf), crlf)
      BY <1>11, <2>2, HoldsBoth
    <2>4. Holds(c, d, CrLf) /\ Holds(c, d + 2, CrLf) /\ d + 2 \in Nat
      BY <1>9, <1>11, <2>3
    <2>5. c[d + 1] = Cr /\ c[(d + 2) + 1] = Cr
      BY <2>4, CrLfHeld
    <2>6. PICK k \in Nat : k = i - (b + 4)
      BY <1>8
    <2>7. /\ k \in 1..(t + 12 + m) /\ k + 2 \in 1..(t + 12 + m)
          /\ (b + 4) + k = d + 1 /\ (b + 4) + (k + 2) = (d + 2) + 1
      BY <1>7, <1>8, <2>1, <2>6
    <2>8. head[k] = Cr /\ head[k + 2] = Cr
      BY <1>2, <2>5, <2>7
    <2>9. k \notin (t + 1)..(t + 10 + m)
      BY <1>6, <2>8
    <2>10. k <= t
      BY <1>7, <1>8, <2>6, <2>9
    <2>11. t = 6 /\ TypeAt(head, 0)
      BY <1>3, <2>7, <2>10
    <2>12. /\ head[1] = ContentType /\ head[2] = Colon /\ head[3] = Space /\ head[4] = FormData
           /\ head[6] = Lf
      <3>1. 0 + 1 = 1 /\ 0 + 2 = 2 /\ 0 + 3 = 3 /\ 0 + 4 = 4 /\ 0 + 6 = 6
        OBVIOUS
      <3> QED
        BY <2>11, <3>1 DEF TypeAt
    <2>13. head[7] = ContentDisposition
      <3>1. t + 1 = 7
        BY <2>11
      <3> QED
        BY <1>4, <3>1 DEF NameAt
    <2>14. k = 1 \/ k = 2 \/ k = 3 \/ k = 4 \/ k = 5 \/ k = 6
      BY <2>7, <2>10, <2>11
    <2>15. k = 5
      BY <2>8, <2>12, <2>14, SMTT(40) DEF ContentType, Colon, Space, FormData, Cr, Lf
    <2> QED
      BY <2>8, <2>13, <2>15 DEF ContentDisposition, Cr
  <1>16. FindFrom(c, f, blank) = e
    <2>1. f <= e
      BY <1>7, <1>8
    <2> QED
      BY <1>12, <1>14, <1>15, <2>1, FindFromIs
  <1> QED
    BY <1>7, <1>8, <1>9, <1>10, <1>16

\* The value ends where the next delimiter begins: there is none in it, and none across
\* its end.
ValueAt(c, bound, value, start, v) ==
    /\ c \in Seq(Int) /\ PlainBound(bound) /\ value \in Seq(0..255) /\ Delimits(bound, value)
    /\ start \in Nat \ {0} /\ v \in Nat /\ v = Len(value)
    /\ Holds(c, start - 1, value) /\ Holds(c, (start - 1) + v, CrLf)
    /\ Holds(c, (start + v) + 1, DashBoundary(bound))

\* Behind the headers of a part the first delimiter is the next part's.
LEMMA ValueEnds ==
    ASSUME NEW c, NEW bound, NEW value, NEW start, NEW v, ValueAt(c, bound, value, start, v)
    PROVE  FindBoundary(c, start, bound) = start + v + 2
  <1>20. /\ c \in Seq(Int) /\ PlainBound(bound) /\ value \in Seq(0..255) /\ Delimits(bound, value)
         /\ start \in Nat \ {0} /\ v \in Nat /\ v = Len(value)
         /\ Holds(c, start - 1, value) /\ Holds(c, (start - 1) + v, CrLf)
         /\ Holds(c, (start + v) + 1, DashBoundary(bound))
    BY DEF ValueAt
  <1> USE <1>20
  <1>1. bound \in Seq(Int) /\ value \in Seq(Int)
    <2>1. bound \in Seq(0..255) /\ value \in Seq(0..255)
      BY DEF PlainBound
    <2>2. bound \in Seq(Int)
      BY <2>1, BytesAreNumbers
    <2>3. value \in Seq(Int)
      BY <2>1, BytesAreNumbers
    <2> QED
      BY <2>2, <2>3
  <1>2. bound \in Seq(Int)
    BY <1>1
  <1>3. PICK d : d = DashBoundary(bound)
    OBVIOUS
  <1>4. d \in Seq(Int) /\ Len(d) = 2 + Len(bound)
    BY <1>2, <1>3, DelimiterHeld
  <1>5. \A k \in 1..Len(d) : d[k] \notin {Cr, Lf}
    <2>1. Holds(d, 0, d)
      BY <1>4, HoldsSelf
    <2>2. Holds(d, 0, DashBoundary(bound)) /\ 0 \in Nat /\ d \in Seq(Int)
      BY <1>3, <1>4, <2>1
    <2>3. d[0 + 1] = Dash /\ d[0 + 2] = Dash /\ Holds(d, 0 + 2, bound)
      BY <1>2, <2>2, DelimiterHeld
    <2>4. ASSUME NEW k \in 1..Len(d) PROVE d[k] \notin {Cr, Lf}
      <3>1. CASE k = 1 \/ k = 2
        <4>1. 0 + 1 = 1 /\ 0 + 2 = 2
          OBVIOUS
        <4> QED
          BY <2>3, <3>1, <4>1 DEF Dash, Cr, Lf
      <3>2. CASE k # 1 /\ k # 2
        <4>1. k - 2 \in 1..Len(bound) /\ (0 + 2) + (k - 2) = k
          BY <1>4, <3>2
        <4>2. d[k] = bound[k - 2]
          BY <2>3, <4>1 DEF Holds
        <4> QED
          BY <4>1, <4>2 DEF PlainBound
      <3> QED
        BY <3>1, <3>2
    <2> QED
      BY <2>4
  <1>6. d[1] = Dash
    <2>1. Holds(d, 0, d)
      BY <1>4, HoldsSelf
    <2>2. Holds(d, 0, DashBoundary(bound)) /\ 0 \in Nat /\ d \in Seq(Int)
      BY <1>3, <1>4, <2>1
    <2>3. d[0 + 1] = Dash
      BY <1>2, <2>2, DelimiterHeld
    <2>4. 0 + 1 = 1
      OBVIOUS
    <2> QED
      BY <2>3, <2>4
  <1>7. c[start + v] = Cr /\ c[(start + v) + 1] = Lf
    <2>5. start \in Nat \ {0} /\ v \in Nat
      OBVIOUS
    <2>6. (start - 1) + v \in Nat
      BY <2>5
    <2>1. PICK p \in Nat : p = (start - 1) + v
      BY <2>6
    <2>2. Holds(c, p, CrLf)
      BY <2>1
    <2>3. c[p + 1] = Cr /\ c[p + 2] = Lf
      BY <2>2, CrLfHeld
    <2>4. p + 1 = start + v /\ p + 2 = (start + v) + 1
      BY <2>1
    <2> QED
      BY <2>3, <2>4
  <1>8. PICK e \in Nat : e = start + v + 2
    OBVIOUS
  <1>9. Holds(c, e - 1, DashBoundary(bound))
    <2>1. e - 1 = (start + v) + 1
      BY <1>8
    <2> QED
      BY <2>1
  <1>10. c[e - 1] # Dash
    <2>1. e - 1 = (start + v) + 1
      BY <1>8
    <2> QED
      BY <1>7, <2>1 DEF Lf, Dash
  <1>11. \A j \in Nat : 1 <= j => ~Holds(value, j - 1, d)
    <2>1. FindFrom(value, 1, d) = 0
      BY <1>3 DEF Delimits
    <2>2. PICK one \in Nat \ {0} : one = 1
      OBVIOUS
    <2>3. FindFrom(value, one, d) = 0
      BY <2>1, <2>2
    <2>4. \A j \in Nat : one <= j => ~Holds(value, j - 1, d)
      BY <1>1, <1>4, <2>3, FindNone
    <2> QED
      BY <2>2, <2>4
  <1>12. ASSUME NEW i \in start..(e - 1) PROVE ~Holds(c, i - 1, d)
    <2> SUFFICES ASSUME Holds(c, i - 1, d) PROVE FALSE
      OBVIOUS
    <2>1. \A k \in 1..Len(d) : c[(i - 1) + k] = d[k]
      BY DEF Holds
    <2>5. i \in Nat /\ start <= i /\ i <= (start + v) + 1
      BY <1>8
    <2>2. CASE i = (start + v) + 1
      <3>1. 1 \in 1..Len(d) /\ (i - 1) + 1 = i
        BY <1>4, <2>2
      <3>2. c[i] = d[1]
        BY <2>1, <3>1
      <3> QED
        BY <1>6, <1>7, <2>2, <3>2 DEF Lf, Dash
    <2>3. CASE i <= start + v /\ start + v <= (i - 1) + Len(d)
      <3>1. PICK k \in Int : k = (start + v) - (i - 1)
        <4>1. (start + v) - (i - 1) \in Int
          BY <2>5
        <4> QED
          BY <4>1
      <3>2. k \in 1..Len(d) /\ (i - 1) + k = start + v
        BY <1>4, <2>3, <2>5, <3>1
      <3>3. d[k] = Cr
        BY <1>7, <2>1, <3>2
      <3> QED
        BY <1>5, <3>2, <3>3
    <2>4. CASE (i - 1) + Len(d) < start + v
      <3>1. PICK j \in Nat : j = (i - start) + 1
        BY <2>5
      <3>2. 1 <= j /\ (j - 1) + Len(d) <= Len(value)
        BY <1>4, <2>4, <3>1
      <3>3. ASSUME NEW k \in 1..Len(d) PROVE value[(j - 1) + k] = d[k]
        <4>1. (j - 1) + k \in 1..Len(value) /\ (start - 1) + ((j - 1) + k) = (i - 1) + k
          BY <1>4, <2>4, <3>1
        <4>2. c[(start - 1) + ((j - 1) + k)] = value[(j - 1) + k]
          BY <4>1 DEF Holds
        <4> QED
          BY <2>1, <4>1, <4>2
      <3>4. Holds(value, j - 1, d)
        BY <3>2, <3>3 DEF Holds
      <3> QED
        BY <1>11, <3>2, <3>4
    <2>6. Len(d) \in Nat
      BY <1>4
    <2>9. start \in Nat /\ v \in Nat
      BY <1>20
    <2>7. i = (start + v) + 1 \/ i <= start + v
      <3>1. PICK k \in Nat : k = start + v
        <4>1. start + v \in Nat
          BY <2>9
        <4> QED
          BY <4>1
      <3>3. i \in Nat /\ i <= k + 1
        BY <2>5, <3>1
      <3> HIDE <1>20
      <3>2. i = k + 1 \/ i <= k
        BY <3>3
      <3> QED
        BY <3>1, <3>2
    <2>8. start + v <= (i - 1) + Len(d) \/ (i - 1) + Len(d) < start + v
      BY <2>5, <2>6
    <2> QED
      BY <2>2, <2>3, <2>4, <2>7, <2>8
  <1>13. FindBoundary(c, start, bound) = e
    <2>1. start <= e
      BY <1>8
    <2>2. \A i \in start..(e - 1) : ~Holds(c, i - 1, DashBoundary(bound))
      BY <1>3, <1>12
    <2> QED
      BY <1>2, <1>9, <1>10, <2>1, <2>2, BoundaryIs
  <1> QED
    BY <1>8, <1>13

\* What mp_iterator_next does when it finds all it looks for.
FindsPart(it, c, bound, h, e, n, s, a, name, data) ==
    /\ it \in Reader /\ it.cursor = c /\ it.boundary = bound /\ it.done = FALSE
    /\ FindBoundary(c, 1, bound) = 1 /\ a = 1 + 2 + Len(bound)
    /\ ~StartsWith(Rest(c, a), DashDash) /\ StartsWith(Rest(c, a), CrLf) /\ h = a + 2
    /\ FindFrom(c, h, CrLf \o CrLf) = e /\ e # 0 /\ s = e + 4
    /\ FindBoundary(c, s, bound) = n /\ n # 0
    /\ ParamValue(HeaderValue(SubSeq(c, h, e + 1), ContentDisposition), Name) = name
    /\ SubSeq(c, s, DataEnds(c, s, n) - 1) = data

\* What the iterator gives at a part: the field, and the rest of the text.
GivesPart(it, bound, name, value, rest) ==
    /\ PartNext(it).result = "ok" /\ PartNext(it).name = name /\ PartNext(it).data = value
    /\ PartNext(it).it.boundary = bound /\ PartNext(it).it.done = FALSE
    /\ PartNext(it).it.cursor = rest

\* One call, by the places that it finds.
LEMMA PartNextIs ==
    ASSUME NEW it, NEW c, NEW bound, NEW h, NEW e, NEW n, NEW s, NEW a, NEW name, NEW data,
           FindsPart(it, c, bound, h, e, n, s, a, name, data)
    PROVE  GivesPart(it, bound, name, data, Rest(c, n))
  <1>1. 1 # 0
    OBVIOUS
  <1> HIDE DEF FindBoundary, FindFrom, StartsWith, Rest, DashDash, CrLf, ParamValue, HeaderValue, DataEnds
  <1>2. PartNext(it).result = "ok" /\ PartNext(it).name = name /\ PartNext(it).data = data
        /\ PartNext(it).it = [it EXCEPT !.cursor = Onward(c, 1, n)]
    BY <1>1 DEF PartNext, FindsPart
  <1>3. PICK x : x = Rest(c, n)
    OBVIOUS
  <1>4. [it EXCEPT !.cursor = x].boundary = it.boundary /\ [it EXCEPT !.cursor = x].cursor = x
        /\ [it EXCEPT !.cursor = x].done = it.done
    BY DEF Reader, FindsPart
  <1> QED
    BY <1>2, <1>3, <1>4 DEF Onward, FindsPart, GivesPart

\* The delimiter found first is the one that the text begins with.
LEMMA FirstDelimiter ==
    ASSUME NEW c \in Seq(Int), NEW bound \in Seq(Int), Holds(c, 0, DashBoundary(bound))
    PROVE  FindBoundary(c, 1, bound) = 1
  <1>1. PICK one \in Nat \ {0} : one = 1
    OBVIOUS
  <1>2. one \in Nat /\ one <= one /\ Holds(c, one - 1, DashBoundary(bound))
    <2>1. one - 1 = 0
      BY <1>1
    <2> QED
      BY <2>1
  <1>3. \A i \in one..(one - 1) : ~Holds(c, i - 1, DashBoundary(bound))
    <2>1. \A i \in one..(one - 1) : FALSE
      OBVIOUS
    <2> QED
      BY <2>1
  <1>4. FindBoundary(c, one, bound) = one
    BY <1>2, <1>3, BoundaryIs
  <1> QED
    BY <1>1, <1>4

\* One call at a part gives that part.
LEMMA PartComes ==
    ASSUME NEW it \in Reader, NEW bound, PlainBound(bound), NEW name, PlainName(name),
           NEW value \in Seq(0..255), Delimits(bound, value), NEW typed,
           it.boundary = bound, it.done = FALSE,
           Holds(it.cursor, 0, Part(bound, name, value, typed)),
           Holds(it.cursor, Len(Part(bound, name, value, typed)), DashBoundary(bound))
    PROVE  GivesPart(it, bound, name, value, Rest(it.cursor, Len(Part(bound, name, value, typed)) + 1))
  <1>1. PICK c : c = it.cursor
    OBVIOUS
  <1>2. c \in Seq(Int)
    BY <1>1 DEF Reader
  <1>3. bound \in Seq(Int) /\ value \in Seq(Int) /\ name \in Seq(Int)
    <2>1. 0..255 \subseteq Int
      OBVIOUS
    <2>2. bound \in Seq(0..255) /\ name \in Seq(0..255)
      BY DEF PlainBound, PlainName
    <2>3. bound \in Seq(Int)
      BY <2>2, BytesAreNumbers
    <2>4. value \in Seq(Int)
      BY BytesAreNumbers
    <2>5. name \in Seq(Int)
      BY <2>1, <2>2, Widen, ZenonT(60)
    <2> QED
      BY <2>3, <2>4, <2>5
  <1>4. PICK bytes : bytes = Len(Part(bound, name, value, typed))
    OBVIOUS
  <1>5. \E b \in Nat, t \in Nat, m \in Nat, v \in Nat :
           PartAt(c, bound, name, value, b, t, m, v) /\ bytes = b + 20 + t + m + v
    <2>1. Holds(c, 0, Part(bound, name, value, typed))
      BY <1>1
    <2>2. bound \in Seq(Int)
      BY <1>3
    <2>3. value \in Seq(Int)
      BY <1>3
    <2>4. name \in Seq(Int)
      BY <1>3
    <2>5. \E b \in Nat, t \in Nat, m \in Nat, v \in Nat :
             /\ PartAt(c, bound, name, value, b, t, m, v)
             /\ Len(Part(bound, name, value, typed)) = b + 20 + t + m + v
      BY <1>2, <2>1, <2>2, <2>3, <2>4, PartHeld
    <2> QED
      BY <1>4, <2>5
  <1>6. PICK b \in Nat, t \in Nat, m \in Nat, v \in Nat :
           PartAt(c, bound, name, value, b, t, m, v) /\ bytes = b + 20 + t + m + v
    BY <1>5
  <1>7. /\ b = Len(bound) /\ m = Len(name) /\ v = Len(value)
        /\ Holds(c, 0, DashBoundary(bound)) /\ Holds(c, b + 2, CrLf)
        /\ Holds(c, b + 18 + t + m, value) /\ Holds(c, b + 18 + t + m + v, CrLf)
    BY <1>6 DEF PartAt
  <1>8. PartAt(c, bound, name, value, b, t, m, v)
    BY <1>6
  <1>9. FindBoundary(c, 1, bound) = 1
    <2>1. bound \in Seq(Int) /\ Holds(c, 0, DashBoundary(bound))
      BY <1>3, <1>7
    <2> QED
      BY <1>2, <2>1, FirstDelimiter
  <1>10. PICK a \in Nat : a = b + 3
    OBVIOUS
  <1>11. a = 1 + 2 + Len(bound)
    BY <1>7, <1>10
  <1>12. PICK p \in Nat : p = b + 2
    OBVIOUS
  <1>13. Holds(c, p, CrLf) /\ p + 2 <= Len(c) /\ c[p + 1] = Cr
    <2>1. Holds(c, p, CrLf)
      BY <1>7, <1>12
    <2> QED
      BY <1>2, <2>1, CrLfHeld
  <1>14. p \in 0..Len(c) /\ a = p + 1
    BY <1>2, <1>10, <1>12, <1>13
  <1>15. StartsWith(Rest(c, a), CrLf)
    <2>1. CrLf \in Seq(Int)
      BY CrLfHeld
    <2>2. StartsWith(Rest(c, p + 1), CrLf)
      BY <1>2, <1>13, <1>14, <2>1, RestBegins
    <2> QED
      BY <1>14, <2>2
  <1>16. ~StartsWith(Rest(c, a), DashDash)
    <2> SUFFICES ASSUME StartsWith(Rest(c, a), DashDash) PROVE FALSE
      OBVIOUS
    <2>1. DashDash \in Seq(Int)
      BY TwoTokens DEF DashDash, Dash
    <2>2. StartsWith(Rest(c, p + 1), DashDash)
      BY <1>14
    <2>3. Holds(c, p, DashDash)
      BY <1>2, <1>14, <2>1, <2>2, RestBegins
    <2>4. Dash \in Int
      BY DEF Dash
    <2>5. Holds(c, p, <<Dash, Dash>>)
      BY <2>3 DEF DashDash
    <2>6. c[p + 1] = Dash
      BY <1>2, <2>4, <2>5, HoldsTwo
    <2> QED
      BY <1>13, <2>6 DEF Dash, Cr
  <1>17. PICK h \in Nat : h = b + 5
    OBVIOUS
  <1>18. PICK e \in Nat : e = b + 15 + t + m
    OBVIOUS
  <1>19. FindFrom(c, h, CrLf \o CrLf) = e
    <2>1. FindFrom(c, b + 5, CrLf \o CrLf) = b + 15 + t + m
      BY <1>2, <1>8, HeadersEnd
    <2> QED
      BY <1>17, <1>18, <2>1
  <1>20. PICK s \in Nat \ {0} : s = b + 19 + t + m
    OBVIOUS
  <1>21. PICK n \in Nat : n = s + v + 2
    OBVIOUS
  <1>22. h = a + 2 /\ e # 0 /\ s = e + 4 /\ n # 0 /\ n = bytes + 1
    BY <1>6, <1>10, <1>17, <1>18, <1>20, <1>21
  <1>23. FindBoundary(c, s, bound) = n
    <2>1. Holds(c, s - 1, value)
      <3>1. s - 1 = b + 18 + t + m
        BY <1>20
      <3> QED
        BY <1>7, <3>1
    <2>2. Holds(c, (s - 1) + v, CrLf)
      <3>1. (s - 1) + v = b + 18 + t + m + v
        BY <1>20
      <3> QED
        BY <1>7, <3>1
    <2>3. Holds(c, (s + v) + 1, DashBoundary(bound))
      <3>1. (s + v) + 1 = bytes
        BY <1>6, <1>20
      <3> QED
        BY <1>1, <1>4, <3>1
    <2>4. v = Len(value)
      BY <1>7
    <2>5. ValueAt(c, bound, value, s, v)
      BY <1>2, <2>1, <2>2, <2>3, <2>4 DEF ValueAt
    <2>6. FindBoundary(c, s, bound) = s + v + 2
      BY <2>5, ValueEnds
    <2> QED
      BY <1>21, <2>6
  <1>24. ParamValue(HeaderValue(SubSeq(c, h, e + 1), ContentDisposition), Name) = name
    <2>1. BlockIn(c, b, t, m, name, SubSeq(c, b + 5, b + 16 + t + m))
      BY <1>2, <1>8, BlockCut
    <2>2. PICK head : head = SubSeq(c, b + 5, b + 16 + t + m)
      OBVIOUS
    <2>3. head \in Seq(Int)
      BY <2>1, <2>2 DEF BlockIn
    <2>4. Len(head) = t + 12 + m
      BY <2>1, <2>2 DEF BlockIn
    <2>5. BlockAt(head, 0, t, name)
      BY <2>1, <2>2 DEF BlockIn
    <2>6. m = Len(name)
      BY <1>7
    <2>7. ParamValue(HeaderValue(head, ContentDisposition), Name) = name
      BY <2>3, <2>4, <2>5, <2>6, NameOfBlock
    <2>8. e + 1 = b + 16 + t + m
      BY <1>18
    <2> QED
      BY <1>17, <2>2, <2>7, <2>8
  <1>25. SubSeq(c, s, DataEnds(c, s, n) - 1) = value
    <2>1. PICK d \in Nat : d = b + 18 + t + m
      OBVIOUS
    <2>2. Holds(c, d, value)
      BY <1>7, <2>1
    <2>3. SubSeq(c, d + 1, d + Len(value)) = value
      BY <1>2, <1>3, <2>2, HoldsIs
    <2>4. PICK f \in Nat : f = b + 18 + t + m + v
      OBVIOUS
    <2>5. Holds(c, f, CrLf) /\ CrLf \in Seq(Int) /\ Len(CrLf) = 2
      BY <1>7, <2>4, CrLfHeld
    <2>6. SubSeq(c, f + 1, f + Len(CrLf)) = CrLf
      BY <1>2, <2>5, HoldsIs
    <2>7. f + 1 = n - 2 /\ f + 2 = n - 1 /\ n >= s + 2 /\ (n - 2) - 1 = d + v /\ s = d + 1
      BY <1>20, <1>21, <2>1, <2>4
    <2>8. SubSeq(c, n - 2, n - 1) = CrLf
      BY <2>5, <2>6, <2>7
    <2>9. DataEnds(c, s, n) = n - 2
      BY <2>7, <2>8 DEF DataEnds
    <2> QED
      BY <1>7, <2>3, <2>7, <2>9
  <1>26. it.cursor = c /\ it.boundary = bound /\ it.done = FALSE
    BY <1>1
  <1>27. h = a + 2 /\ e # 0 /\ s = e + 4 /\ n # 0
    BY <1>22
  <1>29. FindsPart(it, c, bound, h, e, n, s, a, name, value)
    BY <1>9, <1>11, <1>15, <1>16, <1>19, <1>23, <1>24, <1>25, <1>26, <1>27 DEF FindsPart
  <1>28. GivesPart(it, bound, name, value, Rest(c, n))
    BY <1>29, PartNextIs
  <1> QED
    BY <1>1, <1>4, <1>22, <1>28

\* Behind the last part it ends.
LEMMA PartsEnd ==
    ASSUME NEW it \in Reader, NEW bound, PlainBound(bound), it.boundary = bound,
           Holds(it.cursor, 0, DashBoundary(bound)),
           Holds(it.cursor, Len(DashBoundary(bound)), DashDash)
    PROVE  PartNext(it).result = "end_of_data"
  <1>1. PICK c : c = it.cursor
    OBVIOUS
  <1>2. c \in Seq(Int)
    BY <1>1 DEF Reader
  <1>3. bound \in Seq(Int)
    <2>1. bound \in Seq(0..255)
      BY DEF PlainBound
    <2> QED
      BY <2>1, BytesAreNumbers
  <1>4. FindBoundary(c, 1, bound) = 1
    BY <1>1, <1>2, <1>3, FirstDelimiter
  <1>5. PICK p \in Nat : p = Len(DashBoundary(bound)) /\ p = 2 + Len(bound)
    <2>1. Len(DashBoundary(bound)) = 2 + Len(bound)
      BY <1>3, DelimiterHeld
    <2>2. 2 + Len(bound) \in Nat
      BY <1>3
    <2> QED
      BY <2>1, <2>2
  <1>6. Holds(c, p, DashDash) /\ DashDash \in Seq(Int) /\ Len(DashDash) = 2
    BY <1>1, <1>5, TwoTokens DEF DashDash, Dash
  <1>7. p \in 0..Len(c)
    BY <1>2, <1>6 DEF Holds
  <1>8. StartsWith(Rest(c, p + 1), DashDash)
    BY <1>2, <1>6, <1>7, RestBegins
  <1>9. 1 + 2 + Len(bound) = p + 1
    BY <1>3, <1>5
  <1>10. StartsWith(Rest(it.cursor, 1 + 2 + Len(it.boundary)), DashDash)
    BY <1>1, <1>8, <1>9
  <1>11. FindBoundary(it.cursor, 1, it.boundary) = 1
    BY <1>1, <1>4
  <1> HIDE DEF FindBoundary, FindFrom, StartsWith, Rest, DashDash, CrLf, ParamValue, HeaderValue, DataEnds
  <1> QED
    BY <1>10, <1>11 DEF PartNext

\* The query behind a path.
LEMMA LocatedSent ==
    ASSUME NEW text \in Seq(Int)
    PROVE  LocateQuery(<<47, Question>> \o text) = text
  <1>1. PICK mark : mark = <<47, Question>>
    OBVIOUS
  <1>2. mark \in Seq(Int) /\ Len(mark) = 2 /\ mark[1] = 47 /\ mark[2] = Question
    BY <1>1, TwoTokens DEF Question
  <1>3. PICK path : path = mark \o text
    OBVIOUS
  <1>4. mark \in Seq(Int)
    BY <1>2
  <1>5. /\ mark \o text \in Seq(Int) /\ Len(mark \o text) = Len(mark) + Len(text)
        /\ \A i \in 1..Len(mark) : (mark \o text)[i] = mark[i]
    BY <1>4, Cat
  <1>6. path \in Seq(Int) /\ Len(path) = 2 + Len(text) /\ path[1] = 47 /\ path[2] = Question
    <2>1. 1 \in 1..2 /\ 2 \in 1..2
      OBVIOUS
    <2> QED
      BY <1>2, <1>3, <1>5, <2>1
  <1>7. PICK one \in Nat : one = 1
    OBVIOUS
  <1>8. PICK two \in Nat : two = 2
    OBVIOUS
  <1>9. FirstOf(path, one, {Question}) = two
    <2>1. two \in one..(Len(path) + 1)
      BY <1>6, <1>7, <1>8
    <2>2. path[two] \in {Question}
      BY <1>6, <1>8
    <2>3. \A i \in one..(two - 1) : path[i] \notin {Question}
      <3>1. \A i \in one..(two - 1) : i = 1
        BY <1>7, <1>8
      <3>2. path[1] \notin {Question}
        BY <1>6 DEF Question
      <3> QED
        BY <3>1, <3>2
    <2> QED
      BY <1>6, <2>1, <2>2, <2>3, FirstOfIs, ZenonT(60)
  <1>10. LocateQuery(path) = SubSeq(path, 3, Len(path))
    <2>1. FirstOf(path, 1, {Question}) = 2
      BY <1>7, <1>8, <1>9
    <2>2. ~(2 > Len(path))
      BY <1>6
    <2>3. 2 + 1 = 3
      OBVIOUS
    <2> QED
      BY <2>1, <2>2, <2>3 DEF LocateQuery
  <1>11. SubSeq(mark \o text, Len(mark) + 1, Len(mark \o text)) = text
    BY <1>4, Cut
  <1>12. Len(mark) + 1 = 3
    BY <1>2
  <1> QED
    BY <1>1, <1>3, <1>10, <1>11, <1>12

\* What is located in a text is text.
LEMMA Located ==
    ASSUME NEW path \in Seq(Int)
    PROVE  LocateQuery(path) \in Seq(Int)
  <1>1. PICK mark : mark = FirstOf(path, 1, {Question})
    OBVIOUS
  <1>2. mark \in 1..(Len(path) + 1)
    <2>1. PICK one \in Nat : one = 1
      OBVIOUS
    <2>2. one <= Len(path) + 1
      BY <2>1
    <2>3. FirstOf(path, one, {Question}) \in one..(Len(path) + 1)
      BY <2>2, FirstOfExists
    <2> QED
      BY <1>1, <2>1, <2>3
  <1>3. CASE mark > Len(path)
    BY <1>1, <1>3 DEF LocateQuery
  <1>4. CASE ~(mark > Len(path))
    <2>1. PICK f \in Int : f = mark + 1
      BY <1>2
    <2>2. PICK n \in Int : n = Len(path)
      OBVIOUS
    <2>3. 1 <= f /\ f <= n + 1 /\ n <= Len(path)
      BY <1>2, <1>4, <2>1, <2>2
    <2>4. SubSeq(path, f, n) \in Seq(Int)
      BY <2>3, Sub
    <2> QED
      BY <1>1, <1>4, <2>1, <2>2, <2>4 DEF LocateQuery
  <1> QED
    BY <1>3, <1>4

\* What is left of what is left.
LEMMA RestOfRest ==
    ASSUME NEW text \in Seq(Int), NEW p \in Nat, NEW l \in Nat, p + l <= Len(text)
    PROVE  Rest(SubSeq(text, p + 1, Len(text)), l + 1) = SubSeq(text, (p + l) + 1, Len(text))
  <1>1. PICK n \in Nat : n = Len(text)
    OBVIOUS
  <1>2. PICK f \in Int : f = p + 1
    OBVIOUS
  <1>3. PICK r : r = SubSeq(text, f, n)
    OBVIOUS
  <1>4. /\ SubSeq(text, f, n) \in Seq(Int) /\ Len(SubSeq(text, f, n)) = (n - f) + 1
        /\ \A i \in 1..((n - f) + 1) : SubSeq(text, f, n)[i] = text[(f + i) - 1]
    <2>1. 1 <= f /\ f <= n + 1 /\ n <= Len(text)
      BY <1>1, <1>2
    <2> QED
      BY <2>1, Sub
  <1>5. r \in Seq(Int) /\ Len(r) = n - p /\ \A i \in 1..(n - p) : r[i] = text[p + i]
    <2>1. (n - f) + 1 = n - p /\ \A i \in 1..(n - p) : (f + i) - 1 = p + i
      BY <1>1, <1>2
    <2> QED
      BY <1>3, <1>4, <2>1
  <1>6. PICK g \in Int : g = l + 1
    OBVIOUS
  <1>7. PICK k \in Int : k = n - p
    OBVIOUS
  <1>8. /\ SubSeq(r, g, k) \in Seq(Int) /\ Len(SubSeq(r, g, k)) = (k - g) + 1
        /\ \A i \in 1..((k - g) + 1) : SubSeq(r, g, k)[i] = r[(g + i) - 1]
    <2>1. 1 <= g /\ g <= k + 1 /\ k <= Len(r)
      BY <1>1, <1>5, <1>6, <1>7
    <2>2. r \in Seq(Int)
      BY <1>5
    <2> QED
      BY <2>1, <2>2, Sub
  <1>9. PICK h \in Int : h = (p + l) + 1
    OBVIOUS
  <1>10. SubSeq(text, h, n) = SubSeq(r, g, k)
    <2>1. PICK a : a = SubSeq(r, g, k)
      OBVIOUS
    <2>2. a \in Seq(Int) /\ Len(a) = (k - g) + 1
      BY <1>8, <2>1
    <2>3. (k - g) + 1 = (n - h) + 1
      BY <1>6, <1>7, <1>9
    <2>4. ASSUME NEW i \in 1..Len(a) PROVE a[i] = text[(h + i) - 1]
      <3>1. i \in 1..((k - g) + 1)
        BY <2>2
      <3>2. a[i] = r[(g + i) - 1]
        BY <1>8, <2>1, <3>1
      <3>3. (g + i) - 1 \in 1..(n - p) /\ p + ((g + i) - 1) = (h + i) - 1
        BY <1>6, <1>7, <1>9, <3>1
      <3> QED
        BY <1>5, <3>2, <3>3
    <2>5. 1 <= h /\ h <= n + 1 /\ n <= Len(text) /\ Len(a) = (n - h) + 1
      BY <1>1, <1>9, <2>2, <2>3
    <2>6. SubSeq(text, h, n) = a
      BY <2>2, <2>4, <2>5, SubIs
    <2> QED
      BY <2>1, <2>6
  <1> QED
    BY <1>1, <1>2, <1>3, <1>5, <1>6, <1>7, <1>9, <1>10 DEF Rest

(* What the parameters are. *)

\* Names hold no separators.
LEMMA NamesArePlain ==
    ASSUME NEW name \in FieldNames
    PROVE  /\ PlainName(name) /\ name # <<>> /\ name \in Seq(Int)
           /\ \A i \in 1..Len(name) : name[i] \notin {Equals, Ampersand}
  <1>1. /\ name \in Seq(0..255) /\ name # <<>>
        /\ \A i \in DOMAIN name : name[i] \notin {Ampersand, Equals, Semicolon, Cr, Lf}
    BY FieldNamesAssumption DEF Bytes
  <1>2. DOMAIN name = 1..Len(name)
    BY <1>1
  <1>3. name \in Seq(Int)
    <2>1. 0..255 \subseteq Int
      OBVIOUS
    <2> QED
      BY <1>1, <2>1, Widen
  <1> QED
    BY <1>1, <1>2, <1>3 DEF PlainName

\* Boundaries hold no separators.
LEMMA BoundariesArePlain ==
    ASSUME NEW bound \in Boundaries
    PROVE  PlainBound(bound) /\ bound \in Seq(Int)
  <1>1. /\ bound \in Seq(0..255) /\ bound # <<>>
        /\ \A i \in DOMAIN bound : bound[i] \notin {Quote, Semicolon, Cr, Lf}
    BY BoundariesAssumption DEF Bytes
  <1>2. DOMAIN bound = 1..Len(bound)
    BY <1>1
  <1>3. bound \in Seq(Int)
    <2>1. 0..255 \subseteq Int
      OBVIOUS
    <2> QED
      BY <1>1, <2>1, Widen
  <1> QED
    BY <1>1, <1>2, <1>3 DEF PlainBound

\* A writing of a value holds no separator and is decoded to the value.
LEMMA EncodingsAreRead ==
    ASSUME NEW encoding \in Encodings
    PROVE  /\ encoding.value \in Seq(0..255) /\ encoding.raw \in Seq(Int)
           /\ \A x \in 1..Len(encoding.raw) : encoding.raw[x] # Ampersand
           /\ Len(encoding.value) <= Len(encoding.raw)
           /\ NeedsDecoding(encoding.raw) \/ encoding.raw = encoding.value
           /\ Decoded(encoding.raw) = [result |-> "ok", text |-> encoding.value]
  <1>1. PICK raw : raw = encoding.raw
    OBVIOUS
  <1>2. PICK value : value = encoding.value
    OBVIOUS
  <1>3. value \in Seq(0..255) /\ raw \in Seq(0..255) /\ Encodes(raw, value)
    BY <1>1, <1>2, EncodingsAssumption DEF Bytes
  <1>4. raw \in Seq(Int)
    <2>1. 0..255 \subseteq Int
      OBVIOUS
    <2> QED
      BY <1>3, <2>1, Widen
  <1>5. \E pos : Spells(pos, raw, value)
    BY <1>3, <1>4, EncodingSpells
  <1>6. PICK pos : Spells(pos, raw, value)
    BY <1>5
  <1>7. value \in Seq(0..255)
    BY <1>3
  <1>8. /\ Len(value) <= Len(raw)
        /\ \A x \in 1..Len(raw) : raw[x] # Ampersand
        /\ NeedsDecoding(raw) \/ raw = value
    BY <1>4, <1>6, <1>7, SpellingIsLegible
  <1>9. Decoded(raw) = [result |-> "ok", text |-> value]
    BY <1>4, <1>6, <1>7, SpellingIsDecoded
  <1> QED
    BY <1>1, <1>2, <1>4, <1>7, <1>8, <1>9

\* Neither a name nor a writing confuses the reader of a query.
LEMMA NameAndEncoding ==
    ASSUME NEW name \in FieldNames, NEW encoding \in Encodings
    PROVE  Legible(name, encoding.raw)
  <1>1. name # <<>> /\ \A i \in 1..Len(name) : name[i] \notin {Equals, Ampersand}
    BY NamesArePlain
  <1>2. \A x \in 1..Len(encoding.raw) : encoding.raw[x] # Ampersand
    BY EncodingsAreRead
  <1> QED
    BY <1>1, <1>2 DEF Legible

-------------------------------------------------------------------------------
(* A form grows by a field. *)

\* Where a field begins: where the one before it ends.
Begins(e, i) == IF i = 1 THEN 0 ELSE e[i - 1]

\* The places and the fields, with one more of each.
Grown(S, e, fs, k, f, n) ==
    /\ Append(e, k) \in Seq(Nat) /\ Len(Append(e, k)) = n + 1
    /\ Append(fs, f) \in Seq(S) /\ Len(Append(fs, f)) = n + 1
    /\ \A i \in 1..n : Append(e, k)[i] = e[i] /\ Append(fs, f)[i] = fs[i]
    /\ Append(e, k)[n + 1] = k /\ Append(fs, f)[n + 1] = f
    /\ \A i \in 1..(n + 1) : Begins(Append(e, k), i) = Begins(e, i)
    /\ Begins(Append(e, k), n + 2) = k

\* One more changes none of the others.
LEMMA FieldsGrow ==
    ASSUME NEW S, NEW e \in Seq(Nat), NEW fs \in Seq(S), Len(e) = Len(fs),
           NEW k \in Nat, NEW f \in S, NEW n \in Nat, n = Len(fs)
    PROVE  Grown(S, e, fs, k, f, n)
  <1>1. /\ Append(e, k) \in Seq(Nat) /\ Len(Append(e, k)) = n + 1
        /\ Append(fs, f) \in Seq(S) /\ Len(Append(fs, f)) = n + 1
        /\ Append(e, k)[n + 1] = k /\ Append(fs, f)[n + 1] = f
    OBVIOUS
  <1>2. \A i \in 1..n : Append(e, k)[i] = e[i] /\ Append(fs, f)[i] = fs[i]
    OBVIOUS
  <1>3. ASSUME NEW i \in 1..(n + 1) PROVE Begins(Append(e, k), i) = Begins(e, i)
    <2>1. CASE i = 1
      BY <2>1 DEF Begins
    <2>2. CASE i # 1
      <3>1. i - 1 \in 1..n
        BY <2>2
      <3> QED
        BY <1>2, <2>2, <3>1 DEF Begins
    <2> QED
      BY <2>1, <2>2
  <1>4. Begins(Append(e, k), n + 2) = k
    <2>1. n + 2 # 1 /\ (n + 2) - 1 = n + 1
      OBVIOUS
    <2> QED
      BY <1>1, <2>1 DEF Begins
  <1> QED
    BY <1>1, <1>2, <1>3, <1>4 DEF Grown

\* Where the fields lie in the text.
Places(text, e, fs) ==
    /\ text \in Seq(Int) /\ e \in Seq(Nat) /\ fs \in Seq(FieldNames \X FieldValues)
    /\ Len(e) = Len(fs) /\ Len(text) = Begins(e, Len(fs) + 1)
    /\ \A i \in 1..Len(fs) : Begins(e, i) < e[i]
    /\ \A i, j \in 1..Len(fs) : i < j => e[i] < e[j]
    /\ \A i \in 1..Len(fs) : e[i] <= Len(text)

\* A field is put behind the others.
LEMMA PlacesGrow ==
    ASSUME NEW text, NEW e, NEW fs, Places(text, e, fs),
           NEW f \in FieldNames \X FieldValues, NEW more \in Seq(Int), more # <<>>
    PROVE  Places(text \o more, Append(e, Len(text) + Len(more)), Append(fs, f))
  <1>1. PICK n \in Nat : n = Len(fs)
    BY DEF Places
  <1>2. PICK k \in Nat : k = Len(text) + Len(more)
    BY DEF Places
  <1>3. PICK e2 : e2 = Append(e, k)
    OBVIOUS
  <1>4. PICK fs2 : fs2 = Append(fs, f)
    OBVIOUS
  <1>5. PICK text2 : text2 = text \o more
    OBVIOUS
  <1>6. text \in Seq(Int) /\ e \in Seq(Nat) /\ fs \in Seq(FieldNames \X FieldValues)
        /\ Len(e) = n /\ Len(text) = Begins(e, n + 1)
    BY <1>1 DEF Places
  <1>7. text2 \in Seq(Int) /\ Len(text2) = k /\ Len(text) < k /\ Len(text) \in Nat
    <2>1. text \o more \in Seq(Int) /\ Len(text \o more) = Len(text) + Len(more)
      BY <1>6, Cat
    <2>2. Len(more) > 0
      OBVIOUS
    <2> QED
      BY <1>2, <1>5, <1>6, <2>1, <2>2
  <1>8. /\ e2 \in Seq(Nat) /\ Len(e2) = n + 1
        /\ fs2 \in Seq(FieldNames \X FieldValues) /\ Len(fs2) = n + 1
        /\ \A i \in 1..n : e2[i] = e[i]
        /\ e2[n + 1] = k
        /\ \A i \in 1..(n + 1) : Begins(e2, i) = Begins(e, i)
        /\ Begins(e2, n + 2) = k
    <2>1. e \in Seq(Nat)
      BY <1>6
    <2>2. fs \in Seq(FieldNames \X FieldValues)
      BY <1>6
    <2>3. Len(e) = Len(fs)
      BY <1>1, <1>6
    <2>4. n = Len(fs)
      BY <1>1
    <2>6. f \in FieldNames \X FieldValues
      OBVIOUS
    <2>5. Grown(FieldNames \X FieldValues, e, fs, k, f, n)
      BY <2>1, <2>2, <2>3, <2>4, <2>6, FieldsGrow
    <2> QED
      BY <1>3, <1>4, <2>5 DEF Grown
  <1>9. Len(text2) = Begins(e2, Len(fs2) + 1)
    <2>1. Len(fs2) + 1 = n + 2
      BY <1>8
    <2> QED
      BY <1>7, <1>8, <2>1
  <1>10. ASSUME NEW i \in 1..(n + 1) PROVE Begins(e2, i) < e2[i] /\ e2[i] <= k
    <2>1. CASE i = n + 1
      BY <1>6, <1>7, <1>8, <2>1
    <2>2. CASE i # n + 1
      <3>1. i \in 1..n
        BY <2>2
      <3>2. Begins(e, i) < e[i] /\ e[i] <= Len(text) /\ e[i] \in Nat
        BY <1>1, <1>6, <3>1 DEF Places
      <3> QED
        BY <1>7, <1>8, <3>1, <3>2, SMTT(40)
    <2> QED
      BY <2>1, <2>2
  <1>11. ASSUME NEW i \in 1..(n + 1), NEW j \in 1..(n + 1), i < j PROVE e2[i] < e2[j]
    <2>1. i \in 1..n
      BY <1>11
    <2>2. CASE j = n + 1
      <3>1. e[i] <= Len(text) /\ e[i] \in Nat
        BY <1>1, <1>6, <2>1, SMTT(40) DEF Places
      <3> QED
        BY <1>7, <1>8, <2>1, <2>2, <3>1, SMTT(40)
    <2>3. CASE j # n + 1
      <3>1. j \in 1..n
        BY <2>3
      <3>2. e[i] < e[j]
        BY <1>1, <1>11, <2>1, <3>1 DEF Places
      <3> QED
        BY <1>8, <2>1, <3>1, <3>2
    <2> QED
      BY <2>2, <2>3
  <1>12. Places(text2, e2, fs2)
    BY <1>7, <1>8, <1>9, <1>10, <1>11 DEF Places
  <1> QED
    BY <1>2, <1>3, <1>4, <1>5, <1>12

\* At a place there is a pair, or a part, of a field.
PairPlaced(text, from, to, name, value, bare) ==
    \E encoding \in Encodings :
        /\ encoding.value = value /\ Holds(text, from, Pair(name, encoding.raw, bare))
        /\ to = from + Len(Pair(name, encoding.raw, bare))
PartPlaced(text, from, to, bound, name, value, typed) ==
    /\ Delimits(bound, value) /\ Holds(text, from, Part(bound, name, value, typed))
    /\ to = from + Len(Part(bound, name, value, typed))

\* The fields are the pairs, or the parts, of the text.
Pairs(text, e, fs, bare) ==
    /\ \A i \in 1..Len(fs) : PairPlaced(text, Begins(e, i), e[i], fs[i][1], fs[i][2], bare)
    /\ \A j \in 1..Len(text) : text[j] = Ampersand => \E i \in 1..Len(fs) : j = e[i]
Parts(text, e, fs, bound, typed) ==
    \A i \in 1..Len(fs) : PartPlaced(text, Begins(e, i), e[i], bound, fs[i][1], fs[i][2], typed)

\* A pair is some text.
LEMMA PairTyped ==
    ASSUME NEW name \in FieldNames, NEW encoding \in Encodings, NEW bare
    PROVE  /\ Pair(name, encoding.raw, bare) \in Seq(Int) /\ Pair(name, encoding.raw, bare) # <<>>
           /\ Len(Pair(name, encoding.raw, bare)) \in Nat
  <1>1. PICK raw : raw = encoding.raw
    OBVIOUS
  <1>2. raw \in Seq(Int)
    BY <1>1, EncodingsAreRead
  <1>3. name \in Seq(Int)
    BY NamesArePlain
  <1>4. 0 \in Nat
    OBVIOUS
  <1>5. PICK p : p = Pair(name, raw, bare)
    OBVIOUS
  <1>6. p \in Seq(Int) /\ Len(p) > Len(name) + Len(raw)
    BY <1>2, <1>3, <1>4, <1>5, PairHeld
  <1>7. p # <<>> /\ Len(p) \in Nat
    BY <1>2, <1>3, <1>6
  <1> QED
    BY <1>1, <1>5, <1>6, <1>7

\* A value is text.
LEMMA ValuesAreText ==
    ASSUME NEW value \in FieldValues
    PROVE  value \in Seq(0..255) /\ value \in Seq(Int)
  <1>1. PICK encoding \in Encodings : encoding.value = value
    BY DEF FieldValues
  <1>2. value \in Seq(0..255)
    BY <1>1, EncodingsAreRead
  <1>3. 0..255 \subseteq Int
    OBVIOUS
  <1> QED
    BY <1>2, <1>3, Widen

\* A part is some text.
LEMMA PartTyped ==
    ASSUME NEW bound \in Boundaries, NEW name \in FieldNames, NEW value \in FieldValues, NEW typed
    PROVE  /\ Part(bound, name, value, typed) \in Seq(Int) /\ Part(bound, name, value, typed) # <<>>
           /\ Len(Part(bound, name, value, typed)) \in Nat
  <1>1. name \in Seq(Int)
    BY NamesArePlain
  <1>2. bound \in Seq(Int)
    BY BoundariesArePlain
  <1>3. value \in Seq(Int)
    BY ValuesAreText
  <1>4. PICK p : p = Part(bound, name, value, typed)
    OBVIOUS
  <1>5. p \in Seq(Int)
    BY <1>1, <1>2, <1>3, <1>4, PartHeld
  <1>6. Holds(p, 0, p)
    BY <1>5, HoldsSelf
  <1>7. \E b \in Nat, t \in Nat, m \in Nat, v \in Nat :
           /\ PartAt(p, bound, name, value, b, t, m, v)
           /\ Len(Part(bound, name, value, typed)) = b + 20 + t + m + v
    <2>1. Holds(p, 0, Part(bound, name, value, typed))
      BY <1>4, <1>6
    <2> QED
      BY <1>1, <1>2, <1>3, <1>5, <2>1, PartHeld
  <1>8. Len(p) > 0
    BY <1>4, <1>7
  <1>9. p # <<>> /\ Len(p) \in Nat
    BY <1>5, <1>8
  <1> QED
    BY <1>4, <1>5, <1>9

\* A pair ends with its only separator.
Separates(q, c, e) ==
    /\ e \in 1..Len(q) /\ q[e] = Ampersand /\ q[c + 1] # Ampersand /\ c < e
    /\ \A j \in (c + 1)..e : q[j] = Ampersand => j = e

\* The only separator in a pair is its last byte.
LEMMA PairSeparates ==
    ASSUME NEW q \in Seq(Int), NEW c \in Nat, NEW name \in FieldNames, NEW encoding \in Encodings, NEW bare,
           Holds(q, c, Pair(name, encoding.raw, bare)),
           NEW e \in Nat, e = c + Len(Pair(name, encoding.raw, bare))
    PROVE  Separates(q, c, e)
  <1>1. PICK raw : raw = encoding.raw
    OBVIOUS
  <1>2. raw \in Seq(Int) /\ \A x \in 1..Len(raw) : raw[x] # Ampersand
    BY <1>1, EncodingsAreRead
  <1>3. /\ name \in Seq(Int) /\ name # <<>>
        /\ \A i \in 1..Len(name) : name[i] \notin {Equals, Ampersand}
    BY NamesArePlain
  <1>4. \E m \in Nat, f \in Nat :
           /\ m = c + Len(name) + 1 /\ f = c + Len(Pair(name, raw, bare))
           /\ f <= Len(q) /\ q[f] = Ampersand /\ Holds(q, c, name)
           /\ \/ raw = <<>> /\ m = f
              \/ q[m] = Equals /\ f = m + Len(raw) + 1 /\ Holds(q, m, raw)
    <2>1. Holds(q, c, Pair(name, raw, bare))
      BY <1>1
    <2>2. name \in Seq(Int)
      BY <1>3
    <2>3. raw \in Seq(Int)
      BY <1>2
    <2> QED
      BY <2>1, <2>2, <2>3, PairHeld
  <1>5. PICK m \in Nat :
           /\ m = c + Len(name) + 1 /\ e <= Len(q) /\ q[e] = Ampersand /\ Holds(q, c, name)
           /\ \/ raw = <<>> /\ m = e
              \/ q[m] = Equals /\ e = m + Len(raw) + 1 /\ Holds(q, m, raw)
    BY <1>1, <1>4
  <1>6. Len(name) \in Nat \ {0} /\ Len(raw) \in Nat
    BY <1>2, <1>3
  <1>7. m <= e
    BY <1>5, <1>6
  <1>8. ASSUME NEW j \in (c + 1)..e, q[j] = Ampersand PROVE j = e
    <2>1. CASE j < m
      <3>1. j - c \in 1..Len(name) /\ c + (j - c) = j
        BY <1>5, <2>1
      <3>2. q[j] = name[j - c]
        BY <1>5, <3>1 DEF Holds
      <3> QED
        BY <1>3, <1>8, <3>1, <3>2
    <2>2. CASE raw = <<>> /\ m = e
      BY <2>1, <2>2
    <2>3. CASE j >= m /\ q[m] = Equals /\ e = m + Len(raw) + 1 /\ Holds(q, m, raw)
      <3>1. j # m
        BY <1>8, <2>3 DEF Equals, Ampersand
      <3>2. ASSUME j # e PROVE FALSE
        <4>1. j - m \in 1..Len(raw) /\ m + (j - m) = j
          BY <1>6, <2>3, <3>1, <3>2
        <4>2. q[j] = raw[j - m]
          BY <2>3, <4>1 DEF Holds
        <4> QED
          BY <1>2, <1>8, <4>1, <4>2
      <3> QED
        BY <3>2
    <2> QED
      BY <1>5, <2>1, <2>2, <2>3
  <1>9. q[c + 1] # Ampersand
    <2>1. 1 \in 1..Len(name)
      BY <1>6
    <2>2. q[c + 1] = name[1]
      BY <1>5, <2>1 DEF Holds
    <2> QED
      BY <1>3, <2>1, <2>2
  <1> QED
    BY <1>5, <1>6, <1>7, <1>8, <1>9, SMTT(40) DEF Separates

\* Where things are when a field was appended.
LEMMA GrownPlaces ==
    ASSUME NEW text, NEW e, NEW fs, Places(text, e, fs),
           NEW f \in FieldNames \X FieldValues, NEW k \in Nat
    PROVE  /\ Grown(FieldNames \X FieldValues, e, fs, k, f, Len(fs)) /\ Len(fs) \in Nat
           /\ Len(text) = Begins(e, Len(fs) + 1)
  <1>1. PICK n \in Nat : n = Len(fs)
    BY DEF Places
  <1>2. e \in Seq(Nat)
    BY DEF Places
  <1>3. fs \in Seq(FieldNames \X FieldValues)
    BY DEF Places
  <1>4. Len(e) = Len(fs)
    BY DEF Places
  <1>5. n = Len(fs) /\ f \in FieldNames \X FieldValues
    BY <1>1
  <1>6. Grown(FieldNames \X FieldValues, e, fs, k, f, n)
    BY <1>2, <1>3, <1>4, <1>5, FieldsGrow
  <1> QED
    BY <1>1, <1>6 DEF Places

\* Every field begins in the text.
LEMMA BeginsTyped ==
    ASSUME NEW text, NEW e, NEW fs, Places(text, e, fs), NEW i \in 1..(Len(fs) + 1)
    PROVE  Begins(e, i) \in Nat /\ Begins(e, i) <= Len(text)
  <1>1. CASE i = 1
    BY <1>1 DEF Begins, Places
  <1>2. CASE i # 1
    <2>1. PICK n \in Nat : n = Len(fs)
      BY DEF Places
    <2>2. i - 1 \in 1..n
      BY <1>2, <2>1
    <2>3. e[i - 1] \in Nat /\ e[i - 1] <= Len(text)
      BY <2>1, <2>2 DEF Places
    <2> QED
      BY <1>2, <2>3 DEF Begins
  <1> QED
    BY <1>1, <1>2

\* A pair is put behind the others.
LEMMA PairsGrow ==
    ASSUME NEW text, NEW e, NEW fs, NEW bare, Places(text, e, fs), Pairs(text, e, fs, bare),
           NEW name \in FieldNames, NEW encoding \in Encodings,
           NEW more, more = Pair(name, encoding.raw, bare)
    PROVE  Pairs(text \o more, Append(e, Len(text) + Len(more)),
                 Append(fs, <<name, encoding.value>>), bare)
  <1>1. more \in Seq(Int) /\ more # <<>> /\ Len(more) \in Nat
    BY PairTyped
  <1>2. text \in Seq(Int) /\ Len(text) \in Nat
    BY DEF Places
  <1>3. PICK k \in Nat : k = Len(text) + Len(more)
    BY <1>1, <1>2
  <1>4. PICK f : f = <<name, encoding.value>>
    OBVIOUS
  <1>5. f \in FieldNames \X FieldValues /\ f[1] = name /\ f[2] = encoding.value
    BY <1>4 DEF FieldValues
  <1>6. PICK n : n = Len(fs)
    OBVIOUS
  <1>7. Grown(FieldNames \X FieldValues, e, fs, k, f, n) /\ n \in Nat /\ Len(text) = Begins(e, n + 1)
    BY <1>5, <1>6, GrownPlaces, ZenonT(60)
  <1>8. PICK e2 : e2 = Append(e, k)
    OBVIOUS
  <1>9. PICK fs2 : fs2 = Append(fs, f)
    OBVIOUS
  <1>10. /\ Len(fs2) = n + 1 /\ \A i \in 1..n : e2[i] = e[i] /\ fs2[i] = fs[i]
         /\ e2[n + 1] = k /\ fs2[n + 1] = f
         /\ \A i \in 1..(n + 1) : Begins(e2, i) = Begins(e, i)
    BY <1>7, <1>8, <1>9 DEF Grown
  <1>11. PICK text2 : text2 = text \o more
    OBVIOUS
  <1>12. /\ text2 \in Seq(Int) /\ Len(text2) = k /\ \A i \in 1..Len(text) : text2[i] = text[i]
    <2>1. text \in Seq(Int) /\ more \in Seq(Int)
      BY <1>1, <1>2
    <2>2. /\ text \o more \in Seq(Int) /\ Len(text \o more) = Len(text) + Len(more)
          /\ \A i \in 1..Len(text) : (text \o more)[i] = text[i]
      BY <2>1, Cat
    <2> QED
      BY <1>3, <1>11, <2>2
  <1>13. Holds(text2, Len(text), more)
    <2>1. text \in Seq(Int) /\ more \in Seq(Int)
      BY <1>1, <1>2
    <2> QED
      BY <1>11, <2>1, HoldsNew
  <1>14. ASSUME NEW i \in 1..(n + 1)
         PROVE  PairPlaced(text2, Begins(e2, i), e2[i], fs2[i][1], fs2[i][2], bare)
    <2>1. CASE i = n + 1
      <3>1. Begins(e2, i) = Len(text)
        BY <1>7, <1>10, <2>1
      <3>2. Holds(text2, Begins(e2, i), Pair(name, encoding.raw, bare))
        BY <1>13, <3>1
      <3>3. e2[i] = Begins(e2, i) + Len(Pair(name, encoding.raw, bare))
        BY <1>3, <1>10, <2>1, <3>1
      <3>4. fs2[i][1] = name /\ fs2[i][2] = encoding.value
        BY <1>5, <1>10, <2>1
      <3> QED
        BY <3>2, <3>3, <3>4 DEF PairPlaced
    <2>2. CASE i # n + 1
      <3>1. i \in 1..n
        BY <1>7, <2>2
      <3>2. PairPlaced(text, Begins(e, i), e[i], fs[i][1], fs[i][2], bare)
        BY <1>6, <3>1 DEF Pairs
      <3>3. PICK old \in Encodings :
               /\ old.value = fs[i][2] /\ Holds(text, Begins(e, i), Pair(fs[i][1], old.raw, bare))
               /\ e[i] = Begins(e, i) + Len(Pair(fs[i][1], old.raw, bare))
        BY <3>2 DEF PairPlaced
      <3>4. fs[i][1] \in FieldNames /\ Begins(e, i) \in Nat
        <4>1. fs[i] \in FieldNames \X FieldValues
          BY <1>6, <3>1 DEF Places
        <4>2. Begins(e, i) \in Nat
          <5>1. i \in 1..(Len(fs) + 1)
            BY <1>6, <1>7, <3>1
          <5> QED
            BY <5>1, BeginsTyped
        <4> QED
          BY <4>1, <4>2
      <3>5. PICK piece : piece = Pair(fs[i][1], old.raw, bare)
        OBVIOUS
      <3>6. piece \in Seq(Int)
        BY <3>4, <3>5, PairTyped
      <3>7. Holds(text \o more, Begins(e, i), piece)
        BY <1>1, <1>2, <3>3, <3>4, <3>5, <3>6, HoldsMore
      <3>8. Holds(text2, Begins(e2, i), Pair(fs2[i][1], old.raw, bare))
        BY <1>10, <1>11, <3>1, <3>5, <3>7
      <3>9. e2[i] = Begins(e2, i) + Len(Pair(fs2[i][1], old.raw, bare)) /\ old.value = fs2[i][2]
        BY <1>10, <3>1, <3>3
      <3> QED
        BY <3>8, <3>9 DEF PairPlaced
    <2> QED
      BY <2>1, <2>2
  <1>15. ASSUME NEW j \in 1..Len(text2), text2[j] = Ampersand
         PROVE  \E i \in 1..(n + 1) : j = e2[i]
    <2>1. CASE j <= Len(text)
      <3>1. j \in 1..Len(text) /\ text[j] = Ampersand
        BY <1>2, <1>12, <1>15, <2>1
      <3>2. PICK i \in 1..n : j = e[i]
        BY <1>6, <3>1 DEF Pairs
      <3>3. i \in 1..(n + 1) /\ j = e2[i]
        BY <1>7, <1>10, <3>2
      <3> QED
        BY <3>3
    <2>2. CASE ~(j <= Len(text))
      <3>1. j \in (Len(text) + 1)..k
        BY <1>2, <1>12, <2>2
      <3>2. PICK p \in Nat : p = Len(text)
        BY <1>2
      <3>3. Holds(text2, p, Pair(name, encoding.raw, bare))
        BY <1>13, <3>2
      <3>4. k = p + Len(Pair(name, encoding.raw, bare))
        BY <1>3, <3>2
      <3>5. \A x \in (p + 1)..k : text2[x] = Ampersand => x = k
        <4>1. text2 \in Seq(Int)
          BY <1>12
        <4>2. Separates(text2, p, k)
          BY <3>3, <3>4, <4>1, PairSeparates
        <4> QED
          BY <4>2 DEF Separates
      <3>6. j = k
        BY <1>15, <3>1, <3>2, <3>5
      <3>7. n + 1 \in 1..(n + 1)
        BY <1>7
      <3> QED
        BY <1>10, <3>6, <3>7
    <2> QED
      BY <2>1, <2>2
  <1>16. Pairs(text2, e2, fs2, bare)
    BY <1>10, <1>14, <1>15 DEF Pairs
  <1> QED
    BY <1>3, <1>4, <1>8, <1>9, <1>11, <1>16

\* A part is put behind the others.
LEMMA PartsGrow ==
    ASSUME NEW text, NEW e, NEW fs, NEW bound \in Boundaries, NEW typed,
           Places(text, e, fs), Parts(text, e, fs, bound, typed),
           NEW name \in FieldNames, NEW value \in FieldValues, Delimits(bound, value),
           NEW more, more = Part(bound, name, value, typed)
    PROVE  Parts(text \o more, Append(e, Len(text) + Len(more)),
                 Append(fs, <<name, value>>), bound, typed)
  <1>1. more \in Seq(Int) /\ more # <<>> /\ Len(more) \in Nat
    BY PartTyped
  <1>2. text \in Seq(Int) /\ Len(text) \in Nat
    BY DEF Places
  <1>3. PICK k \in Nat : k = Len(text) + Len(more)
    BY <1>1, <1>2
  <1>4. PICK f : f = <<name, value>>
    OBVIOUS
  <1>5. f \in FieldNames \X FieldValues /\ f[1] = name /\ f[2] = value
    BY <1>4
  <1>6. PICK n : n = Len(fs)
    OBVIOUS
  <1>7. Grown(FieldNames \X FieldValues, e, fs, k, f, n) /\ n \in Nat /\ Len(text) = Begins(e, n + 1)
    BY <1>5, <1>6, GrownPlaces
  <1>8. PICK e2 : e2 = Append(e, k)
    OBVIOUS
  <1>9. PICK fs2 : fs2 = Append(fs, f)
    OBVIOUS
  <1>10. /\ Len(fs2) = n + 1 /\ \A i \in 1..n : e2[i] = e[i] /\ fs2[i] = fs[i]
         /\ e2[n + 1] = k /\ fs2[n + 1] = f
         /\ \A i \in 1..(n + 1) : Begins(e2, i) = Begins(e, i)
    BY <1>7, <1>8, <1>9 DEF Grown
  <1>11. PICK text2 : text2 = text \o more
    OBVIOUS
  <1>13. Holds(text2, Len(text), more)
    <2>1. text \in Seq(Int) /\ more \in Seq(Int)
      BY <1>1, <1>2
    <2> QED
      BY <1>11, <2>1, HoldsNew
  <1>14. ASSUME NEW i \in 1..(n + 1)
         PROVE  PartPlaced(text2, Begins(e2, i), e2[i], bound, fs2[i][1], fs2[i][2], typed)
    <2>1. CASE i = n + 1
      <3>1. Begins(e2, i) = Len(text)
        BY <1>7, <1>10, <2>1
      <3>2. Holds(text2, Begins(e2, i), Part(bound, name, value, typed))
        BY <1>13, <3>1
      <3>3. e2[i] = Begins(e2, i) + Len(Part(bound, name, value, typed))
        BY <1>3, <1>10, <2>1, <3>1
      <3>4. fs2[i][1] = name /\ fs2[i][2] = value
        BY <1>5, <1>10, <2>1
      <3> QED
        BY <3>2, <3>3, <3>4 DEF PartPlaced
    <2>2. CASE i # n + 1
      <3>1. i \in 1..n
        BY <1>7, <2>2
      <3>2. PartPlaced(text, Begins(e, i), e[i], bound, fs[i][1], fs[i][2], typed)
        BY <1>6, <3>1 DEF Parts
      <3>3. /\ Delimits(bound, fs[i][2]) /\ Holds(text, Begins(e, i), Part(bound, fs[i][1], fs[i][2], typed))
            /\ e[i] = Begins(e, i) + Len(Part(bound, fs[i][1], fs[i][2], typed))
        BY <3>2 DEF PartPlaced
      <3>4. fs[i][1] \in FieldNames /\ fs[i][2] \in FieldValues /\ Begins(e, i) \in Nat
        <4>1. fs[i] \in FieldNames \X FieldValues
          BY <1>6, <3>1 DEF Places
        <4>2. Begins(e, i) \in Nat
          <5>1. i \in 1..(Len(fs) + 1)
            BY <1>6, <1>7, <3>1
          <5> QED
            BY <5>1, BeginsTyped
        <4> QED
          BY <4>1, <4>2
      <3>5. PICK piece : piece = Part(bound, fs[i][1], fs[i][2], typed)
        OBVIOUS
      <3>6. piece \in Seq(Int)
        BY <3>4, <3>5, PartTyped
      <3>7. Holds(text \o more, Begins(e, i), piece)
        BY <1>1, <1>2, <3>3, <3>4, <3>5, <3>6, HoldsMore
      <3>8. Holds(text2, Begins(e2, i), Part(bound, fs2[i][1], fs2[i][2], typed))
        BY <1>10, <1>11, <3>1, <3>5, <3>7
      <3>9. /\ e2[i] = Begins(e2, i) + Len(Part(bound, fs2[i][1], fs2[i][2], typed))
            /\ Delimits(bound, fs2[i][2])
        BY <1>10, <3>1, <3>3
      <3> QED
        BY <3>8, <3>9 DEF PartPlaced
    <2> QED
      BY <2>1, <2>2
  <1>16. Parts(text2, e2, fs2, bound, typed)
    BY <1>10, <1>14 DEF Parts
  <1> QED
    BY <1>3, <1>4, <1>8, <1>9, <1>11, <1>16

\* The next pair is the next field.
\* What the iterator gives at a pair: the name, and one of the writings of the value.
GivesPair(q, c, name, value, it) ==
    \E encoding \in Encodings :
        /\ encoding.value = value
        /\ QueryNext([query |-> q, cursor |-> c]) =
              [result |-> "ok", name |-> name, value |-> encoding.raw, it |-> it]

\* One call at the place of a field gives its name and a writing of its value.
LEMMA PairGiven ==
    ASSUME NEW text, NEW e, NEW fs, NEW bare, Places(text, e, fs), Pairs(text, e, fs, bare),
           NEW i \in 1..Len(fs)
    PROVE  GivesPair(text, Begins(e, i), fs[i][1], fs[i][2],
                     [query |-> text, cursor |-> Begins(e, i + 1)])
  <1>1. text \in Seq(Int)
    BY DEF Places
  <1>2. PICK n \in Nat : n = Len(fs)
    BY DEF Places
  <1>3. i \in 1..n /\ i \in 1..(Len(fs) + 1)
    BY <1>2
  <1>4. PICK c \in Nat : c = Begins(e, i)
    <2>1. Begins(e, i) \in Nat
      BY <1>3, BeginsTyped
    <2> QED
      BY <2>1
  <1>5. PICK encoding \in Encodings :
           /\ encoding.value = fs[i][2] /\ Holds(text, c, Pair(fs[i][1], encoding.raw, bare))
           /\ e[i] = c + Len(Pair(fs[i][1], encoding.raw, bare))
    <2>1. PairPlaced(text, Begins(e, i), e[i], fs[i][1], fs[i][2], bare)
      BY DEF Pairs
    <2> QED
      BY <1>4, <2>1 DEF PairPlaced
  <1>6. PICK name \in FieldNames : name = fs[i][1]
    <2>1. fs[i] \in FieldNames \X FieldValues
      BY DEF Places
    <2> QED
      BY <2>1
  <1>7. PICK raw : raw = encoding.raw
    OBVIOUS
  <1>9. raw \in Seq(Int)
    BY <1>7, EncodingsAreRead
  <1>10. name \in Seq(Int)
    BY NamesArePlain
  <1>11. Legible(name, raw)
    BY <1>7, NameAndEncoding
  <1>12. Holds(text, c, Pair(name, raw, bare))
    BY <1>5, <1>6, <1>7
  <1>13. QueryNext([query |-> text, cursor |-> c]) =
            [result |-> "ok", name |-> name, value |-> raw,
             it |-> [query |-> text, cursor |-> c + Len(Pair(name, raw, bare))]]
    <2>1. raw \in Seq(Int)
      BY <1>9
    <2> QED
      BY <1>1, <1>10, <1>11, <1>12, <2>1, PairComes
  <1>14. Begins(e, i + 1) = c + Len(Pair(name, raw, bare))
    <2>1. i + 1 # 1 /\ (i + 1) - 1 = i
      OBVIOUS
    <2>2. Begins(e, i + 1) = e[i]
      BY <2>1 DEF Begins
    <2> QED
      BY <1>5, <1>6, <1>7, <2>2
  <1> QED
    BY <1>4, <1>5, <1>6, <1>7, <1>13, <1>14 DEF GivesPair

\* One call at the place of a field gives the field, when decoded.
LEMMA PairRead ==
    ASSUME NEW text, NEW e, NEW fs, NEW bare, Places(text, e, fs), Pairs(text, e, fs, bare),
           NEW i \in 1..Len(fs)
    PROVE  LET next == QueryNext([query |-> text, cursor |-> Begins(e, i)])
           IN /\ next.result = "ok" /\ next.it = [query |-> text, cursor |-> Begins(e, i + 1)]
              /\ next.name = fs[i][1]
              /\ Decode(next.value, Len(next.value)) = [result |-> "ok", text |-> fs[i][2]]
  <1>1. GivesPair(text, Begins(e, i), fs[i][1], fs[i][2],
                  [query |-> text, cursor |-> Begins(e, i + 1)])
    BY PairGiven
  <1>2. PICK encoding \in Encodings :
           /\ encoding.value = fs[i][2]
           /\ QueryNext([query |-> text, cursor |-> Begins(e, i)]) =
                 [result |-> "ok", name |-> fs[i][1], value |-> encoding.raw,
                  it |-> [query |-> text, cursor |-> Begins(e, i + 1)]]
    BY <1>1 DEF GivesPair
  <1>3. PICK raw : raw = encoding.raw
    OBVIOUS
  <1>4. PICK value : value = encoding.value
    OBVIOUS
  <1>5. raw \in Seq(Int) /\ Len(value) <= Len(raw) /\ value \in Seq(0..255)
        /\ Decoded(raw) = [result |-> "ok", text |-> value]
    BY <1>3, <1>4, EncodingsAreRead
  <1>6. Decode(raw, Len(raw)) = [result |-> "ok", text |-> value]
    <2>1. PICK all : all = Decoded(raw)
      OBVIOUS
    <2>2. all.text = value /\ all.result = "ok" /\ all = [result |-> "ok", text |-> value]
      BY <1>5, <2>1
    <2>3. ~(Len(value) > Len(raw))
      BY <1>5
    <2> QED
      BY <2>1, <2>2, <2>3 DEF Decode
  <1> QED
    BY <1>2, <1>3, <1>4, <1>6

\* Behind the last pair the iteration ends.
LEMMA PairsRun ==
    ASSUME NEW text, NEW e, NEW fs, Places(text, e, fs)
    PROVE  QueryNext([query |-> text, cursor |-> Begins(e, Len(fs) + 1)]).result = "end_of_data"
  <1>1. text \in Seq(Int) /\ Begins(e, Len(fs) + 1) = Len(text)
    BY DEF Places
  <1>2. QueryNext([query |-> text, cursor |-> Len(text)]) =
           [result |-> "end_of_data", it |-> [query |-> text, cursor |-> Len(text)]]
    BY <1>1, QueryNextEnds
  <1> QED
    BY <1>1, <1>2

-------------------------------------------------------------------------------
(* The body that is sent. *)

\* The body as it is sent: behind the parts a delimiter and two dashes.
Closed(text, bound) == text \o DashBoundary(bound) \o DashDash

\* What the parts hold is held by the body.
LEMMA ClosedHolds ==
    ASSUME NEW text \in Seq(Int), NEW bound \in Seq(Int)
    PROVE  /\ Closed(text, bound) \in Seq(Int) /\ Len(Closed(text, bound)) >= Len(text)
           /\ Holds(Closed(text, bound), Len(text), DashBoundary(bound))
           /\ Holds(Closed(text, bound), Len(text) + Len(DashBoundary(bound)), DashDash)
           /\ \A p \in Nat, piece \in Seq(Int) :
                 Holds(text, p, piece) => Holds(Closed(text, bound), p, piece)
  <1>1. PICK d : d = DashBoundary(bound)
    OBVIOUS
  <1>2. d \in Seq(Int)
    <2>1. 0 \in Nat
      OBVIOUS
    <2> QED
      BY <1>1, <2>1, DelimiterHeld
  <1>3. PICK dd : dd = DashDash
    OBVIOUS
  <1>4. dd \in Seq(Int)
    BY <1>3, TwoTokens DEF DashDash, Dash
  <1>5. PICK a : a = text \o d
    OBVIOUS
  <1>6. a \in Seq(Int) /\ Len(a) = Len(text) + Len(d)
    BY <1>2, <1>5, Cat
  <1>7. PICK s : s = a \o dd
    OBVIOUS
  <1>8. s = Closed(text, bound)
    BY <1>1, <1>3, <1>5, <1>7 DEF Closed
  <1>9. s \in Seq(Int) /\ Len(s) = Len(a) + Len(dd)
    <2>1. a \in Seq(Int)
      BY <1>6
    <2> QED
      BY <1>4, <1>7, <2>1, Cat
  <1>10. a \in Seq(Int)
    BY <1>6
  <1>11. Holds(a, Len(text), d)
    BY <1>2, <1>5, HoldsNew
  <1>12. Holds(s, Len(text), d)
    BY <1>2, <1>4, <1>7, <1>10, <1>11, HoldsMore
  <1>13. Holds(s, Len(text) + Len(d), dd)
    <2>1. Holds(s, Len(a), dd)
      BY <1>4, <1>7, <1>10, HoldsNew
    <2> QED
      BY <1>6, <2>1
  <1>14. ASSUME NEW p \in Nat, NEW piece \in Seq(Int), Holds(text, p, piece) PROVE Holds(s, p, piece)
    <2>1. Holds(text \o d, p, piece)
      BY <1>2, <1>14, HoldsMore
    <2>2. Holds(a, p, piece)
      BY <1>5, <2>1
    <2>3. Holds(a \o dd, p, piece)
      BY <1>4, <1>10, <2>2, HoldsMore
    <2> QED
      BY <1>7, <2>3
  <1>15. Len(s) >= Len(text)
    BY <1>2, <1>4, <1>6, <1>9
  <1> QED
    BY <1>1, <1>3, <1>8, <1>9, <1>12, <1>13, <1>14, <1>15

\* A part, cut out of a text.
LEMMA PieceBehind ==
    ASSUME NEW text \in Seq(Int), NEW p \in Nat, NEW l \in Nat, NEW piece \in Seq(Int),
           Holds(text, p + l, piece)
    PROVE  Holds(SubSeq(text, p + 1, Len(text)), l, piece)
  <1> QED
    BY HoldsBehind

\* Every part begins with the delimiter, and behind the last there is another.
LEMMA DelimiterAt ==
    ASSUME NEW text, NEW e, NEW fs, NEW bound \in Boundaries, NEW typed,
           Places(text, e, fs), Parts(text, e, fs, bound, typed), NEW i \in 1..(Len(fs) + 1)
    PROVE  Holds(Closed(text, bound), Begins(e, i), DashBoundary(bound))
  <1>1. text \in Seq(Int) 
    BY DEF Places
  <1>2. bound \in Seq(Int)
    BY BoundariesArePlain
  <1>3. PICK n \in Nat : n = Len(fs)
    BY DEF Places
  <1>4. PICK s : s = Closed(text, bound)
    OBVIOUS
  <1>5. s \in Seq(Int) /\ Holds(s, Len(text), DashBoundary(bound))
    BY <1>1, <1>2, <1>4, ClosedHolds
  <1>6. \A p \in Nat, piece \in Seq(Int) : Holds(text, p, piece) => Holds(s, p, piece)
    BY <1>1, <1>2, <1>4, ClosedHolds
  <1>7. CASE i = n + 1
    <2>1. Begins(e, i) = Len(text)
      BY <1>3, <1>7 DEF Places
    <2> QED
      BY <1>4, <1>5, <2>1
  <1>8. CASE i # n + 1
    <2>1. i \in 1..Len(fs)
      BY <1>3, <1>8
    <2>2. PICK name \in FieldNames, value \in FieldValues : name = fs[i][1] /\ value = fs[i][2]
      <3>1. fs[i] \in FieldNames \X FieldValues
        BY <2>1 DEF Places
      <3> QED
        BY <3>1
    <2>3. PICK p \in Nat : p = Begins(e, i)
      <3>1. Begins(e, i) \in Nat
        BY BeginsTyped
      <3> QED
        BY <3>1
    <2>4. PICK part : part = Part(bound, name, value, typed)
      OBVIOUS
    <2>5. Holds(text, p, part)
      <3>1. PartPlaced(text, Begins(e, i), e[i], bound, fs[i][1], fs[i][2], typed)
        BY <2>1 DEF Parts
      <3> QED
        BY <2>2, <2>3, <2>4, <3>1 DEF PartPlaced
    <2>6. part \in Seq(Int)
      BY <2>4, PartTyped
    <2>7. Holds(part, 0, part)
      BY <2>6, HoldsSelf
    <2>8. name \in Seq(Int)
      BY NamesArePlain
    <2>9. value \in Seq(Int)
      BY ValuesAreText
    <2>10. \E b \in Nat, t \in Nat, m \in Nat, v \in Nat :
              /\ PartAt(part, bound, name, value, b, t, m, v)
              /\ Len(Part(bound, name, value, typed)) = b + 20 + t + m + v
      <3>1. Holds(part, 0, Part(bound, name, value, typed))
        BY <2>4, <2>7
      <3> QED
        BY <1>2, <2>6, <2>8, <2>9, <3>1, PartHeld
    <2>11. Holds(part, 0, DashBoundary(bound))
      BY <2>10 DEF PartAt
    <2>12. Holds(s, p, part)
      BY <1>6, <2>5, <2>6
    <2>13. PICK d : d = DashBoundary(bound)
      OBVIOUS
    <2>14. \A k \in 1..Len(d) : k \in 1..Len(part) /\ part[k] = d[k]
      <3>1. Len(d) <= Len(part) /\ \A k \in 1..Len(d) : part[0 + k] = d[k]
        BY <2>11, <2>13 DEF Holds
      <3>2. d \in Seq(Int)
        <4>1. 0 \in Nat
          OBVIOUS
        <4> QED
          BY <1>2, <2>13, <4>1, DelimiterHeld
      <3>3. Len(d) \in Nat /\ Len(part) \in Nat
        BY <2>6, <3>2
      <3>4. \A k \in 1..Len(d) : k \in 1..Len(part) /\ 0 + k = k
        BY <3>1, <3>3
      <3> QED
        BY <3>1, <3>4
    <2>15. Holds(s, p, d)
      <3>1. p + Len(part) <= Len(s) /\ \A k \in 1..Len(part) : s[p + k] = part[k]
        BY <2>12 DEF Holds
      <3>2. Len(d) <= Len(part)
        BY <2>11, <2>13 DEF Holds
      <3>3. d \in Seq(Int)
        <4>1. 0 \in Nat
          OBVIOUS
        <4> QED
          BY <1>2, <2>13, <4>1, DelimiterHeld
      <3>4. p + Len(d) <= Len(s)
        BY <1>5, <2>6, <3>1, <3>2, <3>3
      <3>5. \A k \in 1..Len(d) : s[p + k] = d[k]
        BY <2>14, <3>1
      <3> QED
        BY <3>4, <3>5 DEF Holds
    <2> QED
      BY <1>4, <2>3, <2>13, <2>15
  <1> QED
    BY <1>7, <1>8

\* A part, its place, and the delimiter behind it.
LEMMA PartCut ==
    ASSUME NEW text, NEW e, NEW fs, NEW bound \in Boundaries, NEW typed,
           Places(text, e, fs), Parts(text, e, fs, bound, typed), NEW i \in 1..Len(fs)
    PROVE  /\ Begins(e, i) \in Nat /\ Begins(e, i + 1) = e[i]
           /\ e[i] = Begins(e, i) + Len(Part(bound, fs[i][1], fs[i][2], typed))
           /\ Delimits(bound, fs[i][2]) /\ fs[i][1] \in FieldNames /\ fs[i][2] \in FieldValues
           /\ Holds(Closed(text, bound), Begins(e, i), Part(bound, fs[i][1], fs[i][2], typed))
  <1>1. text \in Seq(Int)
    BY DEF Places
  <1>2. bound \in Seq(Int)
    BY BoundariesArePlain
  <1>3. PICK n \in Nat : n = Len(fs)
    BY DEF Places
  <1>4. fs[i][1] \in FieldNames /\ fs[i][2] \in FieldValues
    <2>1. fs[i] \in FieldNames \X FieldValues
      BY DEF Places
    <2> QED
      BY <2>1
  <1>5. Begins(e, i) \in Nat
    <2>1. i \in 1..(Len(fs) + 1)
      BY <1>3
    <2> QED
      BY <2>1, BeginsTyped
  <1>6. Begins(e, i + 1) = e[i]
    <2>1. i + 1 # 1 /\ (i + 1) - 1 = i
      OBVIOUS
    <2> QED
      BY <2>1 DEF Begins
  <1>7. PICK part : part = Part(bound, fs[i][1], fs[i][2], typed)
    OBVIOUS
  <1>8. part \in Seq(Int)
    BY <1>4, <1>7, PartTyped
  <1>9. PartPlaced(text, Begins(e, i), e[i], bound, fs[i][1], fs[i][2], typed)
    BY DEF Parts
  <1>10. Delimits(bound, fs[i][2]) /\ Holds(text, Begins(e, i), part) /\ e[i] = Begins(e, i) + Len(part)
    BY <1>7, <1>9 DEF PartPlaced
  <1>11. Holds(Closed(text, bound), Begins(e, i), part)
    <2>1. \A p \in Nat, piece \in Seq(Int) : Holds(text, p, piece) => Holds(Closed(text, bound), p, piece)
      BY <1>1, <1>2, ClosedHolds
    <2> QED
      BY <1>5, <1>8, <1>10, <2>1
  <1> QED
    BY <1>4, <1>5, <1>6, <1>7, <1>10, <1>11

\* The next part is the next field.
LEMMA PartRead ==
    ASSUME NEW text, NEW e, NEW fs, NEW bound \in Boundaries, NEW typed,
           Places(text, e, fs), Parts(text, e, fs, bound, typed), NEW i \in 1..Len(fs),
           NEW it \in Reader, it.boundary = bound, it.done = FALSE,
           it.cursor = SubSeq(Closed(text, bound), Begins(e, i) + 1, Len(Closed(text, bound)))
    PROVE  GivesPart(it, bound, fs[i][1], fs[i][2],
              SubSeq(Closed(text, bound), Begins(e, i + 1) + 1, Len(Closed(text, bound))))
  <1>1. PICK s : s = Closed(text, bound)
    OBVIOUS
  <1>2. s \in Seq(Int)
    <2>1. text \in Seq(Int)
      BY DEF Places
    <2>2. bound \in Seq(Int)
      BY BoundariesArePlain
    <2> QED
      BY <1>1, <2>1, <2>2, ClosedHolds
  <1>3. PICK p \in Nat : p = Begins(e, i)
    <2>1. Begins(e, i) \in Nat
      BY PartCut
    <2> QED
      BY <2>1
  <1>4. PICK name \in FieldNames : name = fs[i][1]
    <2>1. fs[i][1] \in FieldNames
      BY PartCut
    <2> QED
      BY <2>1
  <1>5. PICK value \in FieldValues : value = fs[i][2]
    <2>1. fs[i][2] \in FieldValues
      BY PartCut
    <2> QED
      BY <2>1
  <1>6. PICK part : part = Part(bound, name, value, typed)
    OBVIOUS
  <1>7. Holds(s, p, part)
    <2>1. Holds(Closed(text, bound), Begins(e, i), Part(bound, fs[i][1], fs[i][2], typed))
      BY PartCut
    <2> QED
      BY <1>1, <1>3, <1>4, <1>5, <1>6, <2>1
  <1>8. part \in Seq(Int)
    BY <1>6, PartTyped
  <1>9. PICK l \in Nat : l = Len(part)
    BY <1>8
  <1>10. Begins(e, i + 1) = p + l
    <2>1. Begins(e, i + 1) = e[i]
      BY PartCut
    <2>2. e[i] = Begins(e, i) + Len(Part(bound, fs[i][1], fs[i][2], typed))
      BY PartCut
    <2> QED
      BY <1>3, <1>4, <1>5, <1>6, <1>9, <2>1, <2>2
  <1>11. Delimits(bound, value)
    <2>1. Delimits(bound, fs[i][2])
      BY PartCut
    <2> QED
      BY <1>5, <2>1
  <1>12. PICK d : d = DashBoundary(bound)
    OBVIOUS
  <1>13. d \in Seq(Int)
    <2>1. bound \in Seq(Int)
      BY BoundariesArePlain
    <2>2. 0 \in Nat
      OBVIOUS
    <2> QED
      BY <1>12, <2>1, <2>2, DelimiterHeld
  <1>14. Holds(s, p + l, d)
    <2>1. i + 1 \in 1..(Len(fs) + 1)
      <3>1. PICK n \in Nat : n = Len(fs)
        BY DEF Places
      <3> QED
        BY <3>1
    <2>2. Holds(Closed(text, bound), Begins(e, i + 1), DashBoundary(bound))
      BY <2>1, DelimiterAt
    <2> QED
      BY <1>1, <1>10, <1>12, <2>2
  <1>15. PICK c : c = SubSeq(s, p + 1, Len(s))
    OBVIOUS
  <1>16. Holds(c, 0, part)
    <2>1. Holds(s, p + 0, part) /\ 0 \in Nat
      <3>1. p + 0 = p
        OBVIOUS
      <3> QED
        BY <1>7, <3>1
    <2>2. Holds(SubSeq(s, p + 1, Len(s)), 0, part)
      BY <1>2, <1>8, <2>1, PieceBehind
    <2> QED
      BY <1>15, <2>2
  <1>17. Holds(c, l, d)
    <2>1. Holds(SubSeq(s, p + 1, Len(s)), l, d)
      BY <1>2, <1>13, <1>14, PieceBehind
    <2> QED
      BY <1>15, <2>1
  <1>18. it.cursor = c
    BY <1>1, <1>3, <1>15
  <1>19. GivesPart(it, bound, name, value, Rest(it.cursor, Len(Part(bound, name, value, typed)) + 1))
    <2>1. Holds(it.cursor, 0, Part(bound, name, value, typed))
      BY <1>6, <1>16, <1>18
    <2>2. Holds(it.cursor, Len(Part(bound, name, value, typed)), DashBoundary(bound))
      BY <1>6, <1>9, <1>12, <1>17, <1>18
    <2>3. PlainBound(bound)
      BY BoundariesArePlain
    <2>4. PlainName(name)
      BY NamesArePlain
    <2>5. value \in Seq(0..255)
      BY ValuesAreText
    <2> QED
      BY <1>11, <2>1, <2>2, <2>3, <2>4, <2>5, PartComes
  <1>20. Rest(SubSeq(s, p + 1, Len(s)), l + 1) = SubSeq(s, (p + l) + 1, Len(s))
    <2>1. p + l <= Len(s)
      BY <1>7, <1>9 DEF Holds
    <2> QED
      BY <1>2, <2>1, RestOfRest
  <1>21. Rest(it.cursor, Len(Part(bound, name, value, typed)) + 1)
            = SubSeq(Closed(text, bound), Begins(e, i + 1) + 1, Len(Closed(text, bound)))
    BY <1>1, <1>6, <1>9, <1>10, <1>15, <1>18, <1>20
  <1> QED
    BY <1>4, <1>5, <1>19, <1>21

\* At the last delimiter the iteration ends.
LEMMA PartsRun ==
    ASSUME NEW text, NEW e, NEW fs, NEW bound \in Boundaries, Places(text, e, fs),
           NEW it \in Reader, it.boundary = bound,
           it.cursor = SubSeq(Closed(text, bound), Begins(e, Len(fs) + 1) + 1, Len(Closed(text, bound)))
    PROVE  PartNext(it).result = "end_of_data"
  <1>1. PICK s : s = Closed(text, bound)
    OBVIOUS
  <1>2. text \in Seq(Int)
    BY DEF Places
  <1>3. bound \in Seq(Int)
    BY BoundariesArePlain
  <1>4. s \in Seq(Int)
    BY <1>1, <1>2, <1>3, ClosedHolds
  <1>5. PICK p \in Nat : p = Len(text) /\ p = Begins(e, Len(fs) + 1)
    BY DEF Places
  <1>6. PICK d : d = DashBoundary(bound)
    OBVIOUS
  <1>7. d \in Seq(Int)
    <2>1. 0 \in Nat
      OBVIOUS
    <2> QED
      BY <1>3, <1>6, <2>1, DelimiterHeld
  <1>8. PICK l \in Nat : l = Len(d)
    BY <1>7
  <1>9. Holds(s, p, d)
    <2>1. Holds(Closed(text, bound), Len(text), DashBoundary(bound))
      BY <1>2, <1>3, ClosedHolds
    <2> QED
      BY <1>1, <1>5, <1>6, <2>1
  <1>10. Holds(s, p + l, DashDash)
    <2>1. Holds(Closed(text, bound), Len(text) + Len(DashBoundary(bound)), DashDash)
      BY <1>2, <1>3, ClosedHolds
    <2> QED
      BY <1>1, <1>5, <1>6, <1>8, <2>1
  <1>11. PICK c : c = SubSeq(s, p + 1, Len(s))
    OBVIOUS
  <1>12. Holds(c, 0, d)
    <2>1. Holds(s, p + 0, d) /\ 0 \in Nat
      <3>1. p + 0 = p
        OBVIOUS
      <3> QED
        BY <1>9, <3>1
    <2>2. Holds(SubSeq(s, p + 1, Len(s)), 0, d)
      BY <1>4, <1>7, <2>1, PieceBehind
    <2> QED
      BY <1>11, <2>2
  <1>13. Holds(c, l, DashDash)
    <2>1. DashDash \in Seq(Int)
      BY TwoTokens DEF DashDash, Dash
    <2>2. Holds(SubSeq(s, p + 1, Len(s)), l, DashDash)
      BY <1>4, <1>10, <2>1, PieceBehind
    <2> QED
      BY <1>11, <2>2
  <1>14. it.cursor = c
    BY <1>1, <1>5, <1>11
  <1>15. Holds(it.cursor, 0, DashBoundary(bound)) /\ Holds(it.cursor, Len(DashBoundary(bound)), DashDash)
    BY <1>6, <1>8, <1>12, <1>13, <1>14
  <1>16. PlainBound(bound)
    BY BoundariesArePlain
  <1> QED
    BY <1>15, <1>16, PartsEnd

\* Of what kind the values are.
FormTypes ==
    /\ kind \in {"query", "parts", "query_text", "parts_text"}
    /\ choice \in BOOLEAN /\ opened \in BOOLEAN /\ form \in Seq(Int)
    /\ kind \in {"parts", "parts_text"} => boundary \in Boundaries

\* Where the sender put the fields.
WrittenDown ==
    /\ Proper => Places(form, ends, fields)
    /\ kind = "query" => Pairs(form, ends, fields, choice)
    /\ kind = "parts" => Parts(form, ends, fields, boundary, choice)

\* What came back of them.
Answers == [result : {"ok"}, text : FieldValues]
GivenBack ==
    /\ ~opened => seen = <<>> /\ result = "ok"
    /\ Proper => /\ seen \in Seq(FieldNames \X Answers)
                 /\ Len(seen) <= Len(fields)
                 /\ \A i \in 1..Len(seen) :
                       seen[i] = <<fields[i][1], [result |-> "ok", text |-> fields[i][2]]>>
                 /\ result # "ok" => Len(seen) = Len(fields)

\* The iterator stands before the first field that it did not give.
QueryStands == \E q \in Seq(Int) : \E c \in 0..Len(q) : reader = [query |-> q, cursor |-> c]
ReaderStands ==
    opened /\ result = "ok" =>
        /\ kind = "query" => reader = [query |-> form, cursor |-> Begins(ends, Len(seen) + 1)]
        /\ kind = "query_text" => QueryStands
        /\ kind \in {"parts", "parts_text"} => reader \in Reader
        /\ kind = "parts" =>
              /\ reader.boundary = boundary /\ reader.done = FALSE
              /\ reader.cursor = SubSeq(Closed(form, boundary), Begins(ends, Len(seen) + 1) + 1,
                                        Len(Closed(form, boundary)))

\* The inductive invariant.
FormInvariant == FormTypes /\ WrittenDown /\ GivenBack /\ ReaderStands

\* The invariant holds at the beginning.
LEMMA FormInitially == FormInit => FormInvariant
  <1> SUFFICES ASSUME FormInit PROVE FormInvariant
    OBVIOUS
  <1>1. FormTypes
    <2>1. <<>> \in Seq(Int)
      OBVIOUS
    <2>2. \A text \in Texts : text \in Seq(Int)
      <3>1. 0..255 \subseteq Int
        OBVIOUS
      <3>2. \A text \in Texts : text \in Seq(0..255)
        BY TextsAssumption DEF Bytes
      <3> QED
        BY <3>1, <3>2, Widen
    <2> QED
      BY <2>1, <2>2 DEF FormInit, FormTypes
  <1>2. WrittenDown
    <2>1. fields = <<>> /\ ends = <<>> /\ Len(fields) = 0 /\ Len(ends) = 0
      BY DEF FormInit
    <2>2. fields \in Seq(FieldNames \X FieldValues) /\ ends \in Seq(Nat)
      BY <2>1
    <2>3. Proper => form = <<>>
      BY DEF FormInit, Proper
    <2>4. Begins(ends, Len(fields) + 1) = 0
      <3>1. Len(fields) + 1 = 1
        BY <2>1
      <3> QED
        BY <3>1 DEF Begins
    <2>5. Proper => Places(form, ends, fields)
      <3> SUFFICES ASSUME Proper PROVE Places(form, ends, fields)
        OBVIOUS
      <3>1. form = <<>> /\ Len(form) = 0 /\ form \in Seq(Int)
        BY <2>3
      <3>2. \A i \in 1..Len(fields) : FALSE
        BY <2>1
      <3> QED
        BY <2>1, <2>2, <2>4, <3>1, <3>2 DEF Places
    <2>6. kind = "query" => Pairs(form, ends, fields, choice)
      <3> SUFFICES ASSUME kind = "query" PROVE Pairs(form, ends, fields, choice)
        OBVIOUS
      <3>1. \A i \in 1..Len(fields) : FALSE
        BY <2>1
      <3>2. Len(form) = 0
        BY <2>3 DEF Proper
      <3>3. \A j \in 1..Len(form) : FALSE
        BY <3>2
      <3> QED
        BY <3>1, <3>3 DEF Pairs
    <2>7. kind = "parts" => Parts(form, ends, fields, boundary, choice)
      <3>1. \A i \in 1..Len(fields) : FALSE
        BY <2>1
      <3> QED
        BY <3>1 DEF Parts
    <2> QED
      BY <2>5, <2>6, <2>7 DEF WrittenDown
  <1>3. GivenBack
    BY DEF FormInit, GivenBack
  <1>4. ReaderStands
    BY DEF FormInit, ReaderStands
  <1> QED
    BY <1>1, <1>2, <1>3, <1>4 DEF FormInvariant

\* Writing a pair keeps it.
LEMMA WritingKeeps ==
    ASSUME FormInvariant, NEW name \in FieldNames, NEW encoding \in Encodings,
           WritePair(name, encoding)
    PROVE  FormInvariant'
  <1>1. PICK more : more = Pair(name, encoding.raw, choice)
    OBVIOUS
  <1>2. PICK f : f = <<name, encoding.value>>
    OBVIOUS
  <1>3. /\ kind = "query" /\ ~opened /\ fields' = Append(fields, f) /\ form' = form \o more
        /\ ends' = Append(ends, Len(form) + Len(more))
        /\ UNCHANGED <<kind, boundary, choice, opened, reader, seen, result>>
    BY <1>1, <1>2 DEF WritePair, Writes, readerVars
  <1>4. Places(form, ends, fields) /\ Pairs(form, ends, fields, choice)
    BY <1>3 DEF FormInvariant, WrittenDown, Proper
  <1>5. more \in Seq(Int)
    BY <1>1, PairTyped
  <1>6. more # <<>>
    BY <1>1, PairTyped
  <1>7. f \in FieldNames \X FieldValues
    BY <1>2 DEF FieldValues
  <1>8. Places(form', ends', fields')
    <2>1. Places(form, ends, fields)
      BY <1>4
    <2>2. Places(form \o more, Append(ends, Len(form) + Len(more)), Append(fields, f))
      BY <1>5, <1>6, <1>7, <2>1, PlacesGrow
    <2> QED
      BY <1>3, <2>2
  <1>9. Pairs(form', ends', fields', choice')
    <2>1. Places(form, ends, fields)
      BY <1>4
    <2>2. Pairs(form, ends, fields, choice)
      BY <1>4
    <2>3. Pairs(form \o more, Append(ends, Len(form) + Len(more)),
                Append(fields, <<name, encoding.value>>), choice)
      BY <1>1, <2>1, <2>2, PairsGrow
    <2> QED
      BY <1>2, <1>3, <2>3
  <1>10. FormTypes'
    <2>1. form' \in Seq(Int)
      BY <1>8 DEF Places
    <2> QED
      BY <1>3, <2>1 DEF FormInvariant, FormTypes
  <1>11. WrittenDown'
    BY <1>3, <1>8, <1>9 DEF WrittenDown
  <1>12. GivenBack'
    <2>1. seen' = <<>> /\ result' = "ok" /\ opened' = opened
      BY <1>3 DEF FormInvariant, GivenBack
    <2>2. fields' \in Seq(FieldNames \X FieldValues)
      BY <1>8 DEF Places
    <2>3. Len(seen') = 0 /\ Len(fields') \in Nat
      BY <2>1, <2>2
    <2>4. seen' \in Seq(FieldNames \X Answers)
      BY <2>1
    <2> QED
      BY <2>1, <2>3, <2>4 DEF GivenBack
  <1>13. ReaderStands'
    BY <1>3 DEF ReaderStands
  <1> QED
    BY <1>10, <1>11, <1>12, <1>13 DEF FormInvariant

\* Writing a part keeps it.
LEMMA PartingKeeps ==
    ASSUME FormInvariant, NEW name \in FieldNames, NEW value \in FieldValues,
           WritePart(name, value)
    PROVE  FormInvariant'
  <1>1. PICK more : more = Part(boundary, name, value, choice)
    OBVIOUS
  <1>2. PICK f : f = <<name, value>>
    OBVIOUS
  <1>3. /\ kind = "parts" /\ ~opened /\ fields' = Append(fields, f) /\ form' = form \o more
        /\ ends' = Append(ends, Len(form) + Len(more)) /\ Delimits(boundary, value)
        /\ UNCHANGED <<kind, boundary, choice, opened, reader, seen, result>>
    BY <1>1, <1>2 DEF WritePart, Writes, readerVars
  <1>4. Places(form, ends, fields) /\ Parts(form, ends, fields, boundary, choice)
    BY <1>3 DEF FormInvariant, WrittenDown, Proper
  <1>14. boundary \in Boundaries
    BY <1>3 DEF FormInvariant, FormTypes
  <1>5. more \in Seq(Int)
    BY <1>1, <1>14, PartTyped
  <1>6. more # <<>>
    BY <1>1, <1>14, PartTyped
  <1>7. f \in FieldNames \X FieldValues
    BY <1>2
  <1>8. Places(form', ends', fields')
    <2>1. Places(form, ends, fields)
      BY <1>4
    <2>2. Places(form \o more, Append(ends, Len(form) + Len(more)), Append(fields, f))
      BY <1>5, <1>6, <1>7, <2>1, PlacesGrow
    <2> QED
      BY <1>3, <2>2
  <1>9. Parts(form', ends', fields', boundary', choice')
    <2>1. Places(form, ends, fields)
      BY <1>4
    <2>2. Parts(form, ends, fields, boundary, choice)
      BY <1>4
    <2>4. Delimits(boundary, value)
      BY <1>3
    <2>3. Parts(form \o more, Append(ends, Len(form) + Len(more)),
                Append(fields, <<name, value>>), boundary, choice)
      BY <1>1, <1>14, <2>1, <2>2, <2>4, PartsGrow
    <2> QED
      BY <1>2, <1>3, <2>3
  <1>10. FormTypes'
    <2>1. form' \in Seq(Int)
      BY <1>8 DEF Places
    <2> QED
      BY <1>3, <2>1 DEF FormInvariant, FormTypes
  <1>11. WrittenDown'
    BY <1>3, <1>8, <1>9 DEF WrittenDown
  <1>12. GivenBack'
    <2>1. seen' = <<>> /\ result' = "ok" /\ opened' = opened
      BY <1>3 DEF FormInvariant, GivenBack
    <2>2. fields' \in Seq(FieldNames \X FieldValues)
      BY <1>8 DEF Places
    <2>3. Len(seen') = 0 /\ Len(fields') \in Nat
      BY <2>1, <2>2
    <2>4. seen' \in Seq(FieldNames \X Answers)
      BY <2>1
    <2> QED
      BY <2>1, <2>3, <2>4 DEF GivenBack
  <1>13. ReaderStands'
    BY <1>3 DEF ReaderStands
  <1> QED
    BY <1>10, <1>11, <1>12, <1>13 DEF FormInvariant

\* Beginning to read keeps it.
LEMMA OpeningKeeps ==
    ASSUME FormInvariant, Open
    PROVE  FormInvariant'
  <1>1. /\ ~opened /\ opened' = TRUE
        /\ reader' = IF kind \in {"query", "query_text"} THEN QueryIterator(Sent)
                     ELSE PartIterator(ContentTypeOf(boundary, choice), Sent)
        /\ UNCHANGED <<kind, boundary, choice, fields, form, ends, seen, result>>
    BY DEF Open, writerVars
  <1>2. form \in Seq(Int) /\ kind \in {"query", "parts", "query_text", "parts_text"}
    BY DEF FormInvariant, FormTypes
  <1>3. seen = <<>> /\ Len(seen) = 0 /\ result = "ok"
    BY <1>1 DEF FormInvariant, GivenBack
  <1>4. FormTypes'
    BY <1>1 DEF FormInvariant, FormTypes
  <1>5. WrittenDown'
    BY <1>1 DEF FormInvariant, WrittenDown, Proper
  <1>6. GivenBack'
    BY <1>1 DEF FormInvariant, GivenBack, Proper
  <1>7. Begins(ends, Len(seen) + 1) = 0
    <2>1. Len(seen) + 1 = 1
      BY <1>3
    <2> QED
      BY <2>1 DEF Begins
  <1>8. CASE kind = "query"
    <2>1. Sent = <<47, Question>> \o form
      BY <1>8 DEF Sent
    <2>2. LocateQuery(Sent) = form
      BY <1>2, <2>1, LocatedSent
    <2>3. reader' = [query |-> form, cursor |-> 0]
      BY <1>1, <1>8, <2>2 DEF QueryIterator
    <2> QED
      BY <1>1, <1>4, <1>5, <1>6, <1>7, <1>8, <2>3 DEF ReaderStands, FormInvariant
  <1>9. CASE kind = "query_text"
    <2>1. Sent = form
      BY <1>9 DEF Sent
    <2>2. LocateQuery(form) \in Seq(Int)
      BY <1>2, Located
    <2>3. PICK q \in Seq(Int) : q = LocateQuery(form)
      BY <2>2
    <2>4. reader' = [query |-> q, cursor |-> 0]
      BY <1>1, <1>9, <2>1, <2>3 DEF QueryIterator
    <2>5. 0 \in 0..Len(q)
      OBVIOUS
    <2>6. QueryStands'
      BY <2>4, <2>5 DEF QueryStands
    <2>7. ReaderStands'
      BY <1>1, <1>9, <2>6 DEF ReaderStands
    <2> QED
      BY <1>4, <1>5, <1>6, <2>7 DEF FormInvariant
  <1>10. ASSUME kind \in {"parts", "parts_text"}, Sent \in Seq(Int)
         PROVE  /\ reader' = [boundary |-> boundary, cursor |-> Sent, done |-> FALSE]
                /\ reader' \in Reader
    <2>1. boundary \in Boundaries
      BY <1>10 DEF FormInvariant, FormTypes
    <2>2. PlainBound(boundary) /\ boundary \in Seq(Int)
      BY <2>1, BoundariesArePlain
    <2>3. boundary # <<>> /\ \A i \in 1..Len(boundary) : boundary[i] \notin {Quote, Semicolon}
      BY <2>2 DEF PlainBound
    <2>4. ParamValue(ContentTypeOf(boundary, choice), Boundary) = boundary
      BY <2>2, <2>3, BoundaryOfType
    <2>5. reader' = [boundary |-> boundary, cursor |-> Sent, done |-> FALSE]
      <3>1. reader' = PartIterator(ContentTypeOf(boundary, choice), Sent)
        BY <1>1, <1>10
      <3>2. PartIterator(ContentTypeOf(boundary, choice), Sent)
               = [boundary |-> boundary, cursor |-> Sent, done |-> boundary = <<>>]
        BY <2>3, <2>4 DEF PartIterator
      <3>3. (boundary = <<>>) = FALSE
        BY <2>3
      <3> QED
        BY <3>1, <3>2, <3>3
    <2> QED
      BY <1>10, <2>2, <2>5 DEF Reader
  <1>11. CASE kind = "parts_text"
    <2>1. Sent \in Seq(Int)
      BY <1>2, <1>11 DEF Sent
    <2>2. reader' \in Reader
      BY <1>10, <1>11, <2>1
    <2>3. ReaderStands'
      BY <1>1, <1>11, <2>2 DEF ReaderStands
    <2> QED
      BY <1>4, <1>5, <1>6, <2>3 DEF FormInvariant
  <1>12. CASE kind = "parts"
    <2>1. Sent = Closed(form, boundary)
      BY <1>12 DEF Sent, Closed
    <2>2. boundary \in Boundaries
      BY <1>12 DEF FormInvariant, FormTypes
    <2>3. boundary \in Seq(Int)
      BY <2>2, BoundariesArePlain
    <2>4. PICK s : s = Closed(form, boundary)
      OBVIOUS
    <2>5. s \in Seq(Int)
      BY <1>2, <2>3, <2>4, ClosedHolds
    <2>6. reader' = [boundary |-> boundary, cursor |-> s, done |-> FALSE] /\ reader' \in Reader
      BY <1>10, <1>12, <2>1, <2>4, <2>5
    <2>7. s = SubSeq(s, Begins(ends, Len(seen) + 1) + 1, Len(s))
      <3>1. Begins(ends, Len(seen) + 1) + 1 = 1
        BY <1>7
      <3>2. SubSeq(s, 1, Len(s)) = s
        BY <2>5, Whole
      <3> QED
        BY <3>1, <3>2
    <2>8. reader'.boundary = boundary /\ reader'.done = FALSE /\ reader'.cursor = s
      BY <2>6
    <2>9. ReaderStands'
      BY <1>1, <1>12, <2>4, <2>6, <2>7, <2>8 DEF ReaderStands
    <2> QED
      BY <1>4, <1>5, <1>6, <2>9 DEF FormInvariant
  <1> QED
    BY <1>2, <1>8, <1>9, <1>11, <1>12

\* So many fields came back, as they were written.
CameBack(sn, fs, m) ==
    /\ sn \in Seq(FieldNames \X Answers) /\ Len(sn) = m /\ m <= Len(fs)
    /\ \A i \in 1..m : sn[i] = <<fs[i][1], [result |-> "ok", text |-> fs[i][2]]>>

\* One more answer behind the others.
LEMMA OneMore ==
    ASSUME NEW sn \in Seq(FieldNames \X Answers), NEW fs \in Seq(FieldNames \X FieldValues),
           Len(sn) < Len(fs),
           \A i \in 1..Len(sn) : sn[i] = <<fs[i][1], [result |-> "ok", text |-> fs[i][2]]>>,
           NEW next, next = <<fs[Len(sn) + 1][1], [result |-> "ok", text |-> fs[Len(sn) + 1][2]]>>
    PROVE  CameBack(Append(sn, next), fs, Len(sn) + 1)
  <1>1. PICK m \in Nat : m = Len(sn)
    OBVIOUS
  <1>2. m + 1 \in 1..Len(fs)
    BY <1>1
  <1>3. fs[m + 1] \in FieldNames \X FieldValues
    BY <1>2
  <1>4. next \in FieldNames \X Answers
    BY <1>1, <1>3 DEF Answers
  <1>5. /\ Append(sn, next) \in Seq(FieldNames \X Answers) /\ Len(Append(sn, next)) = m + 1
        /\ \A i \in 1..m : Append(sn, next)[i] = sn[i]
        /\ Append(sn, next)[m + 1] = next
    BY <1>1, <1>4
  <1>6. ASSUME NEW i \in 1..(m + 1)
        PROVE  Append(sn, next)[i] = <<fs[i][1], [result |-> "ok", text |-> fs[i][2]]>>
    <2>1. CASE i = m + 1
      BY <1>1, <1>5, <2>1
    <2>2. CASE i # m + 1
      <3>1. i \in 1..m
        BY <2>2
      <3> QED
        BY <1>1, <1>5, <3>1
    <2> QED
      BY <2>1, <2>2
  <1> QED
    BY <1>1, <1>2, <1>5, <1>6 DEF CameBack

\* A reading step keeps what it does not touch.
LEMMA ReadingKeeps ==
    ASSUME FormInvariant, opened, UNCHANGED <<kind, boundary, choice, fields, form, ends, opened>>
    PROVE  FormTypes' /\ WrittenDown'
  <1>1. FormTypes'
    BY DEF FormInvariant, FormTypes
  <1>2. WrittenDown'
    BY DEF FormInvariant, WrittenDown, Proper
  <1> QED
    BY <1>1, <1>2

\* If the call gave the next field, or ended behind the last one, the fields came back so far.
LEMMA AnswerKeeps ==
    ASSUME FormInvariant, opened, result = "ok", Proper,
           UNCHANGED <<kind, boundary, choice, fields, form, ends, opened>>,
           IF Len(seen) < Len(fields)
           THEN /\ result' = "ok"
                /\ seen' = Append(seen, <<fields[Len(seen) + 1][1],
                                    [result |-> "ok", text |-> fields[Len(seen) + 1][2]]>>)
           ELSE result' = "end_of_data" /\ seen' = seen
    PROVE  GivenBack'
  <1>1. /\ seen \in Seq(FieldNames \X Answers) /\ Len(seen) <= Len(fields)
        /\ \A i \in 1..Len(seen) : seen[i] = <<fields[i][1], [result |-> "ok", text |-> fields[i][2]]>>
    BY DEF FormInvariant, GivenBack
  <1>2. fields \in Seq(FieldNames \X FieldValues)
    BY DEF FormInvariant, WrittenDown, Places
  <1>3. CASE Len(seen) < Len(fields)
    <2>1. PICK next : next = <<fields[Len(seen) + 1][1],
                               [result |-> "ok", text |-> fields[Len(seen) + 1][2]]>>
      OBVIOUS
    <2>2. seen \in Seq(FieldNames \X Answers)
      BY <1>1
    <2>3. \A i \in 1..Len(seen) : seen[i] = <<fields[i][1], [result |-> "ok", text |-> fields[i][2]]>>
      BY <1>1
    <2>4. PICK sn : sn = Append(seen, next)
      OBVIOUS
    <2>9. CameBack(Append(seen, next), fields, Len(seen) + 1)
      BY <1>2, <1>3, <2>1, <2>2, <2>3, OneMore
    <2>5. /\ sn \in Seq(FieldNames \X Answers) /\ Len(sn) = Len(seen) + 1
          /\ Len(seen) + 1 <= Len(fields)
          /\ \A i \in 1..(Len(seen) + 1) :
                sn[i] = <<fields[i][1], [result |-> "ok", text |-> fields[i][2]]>>
      BY <2>4, <2>9 DEF CameBack
    <2>6. seen' = sn /\ result' = "ok" /\ fields' = fields /\ opened' = opened
      BY <1>3, <2>1, <2>4
    <2>7. Len(seen') <= Len(fields')
      BY <2>5, <2>6
    <2>8. \A i \in 1..Len(seen') :
                seen'[i] = <<fields'[i][1], [result |-> "ok", text |-> fields'[i][2]]>>
      BY <2>5, <2>6
    <2> QED
      BY <2>5, <2>6, <2>7, <2>8 DEF GivenBack
  <1>4. CASE ~(Len(seen) < Len(fields))
    <2>1. seen' = seen /\ fields' = fields /\ opened' = opened /\ result' = "end_of_data"
      BY <1>4
    <2>2. Len(seen) = Len(fields)
      <3>1. Len(seen) \in Nat /\ Len(fields) \in Nat
        BY <1>1, <1>2
      <3> QED
        BY <1>1, <1>4, <3>1
    <2> QED
      BY <1>1, <2>1, <2>2 DEF GivenBack
  <1> QED
    BY <1>3, <1>4

\* A call at a query keeps it.
LEMMA PairingKeeps ==
    ASSUME FormInvariant, NextPair
    PROVE  FormInvariant'
  <1>1. /\ opened /\ kind \in {"query", "query_text"} /\ result = "ok"
        /\ reader' = QueryNext(reader).it /\ result' = QueryNext(reader).result
        /\ seen' = IF QueryNext(reader).result # "ok" THEN seen
                   ELSE Append(seen, <<QueryNext(reader).name,
                                 Decode(QueryNext(reader).value, Len(QueryNext(reader).value))>>)
        /\ UNCHANGED <<kind, boundary, choice, fields, form, ends, opened>>
    BY DEF NextPair, writerVars
  <1>2. FormTypes' /\ WrittenDown'
    BY <1>1, ReadingKeeps
  <1>3. CASE kind = "query_text"
    <2>1. QueryStands
      BY <1>1, <1>3 DEF FormInvariant, ReaderStands
    <2>2. PICK q \in Seq(Int) : \E c \in 0..Len(q) : reader = [query |-> q, cursor |-> c]
      BY <2>1 DEF QueryStands
    <2>3. PICK c \in 0..Len(q) : reader = [query |-> q, cursor |-> c]
      BY <2>2
    <2>4. \E k \in 0..Len(q) : QueryNext(reader).it = [query |-> q, cursor |-> k]
      BY <2>3, QueryNextAdvances
    <2>5. QueryStands'
      BY <1>1, <2>4 DEF QueryStands
    <2>6. ReaderStands' /\ GivenBack'
      BY <1>1, <1>3, <2>5 DEF ReaderStands, GivenBack, Proper
    <2> QED
      BY <1>2, <2>6 DEF FormInvariant
  <1>4. CASE kind = "query"
    <2>1. reader = [query |-> form, cursor |-> Begins(ends, Len(seen) + 1)]
      BY <1>1, <1>4 DEF FormInvariant, ReaderStands
    <2>2. Places(form, ends, fields)
      BY <1>4 DEF FormInvariant, WrittenDown, Proper
    <2>3. Pairs(form, ends, fields, choice)
      BY <1>4 DEF FormInvariant, WrittenDown
    <2>4. Proper
      BY <1>4 DEF Proper
    <2>5. seen \in Seq(FieldNames \X Answers) /\ Len(seen) <= Len(fields)
      BY <2>4 DEF FormInvariant, GivenBack
    <2>6. PICK m \in Nat : m = Len(seen)
      BY <2>5
    <2>7. PICK n \in Nat : n = Len(fields)
      BY <2>2 DEF Places
    <2>8. CASE m < n
      <3>1. m + 1 \in 1..Len(fields)
        BY <2>7, <2>8
      <3>2. PICK i \in 1..Len(fields) : i = m + 1
        BY <3>1
      <3>3. PICK it : it = [query |-> form, cursor |-> Begins(ends, i)]
        OBVIOUS
      <3>4. /\ QueryNext(it).result = "ok"
            /\ QueryNext(it).it = [query |-> form, cursor |-> Begins(ends, i + 1)]
            /\ QueryNext(it).name = fields[i][1]
            /\ Decode(QueryNext(it).value, Len(QueryNext(it).value))
                  = [result |-> "ok", text |-> fields[i][2]]
        BY <2>2, <2>3, <3>3, PairRead
      <3>5. reader = it
        BY <2>1, <2>6, <3>2, <3>3
      <3>6. seen' = Append(seen, <<fields[i][1], [result |-> "ok", text |-> fields[i][2]]>>)
        BY <1>1, <3>4, <3>5
      <3>7. result' = "ok" /\ reader' = [query |-> form, cursor |-> Begins(ends, i + 1)]
        BY <1>1, <3>4, <3>5
      <3>8. GivenBack'
        <4>1. Len(seen) < Len(fields) /\ i = Len(seen) + 1
          BY <2>6, <2>7, <2>8, <3>2
        <4> QED
          BY <1>1, <2>4, <3>6, <3>7, <4>1, AnswerKeeps
      <3>9. Len(seen') + 1 = i + 1
        <4>1. seen' \in Seq(FieldNames \X Answers)
          BY <1>1, <1>4, <3>8 DEF GivenBack, Proper
        <4>2. Len(seen') = m + 1
          BY <2>5, <2>6, <3>6
        <4> QED
          BY <3>2, <4>2
      <3>10. ReaderStands'
        BY <1>1, <1>4, <3>7, <3>9 DEF ReaderStands
      <3> QED
        BY <1>2, <3>8, <3>10 DEF FormInvariant
    <2>9. CASE ~(m < n)
      <3>1. Len(seen) = Len(fields)
        BY <2>5, <2>6, <2>7, <2>9
      <3>2. QueryNext([query |-> form, cursor |-> Begins(ends, Len(fields) + 1)]).result = "end_of_data"
        BY <2>2, PairsRun
      <3>3. QueryNext(reader).result = "end_of_data"
        BY <2>1, <3>1, <3>2
      <3>4. result' = "end_of_data" /\ seen' = seen
        BY <1>1, <3>3
      <3>5. GivenBack'
        <4>1. ~(Len(seen) < Len(fields))
          BY <2>6, <2>7, <2>9
        <4> QED
          BY <1>1, <2>4, <3>4, <4>1, AnswerKeeps
      <3>6. ReaderStands'
        BY <3>4 DEF ReaderStands
      <3> QED
        BY <1>2, <3>5, <3>6 DEF FormInvariant
    <2> QED
      BY <2>8, <2>9
  <1> QED
    BY <1>1, <1>3, <1>4

\* A call at a body keeps it.
LEMMA PartsAreRead ==
    ASSUME FormInvariant, NextPart
    PROVE  FormInvariant'
  <1>1. /\ opened /\ kind \in {"parts", "parts_text"} /\ result = "ok"
        /\ reader' = PartNext(reader).it /\ result' = PartNext(reader).result
        /\ seen' = IF PartNext(reader).result # "ok" THEN seen
                   ELSE Append(seen, <<PartNext(reader).name,
                                 [result |-> "ok", text |-> PartNext(reader).data]>>)
        /\ UNCHANGED <<kind, boundary, choice, fields, form, ends, opened>>
    BY DEF NextPart, writerVars
  <1>2. FormTypes' /\ WrittenDown'
    BY <1>1, ReadingKeeps
  <1>3. reader \in Reader
    BY <1>1 DEF FormInvariant, ReaderStands
  <1>4. reader' \in Reader
    BY <1>1, <1>3, PartNextAdvances
  <1>5. CASE kind = "parts_text"
    <2>1. ReaderStands' /\ GivenBack'
      BY <1>1, <1>4, <1>5 DEF ReaderStands, GivenBack, Proper
    <2> QED
      BY <1>2, <2>1 DEF FormInvariant
  <1>6. CASE kind = "parts"
    <2>1. PICK s : s = Closed(form, boundary)
      OBVIOUS
    <2>2. /\ reader.boundary = boundary /\ reader.done = FALSE
          /\ reader.cursor = SubSeq(s, Begins(ends, Len(seen) + 1) + 1, Len(s))
      BY <1>1, <1>6, <2>1 DEF FormInvariant, ReaderStands
    <2>3. Places(form, ends, fields)
      BY <1>6 DEF FormInvariant, WrittenDown, Proper
    <2>4. Parts(form, ends, fields, boundary, choice)
      BY <1>6 DEF FormInvariant, WrittenDown
    <2>5. boundary \in Boundaries
      BY <1>6 DEF FormInvariant, FormTypes
    <2>6. Proper
      BY <1>6 DEF Proper
    <2>7. seen \in Seq(FieldNames \X Answers) /\ Len(seen) <= Len(fields)
      BY <2>6 DEF FormInvariant, GivenBack
    <2>8. PICK m \in Nat : m = Len(seen)
      BY <2>7
    <2>9. PICK n \in Nat : n = Len(fields)
      BY <2>3 DEF Places
    <2>10. reader.boundary = boundary /\ reader.done = FALSE
      BY <2>2
    <2>11. CASE m < n
      <3>1. m + 1 \in 1..Len(fields)
        BY <2>9, <2>11
      <3>2. PICK i \in 1..Len(fields) : i = m + 1
        BY <3>1
      <3>3. reader.cursor = SubSeq(Closed(form, boundary), Begins(ends, i) + 1,
                                   Len(Closed(form, boundary)))
        BY <2>1, <2>2, <2>8, <3>2
      <3>4. PICK rest : rest = SubSeq(Closed(form, boundary), Begins(ends, i + 1) + 1,
                                      Len(Closed(form, boundary)))
        OBVIOUS
      <3>5. GivesPart(reader, boundary, fields[i][1], fields[i][2],
               SubSeq(Closed(form, boundary), Begins(ends, i + 1) + 1, Len(Closed(form, boundary))))
        BY <1>3, <2>3, <2>4, <2>5, <2>10, <3>3, PartRead
      <3>6. /\ PartNext(reader).result = "ok" /\ PartNext(reader).name = fields[i][1]
            /\ PartNext(reader).data = fields[i][2]
            /\ PartNext(reader).it.boundary = boundary /\ PartNext(reader).it.done = FALSE
            /\ PartNext(reader).it.cursor = rest
        BY <3>4, <3>5 DEF GivesPart
      <3>7. seen' = Append(seen, <<fields[i][1], [result |-> "ok", text |-> fields[i][2]]>>)
        BY <1>1, <3>6
      <3>8. result' = "ok" /\ reader'.boundary = boundary /\ reader'.done = FALSE
            /\ reader'.cursor = rest
        BY <1>1, <3>6
      <3>9. GivenBack'
        <4>1. Len(seen) < Len(fields) /\ i = Len(seen) + 1
          BY <2>8, <2>9, <2>11, <3>2
        <4> QED
          BY <1>1, <2>6, <3>7, <3>8, <4>1, AnswerKeeps
      <3>10. Len(seen') + 1 = i + 1
        <4>1. Len(seen') = m + 1
          BY <2>7, <2>8, <3>7
        <4> QED
          BY <3>2, <4>1
      <3>11. ReaderStands'
        BY <1>1, <1>4, <1>6, <3>4, <3>8, <3>10 DEF ReaderStands
      <3> QED
        BY <1>2, <3>9, <3>11 DEF FormInvariant
    <2>12. CASE ~(m < n)
      <3>1. Len(seen) = Len(fields)
        BY <2>7, <2>8, <2>9, <2>12
      <3>2. reader.cursor = SubSeq(Closed(form, boundary), Begins(ends, Len(fields) + 1) + 1,
                                   Len(Closed(form, boundary)))
        BY <2>1, <2>2, <3>1
      <3>3. PartNext(reader).result = "end_of_data"
        BY <1>3, <2>3, <2>5, <2>10, <3>2, PartsRun
      <3>4. result' = "end_of_data" /\ seen' = seen
        BY <1>1, <3>3
      <3>5. GivenBack'
        <4>1. ~(Len(seen) < Len(fields))
          BY <2>8, <2>9, <2>12
        <4> QED
          BY <1>1, <2>6, <3>4, <4>1, AnswerKeeps
      <3>6. ReaderStands'
        BY <3>4 DEF ReaderStands
      <3> QED
        BY <1>2, <3>5, <3>6 DEF FormInvariant
    <2> QED
      BY <2>11, <2>12
  <1> QED
    BY <1>1, <1>5, <1>6

\* Every step keeps it.
LEMMA FormStep == FormInvariant /\ [FormNext]_form_vars => FormInvariant'
  <1> SUFFICES ASSUME FormInvariant, [FormNext]_form_vars PROVE FormInvariant'
    OBVIOUS
  <1>1. CASE \E name \in FieldNames, encoding \in Encodings : WritePair(name, encoding)
    BY <1>1, WritingKeeps
  <1>2. CASE \E name \in FieldNames, value \in FieldValues : WritePart(name, value)
    BY <1>2, PartingKeeps
  <1>3. CASE Open
    BY <1>3, OpeningKeeps
  <1>4. CASE NextPair
    BY <1>4, PairingKeeps
  <1>5. CASE NextPart
    BY <1>5, PartsAreRead
  <1>6. CASE UNCHANGED form_vars
    BY <1>6 DEF form_vars, FormInvariant, FormTypes, WrittenDown, GivenBack, ReaderStands, QueryStands, Proper
  <1> QED
    BY <1>1, <1>2, <1>3, <1>4, <1>5, <1>6 DEF FormNext

\* Whatever fields are written and however far they are read, the text is the fields one
\* behind the other (WrittenDown), those that were given are the first of them, decoded
\* (GivenBack), and the iterator stands before the next (ReaderStands).
THEOREM FormInvariantHolds == FormSpec => []FormInvariant
  <1> QED
    BY FormInitially, FormStep, PTL DEF FormSpec

\* What the sender of a form meant is what http_query_iterator_next, decoded, and
\* mp_iterator_next give: every field, in order and whole, and then the end, for any names,
\* values, ways to write them and boundaries that the rules allow.
THEOREM FormFieldsComeBack == FormSpec => []FieldsComeBack
  <1>1. FormInvariant => FieldsComeBack
    <2> SUFFICES ASSUME FormInvariant, Proper PROVE
            /\ Len(seen) <= Len(fields)
            /\ \A i \in DOMAIN seen : seen[i] = <<fields[i][1], [result |-> "ok", text |-> fields[i][2]]>>
            /\ result # "ok" => Len(seen) = Len(fields)
      BY DEF FieldsComeBack
    <2>1. GivenBack
      BY DEF FormInvariant
    <2>2. DOMAIN seen = 1..Len(seen)
      BY <2>1 DEF GivenBack
    <2> QED
      BY <2>1, <2>2 DEF GivenBack
  <1> QED
    BY <1>1, FormInvariantHolds, PTL

\* A call that gives something moves on, whatever the text is.
LEMMA Advancing ==
    FormInvariant => (NextPair \/ NextPart => (result' = "ok" => Left' < Left))
  <1> SUFFICES ASSUME FormInvariant, NextPair \/ NextPart, result' = "ok" PROVE Left' < Left
    OBVIOUS
  <1>1. CASE NextPair
    <2>1. /\ opened /\ kind \in {"query", "query_text"} /\ result = "ok" /\ kind' = kind
          /\ reader' = QueryNext(reader).it /\ QueryNext(reader).result = "ok"
      BY <1>1 DEF NextPair, writerVars
    <2>2. QueryStands
      <3>1. CASE kind = "query_text"
        BY <2>1, <3>1 DEF FormInvariant, ReaderStands
      <3>2. CASE kind = "query"
        <4>1. reader = [query |-> form, cursor |-> Begins(ends, Len(seen) + 1)]
          BY <2>1, <3>2 DEF FormInvariant, ReaderStands
        <4>2. Places(form, ends, fields)
          BY <3>2 DEF FormInvariant, WrittenDown, Proper
        <4>3. seen \in Seq(FieldNames \X Answers) /\ Len(seen) <= Len(fields)
          BY <3>2 DEF FormInvariant, GivenBack, Proper
        <4>4. PICK i \in 1..(Len(fields) + 1) : i = Len(seen) + 1
          <5>1. Len(fields) \in Nat
            BY <4>2 DEF Places
          <5> QED
            BY <4>3, <5>1
        <4>5. Begins(ends, i) \in Nat /\ Begins(ends, i) <= Len(form)
          BY <4>2, BeginsTyped
        <4>6. form \in Seq(Int) /\ Begins(ends, i) \in 0..Len(form)
          BY <4>2, <4>5 DEF Places
        <4> QED
          BY <4>1, <4>4, <4>6 DEF QueryStands
      <3> QED
        BY <2>1, <3>1, <3>2
    <2>3. PICK q \in Seq(Int) : \E c \in 0..Len(q) : reader = [query |-> q, cursor |-> c]
      BY <2>2 DEF QueryStands
    <2>4. PICK c \in 0..Len(q) : reader = [query |-> q, cursor |-> c]
      BY <2>3
    <2>5. \E k \in 0..Len(q) : /\ QueryNext(reader).it = [query |-> q, cursor |-> k]
                               /\ QueryNext(reader).result = "ok" => k > c
      BY <2>4, QueryNextAdvances
    <2>6. PICK k \in 0..Len(q) : QueryNext(reader).it = [query |-> q, cursor |-> k] /\ k > c
      BY <2>1, <2>5
    <2>7. Left = Len(q) - c
      BY <2>1, <2>4 DEF Left
    <2>8. Left' = Len(q) - k
      BY <2>1, <2>6 DEF Left
    <2>9. Len(q) - k < Len(q) - c
      BY <2>6
    <2> QED
      BY <2>7, <2>8, <2>9
  <1>2. CASE NextPart
    <2>1. /\ opened /\ kind \in {"parts", "parts_text"} /\ result = "ok" /\ kind' = kind
          /\ reader' = PartNext(reader).it /\ PartNext(reader).result = "ok"
      BY <1>2 DEF NextPart, writerVars
    <2>2. reader \in Reader
      BY <2>1 DEF FormInvariant, ReaderStands
    <2>3. Len(reader'.cursor) < Len(reader.cursor)
      BY <2>1, <2>2, PartNextAdvances
    <2> QED
      BY <2>1, <2>3 DEF Left
  <1> QED
    BY <1>1, <1>2

\* A call of http_query_iterator_next or mp_iterator_next that gives something leaves less
\* of the text than there was, whatever the text is: no iteration goes on for ever.
THEOREM FormIterationAdvances == FormSpec => IterationAdvances
  <1>1. FormInvariant /\ [FormNext]_form_vars
           => [NextPair \/ NextPart => (result' = "ok" => Left' < Left)]_form_vars
    BY Advancing
  <1> QED
    BY <1>1, FormInvariantHolds, PTL DEF FormSpec, IterationAdvances

-------------------------------------------------------------------------------
(* Looking a name up in a query. *)

\* Where the pairs of a query begin, and which of them have a name.
StartsOf(q) == {i \in DOMAIN q : q[i] # Ampersand /\ (i = 1 \/ q[i - 1] = Ampersand)}
HitsOf(q, name) == {i \in StartsOf(q) : QueryNext([query |-> q, cursor |-> i - 1]).name = name}

\* Where a pair begins and ends.
LEMMA PairBehind ==
    ASSUME NEW text, NEW e, NEW fs, NEW bare, Places(text, e, fs), Pairs(text, e, fs, bare),
           NEW i \in 1..Len(fs)
    PROVE  /\ Begins(e, i) \in Nat /\ Begins(e, i) < Len(text) /\ e[i] \in 1..Len(text)
           /\ text[e[i]] = Ampersand /\ text[Begins(e, i) + 1] # Ampersand
  <1>1. text \in Seq(Int)
    BY DEF Places
  <1>2. PICK n \in Nat : n = Len(fs)
    BY DEF Places
  <1>3. PICK c \in Nat : c = Begins(e, i)
    <2>1. i \in 1..(Len(fs) + 1)
      BY <1>2
    <2>2. Begins(e, i) \in Nat
      BY <2>1, BeginsTyped
    <2> QED
      BY <2>2
  <1>4. PICK name \in FieldNames : name = fs[i][1]
    <2>1. fs[i] \in FieldNames \X FieldValues
      BY DEF Places
    <2> QED
      BY <2>1
  <1>5. PICK encoding \in Encodings :
           Holds(text, c, Pair(name, encoding.raw, bare)) /\ e[i] = c + Len(Pair(name, encoding.raw, bare))
    <2>1. PairPlaced(text, Begins(e, i), e[i], fs[i][1], fs[i][2], bare)
      BY DEF Pairs
    <2> QED
      BY <1>3, <1>4, <2>1 DEF PairPlaced
  <1>6. PICK f \in Nat : f = e[i]
    <2>1. e[i] \in Nat
      BY DEF Places
    <2> QED
      BY <2>1
  <1>7. Separates(text, c, f)
    <2>1. Holds(text, c, Pair(name, encoding.raw, bare))
      BY <1>5
    <2>2. f = c + Len(Pair(name, encoding.raw, bare))
      BY <1>5, <1>6
    <2> QED
      BY <1>1, <2>1, <2>2, PairSeparates
  <1>8. f \in 1..Len(text) /\ text[f] = Ampersand /\ text[c + 1] # Ampersand /\ c < f
    BY <1>7 DEF Separates
  <1>9. c < Len(text)
    BY <1>1, <1>8
  <1> QED
    BY <1>3, <1>6, <1>8, <1>9

\* The pairs begin where the fields were put.
LEMMA StartsAre ==
    ASSUME NEW text, NEW e, NEW fs, NEW bare, Places(text, e, fs), Pairs(text, e, fs, bare)
    PROVE  StartsOf(text) = {Begins(e, i) + 1 : i \in 1..Len(fs)}
  <1>1. text \in Seq(Int) /\ DOMAIN text = 1..Len(text)
    BY DEF Places
  <1>2. PICK n \in Nat : n = Len(fs)
    BY DEF Places
  <1>3. ASSUME NEW i \in 1..Len(fs) PROVE Begins(e, i) + 1 \in StartsOf(text)
    <2>1. PICK c \in Nat : c = Begins(e, i)
      <3>1. Begins(e, i) \in Nat
        BY PairBehind
      <3> QED
        BY <3>1
    <2>2. c < Len(text)
      BY <2>1, PairBehind
    <2>3. text[c + 1] # Ampersand
      BY <2>1, PairBehind
    <2>4. c + 1 \in 1..Len(text) /\ (c + 1) - 1 = c
      BY <1>1, <2>2
    <2>5. c = 0 \/ text[c] = Ampersand
      <3>1. CASE i = 1
        BY <2>1, <3>1 DEF Begins
      <3>2. CASE i # 1
        <4>1. PICK k \in 1..Len(fs) : k = i - 1
          <5>1. i - 1 \in 1..Len(fs)
            BY <1>2, <3>2
          <5> QED
            BY <5>1
        <4>2. text[e[k]] = Ampersand
          BY PairBehind
        <4>3. c = e[k]
          BY <2>1, <3>2, <4>1 DEF Begins
        <4> QED
          BY <4>2, <4>3
      <3> QED
        BY <3>1, <3>2
    <2>6. c + 1 = 1 \/ text[(c + 1) - 1] = Ampersand
      BY <2>4, <2>5
    <2> QED
      BY <1>1, <2>1, <2>3, <2>4, <2>6 DEF StartsOf
  <1>4. ASSUME NEW s \in StartsOf(text) PROVE \E i \in 1..Len(fs) : s = Begins(e, i) + 1
    <2>1. s \in 1..Len(text) /\ text[s] # Ampersand /\ (s = 1 \/ text[s - 1] = Ampersand)
      BY <1>1 DEF StartsOf
    <2>2. CASE s = 1
      <3>1. n # 0
        <4> SUFFICES ASSUME n = 0 PROVE FALSE
          OBVIOUS
        <4>1. Len(fs) + 1 = 1
          BY <1>2
        <4>2. Len(text) = 0
          BY <4>1 DEF Places, Begins
        <4> QED
          BY <2>1, <4>2
      <3>2. 1 \in 1..Len(fs)
        BY <1>2, <3>1
      <3>3. Begins(e, 1) + 1 = 1
        BY DEF Begins
      <3> QED
        BY <2>2, <3>2, <3>3
    <2>3. CASE s # 1
      <3>1. s - 1 \in 1..Len(text) /\ text[s - 1] = Ampersand
        BY <2>1, <2>3
      <3>2. PICK k \in 1..Len(fs) : s - 1 = e[k]
        BY <3>1 DEF Pairs
      <3>3. k # n
        <4> SUFFICES ASSUME k = n PROVE FALSE
          OBVIOUS
        <4>1. n + 1 # 1 /\ (n + 1) - 1 = n
          BY <1>2
        <4>2. Len(text) = e[n]
          BY <1>2, <4>1 DEF Places, Begins
        <4> QED
          BY <2>1, <3>2, <4>2
      <3>4. k + 1 \in 1..Len(fs) /\ k + 1 # 1 /\ (k + 1) - 1 = k
        BY <1>2, <3>3
      <3>5. Begins(e, k + 1) = s - 1
        BY <3>2, <3>4 DEF Begins
      <3>6. s = Begins(e, k + 1) + 1
        BY <2>1, <3>5
      <3> QED
        BY <3>4, <3>6
    <2> QED
      BY <2>2, <2>3
  <1> QED
    BY <1>3, <1>4

\* The first of the fields of a name is found where it was put.
LEMMA HitsAre ==
    ASSUME NEW text, NEW e, NEW fs, NEW bare, Places(text, e, fs), Pairs(text, e, fs, bare), NEW name
    PROVE  HitsOf(text, name) = {Begins(e, i) + 1 : i \in {j \in 1..Len(fs) : fs[j][1] = name}}
  <1>1. StartsOf(text) = {Begins(e, i) + 1 : i \in 1..Len(fs)}
    BY StartsAre
  <1>2. ASSUME NEW i \in 1..Len(fs)
        PROVE  QueryNext([query |-> text, cursor |-> (Begins(e, i) + 1) - 1]).name = fs[i][1]
    <2>1. PICK c \in Nat : c = Begins(e, i)
      <3>1. Begins(e, i) \in Nat
        BY PairBehind
      <3> QED
        BY <3>1
    <2>2. (c + 1) - 1 = c
      OBVIOUS
    <2>3. GivesPair(text, Begins(e, i), fs[i][1], fs[i][2],
                    [query |-> text, cursor |-> Begins(e, i + 1)])
      BY PairGiven
    <2>4. QueryNext([query |-> text, cursor |-> Begins(e, i)]).name = fs[i][1]
      BY <2>3 DEF GivesPair
    <2> QED
      BY <2>1, <2>2, <2>4
  <1>3. \A s : s \in HitsOf(text, name) <=>
              \E i \in 1..Len(fs) : s = Begins(e, i) + 1 /\ fs[i][1] = name
    BY <1>1, <1>2 DEF HitsOf
  <1> QED
    BY <1>3

\* Decoding a writing of a value, into any room.
LEMMA DecodingEncoding ==
    ASSUME NEW encoding \in Encodings, NEW size \in Nat
    PROVE  Decode(encoding.raw, size) =
              IF Len(encoding.value) > size THEN [result |-> "insufficient_size"]
              ELSE [result |-> "ok", text |-> encoding.value]
  <1>1. PICK all : all = Decoded(encoding.raw)
    OBVIOUS
  <1>2. Decoded(encoding.raw) = [result |-> "ok", text |-> encoding.value]
    BY EncodingsAreRead
  <1>3. all.text = encoding.value /\ all.result = "ok" /\ all = [result |-> "ok", text |-> encoding.value]
    BY <1>1, <1>2
  <1> QED
    BY <1>1, <1>3 DEF Decode

\* What looking a name up gives: nothing, or a writing of the value of a field.
FoundNone(text, name) == QueryFind(<<47, Question>> \o text, name) = [result |-> "not_found"]
FoundValue(text, name, value) ==
    \E encoding \in Encodings :
        /\ encoding.value = value
        /\ QueryFind(<<47, Question>> \o text, name) = [result |-> "ok", value |-> encoding.raw]

\* Looking a name up asks at the first of its places.
LEMMA FindingIs ==
    ASSUME NEW text \in Seq(Int), NEW name
    PROVE  QueryFind(<<47, Question>> \o text, name) =
              IF HitsOf(text, name) = {} THEN [result |-> "not_found"]
              ELSE [result |-> "ok",
                    value |-> QueryNext([query |-> text, cursor |-> Min(HitsOf(text, name)) - 1]).value]
  <1>1. LocateQuery(<<47, Question>> \o text) = text
    BY LocatedSent
  <1> QED
    BY <1>1 DEF QueryFind, HitsOf, StartsOf

\* A name that no field has is not found.
LEMMA NoneFound ==
    ASSUME NEW text, NEW e, NEW fs, NEW bare, Places(text, e, fs), Pairs(text, e, fs, bare), NEW name,
           {j \in 1..Len(fs) : fs[j][1] = name} = {}
    PROVE  FoundNone(text, name)
  <1>1. text \in Seq(Int)
    BY DEF Places
  <1>2. HitsOf(text, name) = {Begins(e, i) + 1 : i \in {j \in 1..Len(fs) : fs[j][1] = name}}
    BY HitsAre
  <1>3. HitsOf(text, name) = {}
    BY <1>2
  <1>4. QueryFind(<<47, Question>> \o text, name) = [result |-> "not_found"]
    BY <1>1, <1>3, FindingIs
  <1> QED
    BY <1>4 DEF FoundNone

\* Of the fields of a name the first is found.
LEMMA FirstFound ==
    ASSUME NEW text, NEW e, NEW fs, NEW bare, Places(text, e, fs), Pairs(text, e, fs, bare), NEW name,
           NEW k \in 1..Len(fs), fs[k][1] = name, \A j \in 1..Len(fs) : fs[j][1] = name => k <= j
    PROVE  FoundValue(text, name, fs[k][2])
  <1>1. text \in Seq(Int)
    BY DEF Places
  <1>2. PICK hits : hits = HitsOf(text, name)
    OBVIOUS
  <1>3. hits = {Begins(e, i) + 1 : i \in {j \in 1..Len(fs) : fs[j][1] = name}}
    BY <1>2, HitsAre
  <1>4. PICK c \in Nat : c = Begins(e, k)
    <2>1. Begins(e, k) \in Nat
      BY PairBehind
    <2> QED
      BY <2>1
  <1>5. c + 1 \in hits
    BY <1>3, <1>4
  <1>6. \A j \in 1..Len(fs) : Begins(e, j) \in Nat
    BY PairBehind
  <1>7. PICK n \in Nat : n = Len(fs)
    BY DEF Places
  <1>8. ASSUME NEW j \in 1..Len(fs), fs[j][1] = name PROVE c <= Begins(e, j)
    <2>1. k <= j
      BY <1>8
    <2>2. CASE k = j
      BY <1>4, <2>2
    <2>3. CASE k < j
      <3>1. k \in Nat /\ j \in Nat /\ j # 1
        BY <1>7, <2>3
      <3>2. PICK p \in 1..Len(fs) : p = j - 1
        <4>1. j - 1 \in 1..Len(fs)
          BY <1>7, <3>1
        <4> QED
          BY <4>1
      <3>3. Begins(e, j) = e[p]
        BY <3>1, <3>2 DEF Begins
      <3>4. e[k] \in Nat /\ e[p] \in Nat
        BY DEF Places
      <3>5. c < e[k]
        BY <1>4 DEF Places
      <3>6. k = p \/ k < p
        BY <1>7, <2>3, <3>1, <3>2
      <3>7. k < p => e[k] < e[p]
        BY DEF Places
      <3>8. e[k] <= e[p]
        BY <3>4, <3>6, <3>7
      <3>9. c <= e[p]
        BY <1>4, <3>4, <3>5, <3>8
      <3> QED
        BY <3>3, <3>9
    <2> QED
      BY <1>7, <2>1, <2>2, <2>3
  <1>9. hits \subseteq Int
    BY <1>3, <1>6
  <1>10. ASSUME NEW y \in hits PROVE c + 1 <= y
    <2>1. PICK j \in 1..Len(fs) : y = Begins(e, j) + 1 /\ fs[j][1] = name
      BY <1>3
    <2>2. PICK b \in Nat : b = Begins(e, j)
      BY <1>6
    <2>3. c <= b
      BY <1>8, <2>1, <2>2
    <2> QED
      BY <2>1, <2>2, <2>3
  <1>11. Min(hits) = c + 1
    BY <1>5, <1>9, <1>10, MinIs
  <1>12. Min(HitsOf(text, name)) - 1 = Begins(e, k) /\ HitsOf(text, name) # {}
    BY <1>2, <1>4, <1>5, <1>11
  <1>13. QueryFind(<<47, Question>> \o text, name) =
            [result |-> "ok", value |-> QueryNext([query |-> text, cursor |-> Begins(e, k)]).value]
    BY <1>1, <1>12, FindingIs
  <1>14. GivesPair(text, Begins(e, k), fs[k][1], fs[k][2],
                   [query |-> text, cursor |-> Begins(e, k + 1)])
    BY PairGiven
  <1>15. PICK encoding \in Encodings :
           /\ encoding.value = fs[k][2]
           /\ QueryNext([query |-> text, cursor |-> Begins(e, k)]) =
                 [result |-> "ok", name |-> fs[k][1], value |-> encoding.raw,
                  it |-> [query |-> text, cursor |-> Begins(e, k + 1)]]
    BY <1>14 DEF GivesPair
  <1>16. QueryFind(<<47, Question>> \o text, name) = [result |-> "ok", value |-> encoding.raw]
    BY <1>13, <1>15
  <1> QED
    BY <1>15, <1>16 DEF FoundValue

\* So the lookup does what it should.
LEMMA LookingUp ==
    FormInvariant => LookupIsFirst
  <1> SUFFICES ASSUME FormInvariant, kind = "query", NEW name \in FieldNames, NEW size \in Sizes
               PROVE  LET hits == {i \in DOMAIN fields : fields[i][1] = name}
                          found == QueryFindDecoded(Sent, name, size)
                      IN IF hits = {} THEN found.result = "not_found"
                         ELSE LET value == fields[Min(hits)][2]
                                  raw == QueryFind(Sent, name).value
                              IN
                              /\ NeedsDecoding(raw) \/ raw = value
                              /\ IF Len(value) > size THEN found.result = "insufficient_size"
                                 ELSE found = [result |-> "ok", text |-> value]
    BY DEF LookupIsFirst
  <1>1. Places(form, ends, fields)
    BY DEF FormInvariant, WrittenDown, Proper
  <1>2. Pairs(form, ends, fields, choice)
    BY DEF FormInvariant, WrittenDown
  <1>3. fields \in Seq(FieldNames \X FieldValues) /\ DOMAIN fields = 1..Len(fields)
    BY <1>1 DEF Places
  <1>4. Sent = <<47, Question>> \o form
    BY DEF Sent
  <1>5. PICK hits : hits = {i \in DOMAIN fields : fields[i][1] = name}
    OBVIOUS
  <1>6. hits = {i \in 1..Len(fields) : fields[i][1] = name}
    BY <1>3, <1>5
  <1>7. size \in Nat
    BY SizesAssumption
  <1>8. CASE hits = {}
    <2>1. {i \in 1..Len(fields) : fields[i][1] = name} = {}
      BY <1>6, <1>8
    <2>2. FoundNone(form, name)
      BY <1>1, <1>2, <2>1, NoneFound
    <2>3. QueryFind(Sent, name) = [result |-> "not_found"]
      BY <1>4, <2>2 DEF FoundNone
    <2>4. QueryFindDecoded(Sent, name, size).result = "not_found"
      BY <2>3 DEF QueryFindDecoded
    <2> QED
      BY <1>5, <1>8, <2>4
  <1>9. CASE hits # {}
    <2>1. hits \subseteq Nat
      BY <1>6
    <2>2. Min(hits) \in hits /\ \A y \in hits : Min(hits) <= y
      BY <1>9, <2>1, MinExists
    <2>3. PICK k \in 1..Len(fields) : k = Min(hits)
      BY <1>6, <2>2
    <2>4. fields[k][1] = name /\ \A j \in 1..Len(fields) : fields[j][1] = name => k <= j
      BY <1>6, <2>2, <2>3
    <2>5. FoundValue(form, name, fields[k][2])
      BY <1>1, <1>2, <2>4, FirstFound
    <2>6. PICK encoding \in Encodings :
             /\ encoding.value = fields[k][2]
             /\ QueryFind(Sent, name) = [result |-> "ok", value |-> encoding.raw]
      BY <1>4, <2>5 DEF FoundValue
    <2>7. PICK value : value = encoding.value
      OBVIOUS
    <2>8. PICK raw : raw = encoding.raw
      OBVIOUS
    <2>9. NeedsDecoding(raw) \/ raw = value
      BY <2>7, <2>8, EncodingsAreRead
    <2>10. Decode(raw, size) = IF Len(value) > size THEN [result |-> "insufficient_size"]
                               ELSE [result |-> "ok", text |-> value]
      BY <1>7, <2>7, <2>8, DecodingEncoding
    <2>11. QueryFindDecoded(Sent, name, size) = Decode(raw, size)
      BY <2>6, <2>8 DEF QueryFindDecoded
    <2>12. /\ QueryFind(Sent, name).value = raw /\ fields[Min(hits)][2] = value
      BY <2>3, <2>6, <2>7, <2>8
    <2>13. IF Len(value) > size THEN QueryFindDecoded(Sent, name, size).result = "insufficient_size"
           ELSE QueryFindDecoded(Sent, name, size) = [result |-> "ok", text |-> value]
      BY <2>10, <2>11
    <2> QED
      BY <1>5, <1>9, <2>9, <2>12, <2>13
  <1> QED
    BY <1>8, <1>9

\* Looking a name up in a query gives the first field of that name, decoded and whole,
\* or says that there is no room, or no such field (http_query_find_decoded).
THEOREM FormLookupIsFirst == FormSpec => []LookupIsFirst
  BY FormInvariantHolds, LookingUp, PTL
================================================================================
