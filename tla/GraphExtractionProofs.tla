----------------------- MODULE GraphExtractionProofs ------------------------
(***************************************************************************)
(* Proofs about the jobs of the graph extractor, for every document, every *)
(* budget and every number of workers.  The visible characters of a text   *)
(* are followed through every cut, every join and every loop, from the     *)
(* boxes a parser gave to the batches a job asks about (LoadedIs), and     *)
(* then through the calls, which halve them and answer them (JobInv).      *)
(***************************************************************************)
EXTENDS GraphExtraction, SequenceTheorems, WellFoundedInduction, TLAPS

\* The texts of the program.
Texts == Seq(Int)

\* No visible character is in two places of a text.
Once(t) ==
  \A i, j \in DOMAIN t : t[i] = t[j] /\ ~IsBlank(t[i]) => i = j

\* What is visible of some texts.
Ink(ts) == UNION {Chars(ts[i]) : i \in DOMAIN ts}

\* Texts that share nothing, each with its characters once.
Apart(ts) ==
  /\ \A i \in DOMAIN ts : Once(ts[i])
  /\ \A i, j \in DOMAIN ts : i # j => Chars(ts[i]) \cap Chars(ts[j]) = {}

\* Two halves of a text: nothing lost, nothing twice.
Halves(h, t) ==
  /\ h[1] \in Texts /\ h[2] \in Texts
  /\ Chars(h[1]) \cup Chars(h[2]) = Chars(t)
  /\ Once(t) => Once(h[1]) /\ Once(h[2]) /\ Chars(h[1]) \cap Chars(h[2]) = {}

\* Neither half is blanks alone.
Trimmed(h) == \A i \in 1..2 : h[i] # <<>> => Chars(h[i]) # {}

\* A set of numbers that is not empty has a least one.
LEMMA LeastOf ==
  ASSUME NEW T, T \subseteq Nat, T # {}
  PROVE  \E k \in T : \A j \in T : k <= j
<1> DEFINE Less == {s \in Nat \X Nat : s[1] < s[2]}
<1>1. IsWellFoundedOn(Less, Nat)
  BY NatLessThanWellFounded DEF OpToRel
<1>2. PICK k \in T : \A j \in T : <<j, k>> \notin Less
  <2> HIDE DEF Less
  <2> QED BY <1>1, WFMin
<1>3. ASSUME NEW j \in T PROVE k <= j
  <2>1. <<j, k>> \in Nat \X Nat
    OBVIOUS
  <2>2. ~(<<j, k>>[1] < <<j, k>>[2])
    BY <1>2, <2>1
  <2> QED BY <2>2
<1> QED BY <1>3

\* What Min picks from such a set.
LEMMA MinIs ==
  ASSUME NEW T, T \subseteq Nat, T # {}
  PROVE  Min(T) \in T /\ \A j \in T : Min(T) <= j
<1>1. \E k \in T : \A j \in T : k <= j
  BY LeastOf
<1> QED BY <1>1 DEF Min

\* What Max picks from numbers up to a bound.
LEMMA MaxIs ==
  ASSUME NEW n \in Nat, NEW T, T \subseteq 0..n, T # {}
  PROVE  Max(T) \in T /\ \A j \in T : Max(T) >= j
<1> DEFINE Above == {k \in Nat : \A j \in T : j <= k}
<1>1. n \in Above
  OBVIOUS
<1>2. PICK k \in Above : \A j \in Above : k <= j
  BY <1>1, LeastOf
<1>3. k \in T
  <2> SUFFICES ASSUME k \notin T PROVE FALSE
    OBVIOUS
  <2>1. PICK j \in T : TRUE
    OBVIOUS
  <2>2. k # 0
    <3> SUFFICES ASSUME k = 0 PROVE FALSE
      OBVIOUS
    <3>1. j \in 0..n /\ j <= 0 /\ j # 0
      BY <1>2, <2>1
    <3> QED BY <3>1
  <2>3. k - 1 \in Above
    <3>1. k - 1 \in Nat
      BY <1>2, <2>2
    <3>2. ASSUME NEW i \in T PROVE i <= k - 1
      <4>1. i \in Nat /\ k \in Nat /\ i <= k /\ i # k
        BY <1>2
      <4> QED BY <4>1
    <3> QED BY <3>1, <3>2
  <2>4. k <= k - 1 /\ k \in Nat
    BY <1>2, <2>3
  <2> QED BY <2>4
<1>4. \A j \in T : k >= j
  <2> TAKE j \in T
  <2>1. j <= k
    BY <1>2
  <2>2. j \in Nat /\ k \in Nat
    BY <1>2
  <2> QED BY <2>1, <2>2
<1>5. \E x \in T : \A j \in T : x >= j
  BY <1>3, <1>4
<1> QED BY <1>5 DEF Max

\* A text is a function on the places up to its length, and its visible
\* characters are those at its places.
LEMMA TextHas ==
  ASSUME NEW t \in Texts
  PROVE  /\ Len(t) \in Nat /\ DOMAIN t = 1..Len(t)
         /\ \A i \in 1..Len(t) : t[i] \in Int
         /\ \A c : c \in Chars(t) <=> /\ c # Blank /\ c # Newline
                                      /\ \E i \in 1..Len(t) : t[i] = c
<1>1. Len(t) \in Nat /\ DOMAIN t = 1..Len(t)
  BY DEF Texts
<1>2. \A i \in 1..Len(t) : t[i] \in Int
  BY DEF Texts
<1> QED BY <1>1, <1>2 DEF Chars, ToSet

\* A part of a text.
LEMMA PartIs ==
  ASSUME NEW t \in Texts, NEW m \in Int, NEW n \in Int, 1 <= m, n <= Len(t)
  PROVE  /\ SubSeq(t, m, n) \in Texts
         /\ Len(SubSeq(t, m, n)) = IF m <= n THEN n - m + 1 ELSE 0
         /\ \A i \in 1..(n - m + 1) : SubSeq(t, m, n)[i] = t[m + i - 1]
         /\ \A c : c \in Chars(SubSeq(t, m, n)) <=>
                     /\ c # Blank /\ c # Newline
                     /\ \E i \in m..n : t[i] = c
         /\ Once(t) => Once(SubSeq(t, m, n))
<1> DEFINE s == SubSeq(t, m, n)
<1>0. /\ Len(t) \in Nat /\ DOMAIN t = 1..Len(t)
      /\ \A i \in 1..Len(t) : t[i] \in Int
  BY TextHas
<1>1. \A i \in m..n : t[i] \in Int
  BY <1>0
<1>2. /\ s \in Texts /\ Len(s) = IF m <= n THEN n - m + 1 ELSE 0
      /\ \A i \in 1..(n - m + 1) : s[i] = t[m + i - 1]
  BY <1>1, SubSeqProperties DEF Texts
<1> HIDE DEF s
<1>3. DOMAIN s = 1..Len(s) /\ \A c : c \in Chars(s) <=>
        /\ c # Blank /\ c # Newline /\ \E i \in 1..Len(s) : s[i] = c
  BY <1>2, TextHas
<1>4. \A i \in 1..Len(s) : /\ i \in 1..(n - m + 1) /\ m + i - 1 \in m..n
                           /\ s[i] = t[m + i - 1]
  BY <1>2
<1>5. \A i \in m..n : /\ i - m + 1 \in 1..Len(s) /\ s[i - m + 1] = t[i]
  <2> TAKE i \in m..n
  <2>1. /\ i - m + 1 \in 1..Len(s) /\ i - m + 1 \in 1..(n - m + 1)
        /\ m + (i - m + 1) - 1 = i
    BY <1>2
  <2> QED BY <2>1, <1>4
<1>6. \A c : (\E i \in 1..Len(s) : s[i] = c) <=> \E i \in m..n : t[i] = c
  BY <1>4, <1>5
<1>7. ASSUME Once(t) PROVE Once(s)
  <2> SUFFICES ASSUME NEW i \in 1..Len(s), NEW j \in 1..Len(s), s[i] = s[j],
                      ~IsBlank(s[i])
               PROVE  i = j
    BY <1>3 DEF Once
  <2>1. t[m + i - 1] = t[m + j - 1] /\ ~IsBlank(t[m + i - 1])
    BY <1>4
  <2>2. m + i - 1 \in 1..Len(t) /\ m + j - 1 \in 1..Len(t)
    BY <1>4, <1>0
  <2>3. m + i - 1 = m + j - 1
    BY <2>1, <2>2, <1>7, <1>0 DEF Once
  <2> QED BY <2>3
<1>8. \A c : c \in Chars(s) <=> /\ c # Blank /\ c # Newline
                                /\ \E i \in m..n : t[i] = c
  BY <1>3, <1>6
<1> QED BY <1>2, <1>7, <1>8 DEF s

\* The front and the back of a text, when what is between them is blank.
LEMMA CutIs ==
  ASSUME NEW t \in Texts, NEW a \in 0..Len(t), NEW b \in 1..(Len(t) + 1), a < b,
         \A i \in (a + 1)..(b - 1) : IsBlank(t[i])
  PROVE  Halves(<<SubSeq(t, 1, a), SubSeq(t, b, Len(t))>>, t)
<1>0. Len(t) \in Nat /\ DOMAIN t = 1..Len(t)
  BY TextHas
<1> DEFINE l == SubSeq(t, 1, a)
           r == SubSeq(t, b, Len(t))
<1>1. /\ l \in Texts /\ (Once(t) => Once(l))
      /\ \A c : c \in Chars(l) <=>
           c # Blank /\ c # Newline /\ \E i \in 1..a : t[i] = c
  BY <1>0, PartIs
<1>2. /\ r \in Texts /\ (Once(t) => Once(r))
      /\ \A c : c \in Chars(r) <=>
           c # Blank /\ c # Newline /\ \E i \in b..Len(t) : t[i] = c
  BY <1>0, PartIs
<1>3. \A c : c \in Chars(t) <=>
           c # Blank /\ c # Newline /\ \E i \in 1..Len(t) : t[i] = c
  BY TextHas
<1>4. \A i \in 1..Len(t) : \/ i \in 1..a \/ i \in b..Len(t)
                           \/ i \in (a + 1)..(b - 1)
  BY <1>0
<1>5. \A i \in 1..a : i \in 1..Len(t)
  BY <1>0
<1>6. \A i \in b..Len(t) : i \in 1..Len(t)
  BY <1>0
<1>7. Chars(l) \cup Chars(r) = Chars(t)
  <2> HIDE DEF l, r
  <2>1. ASSUME NEW c \in Chars(t) PROVE c \in Chars(l) \cup Chars(r)
    <3>1. PICK i \in 1..Len(t) : t[i] = c
      BY <1>3
    <3>2. i \notin (a + 1)..(b - 1)
      BY <3>1, <1>3 DEF IsBlank
    <3> QED BY <3>1, <3>2, <1>4, <1>1, <1>2, <1>3
  <2>2. Chars(l) \subseteq Chars(t)
    BY <1>1, <1>3, <1>5
  <2>3. Chars(r) \subseteq Chars(t)
    BY <1>2, <1>3, <1>6
  <2> QED BY <2>1, <2>2, <2>3
<1>8. ASSUME Once(t) PROVE Chars(l) \cap Chars(r) = {}
  <2> HIDE DEF l, r
  <2> SUFFICES ASSUME NEW c, c \in Chars(l), c \in Chars(r) PROVE FALSE
    OBVIOUS
  <2>1. PICK i \in 1..a : t[i] = c
    BY <1>1
  <2>2. PICK j \in b..Len(t) : t[j] = c
    BY <1>2
  <2>3. ~IsBlank(t[i])
    BY <2>1, <1>1 DEF IsBlank
  <2>4. i = j
    BY <2>1, <2>2, <2>3, <1>5, <1>6, <1>8, <1>0 DEF Once
  <2> QED BY <2>1, <2>2, <2>4, <1>0
<1> HIDE DEF l, r
<1>9. Halves(<<l, r>>, t)
  BY <1>1, <1>2, <1>7, <1>8 DEF Halves
<1> QED BY <1>9 DEF l, r

\* The text without characters.
LEMMA EmptyIs ==
  <<>> \in Texts /\ Chars(<<>>) = {} /\ Once(<<>>)
BY DEF Texts, Chars, ToSet, Once

\* Stripping takes no visible character, and leaves nothing of a text without
\* one.
LEMMA StripIs ==
  ASSUME NEW t \in Texts
  PROVE  /\ Strip(t) \in Texts /\ Len(Strip(t)) <= Len(t)
         /\ Chars(Strip(t)) = Chars(t)
         /\ Once(t) => Once(Strip(t))
         /\ Strip(t) = <<>> <=> Chars(t) = {}
<1> DEFINE ink == {i \in DOMAIN t : ~IsBlank(t[i])}
<1>0. /\ Len(t) \in Nat /\ DOMAIN t = 1..Len(t)
      /\ \A i \in 1..Len(t) : t[i] \in Int
      /\ \A c : c \in Chars(t) <=>
           c # Blank /\ c # Newline /\ \E i \in 1..Len(t) : t[i] = c
  BY TextHas
<1>1. ink = {} <=> Chars(t) = {}
  BY <1>0 DEF IsBlank
<1>2. CASE ink = {}
  <2>1. Strip(t) = <<>>
    BY <1>2 DEF Strip
  <2>2. Len(<<>>) = 0 /\ 0 <= Len(t)
    BY <1>0
  <2> QED BY <2>1, <2>2, <1>1, <1>2, EmptyIs
<1>3. CASE ink # {}
  <2> DEFINE m == Min(ink)
             n == Max(ink)
             s == SubSeq(t, m, n)
  <2>1. Strip(t) = s
    BY <1>3 DEF Strip
  <2>2. m \in ink /\ \A j \in ink : m <= j
    <3>1. ink \subseteq Nat
      BY <1>0
    <3> HIDE DEF ink
    <3> QED BY <1>3, <3>1, MinIs
  <2>3. n \in ink /\ \A j \in ink : n >= j
    <3>1. ink \subseteq 0..Len(t)
      BY <1>0
    <3> HIDE DEF ink
    <3> QED BY <1>0, <1>3, <3>1, MaxIs
  <2>4. m \in 1..Len(t) /\ n \in 1..Len(t) /\ m <= n
    BY <2>2, <2>3, <1>0
  <2>5. ink \subseteq m..n
    BY <2>2, <2>3, <2>4, <1>0
  <2> HIDE DEF m, n
  <2>6. /\ s \in Texts /\ Len(s) = n - m + 1 /\ (Once(t) => Once(s))
        /\ \A c : c \in Chars(s) <=>
             c # Blank /\ c # Newline /\ \E i \in m..n : t[i] = c
    BY <2>4, <1>0, PartIs
  <2> HIDE DEF s
  <2>7. Chars(s) = Chars(t)
    <3>1. ASSUME NEW c \in Chars(t) PROVE c \in Chars(s)
      <4>1. PICK i \in 1..Len(t) : t[i] = c
        BY <1>0
      <4>2. i \in ink
        BY <4>1, <1>0 DEF IsBlank
      <4> HIDE DEF ink
      <4> QED BY <4>1, <4>2, <2>5, <2>6, <1>0
    <3>2. \A i \in m..n : i \in 1..Len(t)
      BY <2>4, <1>0
    <3> QED BY <3>1, <3>2, <2>6, <1>0
  <2>8. Len(s) <= Len(t) /\ Len(s) # 0
    BY <2>4, <2>6, <1>0
  <2>9. s # <<>>
    BY <2>8
  <2> QED BY <2>1, <2>6, <2>7, <2>8, <2>9, <1>1, <1>3
<1> QED BY <1>2, <1>3

\* Two texts one after the other.
LEMMA ConcatIs ==
  ASSUME NEW s \in Texts, NEW t \in Texts
  PROVE  /\ s \o t \in Texts /\ Len(s \o t) = Len(s) + Len(t)
         /\ Chars(s \o t) = Chars(s) \cup Chars(t)
         /\ Once(s) /\ Once(t) /\ Chars(s) \cap Chars(t) = {} => Once(s \o t)
<1> DEFINE u == s \o t
<1>1. /\ u \in Texts /\ Len(u) = Len(s) + Len(t)
      /\ \A i \in 1..(Len(s) + Len(t)) :
           u[i] = IF i <= Len(s) THEN s[i] ELSE t[i - Len(s)]
  BY ConcatProperties DEF Texts
<1> HIDE DEF u
<1>2. /\ Len(s) \in Nat /\ DOMAIN s = 1..Len(s)
      /\ \A c : c \in Chars(s) <=>
           c # Blank /\ c # Newline /\ \E i \in 1..Len(s) : s[i] = c
  BY TextHas
<1>3. /\ Len(t) \in Nat /\ DOMAIN t = 1..Len(t)
      /\ \A c : c \in Chars(t) <=>
           c # Blank /\ c # Newline /\ \E i \in 1..Len(t) : t[i] = c
  BY TextHas
<1>4. /\ Len(u) \in Nat /\ DOMAIN u = 1..Len(u)
      /\ \A c : c \in Chars(u) <=>
           c # Blank /\ c # Newline /\ \E i \in 1..Len(u) : u[i] = c
  BY <1>1, TextHas
<1>5. \A i \in 1..Len(s) : i \in 1..Len(u) /\ u[i] = s[i]
  BY <1>1, <1>2, <1>3
<1>6. \A i \in 1..Len(t) : Len(s) + i \in 1..Len(u) /\ u[Len(s) + i] = t[i]
  <2> TAKE i \in 1..Len(t)
  <2>1. /\ Len(s) + i \in 1..(Len(s) + Len(t)) /\ ~(Len(s) + i <= Len(s))
        /\ (Len(s) + i) - Len(s) = i
    BY <1>2, <1>3
  <2> QED BY <2>1, <1>1
<1>7. \A i \in 1..Len(u) : \/ i \in 1..Len(s) /\ u[i] = s[i]
                           \/ i - Len(s) \in 1..Len(t) /\ u[i] = t[i - Len(s)]
  BY <1>1, <1>2, <1>3
<1>8. Chars(u) = Chars(s) \cup Chars(t)
  <2>1. Chars(u) \subseteq Chars(s) \cup Chars(t)
    BY <1>2, <1>3, <1>4, <1>7
  <2>2. Chars(s) \subseteq Chars(u)
    BY <1>2, <1>4, <1>5
  <2>3. Chars(t) \subseteq Chars(u)
    BY <1>3, <1>4, <1>6
  <2> QED BY <2>1, <2>2, <2>3
<1>9. ASSUME Once(s), Once(t), Chars(s) \cap Chars(t) = {} PROVE Once(u)
  <2> SUFFICES ASSUME NEW i \in 1..Len(u), NEW j \in 1..Len(u), u[i] = u[j],
                      ~IsBlank(u[i])
               PROVE  i = j
    BY <1>4 DEF Once
  <2>1. CASE i \in 1..Len(s) /\ u[i] = s[i] /\ j \in 1..Len(s) /\ u[j] = s[j]
    BY <2>1, <1>2, <1>9 DEF Once
  <2>2. CASE /\ i - Len(s) \in 1..Len(t) /\ u[i] = t[i - Len(s)]
             /\ j - Len(s) \in 1..Len(t) /\ u[j] = t[j - Len(s)]
    <3>1. i - Len(s) = j - Len(s)
      BY <2>2, <1>3, <1>9 DEF Once
    <3> QED BY <3>1, <1>2, <1>4
  <2>3. u[i] # Blank /\ u[i] # Newline
    BY DEF IsBlank
  <2>4. CASE /\ i \in 1..Len(s) /\ u[i] = s[i]
             /\ j - Len(s) \in 1..Len(t) /\ u[j] = t[j - Len(s)]
    <3>1. u[i] \in Chars(s) /\ u[i] \in Chars(t)
      BY <2>3, <2>4, <1>2, <1>3
    <3> QED BY <3>1, <1>9
  <2>5. CASE /\ j \in 1..Len(s) /\ u[j] = s[j]
             /\ i - Len(s) \in 1..Len(t) /\ u[i] = t[i - Len(s)]
    <3>1. u[i] \in Chars(s) /\ u[i] \in Chars(t)
      BY <2>3, <2>5, <1>2, <1>3
    <3> QED BY <3>1, <1>9
  <2> QED BY <1>7, <2>1, <2>2, <2>4, <2>5
<1> QED BY <1>1, <1>8, <1>9 DEF u

\* One more character.
LEMMA OneIs ==
  ASSUME NEW c \in Int
  PROVE  /\ <<c>> \in Texts /\ Len(<<c>>) = 1 /\ Once(<<c>>)
         /\ Chars(<<c>>) = {c} \ {Blank, Newline}
<1>1. <<c>> \in Texts /\ Len(<<c>>) = 1 /\ DOMAIN <<c>> = 1..1 /\ <<c>>[1] = c
  BY DEF Texts
<1>2. Once(<<c>>)
  BY <1>1 DEF Once
<1>3. \A x : x \in Chars(<<c>>) <=>
           x # Blank /\ x # Newline /\ \E i \in 1..1 : <<c>>[i] = x
  BY <1>1, TextHas
<1> QED BY <1>1, <1>2, <1>3

\* A text more, and more texts.
LEMMA LongerIs ==
  ASSUME NEW ts \in Seq(Texts), NEW t \in Texts
  PROVE  /\ Append(ts, t) \in Seq(Texts) /\ Len(Append(ts, t)) = Len(ts) + 1
         /\ Append(ts, t) # <<>>
         /\ \A i \in 1..Len(Append(ts, t)) :
              \/ i \in 1..Len(ts) /\ Append(ts, t)[i] = ts[i]
              \/ i = Len(ts) + 1 /\ Append(ts, t)[i] = t
         /\ Ink(Append(ts, t)) = Ink(ts) \cup Chars(t)
         /\ Apart(ts) /\ Once(t) /\ Ink(ts) \cap Chars(t) = {} =>
              Apart(Append(ts, t))
<1> DEFINE us == Append(ts, t)
<1>1. /\ us \in Seq(Texts) /\ Len(us) = Len(ts) + 1 /\ Len(ts) \in Nat
      /\ DOMAIN us = 1..(Len(ts) + 1) /\ DOMAIN ts = 1..Len(ts)
      /\ \A i \in 1..Len(ts) : us[i] = ts[i]
      /\ us[Len(ts) + 1] = t
  OBVIOUS
<1> HIDE DEF us
<1>2. us # <<>>
  BY <1>1
<1>3. \A i \in DOMAIN us : \/ i \in DOMAIN ts /\ us[i] = ts[i]
                           \/ i = Len(ts) + 1 /\ us[i] = t
  BY <1>1
<1>4. \A i \in DOMAIN ts : i \in DOMAIN us /\ us[i] = ts[i] /\ i # Len(ts) + 1
  BY <1>1
<1>5. Len(ts) + 1 \in DOMAIN us
  BY <1>1
<1>6. Ink(us) = Ink(ts) \cup Chars(t)
  <2>1. Ink(us) \subseteq Ink(ts) \cup Chars(t)
    BY <1>3 DEF Ink
  <2>2. Ink(ts) \subseteq Ink(us)
    BY <1>4 DEF Ink
  <2>3. Chars(t) \subseteq Ink(us)
    BY <1>5, <1>1 DEF Ink
  <2> QED BY <2>1, <2>2, <2>3
<1>7. ASSUME Apart(ts), Once(t), Ink(ts) \cap Chars(t) = {} PROVE Apart(us)
  <2>1. \A i \in DOMAIN us : Once(us[i])
    BY <1>3, <1>7 DEF Apart
  <2>2. ASSUME NEW i \in DOMAIN us, NEW j \in DOMAIN us, i # j
        PROVE  Chars(us[i]) \cap Chars(us[j]) = {}
    <3>1. CASE i \in DOMAIN ts /\ us[i] = ts[i] /\ j \in DOMAIN ts /\ us[j] = ts[j]
      BY <2>2, <3>1, <1>7 DEF Apart
    <3>2. CASE i \in DOMAIN ts /\ us[i] = ts[i] /\ us[j] = t
      <4>1. Chars(us[i]) \subseteq Ink(ts)
        BY <3>2 DEF Ink
      <4> QED BY <3>2, <4>1, <1>7
    <3>3. CASE j \in DOMAIN ts /\ us[j] = ts[j] /\ us[i] = t
      <4>1. Chars(us[j]) \subseteq Ink(ts)
        BY <3>3 DEF Ink
      <4> QED BY <3>3, <4>1, <1>7
    <3> QED BY <1>3, <2>2, <3>1, <3>2, <3>3
  <2> QED BY <2>1, <2>2 DEF Apart
<1> QED BY <1>1, <1>2, <1>3, <1>6, <1>7 DEF us

\* Two sequences of texts put together.
LEMMA JoinedIs ==
  ASSUME NEW ts \in Seq(Texts), NEW us \in Seq(Texts)
  PROVE  /\ ts \o us \in Seq(Texts)
         /\ Ink(ts \o us) = Ink(ts) \cup Ink(us)
         /\ Apart(ts) /\ Apart(us) /\ Ink(ts) \cap Ink(us) = {} =>
              Apart(ts \o us)
<1> DEFINE vs == ts \o us
<1>1. /\ vs \in Seq(Texts) /\ Len(vs) = Len(ts) + Len(us)
      /\ \A i \in 1..(Len(ts) + Len(us)) :
           vs[i] = IF i <= Len(ts) THEN ts[i] ELSE us[i - Len(ts)]
  BY ConcatProperties
<1> HIDE DEF vs
<1>2. /\ Len(ts) \in Nat /\ Len(us) \in Nat /\ DOMAIN ts = 1..Len(ts)
      /\ DOMAIN us = 1..Len(us) /\ DOMAIN vs = 1..Len(vs)
  BY <1>1
<1>3. \A i \in DOMAIN ts : i \in DOMAIN vs /\ vs[i] = ts[i]
  BY <1>1, <1>2
<1>4. \A i \in DOMAIN us : Len(ts) + i \in DOMAIN vs /\ vs[Len(ts) + i] = us[i]
  <2> TAKE i \in DOMAIN us
  <2>1. /\ Len(ts) + i \in 1..(Len(ts) + Len(us)) /\ ~(Len(ts) + i <= Len(ts))
        /\ (Len(ts) + i) - Len(ts) = i
    BY <1>2
  <2> QED BY <2>1, <1>1, <1>2
<1>5. \A i \in DOMAIN vs :
        \/ i \in DOMAIN ts /\ vs[i] = ts[i]
        \/ i - Len(ts) \in DOMAIN us /\ vs[i] = us[i - Len(ts)]
  BY <1>1, <1>2
<1>6. Ink(vs) = Ink(ts) \cup Ink(us)
  <2>1. Ink(vs) \subseteq Ink(ts) \cup Ink(us)
    <3> SUFFICES ASSUME NEW i \in DOMAIN vs
                 PROVE  Chars(vs[i]) \subseteq Ink(ts) \cup Ink(us)
      BY DEF Ink
    <3> QED BY <1>5 DEF Ink
  <2>2. Ink(ts) \subseteq Ink(vs)
    BY <1>3 DEF Ink
  <2>3. Ink(us) \subseteq Ink(vs)
    BY <1>4 DEF Ink
  <2> QED BY <2>1, <2>2, <2>3
<1>7. ASSUME Apart(ts), Apart(us), Ink(ts) \cap Ink(us) = {} PROVE Apart(vs)
  <2>1. \A i \in DOMAIN vs : Once(vs[i])
    BY <1>5, <1>7 DEF Apart
  <2>2. ASSUME NEW i \in DOMAIN vs, NEW j \in DOMAIN vs, i # j
        PROVE  Chars(vs[i]) \cap Chars(vs[j]) = {}
    <3> DEFINE Left(n) == n \in DOMAIN ts /\ vs[n] = ts[n]
               Right(n) == n - Len(ts) \in DOMAIN us /\ vs[n] = us[n - Len(ts)]
    <3>1. \A n \in DOMAIN vs : /\ Left(n) => Chars(vs[n]) \subseteq Ink(ts)
                               /\ Right(n) => Chars(vs[n]) \subseteq Ink(us)
      BY DEF Ink
    <3>2. CASE Left(i) /\ Left(j)
      BY <2>2, <3>2, <1>7 DEF Apart
    <3>3. CASE Right(i) /\ Right(j)
      <4>1. i - Len(ts) # j - Len(ts)
        BY <2>2, <1>2
      <4> QED BY <4>1, <3>3, <1>7 DEF Apart
    <3> HIDE DEF Left, Right
    <3>4. CASE Left(i) /\ Right(j)
      BY <3>4, <3>1, <1>7
    <3>5. CASE Right(i) /\ Left(j)
      BY <3>5, <3>1, <1>7
    <3>6. \A n \in DOMAIN vs : Left(n) \/ Right(n)
      BY <1>5 DEF Left, Right
    <3> QED BY <3>2, <3>3, <3>4, <3>5, <3>6
  <2> QED BY <2>1, <2>2 DEF Apart
<1> QED BY <1>1, <1>6, <1>7 DEF vs

-----------------------------------------------------------------------------
(* A text cut in two.                                                      *)

\* Stripped halves are halves.
LEMMA StrippedHalves ==
  ASSUME NEW t \in Texts, NEW l, NEW r, Halves(<<l, r>>, t)
  PROVE  Halves(<<Strip(l), Strip(r)>>, t) /\ Trimmed(<<Strip(l), Strip(r)>>)
<1>1. /\ l \in Texts /\ r \in Texts /\ Chars(l) \cup Chars(r) = Chars(t)
      /\ Once(t) => Once(l) /\ Once(r) /\ Chars(l) \cap Chars(r) = {}
  BY DEF Halves
<1>2. Strip(l) \in Texts /\ Chars(Strip(l)) = Chars(l) /\ (Once(l) => Once(Strip(l)))
  BY <1>1, StripIs
<1>3. Strip(r) \in Texts /\ Chars(Strip(r)) = Chars(r) /\ (Once(r) => Once(Strip(r)))
  BY <1>1, StripIs
<1>4. Halves(<<Strip(l), Strip(r)>>, t)
  BY <1>1, <1>2, <1>3 DEF Halves
<1>5. /\ Strip(l) # <<>> => Chars(Strip(l)) # {}
      /\ Strip(r) # <<>> => Chars(Strip(r)) # {}
  BY <1>1, <1>2, <1>3, StripIs
<1>6. Trimmed(<<Strip(l), Strip(r)>>)
  BY <1>5 DEF Trimmed
<1> QED BY <1>4, <1>6

\* Cut at a joint: what goes with the joint is newlines.  Without a joint there
\* is nothing.
LEMMA JoinedPartsAre ==
  ASSUME NEW t \in Texts, NEW sep \in {Break, <<Newline>>}, NEW mid \in Int
  PROVE  \/ SplitJoinedParts(t, sep, mid) = Nothing
         \/ /\ Halves(SplitJoinedParts(t, sep, mid), t)
            /\ Trimmed(SplitJoinedParts(t, sep, mid))
<1> DEFINE past(i) == i - 1 + Len(sep)
           off(i)  == IF past(i) > mid THEN past(i) - mid ELSE mid - past(i)
           best    == CHOOSE i \in Joints(t, sep) :
                        \A j \in Joints(t, sep) :
                          off(i) < off(j) \/ (off(i) = off(j) /\ i <= j)
<1>0. Len(t) \in Nat /\ DOMAIN t = 1..Len(t) /\ \A i \in 1..Len(t) : t[i] \in Int
  BY TextHas
<1>1. /\ Len(sep) \in 1..2 /\ \A i \in 1..Len(sep) : sep[i] = Newline
  BY DEF Break
<1>2. \A i \in Joints(t, sep) : /\ i \in 1..(Len(t) - Len(sep) + 1)
                                /\ SubSeq(t, i, i + Len(sep) - 1) = sep
  BY DEF Joints
<1>3. \A i \in Joints(t, sep) : i \in Nat /\ past(i) \in Nat /\ off(i) \in Nat
  <2> TAKE i \in Joints(t, sep)
  <2>1. i \in 1..(Len(t) - Len(sep) + 1)
    BY <1>2
  <2> QED BY <2>1, <1>0, <1>1
<1>4. CASE Joints(t, sep) = {}
  BY <1>4 DEF SplitJoinedParts
<1>5. CASE Joints(t, sep) # {}
  <2>1. \E i \in Joints(t, sep) : \A j \in Joints(t, sep) :
          off(i) < off(j) \/ (off(i) = off(j) /\ i <= j)
    <3> DEFINE D == {off(i) : i \in Joints(t, sep)}
    <3>1. D \subseteq Nat /\ D # {}
      BY <1>3, <1>5
    <3>2. PICK d \in D : \A e \in D : d <= e
      <4> HIDE DEF D
      <4> QED BY <3>1, LeastOf
    <3> DEFINE I == {i \in Joints(t, sep) : off(i) = d}
    <3>3. I \subseteq Nat /\ I # {}
      BY <1>3, <3>2
    <3>4. PICK i \in I : \A j \in I : i <= j
      <4> HIDE DEF I
      <4> QED BY <3>3, LeastOf
    <3>5. ASSUME NEW j \in Joints(t, sep)
          PROVE  off(i) < off(j) \/ (off(i) = off(j) /\ i <= j)
      <4>1. off(i) <= off(j) /\ off(i) = d
        BY <3>2, <3>4
      <4>2. CASE off(j) = d
        BY <4>1, <4>2, <3>4
      <4>3. CASE off(j) # d
        <5>1. off(i) \in Nat /\ off(j) \in Nat
          BY <1>3, <3>4
        <5> HIDE DEF off
        <5> QED BY <5>1, <4>1, <4>3
      <4> QED BY <4>2, <4>3
    <3> QED BY <3>4, <3>5
  <2>2. best \in Joints(t, sep)
    <3> HIDE DEF off
    <3> QED BY <2>1
  <2>3. SplitJoinedParts(t, sep, mid) =
          <<Strip(Take(t, best - 1)), Strip(Drop(t, past(best)))>>
    BY <1>5 DEF SplitJoinedParts
  <2> HIDE DEF best
  <2>4. best \in 1..(Len(t) - Len(sep) + 1) /\ SubSeq(t, best, best + Len(sep) - 1) = sep
    BY <2>2, <1>2
  <2>5. /\ best - 1 \in 0..Len(t) /\ past(best) + 1 \in 1..(Len(t) + 1)
        /\ best - 1 < past(best) + 1
    BY <2>4, <1>0, <1>1
  <2>6. ASSUME NEW i \in ((best - 1) + 1)..((past(best) + 1) - 1)
        PROVE  IsBlank(t[i])
    <3>1. /\ best \in Int /\ best + Len(sep) - 1 \in Int /\ 1 <= best
          /\ best + Len(sep) - 1 <= Len(t)
      BY <2>4, <1>0, <1>1
    <3>2. \A k \in 1..((best + Len(sep) - 1) - best + 1) :
            SubSeq(t, best, best + Len(sep) - 1)[k] = t[best + k - 1]
      BY <3>1, PartIs
    <3>3. /\ i - best + 1 \in 1..((best + Len(sep) - 1) - best + 1)
          /\ i - best + 1 \in 1..Len(sep)
          /\ best + (i - best + 1) - 1 = i
      BY <3>1, <2>4, <1>1
    <3>4. sep[i - best + 1] = t[i]
      BY <3>2, <3>3, <2>4
    <3> QED BY <3>3, <3>4, <1>1 DEF IsBlank
  <2>7. Halves(<<SubSeq(t, 1, best - 1), SubSeq(t, past(best) + 1, Len(t))>>, t)
    <3> HIDE DEF past
    <3> QED BY <2>5, <2>6, CutIs
  <2>8. Halves(<<Take(t, best - 1), Drop(t, past(best))>>, t)
    BY <2>7 DEF Take, Drop
  <2>9. /\ Halves(<<Strip(Take(t, best - 1)), Strip(Drop(t, past(best)))>>, t)
        /\ Trimmed(<<Strip(Take(t, best - 1)), Strip(Drop(t, past(best)))>>)
    <3> HIDE DEF past
    <3> QED BY <2>8, StrippedHalves
  <2> QED BY <2>3, <2>9
<1> QED BY <1>4, <1>5

\* Cut in the middle.
LEMMA TextHalfIs ==
  ASSUME NEW t \in Texts
  PROVE  Halves(SplitTextHalf(t), t) /\ Trimmed(SplitTextHalf(t))
<1> DEFINE n == Len(t) \div 2
<1>0. Len(t) \in Nat
  BY TextHas
<1>1. n \in 0..Len(t) /\ n + 1 \in 1..(Len(t) + 1) /\ n < n + 1
  BY <1>0
<1>2. \A i \in (n + 1)..((n + 1) - 1) : IsBlank(t[i])
  BY <1>1
<1>3. Halves(<<SubSeq(t, 1, n), SubSeq(t, n + 1, Len(t))>>, t)
  <2> HIDE DEF n
  <2> QED BY <1>1, <1>2, CutIs
<1>4. Halves(<<Take(t, n), Drop(t, n)>>, t)
  BY <1>3 DEF Take, Drop
<1>5. /\ Halves(<<Strip(Take(t, n)), Strip(Drop(t, n))>>, t)
      /\ Trimmed(<<Strip(Take(t, n)), Strip(Drop(t, n))>>)
  <2> HIDE DEF n
  <2> QED BY <1>4, StrippedHalves
<1> QED BY <1>5 DEF SplitTextHalf

\* However a text is cut in two, when there are two halves nothing of it is in
\* neither, and nothing in both.
LEMMA BatchTextIs ==
  ASSUME NEW text \in Texts, Whole(SplitBatchText(text))
  PROVE  /\ Halves(SplitBatchText(text), text)
         /\ \A i \in 1..2 : Chars(SplitBatchText(text)[i]) # {}
<1> DEFINE t == Strip(text)
           byBreak == SplitJoinedParts(t, Break, Len(t) \div 2)
           byLine  == SplitJoinedParts(t, <<Newline>>, Len(t) \div 2)
<1>1. t \in Texts /\ Chars(t) = Chars(text) /\ (Once(text) => Once(t))
  BY StripIs
<1>2. Len(t) \div 2 \in Int
  <2> HIDE DEF t
  <2>1. Len(t) \in Nat
    BY <1>1, TextHas
  <2> QED BY <2>1
<1>3. SplitBatchText(text) = IF Whole(byBreak) THEN byBreak
                             ELSE IF Whole(byLine) THEN byLine ELSE SplitTextHalf(t)
  BY DEF SplitBatchText
<1>4. ~Whole(Nothing)
  BY DEF Whole, Nothing
<1>5. byBreak = Nothing \/ (Halves(byBreak, t) /\ Trimmed(byBreak))
  <2> HIDE DEF t
  <2> QED BY <1>1, <1>2, JoinedPartsAre
<1>6. byLine = Nothing \/ (Halves(byLine, t) /\ Trimmed(byLine))
  <2> HIDE DEF t
  <2> QED BY <1>1, <1>2, JoinedPartsAre
<1>7. Halves(SplitTextHalf(t), t) /\ Trimmed(SplitTextHalf(t))
  BY <1>1, TextHalfIs
<1> HIDE DEF t, byBreak, byLine
<1>8. Halves(SplitBatchText(text), t) /\ Trimmed(SplitBatchText(text))
  BY <1>3, <1>4, <1>5, <1>6, <1>7
<1>9. Halves(SplitBatchText(text), text)
  BY <1>8, <1>1 DEF Halves
<1>10. \A i \in 1..2 : SplitBatchText(text)[i] # <<>>
  BY DEF Whole
<1> QED BY <1>8, <1>9, <1>10 DEF Trimmed

-----------------------------------------------------------------------------
(* Loops.  FoldLeft is a function over the sets of places, of which it is  *)
(* to be shown that there is one; the loop is then its values at the       *)
(* first k places.                                                         *)

\* The last of the first k places.
LEMMA MaxOfFirst ==
  ASSUME NEW k \in Nat \ {0}
  PROVE  Max(1..k) = k /\ (1..k) \ {k} = 1..(k - 1) /\ 1..k # {}
<1>1. k \in Nat /\ 1..k \subseteq 0..k /\ k \in 1..k /\ 1..k # {}
  OBVIOUS
<1>2. Max(1..k) \in 1..k /\ \A j \in 1..k : Max(1..k) >= j
  <2> DEFINE T == 1..k
  <2>1. T \subseteq 0..k /\ T # {} /\ k \in Nat
    BY <1>1
  <2> HIDE DEF T
  <2>2. Max(T) \in T /\ \A j \in T : Max(T) >= j
    BY <2>1, MaxIs
  <2> QED BY <2>2 DEF T
<1>3. Max(1..k) = k
  BY <1>1, <1>2
<1> QED BY <1>1, <1>3

\* iter folds f over every set of the first k places.
Folded(iter, k, base, f) ==
  iter = [u \in SUBSET (1..k) |->
            IF u = {} THEN base ELSE f[<<iter[u \ {Max(u)}], Max(u)>>]]

\* There is a function that folds f over every set of the first n places: the
\* least number of places without one would have it by one step more.
LEMMA FoldExists ==
  ASSUME NEW S, NEW n \in Nat, NEW base \in S, NEW f \in [S \X (1..n) -> S]
  PROVE  \E iter \in [SUBSET (1..n) -> S] : Folded(iter, n, base, f)
<1> DEFINE Good(k) == \E iter \in [SUBSET (1..k) -> S] : Folded(iter, k, base, f)
           Bad == {k \in 0..n : ~Good(k)}
<1> SUFFICES ASSUME Bad # {} PROVE FALSE
  <2>1. n \in 0..n
    OBVIOUS
  <2> QED BY <2>1
<1>1. PICK k \in Bad : \A j \in Bad : k <= j
  <2>1. Bad \subseteq Nat
    OBVIOUS
  <2> HIDE DEF Bad
  <2> QED BY <2>1, LeastOf
<1>2. CASE k = 0
  <2> DEFINE e == [u \in SUBSET (1..0) |-> base]
  <2>1. e \in [SUBSET (1..0) -> S]
    OBVIOUS
  <2>2. \A u \in SUBSET (1..0) : u = {}
    OBVIOUS
  <2>3. Folded(e, 0, base, f)
    BY <2>2 DEF Folded
  <2> QED BY <1>1, <1>2, <2>1, <2>3
<1>3. CASE k # 0
  <2>1. k - 1 \in 0..n /\ k \in 1..n /\ ~(k <= k - 1) /\ k \in Nat
    BY <1>1, <1>3
  <2>2. Good(k - 1)
    BY <1>1, <2>1
  <2>3. PICK iter \in [SUBSET (1..(k - 1)) -> S] : Folded(iter, k - 1, base, f)
    BY <2>2
  <2> DEFINE e == [u \in SUBSET (1..k) |->
                     IF k \in u THEN f[<<iter[u \ {k}], k>>] ELSE iter[u]]
  <2>4. \A u \in SUBSET (1..k) : u \ {k} \in SUBSET (1..(k - 1))
    BY <2>1
  <2>5. \A u \in SUBSET (1..k) : k \notin u => u \in SUBSET (1..(k - 1))
    BY <2>4
  <2>6. \A u \in SUBSET (1..(k - 1)) : u \in SUBSET (1..k) /\ k \notin u
    BY <2>1
  <2>7. e \in [SUBSET (1..k) -> S]
    <3> SUFFICES ASSUME NEW u \in SUBSET (1..k) PROVE e[u] \in S
      OBVIOUS
    <3>1. CASE k \in u
      <4>1. iter[u \ {k}] \in S
        BY <2>3, <2>4
      <4>2. <<iter[u \ {k}], k>> \in S \X (1..n)
        BY <4>1, <2>1
      <4> QED BY <3>1, <4>2
    <3>2. CASE k \notin u
      BY <3>2, <2>3, <2>5
    <3> QED BY <3>1, <3>2
  <2>8. ASSUME NEW u \in SUBSET (1..k)
        PROVE  e[u] = IF u = {} THEN base ELSE f[<<e[u \ {Max(u)}], Max(u)>>]
    <3>1. CASE k \in u
      <4>1. Max(u) = k
        <5>1. u \subseteq 0..k /\ u # {} /\ k \in Nat
          BY <3>1, <2>1
        <5>2. Max(u) \in u /\ Max(u) >= k
          BY <3>1, <5>1, MaxIs
        <5>3. Max(u) \in 1..k
          BY <5>2
        <5> QED BY <5>2, <5>3, <2>1
      <4>2. e[u \ {k}] = iter[u \ {k}]
        BY <2>4, <2>6
      <4>3. e[u] = f[<<iter[u \ {k}], k>>] /\ u # {}
        BY <3>1
      <4> HIDE DEF e
      <4> QED BY <4>1, <4>2, <4>3
    <3>2. CASE k \notin u
      <4>1. u \in SUBSET (1..(k - 1)) /\ e[u] = iter[u]
        BY <3>2, <2>5
      <4>2. e[u \ {Max(u)}] = iter[u \ {Max(u)}]
        <5>1. u \ {Max(u)} \in SUBSET (1..(k - 1))
          BY <4>1
        <5> QED BY <5>1, <2>6
      <4>3. iter[u] = IF u = {} THEN base ELSE f[<<iter[u \ {Max(u)}], Max(u)>>]
        BY <4>1, <2>3 DEF Folded
      <4> HIDE DEF e
      <4> QED BY <4>1, <4>2, <4>3
    <3> QED BY <3>1, <3>2
  <2>9. e = [u \in SUBSET (1..k) |-> e[u]]
    OBVIOUS
  <2> HIDE DEF e
  <2>10. Folded(e, k, base, f)
    BY <2>8, <2>9 DEF Folded
  <2> QED BY <1>1, <2>7, <2>10
<1> QED BY <1>2, <1>3

\* The last of some places.
LEMMA MaxOfSome ==
  ASSUME NEW n \in Nat, NEW u \in SUBSET (1..n), u # {}
  PROVE  Max(u) \in u /\ Max(u) \in 1..n
<1>1. u \subseteq 0..n
  OBVIOUS
<1>2. Max(u) \in u
  BY <1>1, MaxIs
<1> QED BY <1>2

-----------------------------------------------------------------------------
(* A text cut into pieces.                                                 *)

\* Every cut takes a character at least, and no more than there are.
LEMMA PieceEndIs ==
  ASSUME NEW t \in Texts, t # <<>>
  PROVE  PieceEnd(t) \in 1..Len(t)
<1>0. Len(t) \in Nat /\ Len(t) # 0 /\ MaxChars \in Nat /\ MaxChars >= 3
  BY ChunkingAssumption DEF Texts
<1>1. CASE Len(t) <= MaxChars
  BY <1>0, <1>1 DEF PieceEnd
<1>2. CASE ~(Len(t) <= MaxChars)
  <2> DEFINE w == Take(t, MaxChars)
  <2>1. PieceEnd(t) = Cut(w)
    BY <1>2 DEF PieceEnd
  <2>2. w \in Texts /\ Len(w) = MaxChars /\ DOMAIN w = 1..MaxChars
    <3>1. w \in Texts /\ Len(w) = MaxChars
      BY <1>0, <1>2, PartIs DEF Take
    <3> QED BY <3>1, TextHas
  <2> HIDE DEF w
  <2>3. ASSUME NEW c PROVE RFind(w, c) \in 0..MaxChars
    <3> DEFINE at == {0} \cup {i \in DOMAIN w : w[i] = c}
    <3>1. at \subseteq 0..MaxChars /\ at # {}
      BY <2>2, <1>0
    <3>2. RFind(w, c) = Max(at)
      BY DEF RFind
    <3> HIDE DEF at
    <3>3. Max(at) \in at
      BY <3>1, <1>0, MaxIs
    <3> QED BY <3>1, <3>2, <3>3
  <2> DEFINE line == RFind(w, Newline) - 1
             word == RFind(w, Blank) - 1
             third == MaxChars \div 3
  <2>4. Cut(w) = IF line >= third THEN line ELSE IF word >= third THEN word ELSE MaxChars
    BY DEF Cut
  <2>5. line \in Int /\ line <= MaxChars /\ word \in Int /\ word <= MaxChars
    BY <2>3, <1>0
  <2>6. third \in Int /\ third >= 1
    BY <1>0
  <2> HIDE DEF line, word, third
  <2>7. Cut(w) \in 1..MaxChars
    BY <2>4, <2>5, <2>6, <1>0
  <2> QED BY <2>1, <2>7, <1>0, <1>2
<1> QED BY <1>1, <1>2

\* A recursion on texts that get shorter.
Chopped(p, S, hd, tl) ==
  p = [t \in S |-> IF t = <<>> THEN <<>> ELSE hd[t] \o p[tl[t]]]

Shrinks(tl) == \A t \in Texts : t # <<>> => Len(tl[t]) < Len(t)

Short(k) == {t \in Texts : Len(t) <= k}

\* Two such recursions on short texts agree where both are defined.
LEMMA ChoppedAgree ==
  ASSUME NEW hd, NEW tl \in [Texts -> Texts], Shrinks(tl),
         NEW k \in Nat, NEW p, Chopped(p, Short(k), hd, tl),
         NEW l \in Nat, NEW q, Chopped(q, Short(l), hd, tl)
  PROVE  \A t \in Texts : Len(t) <= k /\ Len(t) <= l => p[t] = q[t]
<1> DEFINE Bad == {n \in Nat : \E t \in Texts : /\ Len(t) = n /\ n <= k /\ n <= l
                                               /\ p[t] # q[t]}
<1>1. ASSUME Bad # {} PROVE FALSE
  <2>1. PICK n \in Bad : \A m \in Bad : n <= m
    <3>1. Bad \subseteq Nat
      OBVIOUS
    <3> HIDE DEF Bad
    <3> QED BY <1>1, <3>1, LeastOf
  <2>2. PICK t \in Texts : Len(t) = n /\ n <= k /\ n <= l /\ p[t] # q[t]
    BY <2>1
  <2>3. t \in Short(k) /\ t \in Short(l)
    BY <2>2 DEF Short
  <2>4. /\ p[t] = IF t = <<>> THEN <<>> ELSE hd[t] \o p[tl[t]]
        /\ q[t] = IF t = <<>> THEN <<>> ELSE hd[t] \o q[tl[t]]
    BY <2>3 DEF Chopped
  <2>5. t # <<>> /\ p[tl[t]] # q[tl[t]]
    BY <2>2, <2>4
  <2>6. tl[t] \in Texts /\ Len(tl[t]) < n /\ Len(tl[t]) \in Nat /\ n \in Nat
    <3>1. tl[t] \in Texts
      OBVIOUS
    <3> QED BY <3>1, <2>2, <2>5, TextHas DEF Shrinks
  <2>7. Len(tl[t]) \in Bad
    BY <2>2, <2>5, <2>6
  <2>8. n <= Len(tl[t])
    <3> HIDE DEF Bad
    <3> QED BY <2>1, <2>7
  <2> QED BY <2>6, <2>8
<1>2. ASSUME NEW t \in Texts, Len(t) <= k, Len(t) <= l, p[t] # q[t] PROVE FALSE
  <2>1. Len(t) \in Bad
    BY <1>2, TextHas
  <2> QED BY <2>1, <1>1
<1> QED BY <1>2

\* There is one on all texts: its value at a text is that of the recursion on
\* the texts up to its length.
LEMMA ChoppedExist ==
  ASSUME NEW hd \in [Texts -> Seq(Texts)], NEW tl \in [Texts -> Texts], Shrinks(tl)
  PROVE  \E p \in [Texts -> Seq(Texts)] : Chopped(p, Texts, hd, tl)
<1> DEFINE Good(k, p) == p \in [Short(k) -> Seq(Texts)] /\ Chopped(p, Short(k), hd, tl)
           Bad == {k \in Nat : ~\E p : Good(k, p)}
<1>1. ASSUME Bad # {} PROVE FALSE
  <2>1. PICK k \in Bad : \A j \in Bad : k <= j
    <3>1. Bad \subseteq Nat
      OBVIOUS
    <3> HIDE DEF Bad
    <3> QED BY <1>1, <3>1, LeastOf
  <2>2. CASE k = 0
    <3> DEFINE e == [t \in Short(0) |-> <<>>]
    <3>1. \A t \in Short(0) : t = <<>>
      BY DEF Short, Texts
    <3>2. e \in [Short(0) -> Seq(Texts)]
      OBVIOUS
    <3>3. Chopped(e, Short(0), hd, tl)
      BY <3>1 DEF Chopped
    <3> QED BY <2>1, <2>2, <3>2, <3>3
  <2>3. CASE k # 0
    <3>1. k - 1 \in Nat /\ ~(k <= k - 1) /\ k \in Nat
      BY <2>1, <2>3
    <3>2. PICK p : Good(k - 1, p)
      BY <2>1, <3>1
    <3> DEFINE e == [t \in Short(k) |->
                       IF t = <<>> THEN <<>> ELSE hd[t] \o p[tl[t]]]
    <3>3. ASSUME NEW t \in Short(k), t # <<>>
          PROVE  tl[t] \in Short(k - 1) /\ tl[t] \in Short(k)
      <4>1. t \in Texts /\ Len(t) <= k /\ Len(t) \in Nat
        BY TextHas DEF Short
      <4>2. tl[t] \in Texts /\ Len(tl[t]) < Len(t)
        BY <3>3, <4>1 DEF Shrinks
      <4>3. Len(tl[t]) \in Nat
        BY <4>2, TextHas
      <4> QED BY <4>1, <4>2, <4>3, <3>1 DEF Short
    <3>4. e \in [Short(k) -> Seq(Texts)]
      <4> SUFFICES ASSUME NEW t \in Short(k) PROVE e[t] \in Seq(Texts)
        OBVIOUS
      <4>1. CASE t = <<>>
        BY <4>1
      <4>2. CASE t # <<>>
        <5>1. p[tl[t]] \in Seq(Texts)
          BY <3>2, <3>3, <4>2
        <5>2. hd[t] \in Seq(Texts)
          BY DEF Short
        <5>3. hd[t] \o p[tl[t]] \in Seq(Texts)
          BY <5>1, <5>2, ConcatProperties
        <5> QED BY <4>2, <5>3
      <4> QED BY <4>1, <4>2
    <3>5. ASSUME NEW t \in Short(k - 1)
          PROVE  p[t] = IF t = <<>> THEN <<>> ELSE hd[t] \o p[tl[t]]
      BY <3>2 DEF Chopped
    <3>6. ASSUME NEW t \in Short(k - 1) PROVE t \in Short(k) /\ e[t] = p[t]
      <4>1. t \in Short(k)
        BY TextHas, <3>1 DEF Short
      <4> QED BY <4>1, <3>5
    <3>7. ASSUME NEW t \in Short(k)
          PROVE  e[t] = IF t = <<>> THEN <<>> ELSE hd[t] \o e[tl[t]]
      <4>1. CASE t = <<>>
        BY <4>1
      <4>2. CASE t # <<>>
        <5>1. e[tl[t]] = p[tl[t]]
          BY <3>3, <3>6, <4>2
        <5>2. e[t] = hd[t] \o p[tl[t]]
          BY <4>2
        <5> HIDE DEF e
        <5> QED BY <4>2, <5>1, <5>2
      <4> QED BY <4>1, <4>2
    <3>8. e = [t \in Short(k) |-> e[t]]
      OBVIOUS
    <3> HIDE DEF e
    <3>9. Chopped(e, Short(k), hd, tl)
      BY <3>7, <3>8 DEF Chopped
    <3> QED BY <2>1, <3>4, <3>9
  <2> QED BY <2>2, <2>3
<1> DEFINE g(k) == CHOOSE p : Good(k, p)
           all == [t \in Texts |-> g(Len(t))[t]]
<1>2. ASSUME NEW k \in Nat PROVE Good(k, g(k))
  <2>1. \E p : Good(k, p)
    BY <1>1
  <2> HIDE DEF Good
  <2> QED BY <2>1
<1> HIDE DEF g
<1>3. ASSUME NEW t \in Texts PROVE Len(t) \in Nat /\ t \in Short(Len(t))
  BY TextHas DEF Short
<1>4. all \in [Texts -> Seq(Texts)]
  <2> SUFFICES ASSUME NEW t \in Texts PROVE all[t] \in Seq(Texts)
    OBVIOUS
  <2>1. g(Len(t)) \in [Short(Len(t)) -> Seq(Texts)]
    BY <1>2, <1>3
  <2> QED BY <2>1, <1>3
<1>5. ASSUME NEW t \in Texts
      PROVE  all[t] = IF t = <<>> THEN <<>> ELSE hd[t] \o all[tl[t]]
  <2>1. all[t] = IF t = <<>> THEN <<>> ELSE hd[t] \o g(Len(t))[tl[t]]
    <3>1. Chopped(g(Len(t)), Short(Len(t)), hd, tl)
      BY <1>2, <1>3
    <3> QED BY <3>1, <1>3 DEF Chopped
  <2>2. CASE t # <<>>
    <3>1. tl[t] \in Texts /\ Len(tl[t]) < Len(t)
      BY <2>2 DEF Shrinks
    <3>2. Len(tl[t]) \in Nat /\ Len(t) \in Nat
      BY <3>1, <1>3
    <3>3. Chopped(g(Len(t)), Short(Len(t)), hd, tl)
      BY <1>2, <3>2
    <3>4. Chopped(g(Len(tl[t])), Short(Len(tl[t])), hd, tl)
      BY <1>2, <3>2
    <3>5. Len(tl[t]) <= Len(t) /\ Len(tl[t]) <= Len(tl[t])
      BY <3>1, <3>2
    <3>6. \A s \in Texts : Len(s) <= Len(t) /\ Len(s) <= Len(tl[t]) =>
                            g(Len(t))[s] = g(Len(tl[t]))[s]
      <4> DEFINE k == Len(t)
                 l == Len(tl[t])
      <4>1. k \in Nat /\ l \in Nat /\ Chopped(g(k), Short(k), hd, tl)
            /\ Chopped(g(l), Short(l), hd, tl)
        BY <3>2, <3>3, <3>4
      <4> HIDE DEF k, l
      <4>2. \A s \in Texts : Len(s) <= k /\ Len(s) <= l => g(k)[s] = g(l)[s]
        BY <4>1, ChoppedAgree
      <4> QED BY <4>2 DEF k, l
    <3>7. all[tl[t]] = g(Len(tl[t]))[tl[t]]
      BY <3>1
    <3> QED BY <2>1, <2>2, <3>1, <3>5, <3>6, <3>7
  <2> QED BY <2>1, <2>2
<1>6. all = [t \in Texts |-> all[t]]
  OBVIOUS
<1> HIDE DEF all
<1>7. Chopped(all, Texts, hd, tl)
  BY <1>5, <1>6 DEF Chopped
<1> QED BY <1>4, <1>7

FirstPiece(t) == Strip(Take(t, PieceEnd(t)))
Remainder(t)  == Strip(Drop(t, PieceEnd(t)))

\* A text is its first piece and a remainder, which is shorter.
LEMMA FirstPieceIs ==
  ASSUME NEW t \in Texts, t # <<>>
  PROVE  /\ Halves(<<FirstPiece(t), Remainder(t)>>, t)
         /\ Len(Remainder(t)) < Len(t)
<1> DEFINE n == PieceEnd(t)
<1>1. n \in 1..Len(t) /\ Len(t) \in Nat
  BY PieceEndIs, TextHas
<1> HIDE DEF n
<1>2. n \in 0..Len(t) /\ n + 1 \in 1..(Len(t) + 1) /\ n < n + 1
  BY <1>1
<1>3. \A i \in (n + 1)..((n + 1) - 1) : IsBlank(t[i])
  BY <1>1
<1>4. Halves(<<SubSeq(t, 1, n), SubSeq(t, n + 1, Len(t))>>, t)
  BY <1>2, <1>3, CutIs
<1>5. Halves(<<Strip(Take(t, n)), Strip(Drop(t, n))>>, t)
  BY <1>4, StrippedHalves DEF Take, Drop
<1>6. /\ Drop(t, n) \in Texts
      /\ Len(Drop(t, n)) = IF n + 1 <= Len(t) THEN Len(t) - (n + 1) + 1 ELSE 0
  BY <1>1, <1>2, PartIs DEF Drop
<1>7. Len(Drop(t, n)) < Len(t) /\ Len(Drop(t, n)) \in Nat
  BY <1>1, <1>6
<1>8. Strip(Drop(t, n)) \in Texts /\ Len(Strip(Drop(t, n))) <= Len(Drop(t, n))
  BY <1>6, StripIs
<1>9. Len(Strip(Drop(t, n))) < Len(t)
  <2>1. Len(Strip(Drop(t, n))) \in Nat
    BY <1>8, TextHas
  <2> QED BY <2>1, <1>1, <1>7, <1>8
<1> QED BY <1>5, <1>9 DEF FirstPiece, Remainder, n

\* One text, and none.
LEMMA SingleIs ==
  /\ <<>> \in Seq(Texts) /\ Ink(<<>>) = {} /\ Apart(<<>>)
  /\ \A t \in Texts : /\ <<t>> \in Seq(Texts) /\ Ink(<<t>>) = Chars(t)
                      /\ Once(t) => Apart(<<t>>)
<1>1. <<>> \in Seq(Texts) /\ Ink(<<>>) = {} /\ Apart(<<>>)
  BY DEF Ink, Apart
<1>2. ASSUME NEW t \in Texts
      PROVE  /\ <<t>> \in Seq(Texts) /\ Ink(<<t>>) = Chars(t)
             /\ Once(t) => Apart(<<t>>)
  <2>1. <<t>> \in Seq(Texts) /\ DOMAIN <<t>> = {1} /\ <<t>>[1] = t
    OBVIOUS
  <2>2. Ink(<<t>>) = Chars(t)
    BY <2>1 DEF Ink
  <2>3. Once(t) => Apart(<<t>>)
    BY <2>1 DEF Apart
  <2> QED BY <2>1, <2>2, <2>3
<1> QED BY <1>1, <1>2

\* The text of a chunk is cut into pieces that have all of it, and nothing of
\* it twice.
LEMMA OversizedIs ==
  ASSUME NEW text \in Texts
  PROVE  /\ SplitOversized(text) \in Seq(Texts)
         /\ Ink(SplitOversized(text)) = Chars(text)
         /\ Once(text) => Apart(SplitOversized(text))
<1> DEFINE first(t) == IF FirstPiece(t) = <<>> THEN <<>> ELSE <<FirstPiece(t)>>
           Eq(p) == p = [rest \in Seq(Int) |->
                           IF rest = <<>> THEN <<>>
                           ELSE first(rest) \o p[Remainder(rest)]]
           pieces == CHOOSE p : Eq(p)
           hd == [t \in Texts |-> IF t = <<>> THEN <<>> ELSE first(t)]
           tl == [t \in Texts |-> IF t = <<>> THEN <<>> ELSE Remainder(t)]
<1>1. SplitOversized(text) = IF Len(text) <= MaxChars THEN <<text>> ELSE pieces[text]
  BY DEF SplitOversized, FirstPiece, Remainder
<1>2. ASSUME NEW t \in Texts, t # <<>>
      PROVE  /\ FirstPiece(t) \in Texts /\ Remainder(t) \in Texts
             /\ Len(Remainder(t)) < Len(t)
             /\ Chars(FirstPiece(t)) \cup Chars(Remainder(t)) = Chars(t)
             /\ Once(t) => /\ Once(FirstPiece(t)) /\ Once(Remainder(t))
                           /\ Chars(FirstPiece(t)) \cap Chars(Remainder(t)) = {}
  BY <1>2, FirstPieceIs DEF Halves
<1>3. ASSUME NEW t \in Texts, t # <<>>
      PROVE  /\ first(t) \in Seq(Texts) /\ Ink(first(t)) = Chars(FirstPiece(t))
             /\ Once(t) => Apart(first(t))
  <2>1. FirstPiece(t) \in Texts /\ (Once(t) => Once(FirstPiece(t)))
    BY <1>2, <1>3
  <2>2. CASE FirstPiece(t) = <<>>
    BY <2>2, SingleIs, EmptyIs
  <2>3. CASE FirstPiece(t) # <<>>
    BY <2>1, <2>3, SingleIs
  <2> QED BY <2>2, <2>3
<1> HIDE DEF first
<1>4. hd \in [Texts -> Seq(Texts)]
  BY <1>3, SingleIs
<1>5. tl \in [Texts -> Texts] /\ Shrinks(tl)
  <2>1. tl \in [Texts -> Texts]
    BY <1>2, EmptyIs
  <2>2. \A t \in Texts : t # <<>> => Len(tl[t]) < Len(t)
    BY <1>2
  <2> HIDE DEF tl
  <2> QED BY <2>1, <2>2 DEF Shrinks
<1>6. PICK q \in [Texts -> Seq(Texts)] : Chopped(q, Texts, hd, tl)
  <2> HIDE DEF hd, tl
  <2> QED BY <1>4, <1>5, ChoppedExist
<1>7. Eq(q)
  BY <1>6 DEF Chopped, Texts
<1>8. Eq(pieces)
  <2> HIDE DEF Eq
  <2> QED BY <1>7
<1>9. \A t \in Texts : pieces[t] = IF t = <<>> THEN <<>>
                                   ELSE first(t) \o pieces[Remainder(t)]
  <2> HIDE DEF pieces
  <2> QED BY <1>8 DEF Texts
<1> HIDE DEF pieces, hd, tl, Eq
<1> DEFINE Good(t) == /\ pieces[t] \in Seq(Texts) /\ Ink(pieces[t]) = Chars(t)
                      /\ Once(t) => Apart(pieces[t])
           Bad == {n \in Nat : \E t \in Texts : Len(t) = n /\ ~Good(t)}
<1>10. ASSUME Bad # {} PROVE FALSE
  <2>1. PICK n \in Bad : \A m \in Bad : n <= m
    <3>1. Bad \subseteq Nat
      OBVIOUS
    <3> HIDE DEF Bad
    <3> QED BY <1>10, <3>1, LeastOf
  <2>2. PICK t \in Texts : Len(t) = n /\ ~Good(t)
    BY <2>1
  <2> DEFINE r == Remainder(t)
  <2>3. t # <<>>
    <3> SUFFICES ASSUME t = <<>> PROVE FALSE
      OBVIOUS
    <3>1. pieces[t] = <<>>
      BY <1>9
    <3> QED BY <3>1, <2>2, SingleIs, EmptyIs
  <2>4. r \in Texts /\ Len(r) < n /\ Len(r) \in Nat /\ n \in Nat
    <3>1. r \in Texts /\ Len(r) < n
      BY <1>2, <2>2, <2>3
    <3> QED BY <3>1, <2>1, TextHas
  <2>5. Len(r) \notin Bad
    <3> HIDE DEF Bad, r
    <3> QED BY <2>1, <2>4
  <2>6. Good(r)
    <3> HIDE DEF r, Good
    <3> QED BY <2>4, <2>5
  <2>7. pieces[t] = first(t) \o pieces[r]
    BY <1>9, <2>3
  <2> HIDE DEF r
  <2>8. /\ first(t) \o pieces[r] \in Seq(Texts)
        /\ Ink(first(t) \o pieces[r]) = Ink(first(t)) \cup Ink(pieces[r])
        /\ Apart(first(t)) /\ Apart(pieces[r]) /\ Ink(first(t)) \cap Ink(pieces[r]) = {} =>
             Apart(first(t) \o pieces[r])
    BY <1>3, <2>3, <2>6, JoinedIs
  <2>9. /\ Chars(FirstPiece(t)) \cup Chars(r) = Chars(t)
        /\ Once(t) => Once(r) /\ Chars(FirstPiece(t)) \cap Chars(r) = {}
    BY <1>2, <2>3 DEF r
  <2>10. Good(t)
    BY <1>3, <2>3, <2>6, <2>7, <2>8, <2>9
  <2> QED BY <2>2, <2>10
<1>11. Good(text)
  <2>1. Len(text) \in Nat
    BY TextHas
  <2> HIDE DEF Good
  <2> QED BY <2>1, <1>10
<1>12. CASE Len(text) <= MaxChars
  BY <1>1, <1>12, SingleIs
<1>13. CASE ~(Len(text) <= MaxChars)
  BY <1>1, <1>13, <1>11
<1> QED BY <1>12, <1>13

-----------------------------------------------------------------------------
(* The loops of the chunkers and of the batching.                          *)

\* The parts of a batch, one after the other.
LEMMA JoinRuns ==
  ASSUME NEW parts \in Seq(Texts), NEW joiner \in Texts
  PROVE  \E run : /\ run[0] = <<>>
                  /\ Join(parts, joiner) = run[Len(parts)]
                  /\ \A k \in 1..Len(parts) :
                       run[k] = IF run[k - 1] = <<>> THEN parts[k]
                                 ELSE run[k - 1] \o joiner \o parts[k]
<1> DEFINE S == Texts
           n == Len(parts)
           op(acc, p) == IF acc = <<>> THEN p ELSE acc \o joiner \o p
           f == [p \in S \X (1..n) |-> op(p[1], parts[p[2]])]
           Eq(iter) == iter = [u \in SUBSET (1..n) |->
                                 IF u = {} THEN <<>>
                                 ELSE op(iter[u \ {Max(u)}], parts[Max(u)])]
           fold == CHOOSE iter : Eq(iter)
           run == [k \in 0..n |-> fold[1..k]]
<1>1. n \in Nat /\ DOMAIN parts = 1..n
  BY DEF Texts
<1>2. \A s \in S, k \in 1..n : op(s, parts[k]) \in S
  <2>1. \A k \in 1..n : parts[k] \in Texts
    OBVIOUS
  <2>2. \A s \in Texts, t \in Texts : op(s, t) \in Texts
    BY DEF Texts
  <2> HIDE DEF op
  <2> QED BY <2>1, <2>2
<1>3. f \in [S \X (1..n) -> S]
  <2> HIDE DEF S, op
  <2> QED BY <1>2
<1>4. PICK iter \in [SUBSET (1..n) -> S] : Folded(iter, n, <<>>, f)
  <2>1. <<>> \in S
    BY EmptyIs
  <2> HIDE DEF S, f
  <2> QED BY <1>1, <1>3, <2>1, FoldExists
<1>5. Eq(iter)
  <2>1. ASSUME NEW u \in SUBSET (1..n), u # {}
        PROVE  f[<<iter[u \ {Max(u)}], Max(u)>>] =
                 op(iter[u \ {Max(u)}], parts[Max(u)])
    <3>1. Max(u) \in 1..n
      BY <1>1, <2>1, MaxOfSome
    <3>2. <<iter[u \ {Max(u)}], Max(u)>> \in S \X (1..n)
      BY <1>4, <3>1
    <3> HIDE DEF S, op
    <3> QED BY <3>2
  <2> HIDE DEF S, f, op
  <2> QED BY <1>4, <2>1 DEF Folded
<1>6. Eq(fold)
  <2> HIDE DEF Eq
  <2> QED BY <1>5
<1>7. Join(parts, joiner) = fold[1..n]
  BY <1>1 DEF Join, FoldLeft, MapThenFoldSet
<1> HIDE DEF fold
<1>8. fold[{}] = <<>> /\ 1..0 = {}
  BY <1>6
<1>9. ASSUME NEW k \in 1..n
      PROVE  fold[1..k] = op(fold[1..(k - 1)], parts[k])
  <2>1. Max(1..k) = k /\ (1..k) \ {k} = 1..(k - 1) /\ 1..k # {}
    BY MaxOfFirst
  <2>2. 1..k \in SUBSET (1..n)
    BY <1>1
  <2> HIDE DEF op
  <2> QED BY <1>6, <2>1, <2>2
<1>10. \A k \in 1..n : k \in 0..n /\ k - 1 \in 0..n
  BY <1>1
<1>11. /\ run[0] = <<>> /\ Join(parts, joiner) = run[n]
       /\ \A k \in 1..n : run[k] = op(run[k - 1], parts[k])
  <2>1. 0 \in 0..n /\ n \in 0..n
    BY <1>1
  <2> HIDE DEF op
  <2> QED BY <1>7, <1>8, <1>9, <1>10, <2>1
<1> HIDE DEF run
<1> QED BY <1>11

\* The characters of a text, but for the newlines within words.
LEMMA SanitizeRuns ==
  ASSUME NEW t \in Texts
  PROVE  \E run : /\ run[0] = <<>>
                  /\ FoldLeftDomain(LAMBDA acc, i : IF Dropped(t, i) THEN acc
                                                 ELSE Append(acc, t[i]), <<>>, t) = run[Len(t)]
                  /\ \A k \in 1..Len(t) :
                       run[k] = IF Dropped(t, k) THEN run[k - 1] ELSE Append(run[k - 1], t[k])
<1> DEFINE S == Texts
           n == Len(t)
           ids == [i \in DOMAIN t |-> i]
           op(acc, i) == IF Dropped(t, i) THEN acc ELSE Append(acc, t[i])
           f == [p \in S \X (1..n) |-> op(p[1], ids[p[2]])]
           Eq(iter) == iter = [u \in SUBSET (1..n) |->
                                 IF u = {} THEN <<>>
                                 ELSE op(iter[u \ {Max(u)}], ids[Max(u)])]
           fold == CHOOSE iter : Eq(iter)
           run == [k \in 0..n |-> fold[1..k]]
<1>1. n \in Nat /\ DOMAIN ids = 1..n /\ \A k \in 1..n : ids[k] = k
  BY DEF Texts
<1>2. \A s \in S, k \in 1..n : op(s, ids[k]) \in S
  <2>1. \A k \in 1..n : ids[k] = k /\ t[k] \in Int
    BY <1>1, TextHas
  <2>2. \A s \in Texts, k \in 1..n : op(s, k) \in Texts
    BY <2>1 DEF Texts
  <2> HIDE DEF op
  <2> QED BY <2>1, <2>2
<1>3. f \in [S \X (1..n) -> S]
  <2> HIDE DEF S, op
  <2> QED BY <1>2
<1>4. PICK iter \in [SUBSET (1..n) -> S] : Folded(iter, n, <<>>, f)
  <2>1. <<>> \in S
    BY EmptyIs
  <2> HIDE DEF S, f
  <2> QED BY <1>1, <1>3, <2>1, FoldExists
<1>5. Eq(iter)
  <2>1. ASSUME NEW u \in SUBSET (1..n), u # {}
        PROVE  f[<<iter[u \ {Max(u)}], Max(u)>>] =
                 op(iter[u \ {Max(u)}], ids[Max(u)])
    <3>1. Max(u) \in 1..n
      BY <1>1, <2>1, MaxOfSome
    <3>2. <<iter[u \ {Max(u)}], Max(u)>> \in S \X (1..n)
      BY <1>4, <3>1
    <3> HIDE DEF S, op
    <3> QED BY <3>2
  <2> HIDE DEF S, f, op
  <2> QED BY <1>4, <2>1 DEF Folded
<1>6. Eq(fold)
  <2> HIDE DEF Eq
  <2> QED BY <1>5
<1>7. FoldLeftDomain(LAMBDA acc, i : IF Dropped(t, i) THEN acc
                                                 ELSE Append(acc, t[i]), <<>>, t) = fold[1..n]
  BY <1>1 DEF FoldLeftDomain, FoldLeft, MapThenFoldSet
<1> HIDE DEF fold
<1>8. fold[{}] = <<>> /\ 1..0 = {}
  BY <1>6
<1>9. ASSUME NEW k \in 1..n
      PROVE  fold[1..k] = op(fold[1..(k - 1)], ids[k])
  <2>1. Max(1..k) = k /\ (1..k) \ {k} = 1..(k - 1) /\ 1..k # {}
    BY MaxOfFirst
  <2>2. 1..k \in SUBSET (1..n)
    BY <1>1
  <2> HIDE DEF op
  <2> QED BY <1>6, <2>1, <2>2
<1>10. \A k \in 1..n : k \in 0..n /\ k - 1 \in 0..n
  BY <1>1
<1>11. /\ run[0] = <<>> /\ FoldLeftDomain(LAMBDA acc, i : IF Dropped(t, i) THEN acc
                                                 ELSE Append(acc, t[i]), <<>>, t) = run[n]
       /\ \A k \in 1..n : run[k] = op(run[k - 1], ids[k])
  <2>1. 0 \in 0..n /\ n \in 0..n
    BY <1>1
  <2> HIDE DEF op
  <2> QED BY <1>7, <1>8, <1>9, <1>10, <2>1
<1> HIDE DEF run, ids
<1>12. ASSUME NEW k \in 1..n
       PROVE  run[k] = IF Dropped(t, k) THEN run[k - 1] ELSE Append(run[k - 1], t[k])
  <2>1. ids[k] = k /\ run[k] = op(run[k - 1], ids[k])
    BY <1>1, <1>11
  <2> QED BY <2>1
<1> QED BY <1>11, <1>12

\* The boxes of a parsed document.
Boxes == [role : Role, text : Texts]

\* The boxes, in the order they come in.
LEMMA BoxedRuns ==
  ASSUME NEW boxes \in Seq(Boxes)
  PROVE  \E run : /\ run[0] = [pending |-> <<>>, chunks |-> <<>>]
                  /\ FoldLeft(Boxed, [pending |-> <<>>, chunks |-> <<>>], boxes) = run[Len(boxes)]
                  /\ \A k \in 1..Len(boxes) :
                       run[k] = Boxed(run[k - 1], boxes[k])
<1> DEFINE S == [pending : Texts, chunks : Seq(Texts)]
           n == Len(boxes)
           f == [p \in S \X (1..n) |-> Boxed(p[1], boxes[p[2]])]
           Eq(iter) == iter = [u \in SUBSET (1..n) |->
                                 IF u = {} THEN [pending |-> <<>>, chunks |-> <<>>]
                                 ELSE Boxed(iter[u \ {Max(u)}], boxes[Max(u)])]
           fold == CHOOSE iter : Eq(iter)
           run == [k \in 0..n |-> fold[1..k]]
<1>1. n \in Nat /\ DOMAIN boxes = 1..n
  BY DEF Texts
<1>2. \A s \in S, k \in 1..n : Boxed(s, boxes[k]) \in S
  <2> SUFFICES ASSUME NEW s \in S, NEW box \in Boxes PROVE Boxed(s, box) \in S
    OBVIOUS
  <2>1. /\ s.pending \in Texts /\ s.chunks \in Seq(Texts)
        /\ box.text \in Texts /\ <<>> \in Texts
    BY EmptyIs DEF Boxes
  <2>2. CASE box.role = "caption"
    BY <2>1, <2>2 DEF Boxed
  <2>3. CASE box.role = "heading"
    BY <2>3 DEF Boxed
  <2>4. CASE box.role = "image"
    <3> DEFINE caption == IF box.text # <<>> THEN box.text ELSE s.pending
    <3>1. caption \in Texts /\ Append(s.chunks, caption) \in Seq(Texts)
      <4>1. caption \in Texts
        BY <2>1
      <4> HIDE DEF caption
      <4> QED BY <4>1, <2>1, LongerIs
    <3>2. Boxed(s, box) = [pending |-> <<>>,
                           chunks  |-> IF caption = <<>> THEN s.chunks
                                       ELSE Append(s.chunks, caption)]
      BY <2>4 DEF Boxed
    <3> HIDE DEF caption
    <3> QED BY <2>1, <3>1, <3>2
  <2>5. CASE box.role \notin {"caption", "heading", "image"}
    <3>1. s.chunks \o SplitOversized(box.text) \in Seq(Texts)
      BY <2>1, OversizedIs, JoinedIs
    <3>2. Boxed(s, box) = [pending |-> <<>>,
                           chunks  |-> IF box.text = <<>> THEN s.chunks
                                       ELSE s.chunks \o SplitOversized(box.text)]
      BY <2>5 DEF Boxed
    <3> QED BY <2>1, <3>1, <3>2
  <2> QED BY <2>2, <2>3, <2>4, <2>5
<1>3. f \in [S \X (1..n) -> S]
  <2> HIDE DEF S
  <2> QED BY <1>2
<1>4. PICK iter \in [SUBSET (1..n) -> S] : Folded(iter, n, [pending |-> <<>>, chunks |-> <<>>], f)
  <2>1. [pending |-> <<>>, chunks |-> <<>>] \in S
    BY EmptyIs, SingleIs
  <2> HIDE DEF S, f
  <2> QED BY <1>1, <1>3, <2>1, FoldExists
<1>5. Eq(iter)
  <2>1. ASSUME NEW u \in SUBSET (1..n), u # {}
        PROVE  f[<<iter[u \ {Max(u)}], Max(u)>>] =
                 Boxed(iter[u \ {Max(u)}], boxes[Max(u)])
    <3>1. Max(u) \in 1..n
      BY <1>1, <2>1, MaxOfSome
    <3>2. <<iter[u \ {Max(u)}], Max(u)>> \in S \X (1..n)
      BY <1>4, <3>1
    <3> HIDE DEF S
    <3> QED BY <3>2
  <2> HIDE DEF S, f
  <2> QED BY <1>4, <2>1 DEF Folded
<1>6. Eq(fold)
  <2> HIDE DEF Eq
  <2> QED BY <1>5
<1>7. FoldLeft(Boxed, [pending |-> <<>>, chunks |-> <<>>], boxes) = fold[1..n]
  BY <1>1 DEF FoldLeft, MapThenFoldSet
<1> HIDE DEF fold
<1>8. fold[{}] = [pending |-> <<>>, chunks |-> <<>>] /\ 1..0 = {}
  BY <1>6
<1>9. ASSUME NEW k \in 1..n
      PROVE  fold[1..k] = Boxed(fold[1..(k - 1)], boxes[k])
  <2>1. Max(1..k) = k /\ (1..k) \ {k} = 1..(k - 1) /\ 1..k # {}
    BY MaxOfFirst
  <2>2. 1..k \in SUBSET (1..n)
    BY <1>1
  <2> QED BY <1>6, <2>1, <2>2
<1>10. \A k \in 1..n : k \in 0..n /\ k - 1 \in 0..n
  BY <1>1
<1>11. /\ run[0] = [pending |-> <<>>, chunks |-> <<>>]
       /\ FoldLeft(Boxed, [pending |-> <<>>, chunks |-> <<>>], boxes) = run[n]
       /\ \A k \in 1..n : run[k] = Boxed(run[k - 1], boxes[k])
  <2>1. 0 \in 0..n /\ n \in 0..n
    BY <1>1
  <2> QED BY <1>7, <1>8, <1>9, <1>10, <2>1
<1> HIDE DEF run
<1> QED BY <1>11

\* The blocks, in the order they come in.
LEMMA BlockedRuns ==
  ASSUME NEW blocks \in Seq(Boxes)
  PROVE  \E run : /\ run[0] = <<>>
                  /\ ChunkFromBlocks(blocks) = run[Len(blocks)]
                  /\ \A k \in 1..Len(blocks) :
                       run[k] = Blocked(run[k - 1], blocks[k])
<1> DEFINE S == Seq(Texts)
           n == Len(blocks)
           f == [p \in S \X (1..n) |-> Blocked(p[1], blocks[p[2]])]
           Eq(iter) == iter = [u \in SUBSET (1..n) |->
                                 IF u = {} THEN <<>>
                                 ELSE Blocked(iter[u \ {Max(u)}], blocks[Max(u)])]
           fold == CHOOSE iter : Eq(iter)
           run == [k \in 0..n |-> fold[1..k]]
<1>1. n \in Nat /\ DOMAIN blocks = 1..n
  BY DEF Texts
<1>2. \A s \in S, k \in 1..n : Blocked(s, blocks[k]) \in S
  <2> SUFFICES ASSUME NEW s \in S, NEW block \in Boxes PROVE Blocked(s, block) \in S
    OBVIOUS
  <2>1. block.text \in Texts
    BY DEF Boxes
  <2>2. s \o SplitOversized(block.text) \in Seq(Texts)
    BY <2>1, OversizedIs, JoinedIs
  <2> QED BY <2>2 DEF Blocked
<1>3. f \in [S \X (1..n) -> S]
  <2> HIDE DEF S
  <2> QED BY <1>2
<1>4. PICK iter \in [SUBSET (1..n) -> S] : Folded(iter, n, <<>>, f)
  <2>1. <<>> \in S
    BY SingleIs
  <2> HIDE DEF S, f
  <2> QED BY <1>1, <1>3, <2>1, FoldExists
<1>5. Eq(iter)
  <2>1. ASSUME NEW u \in SUBSET (1..n), u # {}
        PROVE  f[<<iter[u \ {Max(u)}], Max(u)>>] =
                 Blocked(iter[u \ {Max(u)}], blocks[Max(u)])
    <3>1. Max(u) \in 1..n
      BY <1>1, <2>1, MaxOfSome
    <3>2. <<iter[u \ {Max(u)}], Max(u)>> \in S \X (1..n)
      BY <1>4, <3>1
    <3> HIDE DEF S
    <3> QED BY <3>2
  <2> HIDE DEF S, f
  <2> QED BY <1>4, <2>1 DEF Folded
<1>6. Eq(fold)
  <2> HIDE DEF Eq
  <2> QED BY <1>5
<1>7. ChunkFromBlocks(blocks) = fold[1..n]
  BY <1>1 DEF ChunkFromBlocks, FoldLeft, MapThenFoldSet
<1> HIDE DEF fold
<1>8. fold[{}] = <<>> /\ 1..0 = {}
  BY <1>6
<1>9. ASSUME NEW k \in 1..n
      PROVE  fold[1..k] = Blocked(fold[1..(k - 1)], blocks[k])
  <2>1. Max(1..k) = k /\ (1..k) \ {k} = 1..(k - 1) /\ 1..k # {}
    BY MaxOfFirst
  <2>2. 1..k \in SUBSET (1..n)
    BY <1>1
  <2> QED BY <1>6, <2>1, <2>2
<1>10. \A k \in 1..n : k \in 0..n /\ k - 1 \in 0..n
  BY <1>1
<1>11. /\ run[0] = <<>> /\ ChunkFromBlocks(blocks) = run[n]
       /\ \A k \in 1..n : run[k] = Blocked(run[k - 1], blocks[k])
  <2>1. 0 \in 0..n /\ n \in 0..n
    BY <1>1
  <2> QED BY <1>7, <1>8, <1>9, <1>10, <2>1
<1> HIDE DEF run
<1> QED BY <1>11

\* The lines of the chunks file, put in groups.
LEMMA GroupedRuns ==
  ASSUME NEW lines \in Seq(Texts)
  PROVE  \E run : /\ run[0] = [groups |-> <<>>, current |-> <<>>]
                  /\ FoldLeft(Grouped, [groups |-> <<>>, current |-> <<>>], lines) =
                        run[Len(lines)]
                  /\ \A k \in 1..Len(lines) :
                       run[k] = Grouped(run[k - 1], lines[k])
<1> DEFINE S == [groups : Seq(Seq(Texts)), current : Seq(Texts)]
           n == Len(lines)
           f == [p \in S \X (1..n) |-> Grouped(p[1], lines[p[2]])]
           Eq(iter) == iter = [u \in SUBSET (1..n) |->
                                 IF u = {} THEN [groups |-> <<>>, current |-> <<>>]
                                 ELSE Grouped(iter[u \ {Max(u)}], lines[Max(u)])]
           fold == CHOOSE iter : Eq(iter)
           run == [k \in 0..n |-> fold[1..k]]
<1>1. n \in Nat /\ DOMAIN lines = 1..n
  BY DEF Texts
<1>2. \A s \in S, k \in 1..n : Grouped(s, lines[k]) \in S
  <2> SUFFICES ASSUME NEW s \in S, NEW line \in Texts PROVE Grouped(s, line) \in S
    OBVIOUS
  <2>1. s.groups \in Seq(Seq(Texts)) /\ s.current \in Seq(Texts)
    OBVIOUS
  <2>2. Append(s.current, line) \in Seq(Texts) /\ <<>> \in Seq(Texts)
    BY <2>1, LongerIs, SingleIs
  <2>3. Append(s.groups, Append(s.current, line)) \in Seq(Seq(Texts))
    BY <2>1, <2>2, AppendProperties
  <2> QED BY <2>1, <2>2, <2>3 DEF Grouped
<1>3. f \in [S \X (1..n) -> S]
  <2> HIDE DEF S
  <2> QED BY <1>2
<1>4. PICK iter \in [SUBSET (1..n) -> S] : Folded(iter, n, [groups |-> <<>>, current |-> <<>>], f)
  <2>1. [groups |-> <<>>, current |-> <<>>] \in S
    BY SingleIs
  <2> HIDE DEF S, f
  <2> QED BY <1>1, <1>3, <2>1, FoldExists
<1>5. Eq(iter)
  <2>1. ASSUME NEW u \in SUBSET (1..n), u # {}
        PROVE  f[<<iter[u \ {Max(u)}], Max(u)>>] =
                 Grouped(iter[u \ {Max(u)}], lines[Max(u)])
    <3>1. Max(u) \in 1..n
      BY <1>1, <2>1, MaxOfSome
    <3>2. <<iter[u \ {Max(u)}], Max(u)>> \in S \X (1..n)
      BY <1>4, <3>1
    <3> HIDE DEF S
    <3> QED BY <3>2
  <2> HIDE DEF S, f
  <2> QED BY <1>4, <2>1 DEF Folded
<1>6. Eq(fold)
  <2> HIDE DEF Eq
  <2> QED BY <1>5
<1>7. FoldLeft(Grouped, [groups |-> <<>>, current |-> <<>>], lines) = fold[1..n]
  BY <1>1 DEF FoldLeft, MapThenFoldSet
<1> HIDE DEF fold
<1>8. fold[{}] = [groups |-> <<>>, current |-> <<>>] /\ 1..0 = {}
  BY <1>6
<1>9. ASSUME NEW k \in 1..n
      PROVE  fold[1..k] = Grouped(fold[1..(k - 1)], lines[k])
  <2>1. Max(1..k) = k /\ (1..k) \ {k} = 1..(k - 1) /\ 1..k # {}
    BY MaxOfFirst
  <2>2. 1..k \in SUBSET (1..n)
    BY <1>1
  <2> QED BY <1>6, <2>1, <2>2
<1>10. \A k \in 1..n : k \in 0..n /\ k - 1 \in 0..n
  BY <1>1
<1>11. /\ run[0] = [groups |-> <<>>, current |-> <<>>]
       /\ FoldLeft(Grouped, [groups |-> <<>>, current |-> <<>>], lines) = run[n]
       /\ \A k \in 1..n : run[k] = Grouped(run[k - 1], lines[k])
  <2>1. 0 \in 0..n /\ n \in 0..n
    BY <1>1
  <2> QED BY <1>7, <1>8, <1>9, <1>10, <2>1
<1> HIDE DEF run
<1> QED BY <1>11

\* Place after place to the end.
LEMMA Climb ==
  ASSUME NEW n \in Nat, NEW G, 0 \in G, \A k \in 1..n : k - 1 \in G => k \in G
  PROVE  \A k \in 0..n : k \in G
<1> DEFINE Bad == {k \in 0..n : k \notin G}
<1> SUFFICES ASSUME Bad # {} PROVE FALSE
  OBVIOUS
<1>1. PICK k \in Bad : \A j \in Bad : k <= j
  <2>1. Bad \subseteq Nat
    OBVIOUS
  <2> HIDE DEF Bad
  <2> QED BY <2>1, LeastOf
<1>2. k \in 1..n /\ k - 1 \in 0..n /\ ~(k <= k - 1)
  BY <1>1
<1>3. k - 1 \in G
  BY <1>1, <1>2
<1> QED BY <1>1, <1>2, <1>3

Seen(t, k) == {t[i] : i \in 1..k} \ {Blank, Newline}

\* Sanitizing takes no visible character.
LEMMA SanitizeIs ==
  ASSUME NEW t \in Texts
  PROVE  /\ Sanitize(t) \in Texts
         /\ Chars(Sanitize(t)) = Chars(t)
         /\ Once(t) => Once(Sanitize(t))
         /\ Sanitize(t) = <<>> <=> Chars(t) = {}
<1> DEFINE kept == FoldLeftDomain(LAMBDA acc, i : IF Dropped(t, i) THEN acc
                                                  ELSE Append(acc, t[i]), <<>>, t)
           n == Len(t)
<1>1. PICK run : /\ run[0] = <<>> /\ kept = run[n]
                 /\ \A k \in 1..n : run[k] = IF Dropped(t, k) THEN run[k - 1]
                                             ELSE Append(run[k - 1], t[k])
  BY SanitizeRuns
<1>2. Sanitize(t) = Strip(kept)
  BY DEF Sanitize
<1> HIDE DEF kept
<1>3. /\ n \in Nat /\ DOMAIN t = 1..n /\ \A k \in 1..n : t[k] \in Int
      /\ \A c : c \in Chars(t) <=>
           c # Blank /\ c # Newline /\ \E i \in 1..n : t[i] = c
  BY TextHas
<1> DEFINE Good(k) == /\ run[k] \in Texts /\ Chars(run[k]) = Seen(t, k)
                      /\ Once(t) => Once(run[k])
           G == {k \in 0..n : Good(k)}
<1>4. 0 \in G
  <2>1. Seen(t, 0) = {}
    BY DEF Seen
  <2>2. Good(0)
    BY <2>1, <1>1, EmptyIs
  <2> QED BY <2>2, <1>3
<1>5. ASSUME NEW k \in 1..n, k - 1 \in G PROVE k \in G
  <2>1. Good(k - 1) /\ k \in 0..n
    BY <1>3, <1>5
  <2> DEFINE r == run[k - 1]
             c == t[k]
  <2>2. r \in Texts /\ Chars(r) = Seen(t, k - 1) /\ (Once(t) => Once(r)) /\ c \in Int
    BY <2>1, <1>3
  <2>3. Seen(t, k) = Seen(t, k - 1) \cup ({c} \ {Blank, Newline})
    <3>1. 1..k = (1..(k - 1)) \cup {k}
      BY <1>3
    <3>2. {t[i] : i \in 1..k} = {t[i] : i \in 1..(k - 1)} \cup {c}
      BY <3>1
    <3> QED BY <3>2 DEF Seen
  <2>4. CASE Dropped(t, k)
    <3>1. c \in {Blank, Newline}
      BY <2>4 DEF Dropped
    <3>2. Seen(t, k) = Seen(t, k - 1)
      BY <2>3, <3>1
    <3> QED BY <1>1, <2>1, <2>2, <2>4, <3>2
  <2>5. CASE ~Dropped(t, k)
    <3> HIDE DEF r, c
    <3>1. run[k] = r \o <<c>>
      <4>1. run[k] = Append(r, c)
        BY <1>1, <2>5 DEF r, c
      <4>2. Append(r, c) = r \o <<c>>
        BY <2>2, AppendIsConcat DEF Texts
      <4> QED BY <4>1, <4>2
    <3>2. /\ <<c>> \in Texts /\ Once(<<c>>)
          /\ Chars(<<c>>) = {c} \ {Blank, Newline}
      BY <2>2, OneIs
    <3>3. ASSUME Once(t) PROVE Chars(r) \cap Chars(<<c>>) = {}
      <4> SUFFICES ASSUME NEW x \in Chars(r), x \in Chars(<<c>>) PROVE FALSE
        OBVIOUS
      <4>1. x = c /\ ~IsBlank(x)
        BY <3>2 DEF IsBlank
      <4>2. PICK i \in 1..(k - 1) : t[i] = x
        BY <2>2 DEF Seen
      <4>3. i \in 1..n /\ i # k /\ t[k] = x
        BY <4>1, <4>2, <1>3 DEF c
      <4> QED BY <4>1, <4>2, <4>3, <3>3, <1>3 DEF Once
    <3>4. /\ r \o <<c>> \in Texts /\ Chars(r \o <<c>>) = Chars(r) \cup Chars(<<c>>)
          /\ Once(r) /\ Once(<<c>>) /\ Chars(r) \cap Chars(<<c>>) = {} =>
               Once(r \o <<c>>)
      BY <2>2, <3>2, ConcatIs
    <3>5. Good(k)
      BY <2>2, <2>3, <3>1, <3>2, <3>3, <3>4
    <3> QED BY <3>5, <2>1
  <2> QED BY <2>4, <2>5
<1>6. Good(n)
  <2>1. n \in 0..n
    BY <1>3
  <2>2. \A k \in 0..n : k \in G
    <3> HIDE DEF G
    <3> QED BY <1>3, <1>4, <1>5, Climb
  <2> QED BY <2>1, <2>2
<1>7. Seen(t, n) = Chars(t)
  BY <1>3 DEF Seen, Chars, ToSet
<1>8. kept \in Texts /\ Chars(kept) = Chars(t) /\ (Once(t) => Once(kept))
  BY <1>1, <1>6, <1>7
<1> QED BY <1>2, <1>8, StripIs

\* What is visible of the first k texts.
InkTo(ts, k) == UNION {Chars(ts[i]) : i \in 1..k}

\* What is visible of a sequence of texts grows by one text at a place.
LEMMA InkToIs ==
  ASSUME NEW ts \in Seq(Texts)
  PROVE  /\ InkTo(ts, 0) = {} /\ InkTo(ts, Len(ts)) = Ink(ts)
         /\ \A k \in 1..Len(ts) :
              /\ InkTo(ts, k) = InkTo(ts, k - 1) \cup Chars(ts[k])
              /\ Apart(ts) => InkTo(ts, k - 1) \cap Chars(ts[k]) = {}
<1>1. Len(ts) \in Nat /\ DOMAIN ts = 1..Len(ts)
  OBVIOUS
<1>2. InkTo(ts, 0) = {}
  BY DEF InkTo
<1>3. InkTo(ts, Len(ts)) = Ink(ts)
  BY <1>1 DEF InkTo, Ink
<1>4. ASSUME NEW k \in 1..Len(ts)
      PROVE  InkTo(ts, k) = InkTo(ts, k - 1) \cup Chars(ts[k])
  <2>1. 1..k = (1..(k - 1)) \cup {k}
    BY <1>1
  <2> QED BY <2>1 DEF InkTo
<1>5. ASSUME NEW k \in 1..Len(ts), Apart(ts)
      PROVE  InkTo(ts, k - 1) \cap Chars(ts[k]) = {}
  <2>1. \A i \in 1..(k - 1) : i \in DOMAIN ts /\ i # k
    BY <1>1
  <2>2. \A i \in 1..(k - 1) : Chars(ts[i]) \cap Chars(ts[k]) = {}
    BY <1>1, <1>5, <2>1 DEF Apart
  <2> QED BY <2>2 DEF InkTo
<1> QED BY <1>2, <1>3, <1>4, <1>5

\* Joined parts have all that is visible of the parts, if the joiner is blank.
LEMMA JoinIs ==
  ASSUME NEW parts \in Seq(Texts), NEW joiner \in Texts, Chars(joiner) = {}
  PROVE  /\ Join(parts, joiner) \in Texts
         /\ Chars(Join(parts, joiner)) = Ink(parts)
         /\ Apart(parts) => Once(Join(parts, joiner))
<1> DEFINE n == Len(parts)
<1>1. PICK run : /\ run[0] = <<>> /\ Join(parts, joiner) = run[n]
                 /\ \A k \in 1..n : run[k] = IF run[k - 1] = <<>> THEN parts[k]
                                             ELSE run[k - 1] \o joiner \o parts[k]
  BY JoinRuns
<1>2. n \in Nat /\ DOMAIN parts = 1..n /\ \A k \in 1..n : parts[k] \in Texts
  OBVIOUS
<1>3. Once(joiner)
  <2>1. \A i \in DOMAIN joiner : IsBlank(joiner[i])
    BY DEF Chars, ToSet, IsBlank
  <2> QED BY <2>1 DEF Once
<1> DEFINE Good(k) == /\ run[k] \in Texts /\ Chars(run[k]) = InkTo(parts, k)
                      /\ Apart(parts) => Once(run[k])
           G == {k \in 0..n : Good(k)}
<1>4. 0 \in G
  <2>1. InkTo(parts, 0) = {}
    BY InkToIs
  <2>2. Good(0)
    BY <2>1, <1>1, EmptyIs
  <2> QED BY <2>2, <1>2
<1>5. ASSUME NEW k \in 1..n, k - 1 \in G PROVE k \in G
  <2> DEFINE r == run[k - 1]
             p == parts[k]
  <2>1. /\ r \in Texts /\ Chars(r) = InkTo(parts, k - 1) /\ (Apart(parts) => Once(r))
        /\ k \in 0..n /\ p \in Texts
    BY <1>2, <1>5
  <2>2. /\ InkTo(parts, k) = InkTo(parts, k - 1) \cup Chars(p)
        /\ Apart(parts) => Once(p) /\ InkTo(parts, k - 1) \cap Chars(p) = {}
    BY <1>2, InkToIs DEF Apart
  <2>3. run[k] = IF r = <<>> THEN p ELSE r \o joiner \o p
    BY <1>1
  <2> HIDE DEF r, p
  <2>4. CASE r = <<>>
    <3>1. Good(k)
      BY <2>1, <2>2, <2>3, <2>4, EmptyIs
    <3> QED BY <3>1, <2>1
  <2>5. CASE r # <<>>
    <3>1. /\ r \o joiner \in Texts /\ Chars(r \o joiner) = Chars(r)
          /\ Once(r) => Once(r \o joiner)
      <4>1. r \in Texts
        BY <2>1
      <4>2. /\ r \o joiner \in Texts
            /\ Chars(r \o joiner) = Chars(r) \cup Chars(joiner)
            /\ Once(r) /\ Once(joiner) /\ Chars(r) \cap Chars(joiner) = {} =>
                 Once(r \o joiner)
        BY <4>1, ConcatIs
      <4>3. Chars(r) \cup Chars(joiner) = Chars(r) /\ Chars(r) \cap Chars(joiner) = {}
        OBVIOUS
      <4> QED BY <4>2, <4>3, <1>3
    <3>2. /\ r \o joiner \o p \in Texts
          /\ Chars(r \o joiner \o p) = Chars(r) \cup Chars(p)
          /\ Once(r \o joiner) /\ Once(p) /\ Chars(r) \cap Chars(p) = {} =>
               Once(r \o joiner \o p)
      BY <2>1, <3>1, ConcatIs
    <3>3. Good(k)
      BY <2>1, <2>2, <2>3, <2>5, <3>1, <3>2
    <3> QED BY <3>3, <2>1
  <2> QED BY <2>4, <2>5
<1>6. Good(n)
  <2>1. n \in 0..n
    BY <1>2
  <2>2. \A k \in 0..n : k \in G
    <3> HIDE DEF G
    <3> QED BY <1>2, <1>4, <1>5, Climb
  <2> QED BY <2>1, <2>2
<1> QED BY <1>1, <1>6, InkToIs

\* A break has nothing visible.
LEMMA BreakIs == Break \in Texts /\ Chars(Break) = {}
<1>1. Break \in Texts /\ DOMAIN Break = 1..2 /\ \A i \in 1..2 : Break[i] = Newline
  BY DEF Break, Texts, Newline
<1> QED BY <1>1 DEF Chars, ToSet

\* The lines of a group, put in batches.
LEMMA BatchedRuns ==
  ASSUME NEW lines \in Seq(Texts)
  PROVE  \E run : /\ run[0] = [batches |-> <<>>, parts |-> <<>>, total |-> 0]
                  /\ FoldLeft(LAMBDA acc, t : Batched(acc, Sanitize(t)),
                            [batches |-> <<>>, parts |-> <<>>, total |-> 0],
                           lines) = run[Len(lines)]
                  /\ \A k \in 1..Len(lines) :
                       run[k] = Batched(run[k - 1], Sanitize(lines[k]))
<1> DEFINE S == [batches : Seq(Texts), parts : Seq(Texts), total : Int]
           n == Len(lines)
           f == [p \in S \X (1..n) |-> Batched(p[1], Sanitize(lines[p[2]]))]
           Eq(iter) == iter = [u \in SUBSET (1..n) |->
                                 IF u = {} THEN [batches |-> <<>>, parts |-> <<>>, total |-> 0]
                                 ELSE Batched(iter[u \ {Max(u)}], Sanitize(lines[Max(u)]))]
           fold == CHOOSE iter : Eq(iter)
           run == [k \in 0..n |-> fold[1..k]]
<1>1. n \in Nat /\ DOMAIN lines = 1..n
  BY DEF Texts
<1>2. \A s \in S, k \in 1..n : Batched(s, Sanitize(lines[k])) \in S
  <2> SUFFICES ASSUME NEW s \in S, NEW line \in Texts
               PROVE  Batched(s, Sanitize(line)) \in S
    OBVIOUS
  <2> DEFINE text == Sanitize(line)
  <2>1. /\ s.batches \in Seq(Texts) /\ s.parts \in Seq(Texts) /\ s.total \in Int
        /\ text \in Texts /\ Len(text) \in Int
    BY SanitizeIs, TextHas
  <2> HIDE DEF text
  <2>2. Append(s.parts, text) \in Seq(Texts) /\ <<text>> \in Seq(Texts)
    BY <2>1, LongerIs, SingleIs
  <2>3. Append(s.batches, Join(s.parts, Break)) \in Seq(Texts)
    <3>1. Join(s.parts, Break) \in Texts
      BY <2>1, JoinIs, BreakIs
    <3> QED BY <2>1, <3>1, LongerIs
  <2> DEFINE more == Append(s.batches, Join(s.parts, Break))
             longer == Append(s.parts, text)
  <2> HIDE DEF more, longer
  <2>4. Batched(s, text) \in S
    <3>1. /\ more \in Seq(Texts) /\ longer \in Seq(Texts)
          /\ s.total + Len(text) \in Int
      BY <2>1, <2>2, <2>3 DEF more, longer
    <3>2. \/ Batched(s, text) = s
          \/ Batched(s, text) = [batches |-> more, parts |-> <<text>>,
                                 total |-> Len(text)]
          \/ Batched(s, text) = [s EXCEPT !.parts = longer,
                                          !.total = s.total + Len(text)]
      BY DEF Batched, more, longer
    <3>3. [batches |-> more, parts |-> <<text>>, total |-> Len(text)] \in S
      BY <2>1, <2>2, <3>1
    <3>4. [s EXCEPT !.parts = longer, !.total = s.total + Len(text)] \in S
      BY <3>1
    <3> QED BY <3>2, <3>3, <3>4
  <2> QED BY <2>4 DEF text
<1>3. f \in [S \X (1..n) -> S]
  <2> HIDE DEF S
  <2> QED BY <1>2
<1>4. PICK iter \in [SUBSET (1..n) -> S] :
        Folded(iter, n, [batches |-> <<>>, parts |-> <<>>, total |-> 0], f)
  <2>1. [batches |-> <<>>, parts |-> <<>>, total |-> 0] \in S
    BY SingleIs
  <2> HIDE DEF S, f
  <2> QED BY <1>1, <1>3, <2>1, FoldExists
<1>5. Eq(iter)
  <2>1. ASSUME NEW u \in SUBSET (1..n), u # {}
        PROVE  f[<<iter[u \ {Max(u)}], Max(u)>>] =
                 Batched(iter[u \ {Max(u)}], Sanitize(lines[Max(u)]))
    <3>1. Max(u) \in 1..n
      BY <1>1, <2>1, MaxOfSome
    <3>2. <<iter[u \ {Max(u)}], Max(u)>> \in S \X (1..n)
      BY <1>4, <3>1
    <3> HIDE DEF S
    <3> QED BY <3>2
  <2> HIDE DEF S, f
  <2> QED BY <1>4, <2>1 DEF Folded
<1>6. Eq(fold)
  <2> HIDE DEF Eq
  <2> QED BY <1>5
<1>7. FoldLeft(LAMBDA acc, t : Batched(acc, Sanitize(t)),
                           [batches |-> <<>>, parts |-> <<>>, total |-> 0], lines) = fold[1..n]
  BY <1>1 DEF FoldLeft, MapThenFoldSet
<1> HIDE DEF fold
<1>8. fold[{}] = [batches |-> <<>>, parts |-> <<>>, total |-> 0] /\ 1..0 = {}
  BY <1>6
<1>9. ASSUME NEW k \in 1..n
      PROVE  fold[1..k] = Batched(fold[1..(k - 1)], Sanitize(lines[k]))
  <2>1. Max(1..k) = k /\ (1..k) \ {k} = 1..(k - 1) /\ 1..k # {}
    BY MaxOfFirst
  <2>2. 1..k \in SUBSET (1..n)
    BY <1>1
  <2> QED BY <1>6, <2>1, <2>2
<1>10. \A k \in 1..n : k \in 0..n /\ k - 1 \in 0..n
  BY <1>1
<1>11. /\ run[0] = [batches |-> <<>>, parts |-> <<>>, total |-> 0]
       /\ FoldLeft(LAMBDA acc, t : Batched(acc, Sanitize(t)),
                           [batches |-> <<>>, parts |-> <<>>, total |-> 0], lines) = run[n]
       /\ \A k \in 1..n : run[k] = Batched(run[k - 1], Sanitize(lines[k]))
  <2>1. 0 \in 0..n /\ n \in 0..n
    BY <1>1
  <2> QED BY <1>7, <1>8, <1>9, <1>10, <2>1
<1> HIDE DEF run
<1> QED BY <1>11

Inked(ts) == \A i \in DOMAIN ts : Chars(ts[i]) # {}

\* Sequences of texts that each have something visible.
LEMMA InkedIs ==
  /\ Inked(<<>>)
  /\ \A t \in Texts : Chars(t) # {} => Inked(<<t>>)
  /\ \A ts \in Seq(Texts), t \in Texts :
       Inked(ts) /\ Chars(t) # {} => Inked(Append(ts, t))
  /\ \A ts \in Seq(Texts) : Inked(ts) /\ ts # <<>> => Ink(ts) # {}
<1>1. Inked(<<>>)
  BY DEF Inked
<1>2. ASSUME NEW t \in Texts, Chars(t) # {} PROVE Inked(<<t>>)
  <2>1. DOMAIN <<t>> = {1} /\ <<t>>[1] = t
    OBVIOUS
  <2> QED BY <1>2, <2>1 DEF Inked
<1>3. ASSUME NEW ts \in Seq(Texts), NEW t \in Texts, Inked(ts), Chars(t) # {}
      PROVE  Inked(Append(ts, t))
  <2>1. /\ DOMAIN Append(ts, t) = 1..Len(Append(ts, t)) /\ DOMAIN ts = 1..Len(ts)
    OBVIOUS
  <2> QED BY <1>3, <2>1, LongerIs DEF Inked
<1>4. ASSUME NEW ts \in Seq(Texts), Inked(ts), ts # <<>> PROVE Ink(ts) # {}
  <2>1. 1 \in DOMAIN ts
    BY <1>4
  <2> QED BY <1>4, <2>1 DEF Inked, Ink
<1> QED BY <1>1, <1>2, <1>3, <1>4

\* A batch has the text of its lines, and no batch is blank.
LEMMA BatchesAre ==
  ASSUME NEW lines \in Seq(Texts)
  PROVE  /\ SplitChunkBatches(lines) \in Seq(Texts)
         /\ Inked(SplitChunkBatches(lines))
         /\ Ink(SplitChunkBatches(lines)) = Ink(lines)
         /\ Apart(lines) => Apart(SplitChunkBatches(lines))
<1> DEFINE n == Len(lines)
           end == FoldLeft(LAMBDA acc, t : Batched(acc, Sanitize(t)),
                           [batches |-> <<>>, parts |-> <<>>, total |-> 0], lines)
<1>1. PICK run : /\ run[0] = [batches |-> <<>>, parts |-> <<>>, total |-> 0]
                 /\ end = run[n]
                 /\ \A k \in 1..n : run[k] = Batched(run[k - 1], Sanitize(lines[k]))
  BY BatchedRuns
<1>2. SplitChunkBatches(lines) = IF end.parts = <<>> THEN end.batches
                                 ELSE Append(end.batches, Join(end.parts, Break))
  BY DEF SplitChunkBatches
<1> HIDE DEF end
<1>3. n \in Nat /\ DOMAIN lines = 1..n /\ \A k \in 1..n : lines[k] \in Texts
  OBVIOUS
<1> DEFINE S == [batches : Seq(Texts), parts : Seq(Texts), total : Int]
           Kept(s, ink) == /\ s \in S /\ Inked(s.batches) /\ Inked(s.parts)
                           /\ Ink(s.batches) \cup Ink(s.parts) = ink
           Kept2(s) == /\ Apart(s.batches) /\ Apart(s.parts)
                       /\ Ink(s.batches) \cap Ink(s.parts) = {}
           Good(k) == /\ Kept(run[k], InkTo(lines, k))
                      /\ Apart(lines) => Kept2(run[k])
           G == {k \in 0..n : Good(k)}
\* What closing a batch makes of the batches.
<1>4. ASSUME NEW s \in S, Inked(s.batches), Inked(s.parts), s.parts # <<>>
      PROVE  LET more == Append(s.batches, Join(s.parts, Break))
             IN  /\ more \in Seq(Texts) /\ Inked(more)
                 /\ Ink(more) = Ink(s.batches) \cup Ink(s.parts)
                 /\ Kept2(s) => Apart(more)
  <2> DEFINE joined == Join(s.parts, Break)
             more == Append(s.batches, joined)
  <2>1. s.batches \in Seq(Texts) /\ s.parts \in Seq(Texts)
    OBVIOUS
  <2>2. /\ joined \in Texts /\ Chars(joined) = Ink(s.parts)
        /\ Apart(s.parts) => Once(joined)
    BY <2>1, JoinIs, BreakIs
  <2>3. Chars(joined) # {}
    BY <1>4, <2>1, <2>2, InkedIs
  <2> HIDE DEF joined
  <2>4. /\ more \in Seq(Texts) /\ Ink(more) = Ink(s.batches) \cup Chars(joined)
        /\ Apart(s.batches) /\ Once(joined) /\ Ink(s.batches) \cap Chars(joined) = {} =>
             Apart(more)
    BY <2>1, <2>2, LongerIs
  <2>5. Inked(more)
    BY <1>4, <2>1, <2>2, <2>3, InkedIs
  <2> HIDE DEF more
  <2>6. Kept2(s) => Apart(more)
    BY <2>2, <2>4
  <2>7. more \in Seq(Texts) /\ Inked(more) /\ Ink(more) = Ink(s.batches) \cup Ink(s.parts)
    BY <2>2, <2>4, <2>5
  <2> QED BY <2>6, <2>7 DEF more, joined
<1>5. 0 \in G
  <2>1. InkTo(lines, 0) = {}
    BY InkToIs
  <2> DEFINE s == run[0]
  <2>2. s \in S /\ s.batches = <<>> /\ s.parts = <<>>
    BY <1>1, SingleIs
  <2> HIDE DEF s
  <2>3. Kept(s, {}) /\ Kept2(s)
    BY <2>2, SingleIs, InkedIs
  <2>4. Good(0)
    BY <2>1, <2>3 DEF s
  <2> QED BY <2>4, <1>3
<1>6. ASSUME NEW k \in 1..n, k - 1 \in G PROVE k \in G
  <2> DEFINE s == run[k - 1]
             text == Sanitize(lines[k])
             e == run[k]
             longer == Append(s.parts, text)
             more == Append(s.batches, Join(s.parts, Break))
  <2>1. /\ s \in S /\ Inked(s.batches) /\ Inked(s.parts) /\ k \in 0..n
        /\ Ink(s.batches) \cup Ink(s.parts) = InkTo(lines, k - 1)
        /\ Apart(lines) => Kept2(s)
    BY <1>3, <1>6
  <2>2. /\ text \in Texts /\ (Apart(lines) => Once(text))
        /\ Chars(text) = Chars(lines[k]) /\ (text = <<>> <=> Chars(text) = {})
    <3>1. lines[k] \in Texts /\ (Apart(lines) => Once(lines[k]))
      BY <1>3 DEF Apart
    <3> QED BY <3>1, SanitizeIs
  <2>3. /\ InkTo(lines, k) = InkTo(lines, k - 1) \cup Chars(text)
        /\ Apart(lines) => InkTo(lines, k - 1) \cap Chars(text) = {}
    BY <2>2, InkToIs
  <2>4. e = Batched(s, text)
    BY <1>1
  <2>5. Len(text) \in Int /\ s.total \in Int
    BY <2>1, <2>2, TextHas
  <2>6. s.parts \in Seq(Texts) /\ s.batches \in Seq(Texts)
    BY <2>1
  <2>7. SUFFICES Kept(e, InkTo(lines, k)) /\ (Apart(lines) => Kept2(e))
    BY <2>1
  <2> HIDE DEF e, s, text
  <2>8. CASE text = <<>>
    <3>1. e = s /\ Chars(text) = {}
      BY <2>2, <2>4, <2>8 DEF Batched
    <3> QED BY <3>1, <2>1, <2>3
  <2>9. CASE /\ text # <<>> /\ s.parts # <<>>
             /\ s.total + Len(text) > MaxBatchChars
    <3>1. e = [batches |-> more, parts |-> <<text>>, total |-> Len(text)]
      BY <2>4, <2>9 DEF Batched
    <3>2. /\ more \in Seq(Texts) /\ Inked(more)
          /\ Ink(more) = Ink(s.batches) \cup Ink(s.parts)
          /\ Kept2(s) => Apart(more)
      BY <1>4, <2>1, <2>9
    <3>3. /\ <<text>> \in Seq(Texts) /\ Inked(<<text>>) /\ Ink(<<text>>) = Chars(text)
          /\ Once(text) => Apart(<<text>>)
      BY <2>2, <2>9, SingleIs, InkedIs
    <3> HIDE DEF more
    <3>4. e \in S /\ e.batches = more /\ e.parts = <<text>>
      BY <3>1, <3>2, <3>3, <2>5
    <3>5. Kept(e, InkTo(lines, k))
      BY <3>2, <3>3, <3>4, <2>1, <2>3
    <3>6. Apart(lines) => Kept2(e)
      BY <3>2, <3>3, <3>4, <2>1, <2>2, <2>3
    <3> QED BY <3>5, <3>6
  <2>10. CASE /\ text # <<>>
              /\ ~(s.parts # <<>> /\ s.total + Len(text) > MaxBatchChars)
    <3>1. e = [s EXCEPT !.parts = longer, !.total = s.total + Len(text)]
      BY <2>4, <2>10 DEF Batched
    <3>2. /\ longer \in Seq(Texts) /\ Ink(longer) = Ink(s.parts) \cup Chars(text)
          /\ Apart(s.parts) /\ Once(text) /\ Ink(s.parts) \cap Chars(text) = {} =>
               Apart(longer)
      BY <2>2, <2>6, LongerIs
    <3>3. Inked(longer)
      BY <2>1, <2>2, <2>6, <2>10, InkedIs
    <3> HIDE DEF longer
    <3>4. e \in S /\ e.batches = s.batches /\ e.parts = longer
      <4>1. s \in S /\ longer \in Seq(Texts) /\ s.total + Len(text) \in Int
        BY <3>2, <2>1, <2>5
      <4> QED BY <4>1, <3>1
    <3>5. Kept(e, InkTo(lines, k))
      BY <3>2, <3>3, <3>4, <2>1, <2>3
    <3>6. Apart(lines) => Kept2(e)
      BY <3>2, <3>4, <2>1, <2>2, <2>3
    <3> QED BY <3>5, <3>6
  <2> QED BY <2>8, <2>9, <2>10
<1>7. Good(n)
  <2>1. n \in 0..n
    BY <1>3
  <2>2. \A k \in 0..n : k \in G
    <3> HIDE DEF G
    <3> QED BY <1>3, <1>5, <1>6, Climb
  <2> QED BY <2>1, <2>2
<1>8. /\ end \in S /\ Inked(end.batches) /\ Inked(end.parts)
      /\ Ink(end.batches) \cup Ink(end.parts) = Ink(lines)
      /\ Apart(lines) => Kept2(end)
  BY <1>1, <1>7, InkToIs
<1>9. CASE end.parts = <<>>
  <2>1. Ink(end.parts) = {}
    BY <1>9, SingleIs
  <2> QED BY <1>2, <1>8, <1>9, <2>1
<1>10. CASE end.parts # <<>>
  <2> DEFINE more == Append(end.batches, Join(end.parts, Break))
  <2>1. /\ more \in Seq(Texts) /\ Inked(more)
        /\ Ink(more) = Ink(end.batches) \cup Ink(end.parts)
        /\ Kept2(end) => Apart(more)
    BY <1>4, <1>8, <1>10
  <2>2. SplitChunkBatches(lines) = more
    BY <1>2, <1>10
  <2> HIDE DEF more
  <2> QED BY <2>1, <2>2, <1>8
<1> QED BY <1>9, <1>10

\* What is visible of groups of texts, and that they share nothing.
InkAll(gs) == UNION {Ink(gs[g]) : g \in DOMAIN gs}

ApartAll(gs) ==
  /\ \A g \in DOMAIN gs : Apart(gs[g])
  /\ \A g, h \in DOMAIN gs : g # h => Ink(gs[g]) \cap Ink(gs[h]) = {}

\* A group more.
LEMMA GroupMoreIs ==
  ASSUME NEW gs \in Seq(Seq(Texts)), NEW ts \in Seq(Texts)
  PROVE  /\ Append(gs, ts) \in Seq(Seq(Texts))
         /\ InkAll(Append(gs, ts)) = InkAll(gs) \cup Ink(ts)
         /\ ApartAll(gs) /\ Apart(ts) /\ InkAll(gs) \cap Ink(ts) = {} =>
              ApartAll(Append(gs, ts))
<1> DEFINE hs == Append(gs, ts)
<1>1. /\ hs \in Seq(Seq(Texts)) /\ Len(gs) \in Nat
      /\ DOMAIN hs = 1..(Len(gs) + 1) /\ DOMAIN gs = 1..Len(gs)
      /\ \A i \in 1..Len(gs) : hs[i] = gs[i]
      /\ hs[Len(gs) + 1] = ts
  OBVIOUS
<1> HIDE DEF hs
<1>2. \A g \in DOMAIN hs : \/ g \in DOMAIN gs /\ hs[g] = gs[g]
                           \/ g = Len(gs) + 1 /\ hs[g] = ts
  BY <1>1
<1>3. \A g \in DOMAIN gs : g \in DOMAIN hs /\ hs[g] = gs[g]
  BY <1>1
<1>4. Len(gs) + 1 \in DOMAIN hs
  BY <1>1
<1>5. InkAll(hs) = InkAll(gs) \cup Ink(ts)
  <2>1. InkAll(hs) \subseteq InkAll(gs) \cup Ink(ts)
    <3> SUFFICES ASSUME NEW g \in DOMAIN hs
                 PROVE  Ink(hs[g]) \subseteq InkAll(gs) \cup Ink(ts)
      BY DEF InkAll
    <3> QED BY <1>2 DEF InkAll
  <2>2. InkAll(gs) \subseteq InkAll(hs)
    BY <1>3 DEF InkAll
  <2>3. Ink(ts) \subseteq InkAll(hs)
    BY <1>4, <1>1 DEF InkAll
  <2> QED BY <2>1, <2>2, <2>3
<1>6. ASSUME ApartAll(gs), Apart(ts), InkAll(gs) \cap Ink(ts) = {}
      PROVE  ApartAll(hs)
  <2>1. \A g \in DOMAIN hs : Apart(hs[g])
    BY <1>2, <1>6 DEF ApartAll
  <2>2. \A g \in DOMAIN gs : Ink(gs[g]) \cap Ink(ts) = {}
    BY <1>6 DEF InkAll
  <2>3. ASSUME NEW g \in DOMAIN hs, NEW h \in DOMAIN hs, g # h
        PROVE  Ink(hs[g]) \cap Ink(hs[h]) = {}
    <3>1. CASE g \in DOMAIN gs /\ hs[g] = gs[g] /\ h \in DOMAIN gs /\ hs[h] = gs[h]
      BY <2>3, <3>1, <1>6 DEF ApartAll
    <3>2. CASE g \in DOMAIN gs /\ hs[g] = gs[g] /\ hs[h] = ts
      BY <3>2, <2>2
    <3>3. CASE h \in DOMAIN gs /\ hs[h] = gs[h] /\ hs[g] = ts
      BY <3>3, <2>2
    <3> QED BY <1>2, <2>3, <3>1, <3>2, <3>3
  <2> QED BY <2>1, <2>3 DEF ApartAll
<1> QED BY <1>1, <1>5, <1>6 DEF hs

\* The groups have what is visible of the lines.
LEMMA GroupsAre ==
  ASSUME NEW lines \in Seq(Texts)
  PROVE  /\ SplitChunkLineGroups(lines) \in Seq(Seq(Texts))
         /\ InkAll(SplitChunkLineGroups(lines)) = Ink(lines)
         /\ Apart(lines) => ApartAll(SplitChunkLineGroups(lines))
<1> DEFINE n == Len(lines)
           end == FoldLeft(Grouped, [groups |-> <<>>, current |-> <<>>], lines)
<1>1. PICK run : /\ run[0] = [groups |-> <<>>, current |-> <<>>]
                 /\ end = run[n]
                 /\ \A k \in 1..n : run[k] = Grouped(run[k - 1], lines[k])
  BY GroupedRuns
<1>2. SplitChunkLineGroups(lines) = IF end.current = <<>> THEN end.groups
                                    ELSE Append(end.groups, end.current)
  BY DEF SplitChunkLineGroups
<1> HIDE DEF end
<1>3. n \in Nat /\ DOMAIN lines = 1..n /\ \A k \in 1..n : lines[k] \in Texts
  OBVIOUS
<1> DEFINE S == [groups : Seq(Seq(Texts)), current : Seq(Texts)]
           Kept(s) == /\ ApartAll(s.groups) /\ Apart(s.current)
                      /\ InkAll(s.groups) \cap Ink(s.current) = {}
           Good(k) == /\ run[k] \in S
                      /\ InkAll(run[k].groups) \cup Ink(run[k].current) = InkTo(lines, k)
                      /\ Apart(lines) => Kept(run[k])
           G == {k \in 0..n : Good(k)}
<1>4. 0 \in G
  <2>1. InkTo(lines, 0) = {}
    BY InkToIs
  <2> DEFINE s == run[0]
  <2>2. s \in S /\ s.groups = <<>> /\ s.current = <<>>
    BY <1>1, SingleIs
  <2> HIDE DEF s
  <2>3. InkAll(<<>>) = {} /\ ApartAll(<<>>)
    BY DEF InkAll, ApartAll
  <2>4. InkAll(s.groups) \cup Ink(s.current) = {} /\ Kept(s)
    BY <2>2, <2>3, SingleIs
  <2>5. Good(0)
    BY <2>1, <2>2, <2>4 DEF s
  <2> QED BY <2>5, <1>3
<1>5. ASSUME NEW k \in 1..n, k - 1 \in G PROVE k \in G
  <2> DEFINE s == run[k - 1]
             line == lines[k]
             e == run[k]
             longer == Append(s.current, line)
             more == Append(s.groups, longer)
  <2>1. /\ s \in S /\ InkAll(s.groups) \cup Ink(s.current) = InkTo(lines, k - 1)
        /\ Apart(lines) => Kept(s)
        /\ k \in 0..n /\ line \in Texts /\ (Apart(lines) => Once(line))
    <3>1. Good(k - 1) /\ k \in 0..n
      BY <1>3, <1>5
    <3>2. line \in Texts /\ (Apart(lines) => Once(line))
      BY <1>3 DEF Apart
    <3> HIDE DEF Kept, line
    <3> QED BY <3>1, <3>2
  <2>2. /\ InkTo(lines, k) = InkTo(lines, k - 1) \cup Chars(line)
        /\ Apart(lines) => InkTo(lines, k - 1) \cap Chars(line) = {}
    BY InkToIs
  <2>3. e = Grouped(s, line)
    BY <1>1
  <2>4. s.groups \in Seq(Seq(Texts)) /\ s.current \in Seq(Texts)
    BY <2>1
  <2>5. SUFFICES /\ e \in S /\ InkAll(e.groups) \cup Ink(e.current) = InkTo(lines, k)
                 /\ Apart(lines) => Kept(e)
    BY <2>1
  <2> HIDE DEF e, s, line
  <2>6. CASE Strip(line) = <<>>
    <3>1. e = s /\ Chars(line) = {}
      BY <2>1, <2>3, <2>6, StripIs DEF Grouped
    <3> QED BY <3>1, <2>1, <2>2
  <2>7. /\ longer \in Seq(Texts) /\ Ink(longer) = Ink(s.current) \cup Chars(line)
        /\ Apart(s.current) /\ Once(line) /\ Ink(s.current) \cap Chars(line) = {} =>
             Apart(longer)
    BY <2>1, <2>4, LongerIs
  <2>8. CASE Strip(line) # <<>> /\ Len(longer) >= ChunksPerGroup
    <3>1. e = [groups |-> more, current |-> <<>>]
      BY <2>3, <2>8 DEF Grouped
    <3> HIDE DEF longer
    <3>2. /\ more \in Seq(Seq(Texts)) /\ InkAll(more) = InkAll(s.groups) \cup Ink(longer)
          /\ ApartAll(s.groups) /\ Apart(longer) /\ InkAll(s.groups) \cap Ink(longer) = {} =>
               ApartAll(more)
      BY <2>4, <2>7, GroupMoreIs
    <3> HIDE DEF more
    <3>3. e \in S /\ e.groups = more /\ e.current = <<>>
      BY <3>1, <3>2, SingleIs
    <3>4. InkAll(e.groups) \cup Ink(e.current) = InkTo(lines, k)
      BY <3>2, <3>3, <2>1, <2>2, <2>7, SingleIs
    <3>5. Apart(lines) => Kept(e)
      BY <3>2, <3>3, <2>1, <2>2, <2>7, SingleIs
    <3> QED BY <3>3, <3>4, <3>5
  <2>9. CASE Strip(line) # <<>> /\ ~(Len(longer) >= ChunksPerGroup)
    <3>1. e = [s EXCEPT !.current = longer]
      BY <2>3, <2>9 DEF Grouped
    <3> HIDE DEF longer
    <3>2. e \in S /\ e.groups = s.groups /\ e.current = longer
      BY <3>1, <2>1, <2>7
    <3>3. InkAll(e.groups) \cup Ink(e.current) = InkTo(lines, k)
      BY <3>2, <2>1, <2>2, <2>7
    <3>4. Apart(lines) => Kept(e)
      BY <3>2, <2>1, <2>2, <2>7
    <3> QED BY <3>2, <3>3, <3>4
  <2> QED BY <2>6, <2>8, <2>9
<1>6. Good(n)
  <2>1. n \in 0..n
    BY <1>3
  <2>2. \A k \in 0..n : k \in G
    <3> HIDE DEF G
    <3> QED BY <1>3, <1>4, <1>5, Climb
  <2> QED BY <2>1, <2>2
<1>7. /\ end \in S /\ InkAll(end.groups) \cup Ink(end.current) = Ink(lines)
      /\ Apart(lines) => Kept(end)
  BY <1>1, <1>6, InkToIs
<1>8. CASE end.current = <<>>
  <2>1. Ink(end.current) = {}
    BY <1>8, SingleIs
  <2> QED BY <1>2, <1>7, <1>8, <2>1
<1>9. CASE end.current # <<>>
  <2> DEFINE more == Append(end.groups, end.current)
  <2>1. end.groups \in Seq(Seq(Texts)) /\ end.current \in Seq(Texts)
    BY <1>7
  <2>2. /\ more \in Seq(Seq(Texts)) /\ InkAll(more) = InkAll(end.groups) \cup Ink(end.current)
        /\ ApartAll(end.groups) /\ Apart(end.current)
             /\ InkAll(end.groups) \cap Ink(end.current) = {} => ApartAll(more)
    BY <2>1, GroupMoreIs
  <2>3. SplitChunkLineGroups(lines) = more
    BY <1>2, <1>9
  <2> HIDE DEF more
  <2> QED BY <2>2, <2>3, <1>7
<1> QED BY <1>8, <1>9

-----------------------------------------------------------------------------
(* The chunkers.                                                           *)

TextsOf(boxes) == [i \in DOMAIN boxes |-> boxes[i].text]

\* The text a chunker must keep of the first k boxes.
BodyTo(boxes, k) ==
  UNION {Chars(boxes[i].text) :
           i \in {j \in 1..k : boxes[j].role \in {"table", "paragraph"}}}

\* The texts of a sequence of boxes, and the body of its first boxes, which
\* grows by one box at a place.
LEMMA BoxTextsAre ==
  ASSUME NEW boxes \in Seq(Boxes)
  PROVE  /\ TextsOf(boxes) \in Seq(Texts) /\ Len(TextsOf(boxes)) = Len(boxes)
         /\ \A k \in 1..Len(boxes) :
              /\ boxes[k] \in Boxes /\ boxes[k].text \in Texts
              /\ TextsOf(boxes)[k] = boxes[k].text
         /\ BodyTo(boxes, 0) = {}
         /\ \A k \in 1..Len(boxes) :
              BodyTo(boxes, k) = BodyTo(boxes, k - 1) \cup
                IF boxes[k].role \in {"table", "paragraph"}
                THEN Chars(boxes[k].text) ELSE {}
<1>1. /\ Len(boxes) \in Nat /\ DOMAIN boxes = 1..Len(boxes)
      /\ \A k \in 1..Len(boxes) : boxes[k] \in Boxes
  OBVIOUS
<1>2. \A k \in 1..Len(boxes) : boxes[k].text \in Texts
  BY <1>1 DEF Boxes
<1>3. TextsOf(boxes) \in Seq(Texts) /\ Len(TextsOf(boxes)) = Len(boxes)
  <2>1. TextsOf(boxes) = [i \in 1..Len(boxes) |-> boxes[i].text]
    BY <1>1 DEF TextsOf
  <2> QED BY <2>1, <1>1, <1>2
<1>4. \A k \in 1..Len(boxes) : TextsOf(boxes)[k] = boxes[k].text
  BY <1>1 DEF TextsOf
<1>5. BodyTo(boxes, 0) = {}
  BY DEF BodyTo
<1>6. ASSUME NEW k \in 1..Len(boxes)
      PROVE  BodyTo(boxes, k) = BodyTo(boxes, k - 1) \cup
               IF boxes[k].role \in {"table", "paragraph"}
               THEN Chars(boxes[k].text) ELSE {}
  <2> DEFINE J(m) == {j \in 1..m : boxes[j].role \in {"table", "paragraph"}}
  <2>1. J(k) = J(k - 1) \cup IF boxes[k].role \in {"table", "paragraph"} THEN {k} ELSE {}
    <3>1. 1..k = (1..(k - 1)) \cup {k}
      BY <1>1
    <3> QED BY <3>1
  <2>2. \A m : BodyTo(boxes, m) = UNION {Chars(boxes[i].text) : i \in J(m)}
    BY DEF BodyTo
  <2> HIDE DEF J
  <2>3. CASE boxes[k].role \in {"table", "paragraph"}
    <3>1. J(k) = J(k - 1) \cup {k}
      BY <2>1, <2>3
    <3> QED BY <2>2, <2>3, <3>1
  <2>4. CASE boxes[k].role \notin {"table", "paragraph"}
    <3>1. J(k) = J(k - 1)
      BY <2>1, <2>4
    <3> QED BY <2>2, <2>4, <3>1
  <2> QED BY <2>3, <2>4
<1> QED BY <1>1, <1>2, <1>3, <1>4, <1>5, <1>6

\* What a chunker made of the first k boxes: nothing of their body is
\* missing, and nothing there is twice.
Chunked(chunks, boxes, k) ==
  /\ chunks \in Seq(Texts)
  /\ Ink(chunks) \subseteq InkTo(TextsOf(boxes), k)
  /\ BodyTo(boxes, k) \subseteq Ink(chunks)
  /\ Apart(TextsOf(boxes)) => Apart(chunks)

\* The box after them.
LEMMA NextBoxIs ==
  ASSUME NEW boxes \in Seq(Boxes), NEW k \in 1..Len(boxes), NEW chunks,
         Chunked(chunks, boxes, k - 1)
  PROVE  /\ boxes[k].role \notin {"table", "paragraph"} \/ boxes[k].text = <<>> =>
              Chunked(chunks, boxes, k)
         /\ Chunked(chunks \o SplitOversized(boxes[k].text), boxes, k)
<1> DEFINE text == boxes[k].text
           old == InkTo(TextsOf(boxes), k - 1)
           pieces == SplitOversized(text)
<1>1. /\ text \in Texts
      /\ InkTo(TextsOf(boxes), k) = old \cup Chars(text)
      /\ Apart(TextsOf(boxes)) => old \cap Chars(text) = {} /\ Once(text)
  <2>1. TextsOf(boxes) \in Seq(Texts) /\ k \in 1..Len(TextsOf(boxes))
        /\ TextsOf(boxes)[k] = text /\ text \in Texts
    BY BoxTextsAre
  <2> HIDE DEF text
  <2>2. k \in DOMAIN TextsOf(boxes)
    BY <2>1
  <2> QED BY <2>1, <2>2, InkToIs DEF Apart
<1>2. /\ BodyTo(boxes, k) \subseteq BodyTo(boxes, k - 1) \cup Chars(text)
      /\ boxes[k].role \notin {"table", "paragraph"} \/ text = <<>> =>
           BodyTo(boxes, k) = BodyTo(boxes, k - 1)
  <2> DEFINE kept == IF boxes[k].role \in {"table", "paragraph"}
                     THEN Chars(boxes[k].text) ELSE {}
  <2>1. BodyTo(boxes, k) = BodyTo(boxes, k - 1) \cup kept
    BY BoxTextsAre
  <2>2. kept \subseteq Chars(text)
    OBVIOUS
  <2>3. boxes[k].role \notin {"table", "paragraph"} \/ text = <<>> => kept = {}
    BY EmptyIs
  <2> HIDE DEF kept, text
  <2> QED BY <2>1, <2>2, <2>3
<1>3. /\ pieces \in Seq(Texts) /\ Ink(pieces) = Chars(text)
      /\ Once(text) => Apart(pieces)
  BY <1>1, OversizedIs
<1> HIDE DEF text, old, pieces
<1>4. /\ chunks \in Seq(Texts) /\ Ink(chunks) \subseteq old
      /\ BodyTo(boxes, k - 1) \subseteq Ink(chunks)
      /\ Apart(TextsOf(boxes)) => Apart(chunks)
  BY DEF Chunked, old
<1>5. ASSUME boxes[k].role \notin {"table", "paragraph"} \/ text = <<>>
      PROVE  Chunked(chunks, boxes, k)
  BY <1>1, <1>2, <1>4, <1>5 DEF Chunked
<1>6. Chunked(chunks \o pieces, boxes, k)
  <2>1. /\ chunks \o pieces \in Seq(Texts)
        /\ Ink(chunks \o pieces) = Ink(chunks) \cup Ink(pieces)
        /\ Apart(chunks) /\ Apart(pieces) /\ Ink(chunks) \cap Ink(pieces) = {} =>
             Apart(chunks \o pieces)
    BY <1>3, <1>4, JoinedIs
  <2>2. Apart(TextsOf(boxes)) => Ink(chunks) \cap Ink(pieces) = {}
    BY <1>1, <1>3, <1>4
  <2> QED BY <2>1, <2>2, <1>1, <1>2, <1>3, <1>4 DEF Chunked
<1> QED BY <1>5, <1>6 DEF text, pieces

\* The chunks of a sequence of blocks keep its body.
LEMMA BlocksAre ==
  ASSUME NEW blocks \in Seq(Boxes)
  PROVE  Chunked(ChunkFromBlocks(blocks), blocks, Len(blocks))
<1> DEFINE n == Len(blocks)
<1>1. PICK run : /\ run[0] = <<>> /\ ChunkFromBlocks(blocks) = run[n]
                 /\ \A k \in 1..n : run[k] = Blocked(run[k - 1], blocks[k])
  BY BlockedRuns
<1>2. n \in Nat
  OBVIOUS
<1> DEFINE G == {k \in 0..n : Chunked(run[k], blocks, k)}
<1>3. 0 \in G
  <2>1. BodyTo(blocks, 0) = {}
    BY BoxTextsAre
  <2>2. Chunked(run[0], blocks, 0)
    BY <2>1, <1>1, SingleIs DEF Chunked
  <2> QED BY <2>2, <1>2
<1>4. ASSUME NEW k \in 1..n, k - 1 \in G PROVE k \in G
  <2>1. Chunked(run[k - 1], blocks, k - 1) /\ k \in 0..n
    BY <1>2, <1>4
  <2>2. run[k] = Blocked(run[k - 1], blocks[k])
    BY <1>1
  <2>3. CASE blocks[k].role = "heading" \/ blocks[k].text = <<>>
    <3>1. run[k] = run[k - 1]
      BY <2>2, <2>3 DEF Blocked
    <3>2. Chunked(run[k - 1], blocks, k)
      BY <2>1, <2>3, NextBoxIs
    <3> QED BY <3>1, <3>2, <2>1
  <2>4. CASE ~(blocks[k].role = "heading" \/ blocks[k].text = <<>>)
    <3>1. run[k] = run[k - 1] \o SplitOversized(blocks[k].text)
      BY <2>2, <2>4 DEF Blocked
    <3>2. Chunked(run[k - 1] \o SplitOversized(blocks[k].text), blocks, k)
      BY <2>1, NextBoxIs
    <3> QED BY <3>1, <3>2, <2>1
  <2> QED BY <2>3, <2>4
<1>5. Chunked(run[n], blocks, n)
  <2>1. n \in 0..n
    BY <1>2
  <2>2. \A k \in 0..n : k \in G
    <3> HIDE DEF G
    <3> QED BY <1>2, <1>3, <1>4, Climb
  <2> QED BY <2>1, <2>2
<1> QED BY <1>1, <1>5

\* A caption waits, or comes with its image; it is in no chunk before.
LEMMA BoxesAre ==
  ASSUME NEW boxes \in Seq(Boxes)
  PROVE  Chunked(ChunkFromPymupdfJson(boxes), boxes, Len(boxes))
<1> DEFINE n == Len(boxes)
           ts == TextsOf(boxes)
           end == FoldLeft(Boxed, [pending |-> <<>>, chunks |-> <<>>], boxes)
<1>1. PICK run : /\ run[0] = [pending |-> <<>>, chunks |-> <<>>] /\ end = run[n]
                 /\ \A k \in 1..n : run[k] = Boxed(run[k - 1], boxes[k])
  BY BoxedRuns
<1>2. ChunkFromPymupdfJson(boxes) = end.chunks
  BY DEF ChunkFromPymupdfJson
<1> HIDE DEF end
<1>3. n \in Nat
  OBVIOUS
<1> DEFINE Waits(t, chunks, k) ==
             /\ t \in Texts /\ Chars(t) \subseteq InkTo(ts, k)
             /\ Apart(ts) => Once(t) /\ Ink(chunks) \cap Chars(t) = {}
           Good(s, k) == Chunked(s.chunks, boxes, k) /\ Waits(s.pending, s.chunks, k)
           G == {k \in 0..n : Good(run[k], k)}
<1>4. 0 \in G
  <2>1. BodyTo(boxes, 0) = {}
    BY BoxTextsAre
  <2>2. run[0].chunks = <<>> /\ run[0].pending = <<>>
    BY <1>1
  <2>3. Chunked(<<>>, boxes, 0)
    BY <2>1, SingleIs DEF Chunked
  <2>4. Waits(<<>>, <<>>, 0)
    BY EmptyIs
  <2>5. Good(run[0], 0)
    <3> HIDE DEF Waits
    <3> QED BY <2>2, <2>3, <2>4
  <2> QED BY <2>5, <1>3
<1>5. ASSUME NEW k \in 1..n, k - 1 \in G PROVE k \in G
  <2> DEFINE s == run[k - 1]
             e == run[k]
             box == boxes[k]
             text == box.text
             caption == IF text # <<>> THEN text ELSE s.pending
  <2>1. Chunked(s.chunks, boxes, k - 1) /\ Waits(s.pending, s.chunks, k - 1)
        /\ k \in 0..n
    BY <1>3, <1>5
  <2>2. e = Boxed(s, box)
    BY <1>1
  <2>3. /\ text \in Texts
        /\ InkTo(ts, k) = InkTo(ts, k - 1) \cup Chars(text)
        /\ Apart(ts) => InkTo(ts, k - 1) \cap Chars(text) = {} /\ Once(text)
    <3>1. ts \in Seq(Texts) /\ k \in 1..Len(ts) /\ ts[k] = text /\ text \in Texts
      BY BoxTextsAre
    <3> HIDE DEF ts, text
    <3>2. k \in DOMAIN ts
      BY <3>1
    <3> QED BY <3>1, <3>2, InkToIs DEF Apart
  <2>4. SUFFICES Good(e, k)
    BY <2>1
  <2>5. s.chunks \in Seq(Texts) /\ Ink(s.chunks) \subseteq InkTo(ts, k - 1)
    BY <2>1 DEF Chunked
  <2>6. \A chunks : Waits(<<>>, chunks, k)
    BY EmptyIs
  <2>7. CASE box.role = "caption"
    <3>1. e = [s EXCEPT !.pending = text]
      BY <2>2, <2>7 DEF Boxed
    <3>2. Chunked(s.chunks, boxes, k)
      BY <2>1, <2>7, NextBoxIs
    <3>3. Waits(text, s.chunks, k)
      BY <2>3, <2>5
    <3> QED BY <3>1, <3>2, <3>3
  <2>8. CASE box.role = "heading"
    <3>1. e = s
      BY <2>2, <2>8 DEF Boxed
    <3>2. Chunked(s.chunks, boxes, k)
      BY <2>1, <2>8, NextBoxIs
    <3> QED BY <3>1, <3>2, <2>1, <2>3
  <2>9. CASE box.role = "image"
    <3>1. e = [pending |-> <<>>, chunks |-> IF caption = <<>> THEN s.chunks
                                            ELSE Append(s.chunks, caption)]
      BY <2>2, <2>9 DEF Boxed
    <3>2. Chunked(s.chunks, boxes, k)
      BY <2>1, <2>9, NextBoxIs
    <3>3. Waits(caption, s.chunks, k)
      BY <2>1, <2>3, <2>5
    <3> HIDE DEF caption
    <3>4. Chunked(Append(s.chunks, caption), boxes, k)
      <4>1. /\ Append(s.chunks, caption) \in Seq(Texts)
            /\ Ink(Append(s.chunks, caption)) = Ink(s.chunks) \cup Chars(caption)
            /\ Apart(s.chunks) /\ Once(caption) /\ Ink(s.chunks) \cap Chars(caption) = {} =>
                 Apart(Append(s.chunks, caption))
        BY <2>5, <3>3, LongerIs
      <4> QED BY <4>1, <3>2, <3>3 DEF Chunked
    <3> HIDE DEF Waits
    <3> QED BY <3>1, <3>2, <3>4, <2>6
  <2>10. CASE box.role \notin {"caption", "heading", "image"}
    <3>1. e = [pending |-> <<>>, chunks |-> IF text = <<>> THEN s.chunks
                                            ELSE s.chunks \o SplitOversized(text)]
      BY <2>2, <2>10 DEF Boxed
    <3>2. text = <<>> => Chunked(s.chunks, boxes, k)
      BY <2>1, NextBoxIs
    <3>3. Chunked(s.chunks \o SplitOversized(text), boxes, k)
      BY <2>1, NextBoxIs
    <3> HIDE DEF Waits, text
    <3> QED BY <3>1, <3>2, <3>3, <2>6
  <2> QED BY <2>7, <2>8, <2>9, <2>10
<1>6. Good(run[n], n)
  <2>1. n \in 0..n
    BY <1>3
  <2>2. \A k \in 0..n : k \in G
    <3> HIDE DEF G
    <3> QED BY <1>3, <1>4, <1>5, Climb
  <2> QED BY <2>1, <2>2
<1> QED BY <1>1, <1>2, <1>6

\* What a job works on: every batch has something to say, no two batches share
\* anything, and all the chunkers must keep is there.
LEMMA LoadedIs ==
  ASSUME NEW d \in Document, NEW lines, lines = SplitChunkLineGroups(ChunksOf(d)),
         NEW gs, gs = [g \in DOMAIN lines |-> SplitChunkBatches(lines[g])]
  PROVE  /\ gs \in Seq(Seq(Texts))
         /\ \A g \in DOMAIN gs : Inked(gs[g])
         /\ ApartAll(gs)
         /\ Body(d) \subseteq InkAll(gs)
<1> DEFINE boxes == d.boxes
           chunks == ChunksOf(d)
<1>1. boxes \in Seq(Boxes) /\ Numbered(boxes)
  BY ConstantsAssumption DEF Boxes, Texts
<1>2. Chunked(chunks, boxes, Len(boxes))
  <2> HIDE DEF boxes
  <2>1. chunks = ChunkFromPymupdfJson(boxes) \/ chunks = ChunkFromBlocks(boxes)
    BY DEF ChunksOf, boxes
  <2> HIDE DEF chunks
  <2> QED BY <1>1, <2>1, BoxesAre, BlocksAre
<1>3. Apart(TextsOf(boxes))
  <2> HIDE DEF boxes
  <2>1. DOMAIN TextsOf(boxes) = DOMAIN boxes /\ DOMAIN boxes = 1..Len(boxes)
    BY <1>1 DEF TextsOf
  <2>2. \A a \in DOMAIN boxes : /\ TextsOf(boxes)[a] = boxes[a].text
                                /\ boxes[a].text \in Texts
    BY <1>1, <2>1, BoxTextsAre
  <2>3. ASSUME NEW a \in DOMAIN boxes PROVE Once(boxes[a].text)
    BY <1>1 DEF Numbered, Once
  <2>4. ASSUME NEW a \in DOMAIN boxes, NEW b \in DOMAIN boxes, a # b,
               NEW c \in Chars(boxes[a].text), c \in Chars(boxes[b].text)
        PROVE  FALSE
    <3>1. PICK i \in DOMAIN boxes[a].text : boxes[a].text[i] = c
      BY DEF Chars, ToSet
    <3>2. PICK j \in DOMAIN boxes[b].text : boxes[b].text[j] = c
      BY <2>4 DEF Chars, ToSet
    <3>3. ~IsBlank(c)
      BY DEF Chars, IsBlank
    <3> QED BY <3>1, <3>2, <3>3, <2>4, <1>1 DEF Numbered
  <2>5. \A a, b \in DOMAIN boxes :
          a # b => Chars(boxes[a].text) \cap Chars(boxes[b].text) = {}
    BY <2>4
  <2> QED BY <2>1, <2>2, <2>3, <2>5 DEF Apart
<1>4. Body(d) = BodyTo(boxes, Len(boxes))
  <2>1. DOMAIN boxes = 1..Len(boxes)
    BY <1>1
  <2> QED BY <2>1 DEF Body, BodyTo
<1> HIDE DEF boxes
<1>5. chunks \in Seq(Texts) /\ Apart(chunks) /\ Body(d) \subseteq Ink(chunks)
  BY <1>2, <1>3, <1>4 DEF Chunked
<1> HIDE DEF chunks
<1>6. lines \in Seq(Seq(Texts)) /\ InkAll(lines) = Ink(chunks) /\ ApartAll(lines)
  BY <1>5, GroupsAre DEF chunks
<1>7. /\ Len(lines) \in Nat /\ DOMAIN lines = 1..Len(lines)
      /\ \A g \in DOMAIN lines : lines[g] \in Seq(Texts)
  BY <1>6
<1>8. ASSUME NEW g \in DOMAIN lines
      PROVE  /\ gs[g] \in Seq(Texts) /\ Inked(gs[g]) /\ Apart(gs[g])
             /\ Ink(gs[g]) = Ink(lines[g])
  <2>1. gs[g] = SplitChunkBatches(lines[g]) /\ Apart(lines[g]) /\ lines[g] \in Seq(Texts)
    BY <1>6, <1>7 DEF ApartAll
  <2> QED BY <2>1, BatchesAre
<1>9. DOMAIN gs = DOMAIN lines
  OBVIOUS
<1>10. gs \in Seq(Seq(Texts))
  BY <1>7, <1>8
<1>11. ApartAll(gs)
  BY <1>6, <1>8, <1>9 DEF ApartAll
<1>12. InkAll(gs) = InkAll(lines)
  BY <1>8, <1>9 DEF InkAll
<1> QED BY <1>5, <1>6, <1>8, <1>9, <1>10, <1>11, <1>12

-----------------------------------------------------------------------------
(* The job.                                                                *)

Batches == UNION {InGroup(g) : g \in DOMAIN groups}

\* Batches a call was made for.
Begun == {b \in Batches : b[1] <= group} \ waiting

Control ==
  /\ doc \in Document
  /\ pc \in {"load", "extract", "succeeded", "failed"}
  /\ group \in 0..Len(groups)
  /\ waiting \subseteq {b \in Batches : b[1] <= group}
  /\ broken \subseteq Batches
  /\ pc = "load" => /\ groups = <<>> /\ group = 0 /\ waiting = {} /\ calls = {}
                    /\ broken = {} /\ answered = {} /\ lost = {}
  /\ pc = "succeeded" => group = Len(groups) /\ GroupDone

BatchesApart ==
  /\ groups \in Seq(Seq(Texts))
  /\ \A b \in Batches : /\ Text(b) \in Texts /\ Once(Text(b))
                        /\ Chars(Text(b)) # {}
  /\ \A a, b \in Batches : a # b => Chars(Text(a)) \cap Chars(Text(b)) = {}
  /\ pc \in {"extract", "succeeded"} =>
       Body(doc) \subseteq UNION {Chars(Text(b)) : b \in Batches}

\* A text in a call or behind one is of a batch that was begun.
OfBatches ==
  /\ \A c \in calls : /\ c \in [batch : Begun, text : Texts, attempt : 1..2]
                      /\ Once(c.text) /\ Chars(c.text) # {}
                      /\ Chars(c.text) \subseteq Chars(Text(c.batch))
  /\ \A t \in answered \cup lost :
       /\ t \in Texts /\ Chars(t) # {}
       /\ \E b \in Begun : Chars(t) \subseteq Chars(Text(b))
  /\ \A t \in lost : Len(t) <= MinSplit

TextsApart ==
  /\ \A c, e \in calls : c # e => Chars(c.text) \cap Chars(e.text) = {}
  /\ \A c \in calls, t \in answered \cup lost :
       Chars(c.text) \cap Chars(t) = {}
  /\ \A s, t \in answered \cup lost : s # t => Chars(s) \cap Chars(t) = {}

\* What was begun is somewhere, until the job fails.
Covered ==
  pc \in {"extract", "succeeded"} =>
    \A b \in Begun :
      Chars(Text(b)) \subseteq (UNION {Chars(c.text) : c \in calls})
                                 \cup (UNION {Chars(t) : t \in answered \cup lost})

JobInv == Control /\ BatchesApart /\ OfBatches /\ TextsApart /\ Covered

\* A batch is a group and a place in it.
LEMMA BatchIs ==
  \A b : b \in Batches <=> \E g \in DOMAIN groups : \E k \in DOMAIN groups[g] :
                             b = <<g, k>>
BY DEF Batches, InGroup

\* At first there is nothing.
LEMMA InitHolds == Init => JobInv
<1> SUFFICES ASSUME Init PROVE JobInv
  OBVIOUS
<1>1. Batches = {} /\ Len(groups) = 0 /\ groups \in Seq(Seq(Texts))
  BY DEF Init, Batches
<1>2. Begun = {}
  BY <1>1 DEF Begun
<1>3. Control
  BY <1>1 DEF Init, Control
<1>4. BatchesApart
  BY <1>1 DEF Init, BatchesApart
<1>5. OfBatches /\ TextsApart /\ Covered
  BY DEF Init, OfBatches, TextsApart, Covered
<1> QED BY <1>3, <1>4, <1>5 DEF JobInv

\* The groups are read, or the job fails at once.
LEMMA LoadKeeps ==
  ASSUME JobInv, LoadChunks
  PROVE  JobInv'
<1>1. /\ pc = "load" /\ groups = <<>> /\ group = 0 /\ waiting = {} /\ calls = {}
      /\ broken = {} /\ answered = {} /\ lost = {} /\ doc \in Document
  BY DEF JobInv, Control, LoadChunks
<1>2. /\ group' = 0 /\ waiting' = {} /\ calls' = {} /\ broken' = {}
      /\ answered' = {} /\ lost' = {} /\ doc' = doc
  BY <1>1 DEF LoadChunks
<1>3. OfBatches' /\ TextsApart'
  BY <1>2 DEF OfBatches, TextsApart
<1>4. CASE pc' = "failed" /\ UNCHANGED groups
  <2>1. groups' = groups /\ Batches' = {}
    BY <1>1, <1>4 DEF Batches
  <2>2. Control'
    BY <1>1, <1>2, <1>4, <2>1 DEF Control
  <2>3. BatchesApart'
    BY <1>1, <1>4, <2>1 DEF BatchesApart
  <2>4. Covered'
    BY <1>4 DEF Covered
  <2> QED BY <1>3, <2>2, <2>3, <2>4 DEF JobInv
<1>5. CASE /\ pc' = "extract"
           /\ \E chunks \in {ChunksOf(doc)} :
                \E lines \in {SplitChunkLineGroups(chunks)} :
                  groups' = [g \in DOMAIN lines |-> SplitChunkBatches(lines[g])]
  <2> DEFINE lines == SplitChunkLineGroups(ChunksOf(doc))
             gs == [g \in DOMAIN lines |-> SplitChunkBatches(lines[g])]
  <2>1. groups' = gs
    BY <1>5
  <2>2. /\ gs \in Seq(Seq(Texts)) /\ \A g \in DOMAIN gs : Inked(gs[g])
        /\ ApartAll(gs) /\ Body(doc) \subseteq InkAll(gs)
    <3> DEFINE d == doc
    <3>1. d \in Document
      BY <1>1
    <3> HIDE DEF d
    <3>2. lines = SplitChunkLineGroups(ChunksOf(d))
      BY DEF d
    <3> HIDE DEF lines
    <3>3. gs = [g \in DOMAIN lines |-> SplitChunkBatches(lines[g])]
      OBVIOUS
    <3> HIDE DEF gs
    <3>4. /\ gs \in Seq(Seq(Texts)) /\ \A g \in DOMAIN gs : Inked(gs[g])
          /\ ApartAll(gs) /\ Body(d) \subseteq InkAll(gs)
      BY <3>1, <3>2, <3>3, LoadedIs
    <3> QED BY <3>4 DEF d
  <2> HIDE DEF gs
  <2>3. /\ Len(gs) \in Nat /\ DOMAIN gs = 1..Len(gs)
        /\ \A g \in DOMAIN gs : gs[g] \in Seq(Texts)
    BY <2>2
  <2>4. \A g \in DOMAIN gs : \A k \in DOMAIN gs[g] : gs[g][k] \in Texts
    BY <2>3
  <2>5. \A b : b \in Batches' <=> \E g \in DOMAIN gs : \E k \in DOMAIN gs[g] :
                                    b = <<g, k>>
    BY <2>1 DEF Batches, InGroup
  <2>6. \A g, k : Text(<<g, k>>)' = gs[g][k]
    BY <2>1 DEF Text
  <2>7. ASSUME NEW b \in Batches'
        PROVE  Text(b)' \in Texts /\ Once(Text(b)') /\ Chars(Text(b)') # {}
    <3>1. PICK g \in DOMAIN gs : \E k \in DOMAIN gs[g] : b = <<g, k>>
      BY <2>5
    <3>2. PICK k \in DOMAIN gs[g] : b = <<g, k>>
      BY <3>1
    <3> QED BY <3>2, <2>2, <2>4, <2>6 DEF ApartAll, Apart, Inked
  <2>8. ASSUME NEW a \in Batches', NEW b \in Batches', a # b
        PROVE  Chars(Text(a)') \cap Chars(Text(b)') = {}
    <3>1. PICK g \in DOMAIN gs : \E k \in DOMAIN gs[g] : a = <<g, k>>
      BY <2>5
    <3>2. PICK k \in DOMAIN gs[g] : a = <<g, k>>
      BY <3>1
    <3>3. PICK h \in DOMAIN gs : \E l \in DOMAIN gs[h] : b = <<h, l>>
      BY <2>5
    <3>4. PICK l \in DOMAIN gs[h] : b = <<h, l>>
      BY <3>3
    <3>5. CASE g = h
      <4>1. k # l
        BY <3>2, <3>4, <3>5, <2>8
      <4>2. Apart(gs[g])
        BY <2>2 DEF ApartAll
      <4>3. Chars(gs[g][k]) \cap Chars(gs[g][l]) = {}
        BY <3>5, <4>1, <4>2 DEF Apart
      <4> QED BY <3>2, <3>4, <3>5, <4>3, <2>6
    <3>6. CASE g # h
      <4>1. Ink(gs[g]) \cap Ink(gs[h]) = {}
        BY <3>6, <2>2 DEF ApartAll
      <4>2. Chars(gs[g][k]) \subseteq Ink(gs[g]) /\ Chars(gs[h][l]) \subseteq Ink(gs[h])
        BY DEF Ink
      <4> QED BY <3>2, <3>4, <4>1, <4>2, <2>6
    <3> QED BY <3>5, <3>6
  <2>9. Body(doc) \subseteq UNION {Chars(Text(b)') : b \in Batches'}
    <3>1. ASSUME NEW c \in InkAll(gs)
          PROVE  \E b \in Batches' : c \in Chars(Text(b)')
      <4>1. PICK g \in DOMAIN gs : c \in Ink(gs[g])
        BY DEF InkAll
      <4>2. PICK k \in DOMAIN gs[g] : c \in Chars(gs[g][k])
        BY <4>1 DEF Ink
      <4>3. <<g, k>> \in Batches' /\ c \in Chars(Text(<<g, k>>)')
        BY <4>2, <2>5, <2>6
      <4> QED BY <4>3
    <3> QED BY <3>1, <2>2
  <2>10. BatchesApart'
    <3>1. /\ groups' \in Seq(Seq(Texts))
          /\ Body(doc') \subseteq UNION {Chars(Text(b)') : b \in Batches'}
      BY <1>2, <2>1, <2>2, <2>9
    <3> QED BY <3>1, <2>7, <2>8 DEF BatchesApart
  <2>11. Begun' = {}
    <3>1. \A b \in Batches' : ~(b[1] <= 0)
      BY <2>3, <2>5
    <3> QED BY <3>1, <1>2 DEF Begun
  <2>12. Control'
    <3>1. 0 \in 0..Len(groups')
      BY <2>1, <2>3
    <3> QED BY <3>1, <1>1, <1>2, <1>5 DEF Control
  <2>13. Covered'
    BY <2>11 DEF Covered
  <2> QED BY <1>3, <2>10, <2>12, <2>13 DEF JobInv
<1> QED BY <1>4, <1>5 DEF LoadChunks

\* What a step leaves alone when it keeps the groups.
LEMMA SameBatches ==
  ASSUME groups' = groups
  PROVE  Batches' = Batches /\ \A b : Text(b)' = Text(b)
BY DEF Batches, InGroup, Text

\* The batches of the next group wait; nothing else does.
LEMMA StartKeeps ==
  ASSUME JobInv, StartGroup
  PROVE  JobInv'
<1>1. /\ pc = "extract" /\ waiting = {} /\ calls = {} /\ group < Len(groups)
      /\ group' = group + 1 /\ waiting' = InGroup(group + 1)
      /\ doc' = doc /\ pc' = pc /\ groups' = groups /\ calls' = calls
      /\ broken' = broken /\ answered' = answered /\ lost' = lost
  BY DEF StartGroup, GroupDone
<1>2. /\ doc \in Document /\ group \in 0..Len(groups) /\ broken \subseteq Batches
      /\ groups \in Seq(Seq(Texts)) /\ BatchesApart /\ OfBatches /\ TextsApart
      /\ Covered
  BY DEF JobInv, Control, BatchesApart
<1>3. Batches' = Batches /\ \A b : Text(b)' = Text(b)
  BY <1>1, SameBatches
<1>4. Len(groups) \in Nat /\ DOMAIN groups = 1..Len(groups)
  BY <1>2
<1>5. \A b \in Batches : b[1] \in 1..Len(groups)
  BY <1>4, BatchIs
<1>6. \A b : b \in InGroup(group + 1) <=> b \in Batches /\ b[1] = group + 1
  <2>1. group + 1 \in DOMAIN groups
    BY <1>1, <1>2, <1>4
  <2>2. ASSUME NEW b \in InGroup(group + 1) PROVE b \in Batches /\ b[1] = group + 1
    BY <2>1, <2>2, BatchIs DEF InGroup
  <2>3. ASSUME NEW b \in Batches, b[1] = group + 1 PROVE b \in InGroup(group + 1)
    BY <2>3, BatchIs DEF InGroup
  <2> QED BY <2>2, <2>3
<1>7. Begun' = Begun
  <2>1. ASSUME NEW b \in Batches
        PROVE  (b[1] <= group + 1 /\ b[1] # group + 1) <=> b[1] <= group
    BY <1>2, <1>4, <1>5
  <2> QED BY <2>1, <1>1, <1>3, <1>6 DEF Begun
<1>8. Control'
  <2>1. waiting' \subseteq {b \in Batches' : b[1] <= group'}
    <3>1. group + 1 <= group + 1
      BY <1>2, <1>4
    <3> QED BY <3>1, <1>1, <1>3, <1>6
  <2>2. group' \in 0..Len(groups')
    BY <1>1, <1>2, <1>4
  <2> QED BY <2>1, <2>2, <1>1, <1>2, <1>3 DEF Control
<1>9. BatchesApart'
  BY <1>1, <1>2, <1>3 DEF BatchesApart
<1>10. OfBatches'
  BY <1>1, <1>2, <1>3, <1>7 DEF OfBatches
<1>11. TextsApart'
  BY <1>1, <1>2 DEF TextsApart
<1>12. Covered'
  BY <1>1, <1>2, <1>3, <1>7 DEF Covered
<1> QED BY <1>8, <1>9, <1>10, <1>11, <1>12 DEF JobInv

\* When the last group is through the job is over.
LEMMA FinishKeeps ==
  ASSUME JobInv, Finish
  PROVE  JobInv'
<1>1. /\ pc = "extract" /\ GroupDone /\ group = Len(groups)
      /\ pc' \in {"succeeded", "failed"}
      /\ doc' = doc /\ groups' = groups /\ group' = group /\ waiting' = waiting
      /\ calls' = calls /\ broken' = broken /\ answered' = answered /\ lost' = lost
  BY DEF Finish
<1>2. Control /\ BatchesApart /\ OfBatches /\ TextsApart /\ Covered
  BY DEF JobInv
<1>3. Batches' = Batches /\ \A b : Text(b)' = Text(b)
  BY <1>1, SameBatches
<1>4. Begun' = Begun
  BY <1>1, <1>3 DEF Begun
<1>5. Control'
  BY <1>1, <1>2, <1>3 DEF Control, GroupDone
<1>6. BatchesApart'
  BY <1>1, <1>2, <1>3 DEF BatchesApart
<1>7. OfBatches'
  BY <1>1, <1>2, <1>3, <1>4 DEF OfBatches
<1>8. TextsApart'
  BY <1>1, <1>2 DEF TextsApart
<1>9. Covered'
  BY <1>1, <1>2, <1>3, <1>4 DEF Covered
<1> QED BY <1>5, <1>6, <1>7, <1>8, <1>9 DEF JobInv

\* A batch that waited is begun, with a call for the whole of it.  What there
\* is already is of other batches.
LEMMA RunKeeps ==
  ASSUME JobInv, NEW b \in waiting, RunBatch(b)
  PROVE  JobInv'
<1> DEFINE new == [batch |-> b, text |-> Text(b), attempt |-> 1]
<1>1. /\ waiting' = waiting \ {b} /\ calls' = calls \cup {new}
      /\ doc' = doc /\ pc' = pc /\ groups' = groups /\ group' = group
      /\ broken' = broken /\ answered' = answered /\ lost' = lost
  BY DEF RunBatch
<1>2. Control /\ BatchesApart /\ OfBatches /\ TextsApart /\ Covered
  BY DEF JobInv
<1>3. Batches' = Batches /\ \A a : Text(a)' = Text(a)
  BY <1>1, SameBatches
<1>4. b \in Batches /\ b[1] <= group /\ b \notin Begun
  BY <1>2 DEF Control, Begun
<1>5. Begun' = Begun \cup {b}
  BY <1>1, <1>3, <1>4 DEF Begun
<1>6. /\ Text(b) \in Texts /\ Once(Text(b)) /\ Chars(Text(b)) # {}
      /\ \A a \in Begun : Chars(Text(a)) \cap Chars(Text(b)) = {}
  <2>1. Begun \subseteq Batches
    BY DEF Begun
  <2> QED BY <2>1, <1>2, <1>4 DEF BatchesApart
<1>7. /\ new.batch = b /\ new.text = Text(b)
      /\ new \in [batch : Begun', text : Texts, attempt : 1..2]
  BY <1>5, <1>6
<1> HIDE DEF new
<1>8. \A c \in calls : /\ c \in [batch : Begun', text : Texts, attempt : 1..2]
                       /\ Once(c.text) /\ Chars(c.text) # {}
                       /\ Chars(c.text) \subseteq Chars(Text(c.batch))
                       /\ c.batch \in Begun
  BY <1>2, <1>5 DEF OfBatches
<1>9. \A c \in calls : Chars(c.text) \cap Chars(new.text) = {}
  BY <1>6, <1>7, <1>8
<1>10. \A t \in answered \cup lost : /\ t \in Texts /\ Chars(t) # {}
                                     /\ \E a \in Begun : Chars(t) \subseteq Chars(Text(a))
  BY <1>2 DEF OfBatches
<1>11. \A t \in answered \cup lost : Chars(new.text) \cap Chars(t) = {}
  BY <1>6, <1>7, <1>10
<1>12. Control'
  <2>1. pc # "load" /\ pc # "succeeded"
    BY <1>2 DEF Control, GroupDone
  <2> QED BY <2>1, <1>1, <1>2, <1>3 DEF Control
<1>13. BatchesApart'
  BY <1>1, <1>2, <1>3 DEF BatchesApart
<1>14. OfBatches'
  <2>1. \A c \in calls' : /\ c \in [batch : Begun', text : Texts, attempt : 1..2]
                          /\ Once(c.text) /\ Chars(c.text) # {}
                          /\ Chars(c.text) \subseteq Chars(Text(c.batch)')
    BY <1>1, <1>3, <1>6, <1>7, <1>8
  <2>2. \A t \in answered' \cup lost' :
          /\ t \in Texts /\ Chars(t) # {}
          /\ \E a \in Begun' : Chars(t) \subseteq Chars(Text(a)')
    BY <1>1, <1>3, <1>5, <1>10
  <2>3. \A t \in lost' : Len(t) <= MinSplit
    BY <1>1, <1>2 DEF OfBatches
  <2> QED BY <2>1, <2>2, <2>3 DEF OfBatches
<1>15. TextsApart'
  <2>1. \A c, e \in calls' : c # e => Chars(c.text) \cap Chars(e.text) = {}
    BY <1>1, <1>2, <1>9 DEF TextsApart
  <2>2. \A c \in calls', t \in answered' \cup lost' : Chars(c.text) \cap Chars(t) = {}
    BY <1>1, <1>2, <1>11 DEF TextsApart
  <2> QED BY <2>1, <2>2, <1>1, <1>2 DEF TextsApart
<1>16. Covered'
  <2> SUFFICES ASSUME pc \in {"extract", "succeeded"}, NEW a \in Begun'
               PROVE  Chars(Text(a)) \subseteq (UNION {Chars(c.text) : c \in calls'})
                        \cup (UNION {Chars(t) : t \in answered \cup lost})
    BY <1>1, <1>3 DEF Covered
  <2>1. CASE a \in Begun
    <3>1. Chars(Text(a)) \subseteq (UNION {Chars(c.text) : c \in calls})
             \cup (UNION {Chars(t) : t \in answered \cup lost})
      BY <1>2, <2>1 DEF Covered
    <3>2. UNION {Chars(c.text) : c \in calls} \subseteq UNION {Chars(c.text) : c \in calls'}
      BY <1>1
    <3> QED BY <3>1, <3>2
  <2>2. CASE a = b
    <3>1. Chars(Text(a)) = Chars(new.text) /\ new \in calls'
      BY <1>1, <1>7, <2>2
    <3> QED BY <3>1
  <2> QED BY <2>1, <2>2, <1>5
<1> QED BY <1>12, <1>13, <1>14, <1>15, <1>16 DEF JobInv

\* Calls made of another: for its batch, of its text, sharing nothing.
FromCall(c, more) ==
  /\ \A e \in more : /\ e \in [batch : {c.batch}, text : Texts, attempt : 1..2]
                     /\ Once(e.text) /\ Chars(e.text) # {}
                     /\ Chars(e.text) \subseteq Chars(c.text)
  /\ \A e, f \in more : e # f => Chars(e.text) \cap Chars(f.text) = {}

\* A call gives way to the calls made of it, or to its own text in a graph or
\* among the lost; what is not in them fails the job.
GivesWay(c, more, done) ==
  /\ FromCall(c, more)
  /\ \/ done = {}
     \/ (done = {c.text} /\ more = {})
  /\ calls' = (calls \ {c}) \cup more
  /\ answered' \cup lost' = (answered \cup lost) \cup done
  /\ \A t \in lost' : Len(t) <= MinSplit
  /\ \/ pc' = "failed"
     \/ /\ pc' = pc
        /\ Chars(c.text) \subseteq (UNION {Chars(e.text) : e \in more})
                                     \cup (UNION {Chars(t) : t \in done})
  /\ doc' = doc /\ groups' = groups /\ group' = group /\ waiting' = waiting
  /\ broken' \subseteq broken \cup {c.batch}

\* What is in some call's text, and in some text.
LEMMA InSomeText ==
  /\ \A C, x : x \in UNION {Chars(c.text) : c \in C} <=>
                \E c \in C : x \in Chars(c.text)
  /\ \A T, x : x \in UNION {Chars(t) : t \in T} <=> \E t \in T : x \in Chars(t)
<1>1. ASSUME NEW C, NEW x
      PROVE  x \in UNION {Chars(c.text) : c \in C} <=> \E c \in C : x \in Chars(c.text)
  OBVIOUS
<1>2. ASSUME NEW T, NEW x
      PROVE  x \in UNION {Chars(t) : t \in T} <=> \E t \in T : x \in Chars(t)
  OBVIOUS
<1> QED BY <1>1, <1>2

\* A step in which a call gives way keeps the invariant.
LEMMA CallKeeps ==
  ASSUME JobInv, NEW c \in calls, NEW more, NEW done, GivesWay(c, more, done)
  PROVE  JobInv'
<1>1. /\ calls' = (calls \ {c}) \cup more
      /\ answered' \cup lost' = (answered \cup lost) \cup done
      /\ \A t \in lost' : Len(t) <= MinSplit
      /\ doc' = doc /\ groups' = groups /\ group' = group /\ waiting' = waiting
      /\ broken' \subseteq broken \cup {c.batch}
  BY DEF GivesWay
<1>2. \A e \in more : /\ e \in [batch : {c.batch}, text : Texts, attempt : 1..2]
                      /\ Once(e.text) /\ Chars(e.text) # {}
                      /\ Chars(e.text) \subseteq Chars(c.text)
  BY DEF GivesWay, FromCall
<1>3. \A e, f \in more : e # f => Chars(e.text) \cap Chars(f.text) = {}
  BY DEF GivesWay, FromCall
<1>4. \/ done = {}
      \/ (done = {c.text} /\ more = {})
  BY DEF GivesWay
<1>5. \/ pc' = "failed"
      \/ /\ pc' = pc
         /\ Chars(c.text) \subseteq (UNION {Chars(e.text) : e \in more})
                                      \cup (UNION {Chars(t) : t \in done})
  BY DEF GivesWay
<1>6. Control /\ BatchesApart /\ OfBatches /\ TextsApart /\ Covered
  BY DEF JobInv
<1>7. Batches' = Batches /\ \A b : Text(b)' = Text(b)
  BY <1>1, SameBatches
<1>8. Begun' = Begun
  BY <1>1, <1>7 DEF Begun
<1>9. /\ c \in [batch : Begun, text : Texts, attempt : 1..2]
      /\ Once(c.text) /\ Chars(c.text) # {}
      /\ Chars(c.text) \subseteq Chars(Text(c.batch))
      /\ c.batch \in Begun /\ c.text \in Texts
  BY <1>6 DEF OfBatches
<1>10. Control'
  <2>1. pc # "load" /\ pc # "succeeded"
    BY <1>6 DEF Control, GroupDone
  <2>2. broken' \subseteq Batches'
    BY <1>1, <1>6, <1>7, <1>9 DEF Control, Begun
  <2> QED BY <2>1, <2>2, <1>1, <1>5, <1>6, <1>7 DEF Control
<1>11. BatchesApart'
  <2>1. pc' \in {"extract", "succeeded"} => pc \in {"extract", "succeeded"}
    BY <1>5
  <2> QED BY <2>1, <1>1, <1>6, <1>7 DEF BatchesApart
<1>12. OfBatches'
  <2>1. ASSUME NEW e \in calls'
        PROVE  /\ e \in [batch : Begun', text : Texts, attempt : 1..2]
               /\ Once(e.text) /\ Chars(e.text) # {}
               /\ Chars(e.text) \subseteq Chars(Text(e.batch)')
    <3>1. CASE e \in calls
      BY <3>1, <1>6, <1>7, <1>8 DEF OfBatches
    <3>2. CASE e \in more
      <4>1. /\ e \in [batch : {c.batch}, text : Texts, attempt : 1..2]
            /\ Once(e.text) /\ Chars(e.text) # {}
            /\ Chars(e.text) \subseteq Chars(c.text)
        BY <3>2, <1>2
      <4>2. e.batch = c.batch
        BY <4>1
      <4>3. e \in [batch : Begun', text : Texts, attempt : 1..2]
        BY <4>1, <1>8, <1>9
      <4>4. Chars(e.text) \subseteq Chars(Text(e.batch)')
        BY <4>1, <4>2, <1>7, <1>9
      <4> QED BY <4>1, <4>3, <4>4
    <3> QED BY <3>1, <3>2, <1>1
  <2>2. ASSUME NEW t \in answered' \cup lost'
        PROVE  /\ t \in Texts /\ Chars(t) # {}
               /\ \E b \in Begun' : Chars(t) \subseteq Chars(Text(b)')
    <3>1. CASE t \in answered \cup lost
      BY <3>1, <1>6, <1>7, <1>8 DEF OfBatches
    <3>2. CASE t = c.text
      BY <3>2, <1>7, <1>8, <1>9
    <3> QED BY <3>1, <3>2, <1>1, <1>4
  <2> QED BY <2>1, <2>2, <1>1 DEF OfBatches
<1>13. TextsApart'
  <2>1. \A e \in calls : e # c => Chars(e.text) \cap Chars(c.text) = {}
    BY <1>6 DEF TextsApart
  <2>2. \A t \in answered \cup lost : Chars(c.text) \cap Chars(t) = {}
    BY <1>6 DEF TextsApart
  <2>3. ASSUME NEW e \in calls', NEW f \in calls', e # f
        PROVE  Chars(e.text) \cap Chars(f.text) = {}
    <3>1. CASE e \in calls /\ f \in calls
      BY <3>1, <2>3, <1>6 DEF TextsApart
    <3>2. CASE e \in calls \ {c} /\ f \in more
      BY <3>2, <2>1, <1>2
    <3>3. CASE e \in more /\ f \in calls \ {c}
      BY <3>3, <2>1, <1>2
    <3>4. CASE e \in more /\ f \in more
      BY <3>4, <2>3, <1>3
    <3> QED BY <3>1, <3>2, <3>3, <3>4, <1>1
  <2>4. ASSUME NEW e \in calls', NEW t \in answered' \cup lost'
        PROVE  Chars(e.text) \cap Chars(t) = {}
    <3>1. CASE e \in calls \ {c} /\ t \in answered \cup lost
      BY <3>1, <1>6 DEF TextsApart
    <3>2. CASE e \in calls \ {c} /\ t = c.text
      BY <3>2, <2>1
    <3>3. CASE e \in more /\ t \in answered \cup lost
      BY <3>3, <2>2, <1>2
    <3>4. ~(e \in more /\ t \in done)
      BY <1>4
    <3> QED BY <3>1, <3>2, <3>3, <3>4, <1>1, <1>4
  <2>5. ASSUME NEW s \in answered' \cup lost', NEW t \in answered' \cup lost', s # t
        PROVE  Chars(s) \cap Chars(t) = {}
    <3>1. CASE s \in answered \cup lost /\ t \in answered \cup lost
      BY <3>1, <2>5, <1>6 DEF TextsApart
    <3>2. CASE s \in answered \cup lost /\ t = c.text
      BY <3>2, <2>2
    <3>3. CASE s = c.text /\ t \in answered \cup lost
      BY <3>3, <2>2
    <3> QED BY <3>1, <3>2, <3>3, <2>5, <1>1, <1>4
  <2> QED BY <2>3, <2>4, <2>5 DEF TextsApart
<1>14. Covered'
  <2> DEFINE inCalls == UNION {Chars(e.text) : e \in calls}
             inMore  == UNION {Chars(e.text) : e \in more}
             inTexts == UNION {Chars(t) : t \in answered \cup lost}
             inDone  == UNION {Chars(t) : t \in done}
             thenCalls == UNION {Chars(e.text) : e \in calls'}
             thenTexts == UNION {Chars(t) : t \in answered' \cup lost'}
  <2>1. /\ \A x : x \in inCalls <=> \E e \in calls : x \in Chars(e.text)
        /\ \A x : x \in inMore <=> \E e \in more : x \in Chars(e.text)
        /\ \A x : x \in inTexts <=> \E t \in answered \cup lost : x \in Chars(t)
        /\ \A x : x \in inDone <=> \E t \in done : x \in Chars(t)
    BY InSomeText, Zenon
  <2>2. /\ \A x : x \in thenCalls <=> \E e \in calls' : x \in Chars(e.text)
        /\ \A x : x \in thenTexts <=>
                   \E t \in answered' \cup lost' : x \in Chars(t)
    BY InSomeText, Zenon
  <2>3. pc' # "failed" => pc' = pc /\ Chars(c.text) \subseteq inMore \cup inDone
    BY <1>5, Zenon
  <2>4. pc \in {"extract", "succeeded"} =>
          \A b \in Begun : Chars(Text(b)) \subseteq inCalls \cup inTexts
    BY <1>6, Zenon DEF Covered
  <2>5. (pc' \in {"extract", "succeeded"} =>
           \A b \in Begun' : Chars(Text(b)') \subseteq thenCalls \cup thenTexts)
          => Covered'
    BY Zenon DEF Covered
  <2> HIDE DEF inCalls, inMore, inTexts, inDone, thenCalls, thenTexts
  <2>6. Chars(c.text) \subseteq inCalls
    BY <2>1
  <2>7. inCalls \ Chars(c.text) \subseteq thenCalls
    BY <2>1, <2>2, <1>1
  <2>8. inMore \subseteq thenCalls /\ inDone \subseteq thenTexts /\ inTexts \subseteq thenTexts
    BY <2>1, <2>2, <1>1
  <2>9. ASSUME pc' \in {"extract", "succeeded"}, NEW b \in Begun'
        PROVE  Chars(Text(b)') \subseteq thenCalls \cup thenTexts
    <3>1. /\ pc \in {"extract", "succeeded"} /\ b \in Begun /\ Text(b)' = Text(b)
          /\ Chars(c.text) \subseteq inMore \cup inDone
      BY <2>3, <2>9, <1>7, <1>8
    <3>2. Chars(Text(b)) \subseteq inCalls \cup inTexts
      BY <2>4, <3>1
    <3> QED BY <3>1, <3>2, <2>7, <2>8
  <2> QED BY <2>5, <2>9
<1> QED BY <1>10, <1>11, <1>12, <1>13, <1>14 DEF JobInv

\* Nothing is made of a call, or one call, or two.
LEMMA FromIs ==
  ASSUME NEW c, c.text \in Texts, Once(c.text), Chars(c.text) # {}
  PROVE  /\ FromCall(c, {})
         /\ \A n \in 1..2 :
              FromCall(c, {[batch |-> c.batch, text |-> c.text, attempt |-> n]})
         /\ Whole(SplitBatchText(c.text)) =>
              FromCall(c, {[batch |-> c.batch, text |-> SplitBatchText(c.text)[h],
                            attempt |-> 1] : h \in 1..2})
<1>1. FromCall(c, {})
  BY DEF FromCall
<1>2. ASSUME NEW n \in 1..2
      PROVE  FromCall(c, {[batch |-> c.batch, text |-> c.text, attempt |-> n]})
  BY DEF FromCall
<1>3. ASSUME Whole(SplitBatchText(c.text))
      PROVE  FromCall(c, {[batch |-> c.batch, text |-> SplitBatchText(c.text)[h],
                           attempt |-> 1] : h \in 1..2})
  <2> DEFINE halves == SplitBatchText(c.text)
             made(h) == [batch |-> c.batch, text |-> halves[h], attempt |-> 1]
             more    == {made(h) : h \in 1..2}
  <2>1. Halves(halves, c.text) /\ \A i \in 1..2 : Chars(halves[i]) # {}
    <3> DEFINE t == c.text
    <3>1. t \in Texts /\ Whole(SplitBatchText(t))
      BY <1>3
    <3> HIDE DEF t
    <3>2. /\ Halves(SplitBatchText(t), t)
          /\ \A i \in 1..2 : Chars(SplitBatchText(t)[i]) # {}
      BY <3>1, BatchTextIs
    <3> QED BY <3>2 DEF t
  <2> HIDE DEF halves
  <2>2. /\ \A h \in 1..2 : /\ halves[h] \in Texts /\ Once(halves[h])
                           /\ Chars(halves[h]) # {}
                           /\ Chars(halves[h]) \subseteq Chars(c.text)
        /\ Chars(halves[1]) \cap Chars(halves[2]) = {}
    <3>1. /\ halves[1] \in Texts /\ halves[2] \in Texts
          /\ Chars(halves[1]) \cup Chars(halves[2]) = Chars(c.text)
          /\ Once(halves[1]) /\ Once(halves[2])
          /\ Chars(halves[1]) \cap Chars(halves[2]) = {}
      BY <2>1 DEF Halves
    <3> QED BY <3>1, <2>1
  <2>3. \A h \in 1..2 : /\ made(h) \in [batch : {c.batch}, text : Texts, attempt : 1..2]
                        /\ made(h).text = halves[h]
    BY <2>2
  <2> HIDE DEF made
  <2>4. \A e \in more : \E h \in 1..2 : e = made(h)
    OBVIOUS
  <2>5. \A e \in more : /\ e \in [batch : {c.batch}, text : Texts, attempt : 1..2]
                        /\ Once(e.text) /\ Chars(e.text) # {}
                        /\ Chars(e.text) \subseteq Chars(c.text)
    BY <2>2, <2>3, <2>4
  <2>6. ASSUME NEW e \in more, NEW f \in more, e # f
        PROVE  Chars(e.text) \cap Chars(f.text) = {}
    <3>1. PICK g \in 1..2 : e = made(g)
      BY <2>4
    <3>2. PICK h \in 1..2 : f = made(h)
      BY <2>4
    <3>3. (g = 1 /\ h = 2) \/ (g = 2 /\ h = 1)
      BY <3>1, <3>2, <2>6
    <3> QED BY <3>1, <3>2, <3>3, <2>2, <2>3
  <2>7. FromCall(c, more)
    BY <2>5, <2>6 DEF FromCall
  <2> QED BY <2>7 DEF more, made, halves
<1> QED BY <1>1, <1>2, <1>3

\* A call is of a text with something in it, and there is no call of a job that
\* has succeeded.
LEMMA CallIs ==
  ASSUME JobInv, NEW c \in calls
  PROVE  /\ c.text \in Texts /\ Once(c.text) /\ Chars(c.text) # {}
         /\ c = [batch |-> c.batch, text |-> c.text, attempt |-> c.attempt]
         /\ \A t \in lost : Len(t) <= MinSplit
<1>1. c \in [batch : Begun, text : Texts, attempt : 1..2]
  BY DEF JobInv, OfBatches
<1> QED BY <1>1 DEF JobInv, OfBatches

\* A call that raises leaves nothing, and the job fails.
LEMMA RaiseGives ==
  ASSUME JobInv, NEW c \in calls, Raise(c)
  PROVE  GivesWay(c, {}, {})
<1>1. FromCall(c, {}) /\ \A t \in lost : Len(t) <= MinSplit
  BY CallIs, FromIs
<1> QED BY <1>1 DEF GivesWay, Raise

\* An answered call leaves its text.
LEMMA AnswerGives ==
  ASSUME JobInv, NEW c \in calls, Answer(c)
  PROVE  GivesWay(c, {}, {c.text})
<1>1. FromCall(c, {}) /\ \A t \in lost : Len(t) <= MinSplit
  BY CallIs, FromIs
<1>2. Chars(c.text) \subseteq UNION {Chars(t) : t \in {c.text}}
  OBVIOUS
<1> QED BY <1>1, <1>2 DEF GivesWay, Answer

\* A text that is cut is lost, or leaves its halves, or fails the job.
LEMMA SplitGives ==
  ASSUME JobInv, NEW c \in calls, Split(c)
  PROVE  \E more, done : GivesWay(c, more, done)
<1>1. /\ c.text \in Texts /\ Once(c.text) /\ Chars(c.text) # {}
      /\ \A t \in lost : Len(t) <= MinSplit
  BY CallIs
<1>2. CASE Len(c.text) <= MinSplit
  <2>1. /\ calls' = calls \ {c} /\ lost' = lost \cup {c.text}
        /\ doc' = doc /\ pc' = pc /\ groups' = groups /\ group' = group
        /\ waiting' = waiting /\ broken' = broken /\ answered' = answered
    BY <1>2 DEF Split
  <2>2. FromCall(c, {}) /\ Chars(c.text) \subseteq UNION {Chars(t) : t \in {c.text}}
    BY <1>1, FromIs
  <2>3. GivesWay(c, {}, {c.text})
    BY <1>1, <1>2, <2>1, <2>2 DEF GivesWay
  <2> QED BY <2>3
<1>3. CASE ~(Len(c.text) <= MinSplit) /\ ~Whole(SplitBatchText(c.text))
  <2>1. Raise(c)
    BY <1>3 DEF Split
  <2> QED BY <2>1, RaiseGives
<1>4. CASE ~(Len(c.text) <= MinSplit) /\ Whole(SplitBatchText(c.text))
  <2> DEFINE halves == SplitBatchText(c.text)
             more == {[batch |-> c.batch, text |-> halves[h], attempt |-> 1] : h \in 1..2}
  <2>1. /\ calls' = (calls \ {c}) \cup more
        /\ doc' = doc /\ pc' = pc /\ groups' = groups /\ group' = group
        /\ waiting' = waiting /\ broken' = broken /\ answered' = answered
        /\ lost' = lost
    BY <1>4 DEF Split
  <2>2. FromCall(c, more)
    BY <1>1, <1>4, FromIs
  <2>3. Chars(c.text) \subseteq UNION {Chars(e.text) : e \in more}
    <3>1. Chars(halves[1]) \cup Chars(halves[2]) = Chars(c.text)
      <4> DEFINE t == c.text
      <4>1. t \in Texts /\ Whole(SplitBatchText(t))
        BY <1>1, <1>4
      <4> HIDE DEF t
      <4>2. Halves(SplitBatchText(t), t)
        BY <4>1, BatchTextIs
      <4> QED BY <4>2 DEF t, Halves
    <3> HIDE DEF halves
    <3>2. ASSUME NEW h \in 1..2 PROVE \E e \in more : e.text = halves[h]
      <4>1. [batch |-> c.batch, text |-> halves[h], attempt |-> 1] \in more
        OBVIOUS
      <4>2. [batch |-> c.batch, text |-> halves[h], attempt |-> 1].text = halves[h]
        OBVIOUS
      <4> QED BY <4>1, <4>2, Zenon
    <3> HIDE DEF more
    <3>3. ASSUME NEW x \in Chars(c.text)
          PROVE  \E e \in more : x \in Chars(e.text)
      BY <3>1, <3>2
    <3> QED BY <3>3, InSomeText
  <2> HIDE DEF more
  <2>4. GivesWay(c, more, {})
    BY <1>1, <2>1, <2>2, <2>3 DEF GivesWay
  <2> QED BY <2>4
<1> QED BY <1>2, <1>3, <1>4

\* An empty answer leaves the same text to be asked once more, or is a text to
\* cut.
LEMMA EmptyGives ==
  ASSUME JobInv, NEW c \in calls, EmptyAnswer(c)
  PROVE  \E more, done : GivesWay(c, more, done)
<1>1. CASE c.attempt = 1
  <2> DEFINE again == [batch |-> c.batch, text |-> c.text, attempt |-> 2]
  <2>1. /\ c = [batch |-> c.batch, text |-> c.text, attempt |-> c.attempt]
        /\ \A t \in lost : Len(t) <= MinSplit
    BY CallIs
  <2>2. [c EXCEPT !.attempt = 2] = again
    BY <2>1
  <2>3. /\ calls' = (calls \ {c}) \cup {again}
        /\ doc' = doc /\ pc' = pc /\ groups' = groups /\ group' = group
        /\ waiting' = waiting /\ broken' = broken /\ answered' = answered
        /\ lost' = lost
    BY <1>1, <2>2 DEF EmptyAnswer
  <2>4. FromCall(c, {again})
    <3>1. c.text \in Texts /\ Once(c.text) /\ Chars(c.text) # {}
      BY CallIs
    <3>2. \A n \in 1..2 :
            FromCall(c, {[batch |-> c.batch, text |-> c.text, attempt |-> n]})
      BY <3>1, FromIs, Zenon
    <3> QED BY <3>2
  <2>5. again.text = c.text
    OBVIOUS
  <2> HIDE DEF again
  <2>6. Chars(c.text) \subseteq UNION {Chars(e.text) : e \in {again}}
    BY <2>5
  <2>7. GivesWay(c, {again}, {})
    BY <2>1, <2>3, <2>4, <2>6 DEF GivesWay
  <2> QED BY <2>7
<1>2. CASE c.attempt # 1
  BY <1>2, SplitGives DEF EmptyAnswer
<1> QED BY <1>1, <1>2

\* The invariant of a job: its batches share nothing and hold its document's
\* body, every text in a call, in a graph or among the lost is part of one of
\* the batches, and no two of them share anything.
THEOREM JobInvariance == Spec => []JobInv
<1>1. ASSUME JobInv, [Next]_vars
      PROVE  JobInv'
  <2>1. CASE LoadChunks
    BY <1>1, <2>1, LoadKeeps
  <2>2. CASE StartGroup
    BY <1>1, <2>2, StartKeeps
  <2>3. CASE Finish
    BY <1>1, <2>3, FinishKeeps
  <2>4. CASE \E b \in waiting : RunBatch(b)
    <3>1. PICK b \in waiting : RunBatch(b)
      BY <2>4
    <3> QED BY <1>1, <3>1, RunKeeps
  <2>5. CASE \E c \in calls : ExtractChunksText(c)
    <3>1. PICK c \in calls : ExtractChunksText(c)
      BY <2>5
    <3>2. PICK more, done : GivesWay(c, more, done)
      <4>1. CASE Answer(c)
        BY <1>1, <4>1, AnswerGives
      <4>2. CASE EmptyAnswer(c)
        BY <1>1, <4>2, EmptyGives
      <4>3. CASE Split(c)
        BY <1>1, <4>3, SplitGives
      <4>4. CASE Raise(c)
        BY <1>1, <4>4, RaiseGives
      <4> QED BY <3>1, <4>1, <4>2, <4>3, <4>4 DEF ExtractChunksText
    <3> QED BY <1>1, <3>2, CallKeeps
  <2>6. CASE UNCHANGED vars
    <3>1. /\ doc' = doc /\ pc' = pc /\ groups' = groups /\ group' = group
          /\ waiting' = waiting /\ calls' = calls /\ broken' = broken
          /\ answered' = answered /\ lost' = lost
      BY <2>6 DEF vars
    <3>2. Control /\ BatchesApart /\ OfBatches /\ TextsApart /\ Covered
      BY <1>1 DEF JobInv
    <3>3. Batches' = Batches /\ \A b : Text(b)' = Text(b)
      BY <3>1, SameBatches
    <3>4. Begun' = Begun
      BY <3>1, <3>3 DEF Begun
    <3>5. Control' /\ BatchesApart'
      BY <3>1, <3>2, <3>3 DEF Control, BatchesApart, GroupDone
    <3>6. OfBatches' /\ TextsApart'
      BY <3>1, <3>2, <3>3, <3>4 DEF OfBatches, TextsApart
    <3>7. Covered'
      BY <3>1, <3>2, <3>3, <3>4 DEF Covered
    <3> QED BY <3>5, <3>6, <3>7 DEF JobInv
  <2> QED BY <1>1, <2>1, <2>2, <2>3, <2>4, <2>5, <2>6 DEF Next
<1> QED BY <1>1, InitHolds, PTL DEF Spec

\* A job's state has the types its loop, its semaphore and its calls rely on.
THEOREM JobTyped == Spec => []TypeOK
<1>1. ASSUME JobInv PROVE TypeOK
  <2>1. Control /\ OfBatches
    BY <1>1 DEF JobInv
  <2>2. Begun \subseteq Batches /\ Batches = UNION {InGroup(g) : g \in DOMAIN groups}
    BY DEF Begun, Batches
  <2>3. /\ doc \in Document /\ pc \in {"load", "extract", "succeeded", "failed"}
        /\ group \in 0..Len(groups) /\ waiting \cup broken \subseteq Batches
    BY <2>1 DEF Control
  <2>4. ASSUME NEW c \in calls
        PROVE  /\ c.batch \in Batches /\ c.attempt \in 1..2
               /\ Chars(c.text) \subseteq Chars(Text(c.batch))
    <3>1. /\ c \in [batch : Begun, text : Texts, attempt : 1..2]
          /\ Chars(c.text) \subseteq Chars(Text(c.batch))
      BY <2>1 DEF OfBatches
    <3> QED BY <3>1, <2>2
  <2>5. ASSUME NEW t \in answered \cup lost PROVE t # <<>>
    <3>1. Chars(t) # {}
      BY <2>1 DEF OfBatches
    <3> QED BY <3>1, EmptyIs
  <2> QED BY <2>2, <2>3, <2>4, <2>5 DEF TypeOK
<1> QED BY <1>1, JobInvariance, PTL

\* Whatever the chunkers, the grouping and the halving of a batch do to a text,
\* nothing of a document's tables and paragraphs is dropped between the parser
\* and the LLM, and nothing is asked twice: the texts in calls, in graphs and
\* among the lost share no character, and those of a job that succeeded hold
\* the whole body.
THEOREM TextIsAccounted == Spec => []TextAccounted
<1>1. ASSUME JobInv PROVE TextAccounted
  <2>1. Control /\ BatchesApart /\ OfBatches /\ TextsApart /\ Covered
    BY <1>1 DEF JobInv
  <2>2. Disjoint(answered \cup lost \cup {c.text : c \in calls})
    <3>1. ASSUME NEW s \in answered \cup lost \cup {c.text : c \in calls},
                 NEW t \in answered \cup lost \cup {c.text : c \in calls}, s # t
          PROVE  Chars(s) \cap Chars(t) = {}
      <4>1. CASE s \in answered \cup lost /\ t \in answered \cup lost
        BY <4>1, <3>1, <2>1 DEF TextsApart
      <4>2. CASE s \in answered \cup lost /\ t \in {c.text : c \in calls}
        BY <4>2, <2>1 DEF TextsApart
      <4>3. CASE s \in {c.text : c \in calls} /\ t \in answered \cup lost
        BY <4>3, <2>1 DEF TextsApart
      <4>4. CASE s \in {c.text : c \in calls} /\ t \in {c.text : c \in calls}
        <5>1. PICK c \in calls : s = c.text
          BY <4>4
        <5>2. PICK e \in calls : t = e.text
          BY <4>4
        <5> QED BY <5>1, <5>2, <3>1, <2>1 DEF TextsApart
      <4> QED BY <4>1, <4>2, <4>3, <4>4
    <3> QED BY <3>1 DEF Disjoint
  <2>3. \A t \in lost : Len(t) <= MinSplit
    BY <2>1 DEF OfBatches
  <2>4. ASSUME pc = "succeeded"
        PROVE  Body(doc) \subseteq UNION {Chars(t) : t \in answered \cup lost}
    <3>1. group = Len(groups) /\ waiting = {} /\ calls = {}
      BY <2>1, <2>4 DEF Control, GroupDone
    <3>2. Begun = Batches
      <4>1. \A b \in Batches : b[1] <= group
        <5>1. DOMAIN groups = 1..Len(groups) /\ Len(groups) \in Nat
          BY <2>1 DEF BatchesApart
        <5> QED BY <5>1, <3>1, BatchIs
      <4> QED BY <4>1, <3>1 DEF Begun
    <3>3. \A b \in Batches : Chars(Text(b)) \subseteq
                               UNION {Chars(t) : t \in answered \cup lost}
      BY <2>1, <2>4, <3>1, <3>2 DEF Covered
    <3>4. Body(doc) \subseteq UNION {Chars(Text(b)) : b \in Batches}
      BY <2>1, <2>4 DEF BatchesApart
    <3> QED BY <3>3, <3>4
  <2> QED BY <2>2, <2>3, <2>4 DEF TextAccounted
<1> QED BY <1>1, JobInvariance, PTL
=============================================================================
