----------------------------- MODULE DecisionProofs -----------------------------
(* Theorems about EnvFile, CotEvent and CotPlans, whose operators decide without *)
(* a state: for values and texts of any length, any aircraft and any transforms. *)
EXTENDS EnvFile, CotEvent, CotPlans, SequenceTheorems, WellFoundedInduction, TLAPS

-----------------------------------------------------------------------------
(* Induction.  The library's theorems of induction are about a predicate; these  *)
(* are about a set, the values a predicate holds of.                             *)

Below == {ss \in Nat \X Nat : ss[1] < ss[2]}
LEMMA BelowWellFounded == IsWellFoundedOn(Below, Nat)
<1>1. Below = OpToRel(<, Nat)
  BY DEF OpToRel, Below
<1> QED
  BY <1>1, NatLessThanWellFounded

LEMMA LeastOf ==
  ASSUME NEW T, T \subseteq Nat, T # {}
  PROVE \E x \in T : \A y \in T : x <= y
<1>0. PICK x \in T : \A y \in T : ~ (<<y, x>> \in Below)
  BY BelowWellFounded, WFMin
<1>1. ASSUME NEW y \in T PROVE x <= y
  <2>1. x \in Nat /\ y \in Nat /\ <<y, x>> \notin Below
    BY <1>0
  <2>2. ~(y < x)
    BY <2>1 DEF Below
  <2> QED
    BY <2>1, <2>2
<1> QED
  BY <1>0, <1>1

LEMMA Induction ==
  ASSUME NEW T, 0 \in T, \A n \in Nat : n \in T => n + 1 \in T
  PROVE  Nat \subseteq T
<1> SUFFICES ASSUME NEW n \in Nat, n \notin T PROVE FALSE
  OBVIOUS
<1> DEFINE U == {m \in Nat : m \notin T}
<1>1. PICK x \in U : \A y \in U : x <= y
  <2>1. U \subseteq Nat /\ U # {}
    OBVIOUS
  <2> HIDE DEF U
  <2> QED
    BY <2>1, LeastOf
<1>2. x # 0
  BY <1>1
<1>3. x - 1 \in Nat /\ ~(x <= x-1)
  BY <1>1, <1>2
<1>4. x-1 \in T
  BY <1>1, <1>3
<1>5. x \in T
  BY <1>4, <1>3
<1> QED
  BY <1>5

\* Induction from the end of an interval.
LEMMA Downward ==
  ASSUME NEW N \in Nat, NEW T,
         \A i \in 1..N : (\A j \in (i + 1)..N : j \in T) => i \in T
  PROVE  1..N \subseteq T
<1> SUFFICES ASSUME NEW k \in 1..N, k \notin T
             PROVE  FALSE
  OBVIOUS
<1> DEFINE U == {j \in Nat : N - j \in 1..N /\ N - j \notin T}
<1>1. PICK x \in U : \A y \in U : x <= y
  <2>1. N - k \in Nat /\ N - (N - k) = k
    OBVIOUS
  <2>2. U \subseteq Nat /\ N - k \in U
    BY <2>1
  <2> HIDE DEF U
  <2> QED
    BY <2>2, LeastOf
<1>2. N - x \in 1..N /\ N - x \notin T /\ x \in Nat
  BY <1>1
<1>3. ASSUME NEW j \in (N - x + 1)..N
      PROVE  j \in T
  <2>1. N - j \in Nat /\ N - (N - j) = j /\ N - j < x /\ j \in 1..N
    BY <1>2
  <2>2. N - j \notin U
    BY <1>1, <2>1
  <2> QED
    BY <2>1, <2>2
<1> QED
  BY <1>2, <1>3

\* Induction over sequences, by their first element.
LEMMA SeqInduction ==
  ASSUME NEW S, NEW T, <<>> \in T,
         \A s \in Seq(S), c \in S : s \in T => <<c>> \o s \in T
  PROVE  Seq(S) \subseteq T
<1> DEFINE U == {n \in Nat : \A s \in Seq(S) : Len(s) = n => s \in T}
<1>1. 0 \in U
  <2>1. \A s \in Seq(S) : Len(s) = 0 => s = <<>>
    OBVIOUS
  <2> QED
    BY <2>1
<1>2. ASSUME NEW n \in Nat, n \in U
      PROVE  n + 1 \in U
  <2> SUFFICES ASSUME NEW s \in Seq(S), Len(s) = n + 1
               PROVE  s \in T
    OBVIOUS
  <2>1. s # <<>>
    OBVIOUS
  <2>2. Head(s) \in S /\ Tail(s) \in Seq(S) /\ Len(Tail(s)) = n /\ s = <<Head(s)>> \o Tail(s)
    BY <2>1
  <2> QED
    BY <1>2, <2>2
<1> HIDE DEF U
<1>3. Nat \subseteq U
  BY <1>1, <1>2, Induction
<1> QED
  BY <1>3 DEF U

-----------------------------------------------------------------------------
(* Text: what the serializers write for each character *)

\* What is written for the i-th character of s.
Piece(s, c, name, i) == IF s[i] = c THEN <<"&", name>> ELSE <<s[i]>>

\* f[i] is what is written for the first i characters of s.
Writes(f, s, c, name, n) ==
    f = [i \in 0..n |-> IF i = 0 THEN <<>> ELSE f[i - 1] \o Piece(s, c, name, i)]

LEMMA WritesStep ==
  ASSUME NEW f, NEW s, NEW c, NEW name, NEW n \in Nat, Writes(f, s, c, name, n)
  PROVE  /\ f[0] = <<>>
         /\ \A i \in 1..n : f[i] = f[i - 1] \o Piece(s, c, name, i)
<1>1. \A i \in 0..n : f[i] = IF i = 0 THEN <<>> ELSE f[i - 1] \o Piece(s, c, name, i)
  BY DEF Writes
<1>2. f[0] = <<>>
  BY <1>1
<1>3. ASSUME NEW i \in 1..n
      PROVE  f[i] = f[i - 1] \o Piece(s, c, name, i)
  <2>1. i \in 0..n /\ i # 0
    OBVIOUS
  <2> QED
    BY <1>1, <2>1
<1> QED
  BY <1>2, <1>3

\* The recursion that defines Named has a solution.
LEMMA WritesExists ==
  ASSUME NEW s, NEW c, NEW name, NEW n \in Nat
  PROVE  \E f : Writes(f, s, c, name, n)
<1> DEFINE T == {k \in Nat : \E f : Writes(f, s, c, name, k)}
<1>1. 0 \in T
  <2> DEFINE f == [i \in 0..0 |-> <<>>]
  <2>1. f = [i \in 0..0 |-> IF i = 0 THEN <<>> ELSE f[i - 1] \o Piece(s, c, name, i)]
    OBVIOUS
  <2> HIDE DEF f
  <2> QED
    BY <2>1 DEF Writes
<1>2. ASSUME NEW k \in Nat, k \in T
      PROVE  k + 1 \in T
  <2>1. PICK f : Writes(f, s, c, name, k)
    BY <1>2
  <2> DEFINE last == f[k] \o Piece(s, c, name, k + 1)
             g == [i \in 0..(k + 1) |-> IF i = k + 1 THEN last ELSE f[i]]
  <2>2. /\ f[0] = <<>>
        /\ \A i \in 1..k : f[i] = f[i - 1] \o Piece(s, c, name, i)
    BY <2>1, WritesStep
  <2> HIDE DEF last
  <2>3. g[k + 1] = last /\ \A i \in 0..k : g[i] = f[i]
    OBVIOUS
  <2>4. g = [i \in 0..(k + 1) |-> g[i]]
    OBVIOUS
  <2> HIDE DEF g
  <2>5. ASSUME NEW i \in 0..(k + 1)
        PROVE  g[i] = IF i = 0 THEN <<>> ELSE g[i - 1] \o Piece(s, c, name, i)
    <3>1. CASE i = k + 1
      <4>1. i # 0 /\ i - 1 = k /\ k \in 0..k
        BY <3>1
      <4>2. g[i - 1] = f[k] /\ g[i] = last
        BY <2>3, <3>1, <4>1
      <4> QED
        BY <3>1, <4>1, <4>2 DEF last
    <3>2. CASE i \in 1..k
      <4>1. i # 0 /\ i - 1 \in 0..k /\ i \in 0..k
        BY <3>2
      <4>2. g[i - 1] = f[i - 1] /\ g[i] = f[i]
        BY <2>3, <4>1
      <4> QED
        BY <2>2, <3>2, <4>1, <4>2
    <3>3. CASE i = 0
      BY <2>2, <2>3, <3>3
    <3> QED
      BY <3>1, <3>2, <3>3
  <2>6. Writes(g, s, c, name, k + 1)
    BY <2>4, <2>5 DEF Writes
  <2> QED
    BY <2>6
<1> HIDE DEF T
<1>3. n \in T
  BY <1>1, <1>2, Induction
<1> QED
  BY <1>3 DEF T

\* So what a replacement yields is the last value of a function of that equation.
LEMMA NamedIs ==
  ASSUME NEW s, NEW c, NEW name, Len(s) \in Nat
  PROVE  \E f : Writes(f, s, c, name, Len(s)) /\ Named(s, c, name) = f[Len(s)]
<1> DEFINE f == CHOOSE f : Writes(f, s, c, name, Len(s))
<1>1. Writes(f, s, c, name, Len(s))
  BY WritesExists
<1>2. Named(s, c, name) = f[Len(s)]
  BY DEF Named, Writes, Piece
<1> QED
  BY <1>1, <1>2

LEMMA PieceIs ==
  ASSUME NEW S, NEW s \in Seq(S), NEW c, NEW name \in S, "&" \in S, NEW i \in 1..Len(s)
  PROVE  /\ Piece(s, c, name, i) \in Seq(S)
         /\ s[i] = c => Len(Piece(s, c, name, i)) = 2
         /\ s[i] # c => Piece(s, c, name, i) = <<s[i]>> /\ Len(Piece(s, c, name, i)) = 1
         /\ \A d : d \notin {c, "&", name} => (Has(Piece(s, c, name, i), d) <=> s[i] = d)
<1>1. s[i] \in S
  OBVIOUS
<1> QED
  BY <1>1 DEF Piece, Has

\* A character is in one of two texts or in the other.
LEMMA HasEither ==
  ASSUME NEW S, NEW s \in Seq(S), NEW t \in Seq(S), NEW d
  PROVE  Has(s \o t, d) <=> Has(s, d) \/ Has(t, d)
<1> DEFINE u == s \o t
           m == Len(s)
           n == Len(t)
<1>1. /\ m \in Nat /\ n \in Nat /\ DOMAIN s = 1..m /\ DOMAIN t = 1..n /\ DOMAIN u = 1..(m + n)
      /\ \A i \in 1..(m + n) : u[i] = IF i <= m THEN s[i] ELSE t[i - m]
  BY ConcatProperties, LenProperties
<1> HIDE DEF u, m, n
<1>2. ASSUME Has(u, d) PROVE Has(s, d) \/ Has(t, d)
  <2>1. PICK i \in 1..(m + n) : u[i] = d
    BY <1>1, <1>2 DEF Has
  <2>2. CASE i <= m
    BY <1>1, <2>1, <2>2 DEF Has
  <2>3. CASE i > m
    <3>1. t[i - m] = d /\ i - m \in 1..n
      BY <1>1, <2>1, <2>3
    <3> QED
      BY <1>1, <3>1 DEF Has
  <2> QED
    BY <1>1, <2>2, <2>3
<1>3. ASSUME Has(s, d) PROVE Has(u, d)
  <2>1. PICK i \in 1..m : s[i] = d
    BY <1>1, <1>3 DEF Has
  <2>2. i \in 1..(m + n) /\ u[i] = d
    BY <1>1, <2>1
  <2> QED
    BY <1>1, <2>2 DEF Has
<1>4. ASSUME Has(t, d) PROVE Has(u, d)
  <2>1. PICK i \in 1..n : t[i] = d
    BY <1>1, <1>4 DEF Has
  <2>2. i + m \in 1..(m + n) /\ u[i + m] = d
    BY <1>1, <2>1
  <2> QED
    BY <1>1, <2>2 DEF Has
<1> QED
  BY <1>2, <1>3, <1>4 DEF u

Before(s, i, d) == \E j \in 1..i : s[j] = d

\* What is true of t, written for the first i characters of s.
Written(S, s, c, name, i, t) ==
    /\ t \in Seq(S) /\ Len(t) >= i
    /\ Before(s, i, c) => Len(t) > i
    /\ ~Before(s, i, c) => t = SubSeq(s, 1, i)
    /\ \A d : d \notin {c, "&", name} => (Has(t, d) <=> Before(s, i, d))

\* Character by character: nothing is written for no character, and what is right
\* for i of them is right for i + 1.
LEMMA NothingWritten ==
  ASSUME NEW S, NEW s \in Seq(S), NEW c, NEW name
  PROVE  Written(S, s, c, name, 0, <<>>)
  BY DEF Written, Before, Has

LEMMA PieceWritten ==
  ASSUME NEW S, NEW s \in Seq(S), NEW c, NEW name \in S, "&" \in S,
         NEW k \in Nat, k + 1 \in 1..Len(s), NEW t, Written(S, s, c, name, k, t)
  PROVE  Written(S, s, c, name, k + 1, t \o Piece(s, c, name, k + 1))
<1> DEFINE i == k + 1
<1>1. i \in 1..Len(s) /\ i > 0 /\ k = i - 1 /\ i \in Nat
  OBVIOUS
<1> DEFINE p == Piece(s, c, name, i)
           x == s[i]
           u == t \o p
<1>2. /\ p \in Seq(S)
      /\ x = c => Len(p) = 2
      /\ x # c => p = <<x>> /\ Len(p) = 1
      /\ \A d : d \notin {c, "&", name} => (Has(p, d) <=> x = d)
  <2> HIDE DEF i
  <2> QED
    BY <1>1, PieceIs
<1>3. t \in Seq(S) /\ Len(t) \in Nat /\ Len(t) >= k
  BY DEF Written
<1>4. \A d : Before(s, i, d) <=> Before(s, k, d) \/ x = d
  BY DEF Before
<1> HIDE DEF p
<1>5. u \in Seq(S) /\ Len(u) = Len(t) + Len(p)
  BY <1>2, <1>3, ConcatProperties
<1>6. \A d : Has(u, d) <=> Has(t, d) \/ Has(p, d)
  BY <1>2, <1>3, HasEither
<1>7. SubSeq(s, 1, i) = SubSeq(s, 1, k) \o <<x>>
  <2>1. 1 \in 1..Len(s) /\ i \in 1..Len(s)
    BY <1>1
  <2> HIDE DEF i
  <2> QED
    BY <1>1, <2>1, SubSeqRecursiveSecond
<1>8. Len(u) >= i /\ (Before(s, i, c) => Len(u) > i)
  <2>1. Before(s, k, c) => Len(t) > k
    BY DEF Written
  <2> DEFINE n == Len(t)
             m == Len(p)
  <2>2. m \in {1, 2} /\ (x = c => m = 2)
    BY <1>2
  <2>3. n \in Nat /\ n >= k /\ Len(u) = n + m
    BY <1>3, <1>5
  <2> HIDE DEF x, u, n, m
  <2>4. n + m >= i /\ (n > k \/ m = 2 => n + m > i)
    BY <2>2, <2>3
  <2> QED
    BY <1>4, <2>1, <2>2, <2>3, <2>4 DEF n, m
<1>9. ~Before(s, i, c) => u = SubSeq(s, 1, i)
  BY <1>2, <1>4, <1>7 DEF Written
<1>10. \A d : d \notin {c, "&", name} => (Has(u, d) <=> Before(s, i, d))
  BY <1>2, <1>4, <1>6 DEF Written
<1> HIDE DEF u, x, i
<1>11. Written(S, s, c, name, i, u)
  BY <1>5, <1>8, <1>9, <1>10 DEF Written
<1> QED
  BY <1>11 DEF u, i, p

\* What a replacement yields: the same text only if there is nothing to replace, else
\* a longer one, and no character that was not there but for the ampersand and the name.
LEMMA NamedType ==
  ASSUME NEW S, NEW s \in Seq(S), NEW c, NEW name \in S, "&" \in S
  PROVE  /\ Named(s, c, name) \in Seq(S)
         /\ Named(s, c, name) = s <=> ~Has(s, c)
         /\ Len(Named(s, c, name)) >= Len(s) /\ (Has(s, c) => Len(Named(s, c, name)) > Len(s))
         /\ \A d : d \notin {c, "&", name} => (Has(Named(s, c, name), d) <=> Has(s, d))
<1> DEFINE n == Len(s)
<1>1. n \in Nat /\ DOMAIN s = 1..n
  OBVIOUS
<1>2. PICK f : Writes(f, s, c, name, n) /\ Named(s, c, name) = f[n]
  BY <1>1, NamedIs
<1>3. f[0] = <<>> /\ \A i \in 1..n : f[i] = f[i - 1] \o Piece(s, c, name, i)
  BY <1>1, <1>2, WritesStep
<1> DEFINE T == {i \in Nat : i <= n => Written(S, s, c, name, i, f[i])}
<1>4. 0 \in T
  BY <1>3, NothingWritten
<1>5. ASSUME NEW k \in Nat, k \in T
      PROVE  k + 1 \in T
  <2>1. CASE ~(k + 1 <= n)
    BY <2>1
  <2>2. CASE k + 1 <= n
    <3>1. k + 1 \in 1..n /\ k <= n /\ (k + 1) - 1 = k
      BY <1>1, <2>2
    <3>2. f[k + 1] = f[k] \o Piece(s, c, name, k + 1)
      BY <1>3, <3>1
    <3>3. Written(S, s, c, name, k, f[k])
      BY <1>5, <3>1
    <3>4. Written(S, s, c, name, k + 1, f[k] \o Piece(s, c, name, k + 1))
      BY <3>1, <3>3, PieceWritten
    <3>5. Written(S, s, c, name, k + 1, f[k + 1])
      BY <3>2, <3>4
    <3> QED
      BY <3>5
  <2> QED
    BY <2>1, <2>2
<1> HIDE DEF T
<1>6. n \in T
  BY <1>1, <1>4, <1>5, Induction
<1>7. Written(S, s, c, name, n, Named(s, c, name))
  BY <1>1, <1>2, <1>6 DEF T
<1>8. \A d : Before(s, n, d) <=> Has(s, d)
  BY <1>1 DEF Has, Before
<1>9. SubSeq(s, 1, n) = s
  BY SubSeqFull
<1> DEFINE u == Named(s, c, name)
<1> HIDE DEF u
<1>10. Len(u) > n => u # s
  BY <1>1
<1> QED
  BY <1>7, <1>8, <1>9, <1>10 DEF Written, u

\* The two serializers of cot_pipeline write the same of a text of any length, over
\* any characters: as an attribute but for a line end or a tab, as a text but for a
\* quote.
THEOREM EveryTextAgrees ==
  ASSUME NEW S, NEW s \in Seq(S)
  PROVE  /\ XmlEscape(s) = TreeAttribute(s)
              <=> ~Has(s, "newline") /\ ~Has(s, "return") /\ ~Has(s, "tab")
         /\ XmlEscape(s) = TreeText(s) <=> ~Has(s, "quote")
<1> DEFINE U == S \cup {"&", "amp;", "lt;", "quot;", "#13;", "#10;", "#09;"}
           amp == Named(s, "&", "amp;")
           lt == Named(amp, "<", "lt;")
           quot == Named(lt, "quote", "quot;")
           cr == Named(quot, "return", "#13;")
           lf == Named(cr, "newline", "#10;")
           tab == Named(lf, "tab", "#09;")
<1>1. s \in Seq(U)
  BY SeqMonotonic
<1> HIDE DEF U
<1>0. {"&", "amp;", "lt;", "quot;", "#13;", "#10;", "#09;"} \subseteq U
  BY DEF U
<1>2. amp \in Seq(U) /\ \A d : d \notin {"&", "amp;"} => (Has(amp, d) <=> Has(s, d))
  BY <1>1, <1>0, NamedType
<1> HIDE DEF amp
<1>3. lt \in Seq(U) /\ \A d : d \notin {"<", "&", "lt;"} => (Has(lt, d) <=> Has(amp, d))
  BY <1>2, <1>0, NamedType
<1> HIDE DEF lt
<1>4. /\ quot \in Seq(U) /\ (quot = lt <=> ~Has(lt, "quote"))
      /\ \A d : d \notin {"quote", "&", "quot;"} => (Has(quot, d) <=> Has(lt, d))
  BY <1>3, <1>0, NamedType
<1> HIDE DEF quot
<1>5. /\ cr \in Seq(U) /\ (cr = quot <=> ~Has(quot, "return"))
      /\ Len(cr) >= Len(quot) /\ (Has(quot, "return") => Len(cr) > Len(quot))
      /\ \A d : d \notin {"return", "&", "#13;"} => (Has(cr, d) <=> Has(quot, d))
  BY <1>4, <1>0, NamedType
<1> HIDE DEF cr
<1>6. /\ lf \in Seq(U) /\ (lf = cr <=> ~Has(cr, "newline"))
      /\ Len(lf) >= Len(cr) /\ (Has(cr, "newline") => Len(lf) > Len(cr))
      /\ \A d : d \notin {"newline", "&", "#10;"} => (Has(lf, d) <=> Has(cr, d))
  BY <1>5, <1>0, NamedType
<1> HIDE DEF lf
<1>7. /\ tab \in Seq(U) /\ (tab = lf <=> ~Has(lf, "tab"))
      /\ Len(tab) >= Len(lf) /\ (Has(lf, "tab") => Len(tab) > Len(lf))
  BY <1>6, <1>0, NamedType
<1> HIDE DEF tab
<1>8. /\ Has(quot, "return") <=> Has(s, "return")
      /\ Has(cr, "newline") <=> Has(s, "newline")
      /\ Has(lf, "tab") <=> Has(s, "tab")
      /\ Has(lt, "quote") <=> Has(s, "quote")
  BY <1>2, <1>3, <1>4, <1>5, <1>6
<1>9. quot = tab <=> ~Has(quot, "return") /\ ~Has(cr, "newline") /\ ~Has(lf, "tab")
  <2> DEFINE a == Len(quot)
             b == Len(cr)
             c == Len(lf)
             d == Len(tab)
  <2>1. a \in Nat /\ b \in Nat /\ c \in Nat /\ d \in Nat
    <3>1. quot \in Seq(U) /\ cr \in Seq(U) /\ lf \in Seq(U) /\ tab \in Seq(U)
      BY <1>4, <1>5, <1>6, <1>7
    <3> QED
      BY <3>1, LenProperties
  <2>2. /\ b >= a /\ (Has(quot, "return") => b > a)
        /\ c >= b /\ (Has(cr, "newline") => c > b)
        /\ d >= c /\ (Has(lf, "tab") => d > c)
        /\ quot = tab => a = d
    BY <1>5, <1>6, <1>7
  <2> HIDE DEF a, b, c, d
  <2>3. quot = tab => ~Has(quot, "return") /\ ~Has(cr, "newline") /\ ~Has(lf, "tab")
    BY <2>1, <2>2
  <2> QED
    BY <1>5, <1>6, <1>7, <2>3
<1>10. XmlEscape(s) = quot /\ TreeText(s) = lt /\ TreeAttribute(s) = tab
  BY DEF XmlEscape, TreeText, TreeAttribute, amp, lt, quot, cr, lf, tab
<1> QED
  BY <1>4, <1>8, <1>9, <1>10

\* So they agree on the texts of the run, for any MaxText: the template of
\* _serialize_cot_xml_template and the tree of _serialize_cot_xml_et.
THEOREM SerializersAlwaysAgree == TextsInit => SerializersAgree
<1> SUFFICES ASSUME NEW s \in Texts
             PROVE  /\ XmlEscape(s) = TreeAttribute(s)
                         <=> ~Has(s, "newline") /\ ~Has(s, "return") /\ ~Has(s, "tab")
                    /\ XmlEscape(s) = TreeText(s) <=> ~Has(s, "quote")
  BY DEF TextsInit, SerializersAgree
<1>1. s \in Seq(EventChars)
  BY DEF Texts
<1> QED
  BY <1>1, EveryTextAgrees

-----------------------------------------------------------------------------
(* Alerts *)

\* What AlertIsHostile says of one event.
ShownInDistress(ac, tfs, hostile) ==
    LET e == EventParts(ac, tfs, hostile)
        alert == hostile /\ Distress(ac)
    IN  /\ e.callsign.alert = alert /\ Has(e.remarks, "distress") = alert
        /\ e.type.aff = "h" <=> alert \/ (~IsTisb(ac) /\ \E tf \in tfs : tf.cot = "h")
        /\ alert => [e.type EXCEPT !.aff = "f"] = CotTypeFromAircraft(ac)
        /\ ~alert /\ IsTisb(ac) => e.type = UnknownAir

\* An aircraft is a friend of a known class, by its own word.
LEMMA OwnType ==
  ASSUME NEW ac
  PROVE  LET base == CotTypeFromAircraft(ac)
         IN  /\ base = [aff |-> "f", mil |-> base.mil, class |-> base.class]
             /\ base # UnknownAir
<1> DEFINE base == CotTypeFromAircraft(ac)
<1>1. base = [aff |-> "f", mil |-> base.mil, class |-> base.class]
  BY DEF CotTypeFromAircraft
<1>2. base.aff = "f" /\ UnknownAir.aff = "u"
  BY DEF CotTypeFromAircraft, UnknownAir
<1> QED
  BY <1>1, <1>2

LEMMA HostileType ==
  ASSUME NEW m, NEW k, NEW t, t = [aff |-> "f", mil |-> m, class |-> k]
  PROVE  Hostile(t).aff = "h" /\ [Hostile(t) EXCEPT !.aff = "f"] = t
<1>1. t.aff = "f"
  OBVIOUS
<1>2. Hostile(t) = [t EXCEPT !.aff = "h"]
  BY <1>1 DEF Hostile
<1>3. [t EXCEPT !.aff = "h"] = [aff |-> "h", mil |-> m, class |-> k]
  OBVIOUS
<1> DEFINE u == [aff |-> "h", mil |-> m, class |-> k]
<1>4. u.aff = "h" /\ [u EXCEPT !.aff = "f"] = [aff |-> "f", mil |-> m, class |-> k]
  OBVIOUS
<1> HIDE DEF u
<1> QED
  BY <1>2, <1>3, <1>4 DEF u

Said == {"distress", "CoT-Proxy", "TISB_B", "squawk", "category", "remarks"}

\* A remark is there or not, and is no alert unless it says so.
LEMMA OnlyHas ==
  ASSUME NEW cond, NEW s \in Said, NEW d \in Said
  PROVE  /\ Only(cond, s) \in Seq(Said)
         /\ Has(Only(cond, s), d) <=> cond /\ s = d
<1>1. CASE cond
  <2>1. Only(cond, s) = <<s>>
    BY <1>1 DEF Only
  <2>2. <<s>> \in Seq(Said) /\ DOMAIN <<s>> = 1..1 /\ <<s>>[1] = s
    OBVIOUS
  <2>3. Has(<<s>>, d) <=> s = d
    BY <2>2 DEF Has
  <2> QED
    BY <1>1, <2>1, <2>2, <2>3
<1>2. CASE ~cond
  <2>1. Only(cond, s) = <<>>
    BY <1>2 DEF Only
  <2>2. <<>> \in Seq(Said) /\ ~Has(<<>>, d)
    BY DEF Has
  <2> QED
    BY <1>2, <2>1, <2>2
<1> QED
  BY <1>1, <1>2

LEMMA OnlyOther ==
  ASSUME NEW cond, NEW s \in {"CoT-Proxy", "TISB_B", "squawk", "category", "remarks"}
  PROVE  Only(cond, s) \in Seq(Said) /\ ~Has(Only(cond, s), "distress")
<1> DEFINE d == "distress"
<1>1. s \in Said /\ d \in Said /\ s # d
  BY DEF Said
<1> HIDE DEF d
<1>2. Only(cond, s) \in Seq(Said) /\ ~Has(Only(cond, s), d)
  BY <1>1, OnlyHas
<1> QED
  BY <1>2 DEF d

LEMMA OnlyDistress ==
  ASSUME NEW cond
  PROVE  Only(cond, "distress") \in Seq(Said) /\ (Has(Only(cond, "distress"), "distress") <=> cond)
<1> DEFINE d == "distress"
<1>1. d \in Said
  BY DEF Said
<1> HIDE DEF d
<1>2. Only(cond, d) \in Seq(Said) /\ (Has(Only(cond, d), d) <=> cond)
  BY <1>1, OnlyHas
<1> QED
  BY <1>2 DEF d

\* The remarks speak of distress when the aircraft does and the option is on.
LEMMA DistressRemark ==
  ASSUME NEW ac, NEW tfs, NEW hostile
  PROVE  Has(Remarks(ac, tfs, hostile), "distress") <=> hostile /\ Distress(ac)
<1> DEFINE a == Only(hostile /\ Distress(ac), "distress")
           b == Only(tfs # {}, "CoT-Proxy")
           c == Only(IsTisb(ac), "TISB_B")
           d == Only(~IsTisb(ac) /\ ac.squawk # "", "squawk")
           e == Only(ac.category # "", "category")
           g == <<"remarks">>
           f == IF \E tf \in tfs : tf.remarks THEN g ELSE d \o e
<1>1. /\ a \in Seq(Said) /\ (Has(a, "distress") <=> hostile /\ Distress(ac))
  BY OnlyDistress
<1>2. /\ b \in Seq(Said) /\ ~Has(b, "distress")
  BY OnlyOther
<1>3. /\ c \in Seq(Said) /\ ~Has(c, "distress")
  BY OnlyOther
<1>4. /\ d \in Seq(Said) /\ ~Has(d, "distress")
  BY OnlyOther
<1>5. /\ e \in Seq(Said) /\ ~Has(e, "distress")
  BY OnlyOther
<1>6. g \in Seq(Said) /\ ~Has(g, "distress")
  <2>1. g = Only(TRUE, "remarks")
    BY DEF Only
  <2> HIDE DEF g
  <2> QED
    BY <2>1, OnlyOther
<1>7. Remarks(ac, tfs, hostile) = a \o b \o c \o f
  BY DEF Remarks
<1> HIDE DEF a, b, c, d, e, g
<1>8. d \o e \in Seq(Said) /\ ~Has(d \o e, "distress")
  BY <1>4, <1>5, HasEither
<1>9. f \in Seq(Said) /\ ~Has(f, "distress")
  BY <1>6, <1>8
<1> HIDE DEF f
<1>10. a \o b \in Seq(Said) /\ (Has(a \o b, "distress") <=> Has(a, "distress"))
  BY <1>1, <1>2, HasEither
<1>11. /\ a \o b \o c \in Seq(Said)
       /\ Has(a \o b \o c, "distress") <=> Has(a, "distress")
  <2> DEFINE ab == a \o b
  <2>1. ab \in Seq(Said) /\ (Has(ab, "distress") <=> Has(a, "distress"))
    BY <1>10
  <2> HIDE DEF ab
  <2>2. ab \o c \in Seq(Said) /\ (Has(ab \o c, "distress") <=> Has(a, "distress"))
    BY <1>3, <2>1, HasEither
  <2> QED
    BY <2>2 DEF ab
<1>12. Has(a \o b \o c \o f, "distress") <=> Has(a, "distress")
  <2> DEFINE abc == a \o b \o c
  <2>1. abc \in Seq(Said) /\ (Has(abc, "distress") <=> Has(a, "distress"))
    BY <1>11
  <2> HIDE DEF abc
  <2>2. Has(abc \o f, "distress") <=> Has(a, "distress")
    BY <1>9, <2>1, HasEither
  <2> QED
    BY <2>2 DEF abc
<1> QED
  BY <1>1, <1>7, <1>12

\* Only a transform makes the style hostile.
LEMMA StyledType ==
  ASSUME NEW ac, NEW tfs \in {{}} \cup {{tf} : tf \in Transform}
  PROVE  Styled(ac, tfs).aff = "h" <=> \E tf \in tfs : tf.cot = "h"
<1>1. CASE \E tf \in tfs : tf.cot # ""
  <2>1. PICK tf \in Transform : tfs = {tf}
    BY <1>1
  <2>2. (CHOOSE x \in tfs : TRUE) = tf
    BY <2>1
  <2>3. Styled(ac, tfs).aff = tf.cot
    BY <1>1, <2>2 DEF Styled
  <2> QED
    BY <2>1, <2>3
<1>2. CASE ~\E tf \in tfs : tf.cot # ""
  <2> DEFINE base == CotTypeFromAircraft(ac)
  <2>1. base.aff = "f"
    BY DEF CotTypeFromAircraft
  <2> HIDE DEF base
  <2>2. Styled(ac, tfs) = base
    BY <1>2 DEF Styled, base
  <2> QED
    BY <1>2, <2>1, <2>2
<1> QED
  BY <1>1, <1>2

\* What is shown of any aircraft, with at most one transform.
LEMMA AlwaysShown ==
  ASSUME NEW ac, NEW tfs \in {{}} \cup {{tf} : tf \in Transform}, NEW hostile
  PROVE  ShownInDistress(ac, tfs, hostile)
<1> DEFINE e == EventParts(ac, tfs, hostile)
           base == CotTypeFromAircraft(ac)
           alert == hostile /\ Distress(ac)
<1>1. /\ e.callsign.alert = alert /\ e.type = EventType(ac, tfs, hostile)
      /\ e.remarks = Remarks(ac, tfs, hostile)
  BY DEF EventParts, Callsign
<1>2. Has(e.remarks, "distress") = alert
  <2>1. Has(e.remarks, "distress") <=> alert
    BY <1>1, DistressRemark
  <2>2. Has(e.remarks, "distress") \in BOOLEAN /\ alert \in BOOLEAN
    BY DEF Has
  <2> QED
    BY <2>1, <2>2
<1>3. base = [aff |-> "f", mil |-> base.mil, class |-> base.class] /\ base # UnknownAir
  BY OwnType
<1>4. ASSUME alert
      PROVE  e.type.aff = "h" /\ [e.type EXCEPT !.aff = "f"] = base
  <2>1. e.type = Hostile(base)
    BY <1>1, <1>3, <1>4 DEF EventType
  <2> HIDE DEF e, base
  <2> QED
    BY <1>3, <2>1, HostileType
<1>5. ASSUME ~alert, IsTisb(ac)
      PROVE  e.type = UnknownAir /\ e.type.aff # "h"
  BY <1>1, <1>5 DEF EventType, UnknownAir
<1>6. ASSUME ~alert, ~IsTisb(ac)
      PROVE  e.type.aff = "h" <=> \E tf \in tfs : tf.cot = "h"
  <2>1. e.type = Styled(ac, tfs)
    BY <1>1, <1>6 DEF EventType
  <2> QED
    BY <2>1, StyledType
<1> HIDE DEF e, base
<1>7. /\ e.callsign.alert = alert /\ Has(e.remarks, "distress") = alert
      /\ e.type.aff = "h" <=> alert \/ (~IsTisb(ac) /\ \E tf \in tfs : tf.cot = "h")
      /\ alert => [e.type EXCEPT !.aff = "f"] = base
      /\ ~alert /\ IsTisb(ac) => e.type = UnknownAir
  BY <1>1, <1>2, <1>4, <1>5, <1>6
<1> QED
  BY <1>7 DEF ShownInDistress, e, base

\* _compute_cot_xml_parts: an aircraft in distress is shown hostile with its alert,
\* whichever transforms apply to it, and no other alert is ever shown.  A code the
\* program does not know is no distress.
THEOREM DistressAlwaysHostile == CraftsInit => AlertIsHostile
<1> SUFFICES ASSUME CraftsInit
             PROVE  AlertIsHostile
  OBVIOUS
<1>1. ASSUME NEW ac \in crafts
      PROVE  Distress(ac) <=> ac.squawk = "7700" \/ ac.emergency \notin {"", "none", "minfuel"}
  <2>1. ac \in Aircraft
    BY DEF CraftsInit
  <2> QED
    BY <2>1 DEF Distress, Aircraft, Labels, Mentioning
<1> SUFFICES ASSUME NEW ac \in crafts, NEW tfs \in {{}} \cup {{tf} : tf \in Transform},
                    NEW hostile \in BOOLEAN
             PROVE  LET e == EventParts(ac, tfs, hostile)
                        alert == hostile /\ (\/ ac.squawk = "7700"
                                             \/ ac.emergency \notin {"", "none", "minfuel"})
                    IN  /\ e.callsign.alert = alert /\ Has(e.remarks, "distress") = alert
                        /\ e.type.aff = "h" <=>
                             alert \/ (~IsTisb(ac) /\ \E tf \in tfs : tf.cot = "h")
                        /\ alert => [e.type EXCEPT !.aff = "f"] = CotTypeFromAircraft(ac)
                        /\ ~alert /\ IsTisb(ac) => e.type = UnknownAir
  BY DEF AlertIsHostile
<1> DEFINE e == EventParts(ac, tfs, hostile)
           says == \/ ac.squawk = "7700"
                   \/ ac.emergency \notin {"", "none", "minfuel"}
<1>2. Distress(ac) = says
  BY <1>1 DEF Distress
<1>3. ShownInDistress(ac, tfs, hostile)
  BY AlwaysShown
<1> HIDE DEF e, says
<1>4. /\ e.callsign.alert = (hostile /\ says) /\ Has(e.remarks, "distress") = (hostile /\ says)
      /\ e.type.aff = "h" <=> (hostile /\ says) \/ (~IsTisb(ac) /\ \E tf \in tfs : tf.cot = "h")
      /\ hostile /\ says => [e.type EXCEPT !.aff = "f"] = CotTypeFromAircraft(ac)
      /\ ~(hostile /\ says) /\ IsTisb(ac) => e.type = UnknownAir
  BY <1>2, <1>3 DEF ShownInDistress, e
<1> QED
  BY <1>4 DEF e, says

-----------------------------------------------------------------------------
(* Replacing *)

\* w stands at i.
StandsAt(s, w, i) == i + Len(w) - 1 <= Len(s) /\ SubSeq(s, i, i + Len(w) - 1) = w

Rest(f, s, w, r, i) ==
    IF i > Len(s) THEN <<>>
    ELSE IF StandsAt(s, w, i) THEN r \o f[i + Len(w)] ELSE <<s[i]>> \o f[i + 1]

\* f[i] is what s becomes from i on.
Replaces(f, s, w, r, a) ==
    f = [i \in a..(Len(s) + Len(w)) |-> Rest(f, s, w, r, i)]

LEMMA ReplacesAt ==
  ASSUME NEW f, NEW s, NEW w, NEW r, NEW a, Replaces(f, s, w, r, a),
         NEW i \in a..(Len(s) + Len(w))
  PROVE  f[i] = Rest(f, s, w, r, i)
<1>1. \A j \in a..(Len(s) + Len(w)) : f[j] = Rest(f, s, w, r, j)
  BY DEF Replaces
<1> QED
  BY <1>1

\* The recursion that defines Replaced has a solution.
LEMMA ReplacesExists ==
  ASSUME NEW s, NEW w, NEW r, Len(s) \in Nat, Len(w) \in Nat \ {0}
  PROVE  \E f : Replaces(f, s, w, r, 1)
<1> DEFINE n == Len(s)
           m == Len(w)
           N == n + m
           T == {a \in 1..N : \E f : Replaces(f, s, w, r, a)}
<1>1. ASSUME NEW a \in 1..N, \A j \in (a + 1)..N : j \in T
      PROVE  a \in T
  <2>1. PICK f : a < N => Replaces(f, s, w, r, a + 1)
    BY <1>1
  <2> DEFINE first == Rest(f, s, w, r, a)
             g == [i \in a..N |-> IF i = a THEN first ELSE f[i]]
  <2>2. \A i \in (a + 1)..N : f[i] = Rest(f, s, w, r, i)
    BY <2>1, ReplacesAt
  <2> HIDE DEF first
  <2>3. g = [i \in a..N |-> g[i]] /\ g[a] = first /\ \A i \in (a + 1)..N : g[i] = f[i]
    OBVIOUS
  <2> HIDE DEF g
  <2>4. ASSUME NEW i \in a..N
        PROVE  g[i] = Rest(f, s, w, r, i) /\ Rest(g, s, w, r, i) = Rest(f, s, w, r, i)
    <3>1. g[i] = Rest(f, s, w, r, i)
      <4>1. CASE i = a
        BY <2>3, <4>1 DEF first
      <4>2. CASE i \in (a + 1)..N
        BY <2>2, <2>3, <4>2
      <4> QED
        BY <4>1, <4>2
    <3>2. CASE i > n
      BY <3>1, <3>2 DEF Rest
    <3>3. CASE ~(i > n) /\ StandsAt(s, w, i)
      <4>1. i + m \in (a + 1)..N
        BY <3>3 DEF StandsAt
      <4>2. g[i + m] = f[i + m]
        BY <2>3, <4>1
      <4> QED
        BY <3>1, <3>3, <4>2 DEF Rest
    <3>4. CASE ~(i > n) /\ ~StandsAt(s, w, i)
      <4>1. i + 1 \in (a + 1)..N
        BY <3>4
      <4>2. g[i + 1] = f[i + 1]
        BY <2>3, <4>1
      <4> QED
        BY <3>1, <3>4, <4>2 DEF Rest
    <3> QED
      BY <3>2, <3>3, <3>4
  <2>5. Replaces(g, s, w, r, a)
    BY <2>3, <2>4 DEF Replaces
  <2> QED
    BY <2>5
<1>2. N \in Nat /\ 1 \in 1..N
  OBVIOUS
<1> HIDE DEF T, N
<1>3. 1..N \subseteq T
  BY <1>1, <1>2, Downward
<1> QED
  BY <1>2, <1>3 DEF T

\* So a replacement is the first value of a function of that equation.
LEMMA ReplacedIs ==
  ASSUME NEW s, NEW w, NEW r, Len(s) \in Nat, Len(w) \in Nat \ {0}
  PROVE  \E f : Replaces(f, s, w, r, 1) /\ Replaced(s, w, r) = f[1]
<1> DEFINE f == CHOOSE f : Replaces(f, s, w, r, 1)
<1>1. Replaces(f, s, w, r, 1)
  BY ReplacesExists
<1>2. Replaced(s, w, r) = f[1]
  BY DEF Replaced, Replaces, Rest, StandsAt
<1> QED
  BY <1>1, <1>2

\* Nothing is longer, if what is put in is no longer than what it is put in for.
LEMMA ReplacedType ==
  ASSUME NEW S, NEW s \in Seq(S), NEW w \in Seq(S), w # <<>>, NEW r \in Seq(S)
  PROVE  /\ Replaced(s, w, r) \in Seq(S)
         /\ Len(r) <= Len(w) => Len(Replaced(s, w, r)) <= Len(s)
<1> DEFINE n == Len(s)
           m == Len(w)
           N == n + m
<1>1. n \in Nat /\ m \in Nat \ {0} /\ N \in Nat /\ Len(r) \in Nat
  OBVIOUS
<1>2. PICK f : Replaces(f, s, w, r, 1) /\ Replaced(s, w, r) = f[1]
  BY <1>1, ReplacedIs
<1>3. \A i \in 1..N : f[i] = Rest(f, s, w, r, i)
  BY <1>2, ReplacesAt
<1> DEFINE Typed(i) == /\ f[i] \in Seq(S)
                       /\ i > n => f[i] = <<>>
                       /\ Len(r) <= m /\ i <= n => Len(f[i]) <= n + 1 - i
           T == {i \in 1..N : Typed(i)}
<1>4. ASSUME NEW i \in 1..N, \A j \in (i + 1)..N : j \in T
      PROVE  i \in T
  <2>1. CASE i > n
    <3>1. f[i] = <<>>
      BY <1>3, <2>1 DEF Rest
    <3>2. ~(i <= n) /\ <<>> \in Seq(S)
      BY <1>1, <2>1
    <3> HIDE DEF n, m, N
    <3> QED
      BY <3>1, <3>2
  <2>2. CASE ~(i > n) /\ StandsAt(s, w, i)
    <3>1. f[i] = r \o f[i + m]
      BY <1>3, <2>2 DEF Rest
    <3>2. i + m \in (i + 1)..N /\ i + m <= n + 1
      BY <1>1, <2>2 DEF StandsAt
    <3>3. Typed(i + m)
      BY <1>4, <3>2
    <3> DEFINE t == f[i + m]
               k == Len(r)
               l == Len(t)
    <3>4. t \in Seq(S) /\ l \in Nat /\ (i + m > n => l = 0)
          /\ (k <= m /\ i + m <= n => l <= n + 1 - (i + m))
      BY <3>3
    <3>5. r \o t \in Seq(S) /\ Len(r \o t) = k + l
      BY <3>4, ConcatProperties
    <3> HIDE DEF n, m, k, l, t, N
    <3>6. k <= m => k + l <= n + 1 - i
      BY <1>1, <3>2, <3>4 DEF k
    <3> QED
      BY <1>1, <2>2, <3>1, <3>5, <3>6 DEF t, k, m, N
  <2>3. CASE ~(i > n) /\ ~StandsAt(s, w, i)
    <3>1. f[i] = <<s[i]>> \o f[i + 1]
      BY <1>3, <2>3 DEF Rest
    <3>2. i + 1 \in (i + 1)..N /\ i + 1 <= n + 1 /\ i \in 1..n
      BY <1>1, <2>3
    <3>3. Typed(i + 1)
      BY <1>4, <3>2
    <3> DEFINE t == f[i + 1]
               l == Len(t)
    <3>4. t \in Seq(S) /\ l \in Nat /\ (i + 1 > n => l = 0)
          /\ (Len(r) <= m /\ i + 1 <= n => l <= n + 1 - (i + 1))
      BY <3>3
    <3>5. <<s[i]>> \o t \in Seq(S) /\ Len(<<s[i]>> \o t) = 1 + l
      <4>1. <<s[i]>> \in Seq(S) /\ Len(<<s[i]>>) = 1
        BY <3>2
      <4> QED
        BY <3>4, <4>1, ConcatProperties
    <3> DEFINE k == Len(r)
    <3> HIDE DEF n, m, l, t, N, k
    <3>6. k <= m => 1 + l <= n + 1 - i
      BY <1>1, <3>2, <3>4 DEF k
    <3> QED
      BY <1>1, <2>3, <3>1, <3>5, <3>6 DEF t, N, k
  <2> QED
    BY <2>1, <2>2, <2>3
<1> HIDE DEF T, N
<1>5. 1..N \subseteq T
  BY <1>1, <1>4, Downward
<1>6. 1 \in 1..N
  BY <1>1 DEF N
<1>7. Typed(1)
  BY <1>5, <1>6 DEF T
<1> QED
  BY <1>1, <1>2, <1>7

\* What is before a place does not matter for what follows it.
LEMMA ReplacedAfter ==
  ASSUME NEW S, NEW p \in Seq(S), NEW t \in Seq(S), NEW w \in Seq(S), w # <<>>, NEW r,
         NEW f, Replaces(f, p \o t, w, r, 1)
  PROVE  f[Len(p) + 1] = Replaced(t, w, r)
<1> DEFINE s == p \o t
           k == Len(p)
           n == Len(t)
           m == Len(w)
           N == n + m
<1>1. /\ k \in Nat /\ n \in Nat /\ m \in Nat \ {0} /\ N \in Nat
      /\ s \in Seq(S) /\ Len(s) = k + n
      /\ \A i \in 1..n : s[k + i] = t[i]
  OBVIOUS
<1>2. PICK g : Replaces(g, t, w, r, 1) /\ Replaced(t, w, r) = g[1]
  <2>1. Len(t) \in Nat /\ Len(w) \in Nat \ {0}
    BY <1>1
  <2> QED
    BY <2>1, ReplacedIs
<1>3. \A i \in 1..N : g[i] = Rest(g, t, w, r, i)
  BY <1>2, ReplacesAt
<1> HIDE DEF s
<1>4. \A i \in 1..(k + n + m) : f[i] = Rest(f, s, w, r, i)
  <2>1. Replaces(f, s, w, r, 1) /\ Len(s) + Len(w) = k + n + m
    BY <1>1 DEF s
  <2> HIDE DEF k, n, m, N
  <2> QED
    BY <2>1, ReplacesAt
<1>5. ASSUME NEW i \in 1..n
      PROVE  StandsAt(s, w, k + i) <=> StandsAt(t, w, i)
  <2> DEFINE j == i + m - 1
  <2>1. /\ j \in Int /\ k + i + m - 1 = k + j
        /\ k + j <= k + n <=> j <= n
    BY <1>1
  <2>2. ASSUME j <= n
        PROVE  SubSeq(s, k + i, k + j) = SubSeq(t, i, j)
    <3>1. /\ k + i \in (k + 1)..(k + n) /\ k + j \in (k + 1)..(k + n)
          /\ k + i - k = i /\ k + j - k = j
      BY <1>1, <2>1, <2>2
    <3> DEFINE a == k + i
               b == k + j
    <3>2. a \in Len(p) + 1 .. Len(p) + Len(t) /\ b \in Len(p) + 1 .. Len(p) + Len(t)
      BY <3>1
    <3>3. a - Len(p) = i /\ b - Len(p) = j
      BY <3>1
    <3> HIDE DEF a, b, j, N, m, k, n
    <3>4. SubSeq(p \o t, a, b) = SubSeq(t, a - Len(p), b - Len(p))
      BY <3>2, SubSeqOfConcat2
    <3> QED
      BY <3>3, <3>4 DEF s, a, b
  <2>3. /\ StandsAt(s, w, k + i) <=> k + j <= k + n /\ SubSeq(s, k + i, k + j) = w
        /\ StandsAt(t, w, i) <=> j <= n /\ SubSeq(t, i, j) = w
    BY <1>1, <2>1 DEF StandsAt
  <2> HIDE DEF j
  <2> QED
    BY <2>1, <2>2, <2>3
<1> DEFINE T == {i \in 1..N : f[k + i] = g[i]}
<1>6. ASSUME NEW i \in 1..N, \A j \in (i + 1)..N : j \in T
      PROVE  i \in T
  <2>0. k + i \in 1..(k + n + m) /\ f[k + i] = Rest(f, s, w, r, k + i)
    BY <1>1, <1>4
  <2>1. CASE i > n
    <3>1. g[i] = <<>>
      BY <1>3, <2>1 DEF Rest
    <3>2. f[k + i] = <<>>
      BY <1>1, <2>0, <2>1 DEF Rest
    <3> QED
      BY <3>1, <3>2
  <2>2. CASE i \in 1..n /\ StandsAt(t, w, i)
    <3>1. i + m \in (i + 1)..N /\ k + (i + m) = k + i + m
      BY <1>1, <2>2 DEF StandsAt
    <3>2. f[k + i + m] = g[i + m]
      BY <1>6, <3>1
    <3>3. g[i] = r \o g[i + m]
      <4>1. i \in 1..N /\ ~(i > n)
        BY <1>1, <2>2
      <4> QED
        BY <1>3, <2>2, <4>1 DEF Rest
    <3>4. StandsAt(s, w, k + i) /\ ~(k + i > k + n)
      BY <1>1, <1>5, <2>2
    <3>5. f[k + i] = r \o f[k + i + m]
      BY <1>1, <2>0, <3>4 DEF Rest
    <3>6. f[k + i] = g[i]
      BY <3>2, <3>3, <3>5
    <3> QED
      BY <3>6
  <2>3. CASE i \in 1..n /\ ~StandsAt(t, w, i)
    <3>1. i + 1 \in (i + 1)..N /\ k + (i + 1) = k + i + 1
      BY <1>1, <2>3
    <3>2. f[k + i + 1] = g[i + 1]
      BY <1>6, <3>1
    <3>3. g[i] = <<t[i]>> \o g[i + 1]
      <4>1. i \in 1..N /\ ~(i > n)
        BY <1>1, <2>3
      <4> QED
        BY <1>3, <2>3, <4>1 DEF Rest
    <3>4. ~StandsAt(s, w, k + i) /\ ~(k + i > k + n) /\ s[k + i] = t[i]
      BY <1>1, <1>5, <2>3
    <3>5. f[k + i] = <<s[k + i]>> \o f[k + i + 1]
      BY <1>1, <2>0, <3>4 DEF Rest
    <3>6. f[k + i] = g[i]
      BY <3>2, <3>3, <3>4, <3>5
    <3> QED
      BY <3>6
  <2> QED
    BY <1>1, <2>1, <2>2, <2>3
<1> HIDE DEF T, N
<1>7. 1..N \subseteq T
  BY <1>1, <1>6, Downward
<1>8. 1 \in 1..N
  BY <1>1 DEF N
<1> QED
  BY <1>2, <1>7, <1>8 DEF T

\* The equations of Replaced.
LEMMA ReplacedNone ==
  ASSUME NEW w, Len(w) \in Nat \ {0}, NEW r
  PROVE  Replaced(<<>>, w, r) = <<>>
<1> DEFINE s == <<>>
<1>1. Len(s) = 0
  OBVIOUS
<1> HIDE DEF s
<1>2. PICK f : Replaces(f, s, w, r, 1) /\ Replaced(s, w, r) = f[1]
  BY <1>1, ReplacedIs
<1>3. 1 \in 1..(Len(s) + Len(w)) /\ 1 > Len(s)
  BY <1>1
<1>4. f[1] = Rest(f, s, w, r, 1)
  BY <1>2, <1>3, ReplacesAt
<1>5. f[1] = <<>>
  BY <1>3, <1>4 DEF Rest
<1> QED
  BY <1>2, <1>5 DEF s

LEMMA ReplacedFirst ==
  ASSUME NEW S, NEW t \in Seq(S), NEW w \in Seq(S), w # <<>>, NEW r
  PROVE  Replaced(w \o t, w, r) = r \o Replaced(t, w, r)
<1> DEFINE s == w \o t
           n == Len(t)
           m == Len(w)
<1>1. /\ n \in Nat /\ m \in Nat \ {0} /\ Len(s) = m + n /\ s \in Seq(S)
  OBVIOUS
<1>2. StandsAt(s, w, 1)
  <2>1. SubSeq(s, 1, m) = SubSeq(w, 1, m)
    BY <1>1, SubSeqOfConcat1
  <2>2. SubSeq(w, 1, m) = w
    BY SubSeqFull
  <2> QED
    BY <1>1, <2>1, <2>2 DEF StandsAt
<1>3. PICK f : Replaces(f, s, w, r, 1) /\ Replaced(s, w, r) = f[1]
  BY <1>1, ReplacedIs
<1>4. f[m + 1] = Replaced(t, w, r)
  BY <1>3, ReplacedAfter
<1>5. 1 \in 1..(Len(s) + m) /\ ~(1 > Len(s)) /\ 1 + m = m + 1
  BY <1>1
<1> HIDE DEF s
<1>6. f[1] = Rest(f, s, w, r, 1)
  BY <1>3, <1>5, ReplacesAt
<1>7. f[1] = r \o f[m + 1]
  BY <1>2, <1>5, <1>6 DEF Rest
<1> QED
  BY <1>3, <1>4, <1>7 DEF s

\* p is a character with which w does not begin.
Differs(p, w) == Len(p) = 1 /\ p[1] # w[1]

LEMMA ReplacedOther ==
  ASSUME NEW S, NEW t \in Seq(S), NEW w \in Seq(S), w # <<>>, NEW r,
         NEW p \in Seq(S), Differs(p, w)
  PROVE  Replaced(p \o t, w, r) = p \o Replaced(t, w, r)
<1> DEFINE s == p \o t
           n == Len(t)
           m == Len(w)
<1>1. /\ n \in Nat /\ m \in Nat \ {0} /\ Len(s) = 1 + n /\ s \in Seq(S) /\ s[1] = p[1]
  <2>1. n \in Nat /\ m \in Nat \ {0}
    OBVIOUS
  <2>2. 1 \in 1..(Len(p) + n) /\ 1 <= Len(p) /\ Len(p) = 1
    BY <2>1 DEF Differs
  <2> QED
    BY <2>1, <2>2, ConcatProperties
<1>2. ~StandsAt(s, w, 1)
  <2> SUFFICES ASSUME 1 + m - 1 <= Len(s), SubSeq(s, 1, 1 + m - 1) = w
               PROVE  FALSE
    BY DEF StandsAt
  <2>1. SubSeq(s, 1, 1 + m - 1)[1] = s[1]
    <3> HIDE DEF s
    <3> QED
      BY <1>1
  <2> QED
    BY <1>1, <2>1 DEF Differs
<1>3. PICK f : Replaces(f, s, w, r, 1) /\ Replaced(s, w, r) = f[1]
  BY <1>1, ReplacedIs
<1>4. f[1 + 1] = Replaced(t, w, r)
  <2>1. f[Len(p) + 1] = Replaced(t, w, r)
    BY <1>3, ReplacedAfter
  <2> QED
    BY <2>1 DEF Differs
<1>5. 1 \in 1..(Len(s) + m) /\ ~(1 > Len(s))
  BY <1>1
<1> HIDE DEF s
<1>6. f[1] = Rest(f, s, w, r, 1)
  BY <1>3, <1>5, ReplacesAt
<1>7. f[1] = p \o f[1 + 1]
  <2>1. p = <<p[1]>>
    BY DEF Differs
  <2> QED
    BY <1>1, <1>2, <1>5, <1>6, <2>1 DEF Rest
<1> QED
  BY <1>3, <1>4, <1>7 DEF s

-----------------------------------------------------------------------------
(* Settings *)

\* A value may be of any characters: of those that quoting tells apart, and others.
LEMMA EscapesComeBack ==
  ASSUME NEW S, {Sq, Dq} \subseteq S, NEW v \in Seq(S)
  PROVE  /\ Replaced(v, <<Sq>>, SqEscape) \in Seq(S)
         /\ Replaced(Replaced(v, <<Sq>>, SqEscape), SqEscape, <<Sq>>) = v
<1> DEFINE one == <<Sq>>
           five == SqEscape
           Up(s) == Replaced(s, one, five)
           Back(s) == Replaced(s, five, one)
           T == {s \in Seq(S) : Back(Up(s)) = s}
<1>1. /\ one \in Seq(S) /\ Len(one) = 1 /\ one # <<>> /\ one[1] = Sq
      /\ five \in Seq(S) /\ Len(five) = 5 /\ five # <<>> /\ five[1] = Sq
  BY DEF SqEscape
<1>2. one = <<Sq>> /\ five = SqEscape
  OBVIOUS
<1> HIDE DEF one, five
<1>3. \A s \in Seq(S) : Up(s) \in Seq(S)
  BY <1>1, ReplacedType
<1>4. <<>> \in T
  <2>1. Up(<<>>) = <<>> /\ Back(<<>>) = <<>>
    BY <1>1, ReplacedNone
  <2> QED
    BY <2>1
<1>5. ASSUME NEW s \in Seq(S), NEW c \in S, s \in T
      PROVE  <<c>> \o s \in T
  <2>0. <<c>> \o s \in Seq(S) /\ Up(s) \in Seq(S) /\ Back(Up(s)) = s
    BY <1>3, <1>5
  <2>1. CASE c = Sq
    <3>1. Up(<<c>> \o s) = five \o Up(s)
      BY <1>1, <1>2, <2>1, ReplacedFirst
    <3>2. Back(five \o Up(s)) = one \o Back(Up(s))
      BY <1>1, <2>0, ReplacedFirst
    <3> QED
      BY <1>2, <2>0, <2>1, <3>1, <3>2
  <2>2. CASE c # Sq
    <3> DEFINE p == <<c>>
               u == Up(s)
    <3>1. p \in Seq(S) /\ Differs(p, one) /\ Differs(p, five)
      BY <1>1, <2>2 DEF Differs
    <3>2. u \in Seq(S)
      BY <2>0
    <3> HIDE DEF p, u
    <3>3. Up(p \o s) = p \o u
      BY <1>1, <3>1, ReplacedOther DEF u
    <3>4. Back(p \o u) = p \o Back(u)
      BY <1>1, <3>1, <3>2, ReplacedOther
    <3> QED
      BY <2>0, <3>3, <3>4 DEF u, p
  <2> QED
    BY <2>1, <2>2
<1> HIDE DEF T
<1>6. v \in T
  BY <1>4, <1>5, SeqInduction
<1> HIDE DEF Up, Back
<1>7. Up(v) \in Seq(S) /\ Back(Up(v)) = v
  BY <1>3, <1>6 DEF T
<1> QED
  BY <1>2, <1>7 DEF Up, Back

\* A value that is stored as it is, and is not taken for a quoted one.
LEMMA InsideIs ==
  ASSUME NEW S, NEW s \in Seq(S), Len(s) >= 2
  PROVE  Inside(s) \in Seq(S) /\ Len(Inside(s)) = Len(s) - 2
<1>1. \A i \in 2..(Len(s) - 1) : s[i] \in S
  OBVIOUS
<1>2. /\ SubSeq(s, 2, Len(s) - 1) \in Seq(S)
      /\ Len(SubSeq(s, 2, Len(s) - 1))
           = IF 2 <= Len(s) - 1 THEN Len(s) - 1 - 2 + 1 ELSE 0
  BY <1>1, SubSeqProperties
<1> DEFINE n == Len(s)
           t == SubSeq(s, 2, n - 1)
<1>3. n \in Nat /\ n >= 2 /\ t \in Seq(S) /\ Len(t) = IF 2 <= n - 1 THEN n - 1 - 2 + 1 ELSE 0
  BY <1>2
<1> HIDE DEF n, t
<1>4. Len(t) = n - 2
  BY <1>3
<1> QED
  BY <1>3, <1>4 DEF Inside, n, t

LEMMA QuotedBack ==
  ASSUME NEW S, NEW t \in Seq(S), Sq \in S
  PROVE  /\ EnclosedIn(Sq, <<Sq>> \o t \o <<Sq>>)
         /\ Inside(<<Sq>> \o t \o <<Sq>>) = t
<1> DEFINE q == <<Sq>>
           s == q \o t \o q
           n == Len(t)
<1>1. q \in Seq(S) /\ Len(q) = 1 /\ q[1] = Sq /\ n \in Nat
  OBVIOUS
<1> HIDE DEF q
<1>0. /\ q \o t \in Seq(S) /\ Len(q \o t) = Len(q) + Len(t)
      /\ \A i \in 1..(Len(q) + Len(t)) : (q \o t)[i] = IF i <= Len(q) THEN q[i] ELSE t[i - Len(q)]
  <2> HIDE DEF n, s
  <2> QED
    BY <1>1, ConcatProperties
<1>2. /\ q \o t \in Seq(S) /\ Len(q \o t) = n + 1
      /\ \A i \in 1..(n + 1) : (q \o t)[i] = IF i <= 1 THEN q[i] ELSE t[i - 1]
  BY <1>0, <1>1
<1>3. /\ s \in Seq(S) /\ Len(s) = n + 2
      /\ \A i \in 1..(n + 2) : s[i] = IF i <= n + 1 THEN (q \o t)[i] ELSE q[i - (n + 1)]
  BY <1>1, <1>2, ConcatProperties
<1>4. s[1] = Sq
  BY <1>1, <1>2, <1>3
<1>5. s[n + 2] = Sq
  BY <1>1, <1>3
<1>6. \A i \in 1..n : s[i + 1] = t[i]
  BY <1>1, <1>2, <1>3
<1> HIDE DEF s
<1>7. EnclosedIn(Sq, s)
  BY <1>1, <1>3, <1>4, <1>5 DEF EnclosedIn
<1>8. Inside(s) \in Seq(S) /\ Len(Inside(s)) = n
  BY <1>1, <1>3, InsideIs
<1>9. \A i \in 1..n : Inside(s)[i] = t[i]
  BY <1>1, <1>3, <1>6 DEF Inside
<1>10. Inside(s) = t
  BY <1>8, <1>9, SeqEqual
<1> QED
  BY <1>7, <1>10 DEF s, q

\* What is on a line stays there: reading a value puts no other characters in it.
\* Taken for a quoted one, a value is shorter when it is read.
LEMMA UnquotedType ==
  ASSUME NEW S, {Sq, Dq, Bs} \subseteq S, NEW s \in Seq(S)
  PROVE  /\ Unquoted(s) \in Seq(S)
         /\ EnclosedIn(Dq, s) => Unquoted(s) # s
<1> DEFINE t == Inside(s)
           pair == <<Bs, Dq>>
           dq == <<Dq>>
           two == <<Bs, Bs>>
           bs == <<Bs>>
           sq == <<Sq>>
           u == Replaced(t, pair, dq)
           x == Replaced(u, two, bs)
           y == Replaced(t, SqEscape, sq)
<1>1. /\ pair \in Seq(S) /\ Len(pair) = 2 /\ pair # <<>> /\ two \in Seq(S) /\ Len(two) = 2 /\ two # <<>>
      /\ dq \in Seq(S) /\ Len(dq) = 1 /\ bs \in Seq(S) /\ Len(bs) = 1
      /\ sq \in Seq(S) /\ SqEscape \in Seq(S) /\ SqEscape # <<>>
  BY DEF SqEscape
<1>2. CASE EnclosedIn(Sq, s) \/ EnclosedIn(Dq, s)
  <2>1. t \in Seq(S) /\ Len(t) = Len(s) - 2 /\ Len(s) \in Nat
    BY <1>2, InsideIs DEF EnclosedIn
  <2>2. ~(EnclosedIn(Sq, s) /\ EnclosedIn(Dq, s))
    BY DEF EnclosedIn, Sq, Dq
  <2>3. Unquoted(s) = IF EnclosedIn(Sq, s) THEN y ELSE x
    BY <1>2 DEF Unquoted
  <2> HIDE DEF t, pair, dq, two, bs, sq
  <2>4. u \in Seq(S) /\ Len(u) <= Len(t)
    <3>1. Len(dq) <= Len(pair)
      BY <1>1
    <3> QED
      BY <1>1, <2>1, <3>1, ReplacedType
  <2>5. y \in Seq(S)
    BY <1>1, <2>1, ReplacedType
  <2> HIDE DEF u, y
  <2>6. x \in Seq(S) /\ Len(x) <= Len(u)
    BY <1>1, <2>4, ReplacedType
  <2> HIDE DEF x
  <2>7. Len(x) \in Nat /\ Len(u) \in Nat /\ Len(t) \in Nat
    BY <2>1, <2>4, <2>6
  <2>8. Len(x) < Len(s)
    BY <2>1, <2>4, <2>6, <2>7
  <2>9. x # s
    BY <2>1, <2>7, <2>8
  <2> QED
    BY <2>2, <2>3, <2>5, <2>6, <2>9
<1>3. CASE ~(EnclosedIn(Sq, s) \/ EnclosedIn(Dq, s))
  BY <1>3 DEF Unquoted
<1> QED
  BY <1>2, <1>3

\* The first line has no line end, and is the whole of a value that has none.
LEMMA FirstLineType ==
  ASSUME NEW S, NEW s \in Seq(S)
  PROVE  /\ FirstLine(s) \in Seq(S \ {LineEnd})
         /\ ~Broken(s) => s \in Seq(S \ {LineEnd}) /\ FirstLine(s) = s
<1>1. CASE ~Broken(s)
  <2>1. \A i \in 1..Len(s) : s[i] \in S \ {LineEnd}
    BY <1>1 DEF Broken
  <2>2. s \in Seq(S \ {LineEnd})
    BY <2>1
  <2> QED
    BY <1>1, <2>2 DEF FirstLine
<1>2. CASE Broken(s)
  <2> DEFINE Ends == {i \in 1..Len(s) : s[i] = LineEnd}
             First(i) == i \in DOMAIN s /\ s[i] = LineEnd /\ \A j \in 1..(i - 1) : s[j] # LineEnd
             end == CHOOSE i \in DOMAIN s : s[i] = LineEnd /\ \A j \in 1..(i - 1) : s[j] # LineEnd
  <2>1. Ends # {} /\ Ends \subseteq Nat
    BY <1>2 DEF Broken
  <2>2. \E i \in Ends : \A j \in Ends : i <= j
    <3> HIDE DEF Ends
    <3> QED
      BY <2>1, LeastOf
  <2>3. \E i \in DOMAIN s : s[i] = LineEnd /\ \A j \in 1..(i - 1) : s[j] # LineEnd
    BY <2>2
  <2>4. First(end)
    BY <2>3
  <2>5. FirstLine(s) = SubSeq(s, 1, end - 1)
    BY <1>2 DEF FirstLine
  <2> HIDE DEF end
  <2>6. end \in 1..Len(s) /\ \A j \in 1..(end - 1) : s[j] \in S \ {LineEnd}
    BY <2>4
  <2>7. SubSeq(s, 1, end - 1) \in Seq(S \ {LineEnd})
    BY <2>6, SubSeqProperties
  <2> QED
    BY <1>2, <2>5, <2>7
<1> QED
  BY <1>1, <1>2

\* What _env_value_escape writes to the .env file _read_env_value reads back, for a
\* value of any length over any characters, but for one with a line end, and for one
\* that is enclosed in double quotes and holds nothing to be escaped: its quotes are
\* taken for quoting.
THEOREM EveryValueComesBack ==
  ASSUME NEW S, EnvChars \subseteq S, NEW v \in Seq(S)
  PROVE  Unescaped(Escaped(v)) = v
           <=> /\ ~Broken(v)
               /\ ~(EnclosedIn(Dq, v) /\ \A i \in DOMAIN v : v[i] \notin Special)
<1> DEFINE T == S \ {LineEnd}
<1>0. {Sq, Dq, Bs} \subseteq S /\ {Sq, Dq, Bs} \subseteq T
  BY DEF EnvChars, Special, Sq, Dq, Bs, LineEnd
<1> HIDE DEF T
<1>1. ASSUME NEW R, {Sq, Dq, Bs} \subseteq R, v \in Seq(R)
      PROVE  Escaped(v) \in Seq(R)
  <2> DEFINE t == Replaced(v, <<Sq>>, SqEscape)
  <2>1. t \in Seq(R)
    BY <1>1, EscapesComeBack
  <2> HIDE DEF t
  <2>2. <<Sq>> \o t \o <<Sq>> \in Seq(R)
    <3>1. <<Sq>> \in Seq(R)
      BY <1>1
    <3> QED
      BY <2>1, <3>1, ConcatProperties
  <2> QED
    BY <1>1, <2>2 DEF Escaped, t
<1>2. CASE Broken(v)
  <2>1. Escaped(v) \in Seq(S)
    BY <1>0, <1>1
  <2>2. FirstLine(Escaped(v)) \in Seq(T)
    BY <2>1, FirstLineType DEF T
  <2>3. Unescaped(Escaped(v)) \in Seq(T)
    BY <1>0, <2>2, UnquotedType DEF Unescaped
  <2>4. v \notin Seq(T)
    BY <1>2 DEF Broken, T
  <2> QED
    BY <1>2, <2>3, <2>4
<1>3. ASSUME ~Broken(v)
      PROVE  v \in Seq(T) /\ Unescaped(Escaped(v)) = Unquoted(Escaped(v))
  <2>1. v \in Seq(T)
    BY <1>3, FirstLineType DEF T
  <2>2. Escaped(v) \in Seq(T) /\ Escaped(v) \in Seq(S)
    BY <1>0, <1>1, <2>1
  <2>3. ~Broken(Escaped(v))
    BY <2>2 DEF Broken, T
  <2> QED
    BY <2>1, <2>2, <2>3, FirstLineType DEF Unescaped
<1>4. CASE ~Broken(v) /\ \E i \in DOMAIN v : v[i] \in Special
  <2> DEFINE t == Replaced(v, <<Sq>>, SqEscape)
             s == <<Sq>> \o t \o <<Sq>>
  <2>1. t \in Seq(S) /\ Replaced(t, SqEscape, <<Sq>>) = v
    BY <1>0, EscapesComeBack
  <2>2. Escaped(v) = s
    BY <1>4 DEF Escaped
  <2> HIDE DEF t
  <2>3. EnclosedIn(Sq, s) /\ Inside(s) = t
    BY <1>0, <2>1, QuotedBack
  <2> HIDE DEF s
  <2>4. Unquoted(s) = v
    BY <2>1, <2>3 DEF Unquoted
  <2> QED
    BY <1>3, <1>4, <2>2, <2>4
<1>5. CASE ~Broken(v) /\ \A i \in DOMAIN v : v[i] \notin Special
  <2>1. Escaped(v) = v
    BY <1>5 DEF Escaped
  <2>2. ~EnclosedIn(Sq, v)
    <3>1. Len(v) >= 2 => 1 \in DOMAIN v
      OBVIOUS
    <3> QED
      BY <1>5, <3>1 DEF EnclosedIn, Special
  <2>3. EnclosedIn(Dq, v) => Unquoted(v) # v
    BY <1>0, UnquotedType
  <2>4. ~EnclosedIn(Dq, v) => Unquoted(v) = v
    BY <2>2 DEF Unquoted
  <2> QED
    BY <1>3, <1>5, <2>1, <2>3, <2>4
<1> QED
  BY <1>2, <1>4, <1>5

\* So the settings of the run come back, for any bound on their length.
THEOREM SettingsComeBack == EnvInit => EnvRoundTrip
<1> SUFFICES ASSUME NEW v \in EnvValues
             PROVE  Unescaped(Escaped(v)) = v
                      <=> /\ ~Broken(v)
                          /\ ~(EnclosedIn(Dq, v) /\ \A i \in DOMAIN v : v[i] \notin Special)
  BY DEF EnvInit, EnvRoundTrip
<1>1. v \in Seq(EnvChars)
  BY DEF EnvValues
<1> QED
  BY <1>1, EveryValueComesBack

-----------------------------------------------------------------------------
(* The transforms a cycle reads *)

LEMMA FoundWithoutLegacy ==
  ASSUME NEW rules, rules.legacy = {}, NEW query
  PROVE  GetForHexes(rules, query) = rules.norm \cap query
  BY DEF GetForHexes

LEMMA QueriedBetween ==
  ASSUME NEW all, NEW tisb, NEW last, NEW air
  PROVE  /\ Changed(last, air) \subseteq Queried(all, tisb, last, air)
         /\ Queried(all, tisb, last, air) \subseteq Present(air)
  BY DEF Queried, Changed

\* Two sets of transforms that agree where the state changed, and where something is
\* remembered and a transform decides whether it is seen, make the same plan.
LEMMA SamePlan ==
  ASSUME NEW all, NEW tisb, NEW last, NEW air, NEW broken, NEW found1, NEW found2,
         \A h \in Changed(last, air) : h \in found1 <=> h \in found2,
         \A h \in Present(air) \ tisb :
           ~all /\ last[h] # None => (h \in found1 <=> h \in found2)
  PROVE  Plan(all, tisb, last, air, found1, broken) = Plan(all, tisb, last, air, found2, broken)
<1>1. ToSend(all, tisb, last, air, found1, broken) = ToSend(all, tisb, last, air, found2, broken)
  BY DEF ToSend, Seen
<1>2. ToSend(all, tisb, last, air, found1, broken) \cap found1
        = ToSend(all, tisb, last, air, found2, broken) \cap found2
  <2>1. ToSend(all, tisb, last, air, found1, broken) \subseteq Changed(last, air)
    BY DEF ToSend
  <2> QED
    BY <1>1, <2>1
<1>3. Remembered(all, tisb, last, air, found1, broken)
        = Remembered(all, tisb, last, air, found2, broken)
  <2> DEFINE send == ToSend(all, tisb, last, air, found1, broken)
             kept(found, h) == IF h \in send THEN air[h]
                               ELSE IF h \in Seen(all, tisb, air, found) THEN last[h] ELSE None
  <2>1. ASSUME NEW h \in Hexes
        PROVE  kept(found1, h) = kept(found2, h)
    <3>1. CASE last[h] = None
      BY <3>1
    <3>2. CASE last[h] # None
      <4>1. h \in Seen(all, tisb, air, found1) <=> h \in Seen(all, tisb, air, found2)
        BY <3>2 DEF Seen
      <4> QED
        BY <4>1
    <3> QED
      BY <3>1, <3>2
  <2>2. /\ Remembered(all, tisb, last, air, found1, broken) = [h \in Hexes |-> kept(found1, h)]
        /\ Remembered(all, tisb, last, air, found2, broken) = [h \in Hexes |-> kept(found2, h)]
    BY <1>1 DEF Remembered
  <2> HIDE DEF kept
  <2> QED
    BY <2>1, <2>2
<1> QED
  BY <1>1, <1>2, <1>3 DEF Plan

\* A cycle that reads the transforms it asks for plans what one that read all would.
THEOREM LookupAlwaysSuffices == LookupSuffices
<1> SUFFICES ASSUME NEW c, c.rules.legacy = {}
             PROVE  PlanReading(c, Queried(c.all, c.tisb, c.last, c.air))
                      = PlanReading(c, Present(c.air))
  BY DEF LookupSuffices
<1> DEFINE query == Queried(c.all, c.tisb, c.last, c.air)
           found1 == GetForHexes(c.rules, query)
           found2 == GetForHexes(c.rules, Present(c.air))
<1>1. found1 = c.rules.norm \cap query /\ found2 = c.rules.norm \cap Present(c.air)
  BY FoundWithoutLegacy
<1>2. Changed(c.last, c.air) \subseteq query /\ query \subseteq Present(c.air)
  BY QueriedBetween
<1>3. \A h \in Changed(c.last, c.air) : h \in found1 <=> h \in found2
  <2> HIDE DEF query, found1, found2
  <2> QED
    BY <1>1, <1>2
<1>4. \A h \in Present(c.air) \ c.tisb :
        ~c.all /\ c.last[h] # None => (h \in found1 <=> h \in found2)
  <2>1. \A h \in Present(c.air) \ c.tisb : ~c.all /\ c.last[h] # None => h \in query
    BY DEF Queried
  <2> HIDE DEF query, found1, found2
  <2> QED
    BY <1>1, <1>2, <2>1
<1> HIDE DEF found1, found2
<1>5. Plan(c.all, c.tisb, c.last, c.air, found1, c.broken)
        = Plan(c.all, c.tisb, c.last, c.air, found2, c.broken)
  BY <1>3, <1>4, SamePlan
<1> QED
  BY <1>5 DEF PlanReading, found1, found2
=============================================================================
