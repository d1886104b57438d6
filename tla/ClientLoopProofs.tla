--------------------------- MODULE ClientLoopProofs --------------------------
(***************************************************************************)
(* Theorems about the client's loop, for lines, messages, hashtags and     *)
(* arrays of any size.                                                     *)
(***************************************************************************)
EXTENDS ClientLoop, SequenceTheorems, WellFoundedInduction, TLAPS

-----------------------------------------------------------------------------
(* Induction                                                               *)

LEMMA LeastNumber ==
  ASSUME NEW S \in SUBSET Nat, S # {}
  PROVE  \E n \in S : \A m \in S : n <= m
<1> DEFINE R == {p \in Nat \X Nat : p[1] < p[2]}
<1>1. IsWellFoundedOn(R, Nat)
  BY NatLessThanWellFounded DEF OpToRel
<1>2. \A x, y \in Nat : <<x, y>> \in R <=> x < y
  OBVIOUS
<1> HIDE DEF R
<1>3. PICK n \in S : \A m \in S : ~ (<<m, n>> \in R)
  BY <1>1, WFMin
<1>4. ASSUME NEW m \in S
      PROVE  n <= m
  <2>1. ~ (<<m, n>> \in R)
    BY <1>3
  <2>2. m \in Nat /\ n \in Nat
    OBVIOUS
  <2>3. <<m, n>> \in R <=> m < n
    BY <1>2, <2>2
  <2>4. ~ (m < n)
    BY <2>1, <2>3
  <2> QED
    BY <2>2, <2>4
<1> QED
  BY <1>4

(* A set with 0 in which every number is followed by the next.             *)
LEMMA Induction ==
  ASSUME NEW S, 0 \in S, \A n \in Nat : n \in S => n + 1 \in S
  PROVE  Nat \subseteq S
<1> SUFFICES ASSUME Nat \ S # {} PROVE FALSE
  OBVIOUS
<1>1. PICK n \in Nat \ S : \A m \in Nat \ S : n <= m
  BY LeastNumber
<1>2. n # 0
  OBVIOUS
<1>3. n - 1 \in Nat /\ n - 1 \in S
  BY <1>1, <1>2
<1> QED
  BY <1>3

(* The same up to a bound.                                                 *)
LEMMA BoundedInduction ==
  ASSUME NEW N \in Nat, NEW S, 0 \in S,
         \A n \in 0 .. N : n < N /\ n \in S => n + 1 \in S
  PROVE  0 .. N \subseteq S
<1> DEFINE T == {n \in Nat : n \in S \/ n > N}
<1>1. 0 \in T
  OBVIOUS
<1>2. \A n \in Nat : n \in T => n + 1 \in T
  OBVIOUS
<1>3. Nat \subseteq T
  <2> HIDE DEF T
  <2> QED BY <1>1, <1>2, Induction
<1> QED
  BY <1>3

-----------------------------------------------------------------------------
(* Parts of sequences                                                      *)

LEMMA PrefixIs ==
  ASSUME NEW S, NEW s \in Seq(S), NEW n \in 0 .. Len(s)
  PROVE  /\ SubSeq(s, 1, n) \in Seq(S)
         /\ Len(SubSeq(s, 1, n)) = n
         /\ \A i \in 1 .. n : SubSeq(s, 1, n)[i] = s[i]
<1>1. \A i \in 1 .. n : s[i] \in S
  OBVIOUS
<1>2. n - 1 + 1 = n
  OBVIOUS
<1> QED
  BY <1>1, <1>2, SubSeqProperties

(* The first c, and what is before it.                                     *)
LEMMA BeforeIs ==
  ASSUME NEW S, NEW s \in Seq(S), NEW c
  PROVE  /\ Before(s, c) \in Seq(S)
         /\ Len(Before(s, c)) \in 0 .. Len(s)
         /\ \A i \in 1 .. Len(Before(s, c)) : Before(s, c)[i] = s[i] /\ s[i] # c
         /\ Len(Before(s, c)) < Len(s) => s[Len(Before(s, c)) + 1] = c
         /\ Before(s, c) = SubSeq(s, 1, Len(Before(s, c)))
<1> DEFINE I == {i \in 1 .. Len(s) : s[i] = c}
           at == IF I # {} THEN CHOOSE x \in I : \A y \in I : x <= y ELSE 0
<1>1. at = IF I # {} THEN CHOOSE x \in I : \A y \in I : x <= y ELSE 0
  OBVIOUS
<1>2. Before(s, c) = IF at = 0 THEN s ELSE SubSeq(s, 1, at - 1)
  BY DEF Before, SelectInSeq, Min
<1> HIDE DEF at
<1>3. CASE I = {}
  <2>1. Before(s, c) = s
    BY <1>1, <1>2, <1>3
  <2>2. \A i \in 1 .. Len(s) : s[i] # c
    BY <1>3
  <2> QED
    BY <2>1, <2>2, SubSeqFull
<1>4. CASE I # {}
  <2>1. \E x \in I : \A y \in I : x <= y
    <3>1. I \in SUBSET Nat
      OBVIOUS
    <3> HIDE DEF I
    <3> QED BY <1>4, <3>1, LeastNumber
  <2>2. at \in I /\ \A y \in I : at <= y
    BY <1>1, <1>4, <2>1
  <2>3. at \in 1 .. Len(s) /\ s[at] = c
    BY <2>2
  <2>4. Before(s, c) = SubSeq(s, 1, at - 1)
    BY <1>2, <2>3
  <2>5. \A i \in 1 .. at - 1 : s[i] # c
    BY <2>2, <2>3
  <2>6. \A i \in 1 .. at - 1 : s[i] \in S
    BY <2>3
  <2>7. /\ SubSeq(s, 1, at - 1) \in Seq(S)
        /\ Len(SubSeq(s, 1, at - 1)) = at - 1
        /\ \A i \in 1 .. at - 1 : SubSeq(s, 1, at - 1)[i] = s[i]
    BY <2>3, <2>6, SubSeqProperties
  <2> QED
    BY <2>3, <2>4, <2>5, <2>7
<1> QED
  BY <1>3, <1>4

(* The first c is where no c is before.                                    *)
LEMMA BeforeEnds ==
  ASSUME NEW S, NEW s \in Seq(S), NEW c, NEW n \in 0 .. Len(s),
         \A i \in 1 .. n : s[i] # c,
         n < Len(s) => s[n + 1] = c
  PROVE  Len(Before(s, c)) = n /\ Before(s, c) = SubSeq(s, 1, n)
<1>1. Len(Before(s, c)) \in 0 .. Len(s)
  BY BeforeIs
<1>2. \A i \in 1 .. Len(Before(s, c)) : s[i] # c
  BY BeforeIs
<1>3. Len(Before(s, c)) < Len(s) => s[Len(Before(s, c)) + 1] = c
  BY BeforeIs
<1>4. Len(Before(s, c)) = n
  BY <1>1, <1>2, <1>3
<1>5. Before(s, c) = SubSeq(s, 1, Len(Before(s, c)))
  BY BeforeIs
<1> QED
  BY <1>4, <1>5

LEMMA FromIs ==
  ASSUME NEW S, NEW s \in Seq(S), NEW i \in Nat \ {0}
  PROVE  /\ From(s, i) \in Seq(S)
         /\ Len(From(s, i)) = IF i <= Len(s) THEN Len(s) - i + 1 ELSE 0
         /\ \A j \in 1 .. Len(From(s, i)) : From(s, i)[j] = s[i + j - 1]
<1>1. \A j \in i .. Len(s) : s[j] \in S
  OBVIOUS
<1>2. /\ SubSeq(s, i, Len(s)) \in Seq(S)
      /\ Len(SubSeq(s, i, Len(s))) = IF i <= Len(s) THEN Len(s) - i + 1 ELSE 0
      /\ \A j \in 1 .. Len(s) - i + 1 : SubSeq(s, i, Len(s))[j] = s[i + j - 1]
  BY <1>1, SubSeqProperties
<1> QED
  BY <1>2 DEF From

-----------------------------------------------------------------------------
(* Folds                                                                   *)

LEMMA MaxIsGreatest ==
  ASSUME NEW n \in Nat, NEW s \in SUBSET (1 .. n), s # {}
  PROVE  Max(s) \in s /\ \A x \in s : x <= Max(s)
<1> DEFINE T == {m \in Nat : n - m \in s}
<1>1. T # {}
  <2>1. PICK x \in s : TRUE
    OBVIOUS
  <2>2. x \in 1 .. n /\ n - x \in Nat /\ n - (n - x) = x
    OBVIOUS
  <2> QED BY <2>1, <2>2
<1>2. T \in SUBSET Nat
  OBVIOUS
<1>3. PICK m \in T : \A k \in T : m <= k
  <2> HIDE DEF T
  <2> QED BY <1>1, <1>2, LeastNumber
<1>4. n - m \in s
  OBVIOUS
<1>5. ASSUME NEW x \in s
      PROVE  n - m >= x
  <2>1. x \in 1 .. n /\ n - x \in Nat /\ n - (n - x) = x
    OBVIOUS
  <2>2. n - x \in T
    BY <2>1
  <2>3. m <= n - x /\ m \in Nat
    BY <1>3, <2>2
  <2> QED
    BY <2>1, <2>3
<1> QED
  BY <1>4, <1>5 DEF Max

LEMMA IntervalIsPart ==
  ASSUME NEW n \in Nat, NEW i \in 1 .. n
  PROVE  1 .. i \in SUBSET (1 .. n) /\ 1 .. i # {}
OBVIOUS

LEMMA MaxOfInterval ==
  ASSUME NEW n \in Nat \ {0}
  PROVE  Max(1 .. n) = n /\ (1 .. n) \ {n} = 1 .. n - 1
<1>1. 1 .. n \in SUBSET (1 .. n) /\ 1 .. n # {}
  OBVIOUS
<1>2. Max(1 .. n) \in 1 .. n /\ \A x \in 1 .. n : x <= Max(1 .. n)
  BY <1>1, MaxIsGreatest
<1> QED
  BY <1>2

(* The line of hashtags grows by one hashtag at a time.                    *)
LEMMA HashtaggedSteps ==
  ASSUME NEW tags, NEW n \in Nat, DOMAIN tags = 1 .. n
  PROVE  \E g : /\ g[0] = <<>>
                /\ \A i \in 0 .. n - 1 : g[i + 1] = WithTag(g[i], tags[i + 1])
                /\ g[n] = Hashtagged(tags)
<1> DEFINE Value(f, s) ==
             IF s = {} THEN <<>> ELSE WithTag(f[s \ {Max(s)}], tags[Max(s)])
           Has(f, k) == f = [s \in SUBSET (1 .. k) |-> Value(f, s)]
           S == {k \in Nat : \E f : Has(f, k)}
<1>1. 0 \in S
  <2> DEFINE f == [s \in SUBSET (1 .. 0) |-> <<>>]
  <2>1. SUBSET (1 .. 0) = {{}}
    OBVIOUS
  <2>2. Has(f, 0)
    BY <2>1
  <2> QED BY <2>2
<1>2. ASSUME NEW k \in Nat, k \in S
      PROVE  k + 1 \in S
  <2>1. PICK f : Has(f, k)
    BY <1>2
  <2> DEFINE h == [s \in SUBSET (1 .. k + 1) |->
                     IF k + 1 \in s THEN WithTag(f[s \ {k + 1}], tags[k + 1])
                                    ELSE f[s]]
  <2>2. ASSUME NEW s \in SUBSET (1 .. k + 1)
        PROVE  h[s] = Value(h, s)
    <3>1. CASE k + 1 \in s
      <4>0. k + 1 \in Nat /\ s # {}
        BY <3>1
      <4>1. Max(s) \in s /\ \A x \in s : x <= Max(s)
        BY <4>0, MaxIsGreatest
      <4>2. Max(s) = k + 1
        <5>1. Max(s) \in 1 .. k + 1 /\ k + 1 <= Max(s)
          BY <3>1, <4>1
        <5> QED BY <5>1
      <4>3. s \ {k + 1} \in SUBSET (1 .. k + 1) /\ k + 1 \notin s \ {k + 1}
        OBVIOUS
      <4>4. h[s \ {k + 1}] = f[s \ {k + 1}]
        BY <4>3
      <4> QED
        BY <3>1, <4>2, <4>4
    <3>2. CASE k + 1 \notin s
      <4>1. s \in SUBSET (1 .. k)
        BY <3>2
      <4>2. h[s] = Value(f, s)
        BY <2>1, <3>2, <4>1
      <4>3. CASE s # {}
        <5>1. s \ {Max(s)} \in SUBSET (1 .. k + 1) /\ k + 1 \notin s \ {Max(s)}
          BY <3>2
        <5>2. h[s \ {Max(s)}] = f[s \ {Max(s)}]
          BY <5>1
        <5> QED
          BY <4>2, <4>3, <5>2
      <4> QED
        BY <4>2, <4>3
    <3> QED
      BY <3>1, <3>2
  <2>3. Has(h, k + 1)
    <3>1. h = [s \in SUBSET (1 .. k + 1) |-> h[s]]
      OBVIOUS
    <3> HIDE DEF h
    <3> QED BY <2>2, <3>1
  <2> HIDE DEF h, Has
  <2>4. \E q : Has(q, k + 1)
    BY <2>3
  <2> QED
    BY <2>4
<1>3. \E f : Has(f, n)
  <2> HIDE DEF S
  <2>1. Nat \subseteq S
    BY <1>1, <1>2, Induction
  <2> QED BY <2>1 DEF S
<1> DEFINE iter == CHOOSE f : f = [s \in SUBSET DOMAIN tags |-> Value(f, s)]
<1>4. Hashtagged(tags) = iter[DOMAIN tags]
  BY DEF Hashtagged, FoldLeft, MapThenFoldSet
<1>5. iter = [s \in SUBSET (1 .. n) |-> Value(iter, s)]
  BY <1>3
<1> HIDE DEF iter
<1> DEFINE g == [i \in 0 .. n |-> iter[1 .. i]]
<1>6. g[0] = <<>>
  <2>1. 1 .. 0 = {}
    OBVIOUS
  <2> QED BY <1>5, <2>1
<1>7. ASSUME NEW i \in 0 .. n - 1
      PROVE  g[i + 1] = WithTag(g[i], tags[i + 1])
  <2>1. i \in 0 .. n /\ i + 1 \in 1 .. n /\ i + 1 \in 0 .. n
    OBVIOUS
  <2>2. 1 .. i + 1 \in SUBSET (1 .. n) /\ 1 .. i + 1 # {}
    BY <2>1, IntervalIsPart
  <2>3. Max(1 .. i + 1) = i + 1 /\ (1 .. i + 1) \ {i + 1} = 1 .. i
    BY MaxOfInterval
  <2>4. iter[1 .. i + 1] = WithTag(iter[1 .. i], tags[i + 1])
    BY <1>5, <2>2, <2>3
  <2> QED
    BY <2>1, <2>4
<1>8. g[n] = Hashtagged(tags)
  BY <1>4
<1> QED
  BY <1>6, <1>7, <1>8

(* The loop of parse_hashtags, one char at a time.                         *)
LEMMA LoopSteps ==
  ASSUME NEW s, NEW n \in Nat, DOMAIN Tail(s) = 1 .. n
  PROVE  \E g : /\ g[0] = LoopStart
                /\ \A i \in 0 .. n - 1 : g[i + 1] = NextChar(g[i], Tail(s)[i + 1])
                /\ g[n] = ReadHashtags(s)
<1> DEFINE tail == Tail(s)
           Value(f, u) ==
             IF u = {} THEN LoopStart ELSE NextChar(f[u \ {Max(u)}], tail[Max(u)])
           Has(f, k) == f = [u \in SUBSET (1 .. k) |-> Value(f, u)]
           S == {k \in Nat : \E f : Has(f, k)}
<1> HIDE DEF tail
<1>1. 0 \in S
  <2> DEFINE f == [u \in SUBSET (1 .. 0) |-> LoopStart]
  <2>1. SUBSET (1 .. 0) = {{}}
    OBVIOUS
  <2>2. Has(f, 0)
    BY <2>1
  <2> QED BY <2>2
<1>2. ASSUME NEW k \in Nat, k \in S
      PROVE  k + 1 \in S
  <2>1. PICK f : Has(f, k)
    BY <1>2
  <2> DEFINE h == [u \in SUBSET (1 .. k + 1) |->
                     IF k + 1 \in u THEN NextChar(f[u \ {k + 1}], tail[k + 1])
                                    ELSE f[u]]
  <2>2. ASSUME NEW u \in SUBSET (1 .. k + 1)
        PROVE  h[u] = Value(h, u)
    <3>1. CASE k + 1 \in u
      <4>0. k + 1 \in Nat /\ u # {}
        BY <3>1
      <4>1. Max(u) \in u /\ \A x \in u : x <= Max(u)
        BY <4>0, MaxIsGreatest
      <4>2. Max(u) = k + 1
        <5>1. Max(u) \in 1 .. k + 1 /\ k + 1 <= Max(u)
          BY <3>1, <4>1
        <5> QED BY <5>1
      <4>3. u \ {k + 1} \in SUBSET (1 .. k + 1) /\ k + 1 \notin u \ {k + 1}
        OBVIOUS
      <4>4. h[u \ {k + 1}] = f[u \ {k + 1}]
        BY <4>3
      <4> QED
        BY <3>1, <4>2, <4>4
    <3>2. CASE k + 1 \notin u
      <4>1. u \in SUBSET (1 .. k)
        BY <3>2
      <4>2. h[u] = Value(f, u)
        BY <2>1, <3>2, <4>1
      <4>3. CASE u # {}
        <5>1. u \ {Max(u)} \in SUBSET (1 .. k + 1) /\ k + 1 \notin u \ {Max(u)}
          BY <3>2
        <5>2. h[u \ {Max(u)}] = f[u \ {Max(u)}]
          BY <5>1
        <5> QED
          BY <4>2, <4>3, <5>2
      <4> QED
        BY <4>2, <4>3
    <3> QED
      BY <3>1, <3>2
  <2>3. Has(h, k + 1)
    <3>1. h = [u \in SUBSET (1 .. k + 1) |-> h[u]]
      OBVIOUS
    <3> HIDE DEF h
    <3> QED BY <2>2, <3>1
  <2> HIDE DEF h, Has
  <2>4. \E q : Has(q, k + 1)
    BY <2>3
  <2> QED
    BY <2>4
<1>3. \E f : Has(f, n)
  <2> HIDE DEF S
  <2>1. Nat \subseteq S
    BY <1>1, <1>2, Induction
  <2> QED BY <2>1 DEF S
<1> DEFINE iter == CHOOSE f : f = [u \in SUBSET DOMAIN tail |-> Value(f, u)]
<1>4. ReadHashtags(s) = iter[DOMAIN tail]
  BY DEF ReadHashtags, FoldLeft, MapThenFoldSet, tail
<1>5. iter = [u \in SUBSET (1 .. n) |-> Value(iter, u)]
  BY <1>3 DEF tail
<1> HIDE DEF iter
<1> DEFINE g == [i \in 0 .. n |-> iter[1 .. i]]
<1>6. g[0] = LoopStart
  <2>1. 1 .. 0 = {}
    OBVIOUS
  <2> QED BY <1>5, <2>1
<1>7. ASSUME NEW i \in 0 .. n - 1
      PROVE  g[i + 1] = NextChar(g[i], tail[i + 1])
  <2>1. i \in 0 .. n /\ i + 1 \in 1 .. n /\ i + 1 \in 0 .. n
    OBVIOUS
  <2>2. 1 .. i + 1 \in SUBSET (1 .. n) /\ 1 .. i + 1 # {}
    BY <2>1, IntervalIsPart
  <2>3. Max(1 .. i + 1) = i + 1 /\ (1 .. i + 1) \ {i + 1} = 1 .. i
    BY MaxOfInterval
  <2>4. iter[1 .. i + 1] = NextChar(iter[1 .. i], tail[i + 1])
    BY <1>5, <2>2, <2>3
  <2> QED
    BY <2>1, <2>4
<1>8. g[n] = ReadHashtags(s)
  BY <1>4 DEF tail
<1> QED
  BY <1>6, <1>7, <1>8 DEF tail

-----------------------------------------------------------------------------
(* Hashtags in a row                                                       *)

Alnum == {c \in Byte : IsAlnum(c)}

LEMMA Chars ==
  /\ Alnum \subseteq Typable /\ Typable \subseteq 1 .. 255 /\ 1 .. 255 \subseteq Byte
  /\ Hash \in Typable /\ Hash \notin Alnum
  /\ Space \in Typable /\ Space \notin Alnum /\ Space # Hash
  /\ QuoteMark \in Typable /\ QuoteMark # Space
  /\ Newline \in 1 .. 255
  /\ EndOfString \in Byte /\ EndOfString \notin 1 .. 255
BY DEF Alnum, Typable, Byte, IsAlnum, Hash, Space, QuoteMark, Newline, EndOfString

LEMMA HashtaggedEmpty == Hashtagged(<<>>) = <<>>
<1>1. DOMAIN <<>> = 1 .. 0
  OBVIOUS
<1> QED
  BY <1>1, HashtaggedSteps

LEMMA HashtaggedAppend ==
  ASSUME NEW C, NEW tags \in Seq(C), NEW t \in C
  PROVE  Hashtagged(Append(tags, t)) = Hashtagged(tags) \o <<Hash>> \o t
<1> DEFINE n == Len(tags)
           more == Append(tags, t)
<1>1. n \in Nat /\ DOMAIN tags = 1 .. n /\ DOMAIN more = 1 .. n + 1
  OBVIOUS
<1>2. more[n + 1] = t /\ \A i \in 1 .. n : more[i] = tags[i]
  OBVIOUS
<1> HIDE DEF n, more
<1>3. PICK g : /\ g[0] = <<>>
               /\ \A i \in 0 .. n - 1 : g[i + 1] = WithTag(g[i], tags[i + 1])
               /\ g[n] = Hashtagged(tags)
  BY <1>1, HashtaggedSteps
<1>4. PICK h : /\ h[0] = <<>>
               /\ \A i \in 0 .. n : h[i + 1] = WithTag(h[i], more[i + 1])
               /\ h[n + 1] = Hashtagged(more)
  BY <1>1, HashtaggedSteps
<1> DEFINE S == {i \in Nat : h[i] = g[i]}
<1>5. 0 \in S
  BY <1>3, <1>4
<1>6. ASSUME NEW i \in 0 .. n, i < n, i \in S
      PROVE  i + 1 \in S
  <2>1. i + 1 \in 1 .. n /\ i \in 0 .. n - 1
    BY <1>1, <1>6
  <2>2. g[i + 1] = WithTag(g[i], tags[i + 1])
    BY <1>3, <2>1
  <2>3. h[i + 1] = WithTag(h[i], more[i + 1])
    BY <1>4, <2>1
  <2> QED
    BY <1>2, <1>6, <2>1, <2>2, <2>3
<1>7. n \in S
  <2> HIDE DEF S
  <2>1. 0 .. n \subseteq S
    BY <1>1, <1>5, <1>6, BoundedInduction
  <2> QED BY <1>1, <2>1
<1>8. h[n + 1] = WithTag(h[n], more[n + 1])
  <2>1. n \in 0 .. n
    BY <1>1
  <2> QED BY <1>4, <2>1
<1>9. Hashtagged(more) = WithTag(Hashtagged(tags), t)
  BY <1>2, <1>3, <1>4, <1>7, <1>8
<1> QED
  BY <1>9 DEF more, WithTag

(* What precedes the last hashtag and what it is.                          *)
LEMMA LastTag ==
  ASSUME NEW C, NEW tags \in Seq(C), tags # <<>>
  PROVE  /\ Len(tags) \in Nat \ {0}
         /\ SubSeq(tags, 1, Len(tags) - 1) \in Seq(C)
         /\ Len(SubSeq(tags, 1, Len(tags) - 1)) = Len(tags) - 1
         /\ tags[Len(tags)] \in C
         /\ tags = Append(SubSeq(tags, 1, Len(tags) - 1), tags[Len(tags)])
<1> DEFINE n == Len(tags)
           v == SubSeq(tags, 1, n - 1)
<1>1. n \in Nat \ {0} /\ tags[n] \in C
  OBVIOUS
<1>2. n - 1 \in 0 .. Len(tags)
  BY <1>1
<1>3. /\ v \in Seq(C) /\ Len(v) = n - 1
      /\ \A i \in 1 .. n - 1 : v[i] = tags[i]
  <2> HIDE DEF n
  <2> QED BY <1>2, PrefixIs
<1> HIDE DEF v
<1>4. /\ Append(v, tags[n]) \in Seq(C) /\ Len(Append(v, tags[n])) = n
      /\ \A i \in 1 .. n : Append(v, tags[n])[i] = tags[i]
  BY <1>1, <1>3
<1>5. tags = Append(v, tags[n])
  <2> DEFINE w == Append(v, tags[n])
  <2>1. w \in Seq(C) /\ Len(w) = Len(tags) /\ \A i \in 1 .. Len(tags) : tags[i] = w[i]
    BY <1>4
  <2> HIDE DEF w
  <2>2. tags = w
    BY <2>1, SeqEqual
  <2> QED BY <2>2 DEF w
<1> QED
  BY <1>1, <1>3, <1>5 DEF v

LEMMA HashtaggedType ==
  ASSUME NEW C, Hash \in C, NEW tags \in Seq(Seq(C))
  PROVE  Hashtagged(tags) \in Seq(C)
<1> DEFINE S == {n \in Nat : \A u \in Seq(Seq(C)) : Len(u) = n => Hashtagged(u) \in Seq(C)}
<1>1. 0 \in S
  BY HashtaggedEmpty
<1>2. ASSUME NEW n \in Nat, n \in S
      PROVE  n + 1 \in S
  <2>1. ASSUME NEW u \in Seq(Seq(C)), Len(u) = n + 1
        PROVE  Hashtagged(u) \in Seq(C)
    <3> DEFINE v == SubSeq(u, 1, Len(u) - 1)
               t == u[Len(u)]
    <3>1. v \in Seq(Seq(C)) /\ Len(v) = n /\ t \in Seq(C) /\ u = Append(v, t)
      BY <2>1, LastTag
    <3> HIDE DEF v, t
    <3>2. Hashtagged(u) = Hashtagged(v) \o <<Hash>> \o t
      BY <3>1, HashtaggedAppend
    <3>3. Hashtagged(v) \in Seq(C)
      BY <1>2, <3>1
    <3>4. <<Hash>> \in Seq(C)
      OBVIOUS
    <3> QED
      BY <3>1, <3>2, <3>3, <3>4
  <2> QED BY <2>1
<1>3. Nat \subseteq S
  <2> HIDE DEF S
  <2> QED BY <1>1, <1>2, Induction
<1> QED
  BY <1>3

(* A hashtag is shorter than the line it is in.                            *)
LEMMA TagIsShorter ==
  ASSUME NEW C, Hash \in C, NEW tags \in Seq(Seq(C)), NEW i \in 1 .. Len(tags)
  PROVE  Len(tags[i]) < Len(Hashtagged(tags))
<1> DEFINE Short(u) == \A j \in 1 .. Len(u) : Len(u[j]) < Len(Hashtagged(u))
           S == {n \in Nat : \A u \in Seq(Seq(C)) : Len(u) = n => Short(u)}
<1>1. 0 \in S
  OBVIOUS
<1>2. ASSUME NEW n \in Nat, n \in S
      PROVE  n + 1 \in S
  <2>1. ASSUME NEW u \in Seq(Seq(C)), Len(u) = n + 1
        PROVE  Short(u)
    <3> DEFINE v == SubSeq(u, 1, Len(u) - 1)
               t == u[Len(u)]
    <3>1. v \in Seq(Seq(C)) /\ Len(v) = n /\ t \in Seq(C) /\ u = Append(v, t)
      BY <2>1, LastTag
    <3>2. \A j \in 1 .. n : u[j] = v[j] /\ v[j] \in Seq(C)
      BY <2>1
    <3>3. u[n + 1] = t
      BY <2>1
    <3> HIDE DEF v, t
    <3>4. Hashtagged(u) = Hashtagged(v) \o <<Hash>> \o t
      BY <3>1, HashtaggedAppend
    <3>5. Hashtagged(v) \in Seq(C)
      BY <3>1, HashtaggedType
    <3>6. Len(Hashtagged(u)) = Len(Hashtagged(v)) + 1 + Len(t)
      BY <3>1, <3>4, <3>5
    <3>7. Len(t) \in Nat /\ Len(Hashtagged(v)) \in Nat
      BY <3>1, <3>5
    <3>8. Short(v)
      BY <1>2, <3>1
    <3>9. ASSUME NEW j \in 1 .. n
          PROVE  Len(u[j]) < Len(Hashtagged(u))
      <4>1. Len(v[j]) < Len(Hashtagged(v)) /\ Len(v[j]) \in Nat
        BY <3>1, <3>2, <3>8
      <4> QED
        BY <3>2, <3>6, <3>7, <4>1
    <3>10. Len(u[n + 1]) < Len(Hashtagged(u))
      BY <3>3, <3>6, <3>7
    <3>11. \A j \in 1 .. Len(u) : j \in 1 .. n \/ j = n + 1
      BY <2>1
    <3> QED
      BY <3>9, <3>10, <3>11
  <2> QED BY <2>1
<1>3. Nat \subseteq S
  <2> HIDE DEF S
  <2> QED BY <1>1, <1>2, Induction
<1> QED
  BY <1>3

-----------------------------------------------------------------------------
(* The loop of parse_hashtags                                              *)

LEMMA OneChar ==
  ASSUME NEW S, NEW c \in S
  PROVE  <<c>> \in Seq(S)
OBVIOUS

LEMMA AppendIs ==
  ASSUME NEW S, NEW s \in Seq(S), NEW c \in S
  PROVE  /\ Append(s, c) \in Seq(S)
         /\ Len(Append(s, c)) = Len(s) + 1
         /\ \A i \in 1 .. Len(s) : Append(s, c)[i] = s[i]
         /\ Append(s, c)[Len(s) + 1] = c
         /\ Append(s, c) # <<>>
         /\ Append(s, c) = s \o <<c>>
OBVIOUS

LEMMA ConcatPrefix ==
  ASSUME NEW S, NEW s \in Seq(S), NEW n \in 0 .. Len(s),
         NEW a \in Seq(S), NEW b \in Seq(S), a \o b = SubSeq(s, 1, n)
  PROVE  Len(a) \in 0 .. n /\ a = SubSeq(s, 1, Len(a))
<1>1. /\ Len(SubSeq(s, 1, n)) = n
      /\ \A i \in 1 .. n : SubSeq(s, 1, n)[i] = s[i]
  BY PrefixIs
<1>2. /\ Len(a \o b) = Len(a) + Len(b)
      /\ \A i \in 1 .. Len(a) : (a \o b)[i] = a[i]
  BY ConcatProperties
<1>3. Len(a) \in 0 .. n /\ Len(a) \in 0 .. Len(s)
  BY <1>1, <1>2
<1>4. /\ SubSeq(s, 1, Len(a)) \in Seq(S)
      /\ Len(SubSeq(s, 1, Len(a))) = Len(a)
      /\ \A i \in 1 .. Len(a) : SubSeq(s, 1, Len(a))[i] = s[i]
  BY <1>3, PrefixIs
<1>5. \A i \in 1 .. Len(a) : a[i] = s[i]
  BY <1>1, <1>2, <1>3
<1>6. a = SubSeq(s, 1, Len(a))
  <2> DEFINE p == SubSeq(s, 1, Len(a))
  <2>1. p \in Seq(S) /\ Len(p) = Len(a) /\ \A i \in 1 .. Len(a) : a[i] = p[i]
    BY <1>4, <1>5
  <2> HIDE DEF p
  <2>2. a = p
    BY <2>1, SeqEqual
  <2> QED BY <2>2 DEF p
<1> QED
  BY <1>3, <1>6

LEMMA LongerPrefix ==
  ASSUME NEW S, NEW s \in Seq(S), NEW n \in 0 .. Len(s) - 1
  PROVE  SubSeq(s, 1, n) \o <<s[n + 1]>> = SubSeq(s, 1, n + 1)
<1>1. n + 1 \in 1 .. Len(s) /\ 1 \in 1 .. Len(s) /\ n + 1 \in 1 .. Len(s)
  OBVIOUS
<1>2. SubSeq(s, 1, n + 1) = SubSeq(s, 1, n + 1 - 1) \o <<s[n + 1]>>
  BY <1>1, SubSeqRecursiveSecond
<1>3. n + 1 - 1 = n
  OBVIOUS
<1> QED
  BY <1>2, <1>3

LEMMA Regroup ==
  ASSUME NEW S, NEW a \in Seq(S), NEW b \in Seq(S), NEW c \in Seq(S)
  PROVE  (a \o b) \o c = a \o (b \o c)
BY ConcatAssociative

Associative(S) == \A s, t, u \in Seq(S) : (s \o t) \o u = s \o (t \o u)

LEMMA RegroupAll ==
  ASSUME NEW S
  PROVE  Associative(S)
BY Regroup DEF Associative

LEMMA Concat ==
  ASSUME NEW S, NEW a \in Seq(S), NEW b \in Seq(S)
  PROVE  /\ a \o b \in Seq(S)
         /\ Len(a \o b) = Len(a) + Len(b)
         /\ \A i \in 1 .. Len(a) : (a \o b)[i] = a[i]
         /\ \A i \in 1 .. Len(b) : (a \o b)[Len(a) + i] = b[i]
<1>1. a \o b \in Seq(S) /\ Len(a \o b) = Len(a) + Len(b)
  BY ConcatProperties
<1>2. Len(a) \in Nat /\ Len(b) \in Nat
  OBVIOUS
<1>3. \A i \in 1 .. Len(a) + Len(b) :
         (a \o b)[i] = IF i <= Len(a) THEN a[i] ELSE b[i - Len(a)]
  BY ConcatProperties
<1>4. ASSUME NEW i \in 1 .. Len(a)
      PROVE  (a \o b)[i] = a[i]
  BY <1>2, <1>3
<1>5. ASSUME NEW i \in 1 .. Len(b)
      PROVE  (a \o b)[Len(a) + i] = b[i]
  <2>1. /\ Len(a) + i \in 1 .. Len(a) + Len(b)
        /\ ~ (Len(a) + i <= Len(a))
        /\ Len(a) + i - Len(a) = i
    BY <1>2
  <2> QED BY <1>3, <2>1
<1> QED
  BY <1>1, <1>4, <1>5

LEMMA SeqOfPart ==
  ASSUME NEW S, NEW T, S \subseteq T
  PROVE  Seq(S) \subseteq Seq(T)
BY SeqMonotonic

LEMMA TagsAreTypable ==
  ASSUME NEW T, Alnum \subseteq T
  PROVE  Seq(Alnum) \subseteq Seq(T) /\ Seq(Seq(Alnum)) \subseteq Seq(Seq(T))
<1>1. Seq(Alnum) \subseteq Seq(T)
  BY SeqOfPart
<1> QED
  BY <1>1, SeqOfPart

LEMMA AlnumIsByte ==
  /\ Seq(Alnum) \subseteq Seq(Byte)
  /\ Seq(Seq(Alnum)) \subseteq Seq(Seq(Byte))
<1>1. Alnum \subseteq Byte
  BY DEF Alnum
<1> QED
  BY <1>1, TagsAreTypable

(* The states of the loop, before and after an error.                      *)
Reading(v, u, h) == [valid |-> v, current |-> u, hashes |-> h, error |-> FALSE]
Failed(v, u, h) == [valid |-> v, current |-> u, hashes |-> h, error |-> TRUE]

LoopStates ==
  [valid : Seq(Seq(Alnum)), current : Seq(Alnum), hashes : Nat, error : BOOLEAN]

LEMMA FieldsOfState ==
  ASSUME NEW v \in Seq(Seq(Alnum)), NEW u \in Seq(Alnum), NEW h \in Nat
  PROVE  /\ Reading(v, u, h) \in LoopStates
         /\ Reading(v, u, h).valid = v /\ Reading(v, u, h).current = u
         /\ Reading(v, u, h).hashes = h /\ ~ Reading(v, u, h).error
         /\ Failed(v, u, h) \in LoopStates
         /\ Failed(v, u, h).valid = v /\ Failed(v, u, h).error
<1> DEFINE r == Reading(v, u, h)
           f == Failed(v, u, h)
<1>1. r \in LoopStates /\ r.valid = v /\ r.current = u /\ r.hashes = h
  BY DEF Reading, LoopStates
<1>2. ~ r.error
  BY DEF Reading
<1>3. f \in LoopStates /\ f.valid = v
  BY DEF Failed, LoopStates
<1>4. f.error
  BY DEF Failed
<1> HIDE DEF r, f
<1> QED
  BY <1>1, <1>2, <1>3, <1>4 DEF r, f

LEMMA ReadingIs ==
  ASSUME NEW m \in LoopStates, NEW v, NEW u, NEW h,
         m.valid = v, m.current = u, m.hashes = h, m.error = FALSE
  PROVE  m = Reading(v, u, h)
<1>1. m = [valid |-> m.valid, current |-> m.current, hashes |-> m.hashes, error |-> m.error]
  BY DEF LoopStates
<1> QED
  BY <1>1, Zenon DEF Reading

LEMMA FailedIs ==
  ASSUME NEW m \in LoopStates, NEW v, NEW u, NEW h,
         m.valid = v, m.current = u, m.hashes = h, m.error = TRUE
  PROVE  m = Failed(v, u, h)
<1>1. m = [valid |-> m.valid, current |-> m.current, hashes |-> m.hashes, error |-> m.error]
  BY DEF LoopStates
<1> QED
  BY <1>1, Zenon DEF Failed

LEMMA SavedIs ==
  ASSUME NEW V, NEW U, NEW l \in [valid : V, current : U, hashes : Nat, error : BOOLEAN],
         NEW w \in V, NEW x \in U, NEW n \in Nat
  PROVE  LET m == [l EXCEPT !.hashes = n, !.valid = w, !.current = x]
         IN  /\ m \in [valid : V, current : U, hashes : Nat, error : BOOLEAN]
             /\ m.valid = w /\ m.current = x /\ m.hashes = n /\ m.error = l.error
<1> DEFINE m == [l EXCEPT !.hashes = n, !.valid = w, !.current = x]
<1>1. m \in [valid : V, current : U, hashes : Nat, error : BOOLEAN]
  OBVIOUS
<1>2. m.valid = w /\ m.current = x /\ m.hashes = n /\ m.error = l.error
  OBVIOUS
<1> HIDE DEF m
<1>3. /\ m \in [valid : V, current : U, hashes : Nat, error : BOOLEAN]
      /\ m.valid = w /\ m.current = x /\ m.hashes = n /\ m.error = l.error
  BY <1>1, <1>2
<1> QED
  BY <1>3 DEF m

LEMMA HashIsNoAlnum ==
  ASSUME NEW c, c = Hash
  PROVE  ~ IsAlnum(c)
BY DEF Hash, IsAlnum

LEMMA NextCharIs ==
  ASSUME NEW v \in Seq(Seq(Alnum)), NEW u \in Seq(Alnum), NEW h \in Nat,
         NEW c \in Byte
  PROVE  LET next == NextChar(Reading(v, u, h), c)
             saves == c = Hash /\ h = 0 /\ Len(v) < MAX_HASHTAG_CNT
         IN  /\ saves => next = Reading(Append(v, u), <<>>, 1)
             /\ c \in Alnum => next = Reading(v, Append(u, c), 0)
             /\ ~ saves /\ c \notin Alnum => next = Failed(v, u, h)
<1> DEFINE l == Reading(v, u, h)
           saves == c = Hash /\ h = 0 /\ Len(v) < MAX_HASHTAG_CNT
           next == NextChar(l, c)
           r1 == [l EXCEPT !.hashes = @ + 1, !.valid = Append(@, l.current), !.current = <<>>]
           r2 == [l EXCEPT !.hashes = 0, !.current = Append(@, c)]
           r3 == [l EXCEPT !.error = TRUE]
           case1 == ~ l.error /\ c = Hash /\ l.hashes = 0 /\ Len(l.valid) < MAX_HASHTAG_CNT
           case2 == ~ l.error /\ IsAlnum(c)
<1>1. c \in Alnum <=> IsAlnum(c)
  BY DEF Alnum
<1>2. next = CASE l.error -> l [] case1 -> r1 [] case2 -> r2 [] OTHER -> r3
  BY DEF NextChar
<1>3. l \in LoopStates /\ l.valid = v /\ l.current = u /\ l.hashes = h /\ l.error = FALSE
  BY FieldsOfState
<1> HIDE DEF l, next
<1>4. Append(v, u) \in Seq(Seq(Alnum)) /\ <<>> \in Seq(Alnum)
  BY AppendIs
<1>5. r1 \in LoopStates /\ r1.valid = Append(v, u) /\ r1.current = <<>>
        /\ r1.hashes = h + 1 /\ r1.error = FALSE
  <2> DEFINE w == Append(v, u)
             x == <<>>
             r == [l EXCEPT !.hashes = h + 1, !.valid = w, !.current = x]
  <2>1. w \in Seq(Seq(Alnum)) /\ x \in Seq(Alnum)
    BY <1>4
  <2>2. r1 = r
    BY <1>3
  <2> HIDE DEF w, x, r1
  <2>3. r \in LoopStates /\ r.valid = w /\ r.current = x /\ r.hashes = h + 1
          /\ r.error = l.error
    <3>1. l \in [valid : Seq(Seq(Alnum)), current : Seq(Alnum), hashes : Nat, error : BOOLEAN]
      BY <1>3 DEF LoopStates
    <3>2. h + 1 \in Nat
      OBVIOUS
    <3> QED
      BY <2>1, <3>1, <3>2, SavedIs, Zenon DEF LoopStates
  <2> HIDE DEF r
  <2>4. r1 \in LoopStates /\ r1.valid = w /\ r1.current = x /\ r1.hashes = h + 1 /\ r1.error = FALSE
    BY <1>3, <2>2, <2>3
  <2> QED
    BY <2>4 DEF w, x
<1>6. r3 \in LoopStates /\ r3.valid = v /\ r3.current = u /\ r3.hashes = h /\ r3.error = TRUE
  BY <1>3 DEF LoopStates
<1>7. ASSUME c \in Alnum
      PROVE  r2 = Reading(v, Append(u, c), 0)
  <2>1. Append(u, c) \in Seq(Alnum)
    BY <1>7, AppendIs
  <2>2. r2 \in LoopStates /\ r2.valid = v /\ r2.current = Append(u, c)
          /\ r2.hashes = 0 /\ r2.error = FALSE
    BY <1>3, <2>1 DEF LoopStates
  <2> HIDE DEF r2
  <2> QED BY <2>2, ReadingIs
<1>8. /\ case1 <=> saves
      /\ case2 <=> c \in Alnum
      /\ ~ (case1 /\ case2)
  BY <1>1, <1>3, HashIsNoAlnum
<1> HIDE DEF r1, r2, r3, case1, case2
<1>9. /\ case1 => next = r1
      /\ case2 => next = r2
      /\ ~ case1 /\ ~ case2 => next = r3
  BY <1>2, <1>3, <1>8
<1>10. h = 0 => r1 = Reading(Append(v, u), <<>>, 1)
  <2>1. h = 0 => r1.hashes = 1
    BY <1>5
  <2> QED BY <1>5, <2>1, ReadingIs
<1>11. r3 = Failed(v, u, h)
  BY <1>6, FailedIs
<1>12. /\ saves => next = Reading(Append(v, u), <<>>, 1)
       /\ c \in Alnum => next = Reading(v, Append(u, c), 0)
       /\ ~ saves /\ c \notin Alnum => next = Failed(v, u, h)
  BY <1>7, <1>8, <1>9, <1>10, <1>11
<1> QED
  BY <1>12 DEF next, l

LEMMA NextCharAfterError ==
  ASSUME NEW v \in Seq(Seq(Alnum)), NEW u \in Seq(Alnum), NEW h \in Nat, NEW c
  PROVE  NextChar(Failed(v, u, h), c) = Failed(v, u, h)
<1> DEFINE l == Failed(v, u, h)
           r1 == [l EXCEPT !.hashes = @ + 1, !.valid = Append(@, l.current), !.current = <<>>]
           r2 == [l EXCEPT !.hashes = 0, !.current = Append(@, c)]
           r3 == [l EXCEPT !.error = TRUE]
           case1 == ~ l.error /\ c = Hash /\ l.hashes = 0 /\ Len(l.valid) < MAX_HASHTAG_CNT
           case2 == ~ l.error /\ IsAlnum(c)
<1>1. l.error
  BY FieldsOfState
<1>2. NextChar(l, c) = CASE l.error -> l [] case1 -> r1 [] case2 -> r2 [] OTHER -> r3
  BY DEF NextChar
<1>3. ~ case1 /\ ~ case2
  BY <1>1
<1> HIDE DEF l, r1, r2, r3, case1, case2
<1>4. NextChar(l, c) = l
  BY <1>1, <1>2, <1>3
<1> QED
  BY <1>4 DEF l

(* Where the loop is after k chars behind the first: what has been read is *)
(* what its hashtags would be typed as, or what was before the first error *)
(* begins with that.                                                       *)
LoopSound(s, k, l) ==
  \E v \in Seq(Seq(Alnum)), u \in Seq(Alnum), h \in Nat, e \in BOOLEAN :
    /\ l = IF e THEN Failed(v, u, h) ELSE Reading(v, u, h)
    /\ Len(v) <= MAX_HASHTAG_CNT
    /\ \A i \in 1 .. Len(v) : v[i] # <<>>
    /\ e \/ Hashtagged(Append(v, u)) = SubSeq(s, 1, k + 1)
    /\ e \/ h = (IF u = <<>> THEN 1 ELSE 0)
    /\ \E m \in 0 .. Len(s) : Hashtagged(v) = SubSeq(s, 1, m)

LEMMA AppendTag ==
  ASSUME NEW v \in Seq(Seq(Alnum)), NEW u \in Seq(Alnum)
  PROVE  /\ Hashtagged(v) \in Seq(Byte)
         /\ Hashtagged(Append(v, u)) \in Seq(Byte)
         /\ Hashtagged(Append(v, u)) = (Hashtagged(v) \o <<Hash>>) \o u
         /\ Hashtagged(Append(v, u)) = Hashtagged(v) \o (<<Hash>> \o u)
         /\ Append(v, u) \in Seq(Seq(Alnum))
         /\ u = <<>> => Hashtagged(Append(v, u)) = Hashtagged(v) \o <<Hash>>
         /\ Len(Hashtagged(Append(v, u))) = Len(Hashtagged(v)) + 1 + Len(u)
<1> DEFINE one == <<Hash>>
<1>1. v \in Seq(Seq(Byte)) /\ u \in Seq(Byte) /\ Hash \in Byte /\ one \in Seq(Byte)
        /\ Len(one) = 1
  BY AlnumIsByte, Chars, OneChar
<1>2. Hashtagged(v) \in Seq(Byte)
  BY <1>1, HashtaggedType
<1>3. Hashtagged(Append(v, u)) = (Hashtagged(v) \o one) \o u
  BY <1>1, HashtaggedAppend
<1>4. Append(v, u) \in Seq(Seq(Alnum))
  BY AppendIs
<1> HIDE DEF one
<1> DEFINE a == Hashtagged(v)
<1>5. a \in Seq(Byte)
  BY <1>2
<1> HIDE DEF a
<1> DEFINE b == a \o one
<1>6. b \in Seq(Byte) /\ Len(b) = Len(a) + 1
  <2>1. b \in Seq(Byte) /\ Len(b) = Len(a) + Len(one)
    BY <1>1, <1>5, Concat
  <2> QED BY <1>1, <2>1
<1>7. b \o u = a \o (one \o u)
  BY <1>1, <1>5, Regroup
<1> HIDE DEF b
<1>8. u = <<>> => b \o u = b
  BY <1>6, ConcatEmptySeq
<1>9. b \o u \in Seq(Byte) /\ Len(b \o u) = Len(b) + Len(u)
  BY <1>1, <1>6, Concat
<1>10. Hashtagged(Append(v, u)) = b \o u /\ b = Hashtagged(v) \o <<Hash>>
  BY <1>3 DEF a, b, one
<1>11. Len(b \o u) = Len(Hashtagged(v)) + 1 + Len(u)
  BY <1>1, <1>6, <1>9 DEF a
<1>12. b \o u = Hashtagged(v) \o (<<Hash>> \o u)
  BY <1>7 DEF a, one
<1> QED
  BY <1>2, <1>4, <1>8, <1>9, <1>10, <1>11, <1>12

LEMMA AppendChar ==
  ASSUME NEW v \in Seq(Seq(Alnum)), NEW u \in Seq(Alnum), NEW c \in Alnum
  PROVE  /\ Append(u, c) \in Seq(Alnum)
         /\ Append(u, c) # <<>>
         /\ Hashtagged(Append(v, Append(u, c))) = Hashtagged(Append(v, u)) \o <<c>>
<1> DEFINE one == <<c>>
           w == Append(u, c)
           a == Hashtagged(v) \o <<Hash>>
<1>1. w \in Seq(Alnum) /\ w # <<>> /\ w = u \o one
  BY AppendIs
<1>2. one \in Seq(Byte) /\ u \in Seq(Byte)
  <2>1. c \in Byte
    BY DEF Alnum
  <2> QED BY <2>1, OneChar, AlnumIsByte
<1>3. a \in Seq(Byte)
  <2>1. Hashtagged(v) \in Seq(Byte)
    BY AppendTag
  <2>2. <<Hash>> \in Seq(Byte)
    BY Chars, OneChar
  <2> QED BY <2>1, <2>2, ConcatProperties
<1>4. Hashtagged(Append(v, u)) = a \o u
  BY AppendTag
<1> HIDE DEF w
<1>5. Hashtagged(Append(v, w)) = a \o w
  BY <1>1, AppendTag
<1> HIDE DEF a, one
<1>6. (a \o u) \o one = a \o (u \o one)
  <2> DEFINE u1 == u
  <2>1. u1 \in Seq(Byte)
    BY <1>2
  <2> HIDE DEF u1
  <2>2. (a \o u1) \o one = a \o (u1 \o one)
    BY <1>2, <1>3, <2>1, Regroup
  <2> QED BY <2>2 DEF u1
<1>7. Hashtagged(Append(v, w)) = Hashtagged(Append(v, u)) \o one
  BY <1>1, <1>4, <1>5, <1>6
<1> QED
  BY <1>1, <1>7 DEF w, one

LEMMA LoopStep ==
  ASSUME NEW s \in Seq(Byte), NEW k \in Nat, k + 2 <= Len(s), NEW l, LoopSound(s, k, l)
  PROVE  LoopSound(s, k + 1, NextChar(l, s[k + 2]))
<1> DEFINE c == s[k + 2]
           next == NextChar(l, c)
<1>1. PICK v \in Seq(Seq(Alnum)), u \in Seq(Alnum), h \in Nat, e \in BOOLEAN :
        /\ l = IF e THEN Failed(v, u, h) ELSE Reading(v, u, h)
        /\ Len(v) <= MAX_HASHTAG_CNT
        /\ \A i \in 1 .. Len(v) : v[i] # <<>>
        /\ e \/ Hashtagged(Append(v, u)) = SubSeq(s, 1, k + 1)
        /\ e \/ h = (IF u = <<>> THEN 1 ELSE 0)
        /\ \E m \in 0 .. Len(s) : Hashtagged(v) = SubSeq(s, 1, m)
  BY DEF LoopSound
<1>2. c \in Byte /\ k + 1 \in 0 .. Len(s) - 1 /\ k + 1 + 1 = k + 2 /\ k + 1 \in 0 .. Len(s)
  OBVIOUS
<1>3. SubSeq(s, 1, k + 1) \o <<c>> = SubSeq(s, 1, k + 2)
  BY <1>2, LongerPrefix
<1> HIDE DEF c, next
<1>4. CASE e
  <2>1. next = Failed(v, u, h)
    BY <1>1, <1>4, NextCharAfterError DEF next
  <2>2. LoopSound(s, k + 1, next)
    BY <1>1, <1>4, <2>1 DEF LoopSound
  <2> QED BY <2>2 DEF next, c
<1>5. CASE ~ e
  <2> DEFINE saves == c = Hash /\ h = 0 /\ Len(v) < MAX_HASHTAG_CNT
  <2>1. /\ l = Reading(v, u, h)
        /\ Hashtagged(Append(v, u)) = SubSeq(s, 1, k + 1)
        /\ h = IF u = <<>> THEN 1 ELSE 0
    BY <1>1, <1>5
  <2>2. /\ saves => next = Reading(Append(v, u), <<>>, 1)
        /\ c \in Alnum => next = Reading(v, Append(u, c), 0)
        /\ ~ saves /\ c \notin Alnum => next = Failed(v, u, h)
    BY <1>2, <2>1, NextCharIs DEF next
  <2>3. CASE saves
    <3> DEFINE w == Append(v, u)
    <3>1. w \in Seq(Seq(Alnum)) /\ Len(w) = Len(v) + 1 /\ \A i \in 1 .. Len(w) : w[i] # <<>>
      <4>1. u # <<>>
        BY <2>1, <2>3
      <4>2. /\ w \in Seq(Seq(Alnum)) /\ Len(w) = Len(v) + 1
            /\ \A i \in 1 .. Len(v) : w[i] = v[i]
            /\ w[Len(v) + 1] = u
        BY AppendIs
      <4> QED
        BY <1>1, <4>1, <4>2
    <3>2. Len(w) <= MAX_HASHTAG_CNT
      BY <2>3, <3>1, ClientParserAssumption
    <3>3. Hashtagged(w) = SubSeq(s, 1, k + 1)
      BY <2>1
    <3> HIDE DEF w
    <3>4. <<>> \in Seq(Alnum)
      OBVIOUS
    <3>5. Hashtagged(Append(w, <<>>)) = SubSeq(s, 1, k + 2)
      <4>1. Hashtagged(Append(w, <<>>)) = Hashtagged(w) \o <<Hash>>
        BY <3>1, <3>4, AppendTag
      <4> QED
        BY <1>3, <2>3, <3>3, <4>1
    <3>6. next = Reading(w, <<>>, 1)
      BY <2>2, <2>3 DEF w
    <3>7. LoopSound(s, k + 1, next)
      BY <1>2, <3>1, <3>2, <3>3, <3>4, <3>5, <3>6 DEF LoopSound
    <3> QED BY <3>7 DEF next, c
  <2>4. CASE c \in Alnum
    <3> DEFINE w == Append(u, c)
    <3>1. /\ w \in Seq(Alnum) /\ w # <<>>
          /\ Hashtagged(Append(v, w)) = Hashtagged(Append(v, u)) \o <<c>>
      BY <2>4, AppendChar
    <3>2. next = Reading(v, w, 0)
      BY <2>2, <2>4
    <3> HIDE DEF w
    <3>3. Hashtagged(Append(v, w)) = SubSeq(s, 1, k + 2)
      BY <1>3, <2>1, <3>1
    <3>4. LoopSound(s, k + 1, next)
      BY <1>1, <1>2, <3>1, <3>2, <3>3 DEF LoopSound
    <3> QED BY <3>4 DEF next, c
  <2>5. CASE ~ saves /\ c \notin Alnum
    <3>1. next = Failed(v, u, h)
      BY <2>2, <2>5
    <3>2. LoopSound(s, k + 1, next)
      BY <1>1, <3>1 DEF LoopSound
    <3> QED BY <3>2 DEF next, c
  <2> QED
    BY <2>3, <2>4, <2>5
<1> QED
  BY <1>4, <1>5

LEMMA NoPrefix ==
  ASSUME NEW S, NEW s \in Seq(S)
  PROVE  SubSeq(s, 1, 0) = <<>>
<1> DEFINE p == SubSeq(s, 1, 0)
<1>1. p \in Seq(S) /\ Len(p) = 0
  BY PrefixIs
<1> HIDE DEF p
<1>2. p = <<>>
  BY <1>1
<1> QED
  BY <1>2 DEF p

LEMMA PrefixOfOne ==
  ASSUME NEW S, NEW s \in Seq(S), s # <<>>
  PROVE  SubSeq(s, 1, 1) = <<s[1]>>
<1> DEFINE p == SubSeq(s, 1, 1)
<1>1. p \in Seq(S) /\ Len(p) = 1 /\ p[1] = s[1]
  <2>1. 1 \in 0 .. Len(s)
    OBVIOUS
  <2> QED BY <2>1, PrefixIs
<1> HIDE DEF p
<1>2. p = <<p[1]>>
  BY <1>1
<1> QED
  BY <1>1, <1>2 DEF p

LEMMA LoopStarts ==
  ASSUME NEW s \in Seq(Byte), s # <<>>, s[1] = Hash
  PROVE  LoopSound(s, 0, LoopStart)
<1> DEFINE none == <<>>
<1>1. none \in Seq(Seq(Alnum)) /\ none \in Seq(Alnum) /\ Len(none) = 0
  OBVIOUS
<1>2. LoopStart = Reading(none, none, 1)
  BY DEF LoopStart, Reading
<1>3. Hashtagged(none) = SubSeq(s, 1, 0)
  BY HashtaggedEmpty, NoPrefix
<1>4. Hashtagged(Append(none, none)) = SubSeq(s, 1, 1)
  <2>1. Hashtagged(Append(none, none)) = Hashtagged(none) \o <<Hash>>
    <3> HIDE DEF none
    <3> QED BY <1>1, AppendTag DEF none
  <2>2. <<Hash>> \in Seq(Byte)
    BY Chars, OneChar
  <2>3. <<>> \o <<Hash>> = <<Hash>>
    BY <2>2, ConcatEmptySeq
  <2> QED
    BY <2>1, <2>3, HashtaggedEmpty, PrefixOfOne
<1>5. 0 <= MAX_HASHTAG_CNT
  BY ClientParserAssumption
<1>6. 0 \in 0 .. Len(s) /\ 0 + 1 = 1 /\ \A i \in 1 .. 0 : none[i] # <<>>
  OBVIOUS
<1>7. none = <<>>
  OBVIOUS
<1> HIDE DEF none
<1>8. /\ LoopStart = IF FALSE THEN Failed(none, none, 1) ELSE Reading(none, none, 1)
      /\ 1 = IF none = <<>> THEN 1 ELSE 0
  BY <1>2, <1>7
<1> QED
  BY <1>1, <1>3, <1>4, <1>5, <1>6, <1>8 DEF LoopSound

LEMMA TailIs ==
  ASSUME NEW S, NEW s \in Seq(S), s # <<>>
  PROVE  /\ Len(s) - 1 \in Nat
         /\ DOMAIN Tail(s) = 1 .. Len(s) - 1
         /\ \A i \in 0 .. Len(s) - 2 : Tail(s)[i + 1] = s[i + 2]
<1>1. Len(s) \in Nat \ {0}
  OBVIOUS
<1>2. DOMAIN Tail(s) = 1 .. Len(s) - 1
  OBVIOUS
<1>3. ASSUME NEW i \in 0 .. Len(s) - 2
      PROVE  Tail(s)[i + 1] = s[i + 2]
  <2>1. i + 1 \in 1 .. Len(s) - 1 /\ i + 1 + 1 = i + 2
    BY <1>1
  <2>2. Tail(s)[i + 1] = s[i + 1 + 1]
    BY <2>1
  <2> QED BY <2>1, <2>2
<1> QED
  BY <1>1, <1>2, <1>3

LEMMA LoopEnds ==
  ASSUME NEW s \in Seq(Byte), s # <<>>, s[1] = Hash
  PROVE  LoopSound(s, Len(s) - 1, ReadHashtags(s))
<1> DEFINE n == Len(s) - 1
<1>1. /\ n \in Nat /\ DOMAIN Tail(s) = 1 .. n
      /\ \A i \in 0 .. n - 1 : Tail(s)[i + 1] = s[i + 2] /\ i \in Nat /\ i + 2 <= Len(s)
  <2>1. \A i \in 0 .. n - 1 : i \in 0 .. Len(s) - 2 /\ i \in Nat /\ i + 2 <= Len(s)
    OBVIOUS
  <2> QED BY <2>1, TailIs
<1> HIDE DEF n
<1>2. PICK g : /\ g[0] = LoopStart
               /\ \A i \in 0 .. n - 1 : g[i + 1] = NextChar(g[i], Tail(s)[i + 1])
               /\ g[n] = ReadHashtags(s)
  BY <1>1, LoopSteps
<1> DEFINE S == {i \in Nat : LoopSound(s, i, g[i])}
<1>3. 0 \in S
  BY <1>2, LoopStarts
<1>4. ASSUME NEW i \in 0 .. n, i < n, i \in S
      PROVE  i + 1 \in S
  <2>1. i \in 0 .. n - 1 /\ i \in Nat /\ i + 1 \in Nat
    BY <1>1, <1>4
  <2>2. g[i + 1] = NextChar(g[i], s[i + 2]) /\ i + 2 <= Len(s)
    BY <1>1, <1>2, <2>1
  <2>3. LoopSound(s, i, g[i])
    BY <1>4
  <2>4. LoopSound(s, i + 1, NextChar(g[i], s[i + 2]))
    BY <2>1, <2>2, <2>3, LoopStep
  <2> QED
    BY <2>1, <2>2, <2>4
<1>5. n \in S
  <2> HIDE DEF S
  <2>1. 0 .. n \subseteq S
    BY <1>1, <1>3, <1>4, BoundedInduction
  <2> QED BY <1>1, <2>1
<1>6. LoopSound(s, n, ReadHashtags(s))
  BY <1>2, <1>5
<1> QED
  BY <1>6 DEF n

-----------------------------------------------------------------------------
(* parse_hashtags                                                          *)

LEMMA PrefixIsAll ==
  ASSUME NEW S, NEW s \in Seq(S)
  PROVE  SubSeq(s, 1, Len(s)) = s
BY SubSeqFull

LEMMA ParseCases ==
  ASSUME NEW s
  PROVE  LET l == ReadHashtags(s)
             all == Append(l.valid, l.current)
             failed == l.error \/ Len(l.valid) = MAX_HASHTAG_CNT
             p == parse_hashtags(s)
         IN  /\ Unreadable(s) => p.ok = FALSE /\ p.valid = <<>>
             /\ ~ Unreadable(s) /\ failed => p.ok = FALSE /\ p.valid = l.valid
             /\ ~ Unreadable(s) /\ ~ failed =>
                  /\ p.ok = ~ has_duplicate_string(all)
                  /\ p.valid = all
<1> DEFINE l == ReadHashtags(s)
           all == Append(l.valid, l.current)
           failed == l.error \/ Len(l.valid) = MAX_HASHTAG_CNT
           p == parse_hashtags(s)
           p1 == [ok |-> FALSE, valid |-> <<>>]
           p2 == [ok |-> FALSE, valid |-> l.valid]
           p3 == [ok |-> ~ has_duplicate_string(all), valid |-> all]
           unreadable == Unreadable(s)
<1>1. p = CASE unreadable -> p1 [] ~ unreadable /\ failed -> p2 [] OTHER -> p3
  BY DEF parse_hashtags
<1>2. p1.ok = FALSE /\ p1.valid = <<>>
  OBVIOUS
<1>3. p2.ok = FALSE /\ p2.valid = l.valid
  OBVIOUS
<1>4. p3.ok = (~ has_duplicate_string(all)) /\ p3.valid = all
  <2> DEFINE o == ~ has_duplicate_string(all)
  <2> HIDE DEF o
  <2>1. p3.ok = o /\ p3.valid = all
    BY DEF o
  <2> QED BY <2>1 DEF o
<1> HIDE DEF p1, p2, p3, unreadable, failed, p
<1>5. /\ unreadable => p = p1
      /\ ~ unreadable /\ failed => p = p2
      /\ ~ unreadable /\ ~ failed => p = p3
  BY <1>1
<1>6. /\ unreadable => p.ok = FALSE /\ p.valid = <<>>
      /\ ~ unreadable /\ failed => p.ok = FALSE /\ p.valid = l.valid
      /\ ~ unreadable /\ ~ failed => p.ok = (~ has_duplicate_string(all)) /\ p.valid = all
  <2> HIDE DEF l, all
  <2> QED BY <1>2, <1>3, <1>4, <1>5
<1> QED
  BY <1>6 DEF unreadable, failed, p

(* What the caller can rely on, for any string.                            *)
SoundTags(s, p) ==
  /\ p.valid \in Seq(Seq(Alnum))
  /\ Len(p.valid) <= MAX_HASHTAG_CNT
  /\ \A i \in 1 .. Len(p.valid) : p.valid[i] # <<>> /\ Len(p.valid[i]) < MAX_HASHTAG_LEN
  /\ \E m \in 0 .. Len(s) : Hashtagged(p.valid) = SubSeq(s, 1, m)
  /\ p.ok => /\ Hashtagged(p.valid) = s
             /\ p.valid # <<>> /\ IsInjective(p.valid)
             /\ Len(s) <= MAX_HASHTAG_LEN

LEMMA TagsAreShort ==
  ASSUME NEW s \in Seq(Byte), Len(s) <= MAX_HASHTAG_LEN,
         NEW v \in Seq(Seq(Alnum)), NEW m \in 0 .. Len(s), Hashtagged(v) = SubSeq(s, 1, m)
  PROVE  \A i \in 1 .. Len(v) : Len(v[i]) < MAX_HASHTAG_LEN
<1>1. Len(Hashtagged(v)) = m
  BY PrefixIs
<1>2. MAX_HASHTAG_LEN \in Nat /\ Len(s) \in Nat
  BY ClientParserAssumption
<1>3. ASSUME NEW i \in 1 .. Len(v)
      PROVE  Len(v[i]) < MAX_HASHTAG_LEN
  <2>1. v \in Seq(Seq(Byte)) /\ Hash \in Byte
    BY AlnumIsByte, Chars
  <2>2. Len(v[i]) < Len(Hashtagged(v))
    BY <2>1, TagIsShorter
  <2>3. Len(v[i]) \in Nat
    BY ElementOfSeq
  <2> QED
    BY <1>1, <1>2, <2>2, <2>3
<1> QED
  BY <1>3

LEMMA LastCharRead ==
  ASSUME NEW s \in Seq(Byte), s # <<>>, Last(s) # Hash,
         NEW v \in Seq(Seq(Alnum)), NEW u \in Seq(Alnum), Hashtagged(Append(v, u)) = s
  PROVE  u # <<>>
<1> SUFFICES ASSUME u = <<>> PROVE FALSE
  OBVIOUS
<1> DEFINE a == Hashtagged(v)
           one == <<Hash>>
<1>1. a \in Seq(Byte) /\ s = a \o one
  BY AppendTag
<1>2. one \in Seq(Byte) /\ Len(one) = 1 /\ one[1] = Hash
  BY Chars, OneChar
<1> HIDE DEF a, one
<1>3. /\ Len(a \o one) = Len(a) + Len(one)
      /\ \A i \in 1 .. Len(one) : (a \o one)[Len(a) + i] = one[i]
  <2>1. a \in Seq(Byte) /\ one \in Seq(Byte)
    BY <1>1, <1>2
  <2> QED BY <2>1, Concat
<1>4. Len(s) = Len(a) + 1 /\ s[Len(a) + 1] = Hash
  BY <1>1, <1>2, <1>3
<1>5. Last(s) = Hash
  BY <1>4 DEF Last
<1> QED
  BY <1>5

LEMMA ParsedSound ==
  ASSUME NEW s \in Seq(Byte)
  PROVE  SoundTags(s, parse_hashtags(s))
<1> DEFINE p == parse_hashtags(s)
           l == ReadHashtags(s)
           all == Append(l.valid, l.current)
           failed == l.error \/ Len(l.valid) = MAX_HASHTAG_CNT
<1>1. /\ Unreadable(s) => p.ok = FALSE /\ p.valid = <<>>
      /\ ~ Unreadable(s) /\ failed => p.ok = FALSE /\ p.valid = l.valid
      /\ ~ Unreadable(s) /\ ~ failed => p.ok = (~ has_duplicate_string(all)) /\ p.valid = all
  BY ParseCases
<1>2. CASE Unreadable(s)
  <2>1. p.ok = FALSE /\ p.valid = <<>>
    BY <1>1, <1>2
  <2>2. Hashtagged(<<>>) = SubSeq(s, 1, 0) /\ 0 \in 0 .. Len(s)
    <3>1. SubSeq(s, 1, 0) = <<>>
      BY NoPrefix
    <3>2. 0 \in 0 .. Len(s)
      OBVIOUS
    <3> QED BY <3>1, <3>2, HashtaggedEmpty, Zenon
  <2>3. <<>> \in Seq(Seq(Alnum)) /\ Len(<<>>) = 0
    OBVIOUS
  <2>4. 0 <= MAX_HASHTAG_CNT
    BY ClientParserAssumption
  <2> HIDE DEF p
  <2>5. SoundTags(s, p)
    BY <2>1, <2>2, <2>3, <2>4 DEF SoundTags
  <2> QED BY <2>5 DEF p
<1>3. CASE ~ Unreadable(s)
  <2>1. /\ s # <<>> /\ Len(s) \in Nat \ {0} /\ Len(s) <= MAX_HASHTAG_LEN
        /\ s[1] = Hash /\ Last(s) # Hash
    BY <1>3, ClientParserAssumption DEF Unreadable
  <2>2. LoopSound(s, Len(s) - 1, l)
    BY <2>1, LoopEnds
  <2> HIDE DEF l, p
  <2>3. PICK v \in Seq(Seq(Alnum)), u \in Seq(Alnum), h \in Nat, e \in BOOLEAN :
          /\ l = IF e THEN Failed(v, u, h) ELSE Reading(v, u, h)
          /\ Len(v) <= MAX_HASHTAG_CNT
          /\ \A i \in 1 .. Len(v) : v[i] # <<>>
          /\ e \/ Hashtagged(Append(v, u)) = SubSeq(s, 1, Len(s) - 1 + 1)
          /\ e \/ h = (IF u = <<>> THEN 1 ELSE 0)
          /\ \E m \in 0 .. Len(s) : Hashtagged(v) = SubSeq(s, 1, m)
    BY <2>2 DEF LoopSound
  <2>4. l.valid = v /\ (e => l.error)
    BY <2>3, FieldsOfState
  <2>5. CASE failed
    <3>1. p.ok = FALSE /\ p.valid = v
      BY <1>1, <1>3, <2>4, <2>5
    <3>2. \A i \in 1 .. Len(v) : Len(v[i]) < MAX_HASHTAG_LEN
      BY <2>1, <2>3, TagsAreShort
    <3>3. SoundTags(s, p)
      BY <2>3, <3>1, <3>2 DEF SoundTags
    <3> QED BY <3>3 DEF p
  <2>6. CASE ~ failed
    <3>1. ~ e /\ l = Reading(v, u, h)
      BY <2>3, <2>4, <2>6
    <3>2. l.current = u
      BY <3>1, FieldsOfState
    <3> DEFINE w == Append(v, u)
    <3>3. p.ok = (~ has_duplicate_string(w)) /\ p.valid = w
      BY <1>1, <1>3, <2>4, <2>6, <3>2
    <3>4. Hashtagged(w) = s /\ SubSeq(s, 1, Len(s)) = s /\ Len(s) \in 0 .. Len(s)
      <4>1. Len(s) - 1 + 1 = Len(s)
        BY <2>1
      <4>2. SubSeq(s, 1, Len(s)) = s
        BY PrefixIsAll
      <4> QED BY <2>1, <2>3, <3>1, <4>1, <4>2
    <3>5. u # <<>>
      BY <2>1, <3>4, LastCharRead
    <3>6. /\ w \in Seq(Seq(Alnum)) /\ Len(w) = Len(v) + 1
          /\ \A i \in 1 .. Len(v) : w[i] = v[i]
          /\ w[Len(v) + 1] = u /\ w # <<>>
      <4>1. /\ w \in Seq(Seq(Alnum)) /\ Len(w) = Len(v) + 1
            /\ \A i \in 1 .. Len(v) : w[i] = v[i]
            /\ w[Len(v) + 1] = u
        BY AppendIs
      <4>2. Len(v) \in Nat
        OBVIOUS
      <4> HIDE DEF w
      <4>3. w # <<>>
        BY <4>1, <4>2
      <4> QED BY <4>1, <4>3
    <3>7. Len(w) <= MAX_HASHTAG_CNT
      BY <2>3, <2>4, <2>6, <3>6, ClientParserAssumption
    <3> HIDE DEF w
    <3>8. \A i \in 1 .. Len(w) : w[i] # <<>>
      <4>1. \A i \in 1 .. Len(w) : i \in 1 .. Len(v) \/ i = Len(v) + 1
        BY <3>6
      <4>2. \A i \in 1 .. Len(v) : w[i] # <<>>
        BY <2>3, <3>6
      <4> QED BY <3>5, <3>6, <4>1, <4>2
    <3>9. \A i \in 1 .. Len(w) : Len(w[i]) < MAX_HASHTAG_LEN
      BY <2>1, <3>4, <3>6, TagsAreShort
    <3>10. ~ has_duplicate_string(w) => IsInjective(w)
      BY <3>6 DEF has_duplicate_string, IsInjective
    <3>11. SoundTags(s, p)
      BY <2>1, <3>3, <3>4, <3>6, <3>7, <3>8, <3>9, <3>10 DEF SoundTags
    <3> QED BY <3>11 DEF p
  <2> QED
    BY <2>5, <2>6
<1> QED
  BY <1>2, <1>3

-----------------------------------------------------------------------------
(* Taking sequences apart                                                  *)

LEMMA ConsIs ==
  ASSUME NEW S, NEW c \in S, NEW s \in Seq(S)
  PROVE  /\ Cons(c, s) \in Seq(S)
         /\ Len(Cons(c, s)) = Len(s) + 1
         /\ Cons(c, s)[1] = c
         /\ \A i \in 1 .. Len(s) : Cons(c, s)[i + 1] = s[i]
         /\ Cons(c, s) # <<>>
<1> DEFINE one == <<c>>
           t == one \o s
<1>1. one \in Seq(S) /\ Len(one) = 1 /\ one[1] = c
  OBVIOUS
<1>2. Cons(c, s) = t
  BY DEF Cons
<1> HIDE DEF one
<1>3. /\ t \in Seq(S) /\ Len(t) = Len(one) + Len(s)
      /\ \A i \in 1 .. Len(one) : t[i] = one[i]
      /\ \A i \in 1 .. Len(s) : t[Len(one) + i] = s[i]
  BY <1>1, Concat
<1> HIDE DEF t
<1>4. Len(s) \in Nat
  OBVIOUS
<1>5. Len(t) = Len(s) + 1 /\ t[1] = c
  BY <1>1, <1>3, <1>4
<1>6. \A i \in 1 .. Len(s) : t[i + 1] = s[i]
  <2>1. \A i \in 1 .. Len(s) : 1 + i = i + 1
    OBVIOUS
  <2> QED BY <1>1, <1>3, <2>1
<1>7. t # <<>>
  BY <1>4, <1>5
<1> QED
  BY <1>2, <1>3, <1>5, <1>6, <1>7

LEMMA ConsConcat ==
  ASSUME NEW S, NEW c \in S, NEW s \in Seq(S), NEW t \in Seq(S)
  PROVE  Cons(c, s) \o t = Cons(c, s \o t)
<1> DEFINE one == <<c>>
<1>1. one \in Seq(S)
  OBVIOUS
<1> HIDE DEF one
<1>2. (one \o s) \o t = one \o (s \o t)
  BY <1>1, Regroup
<1> QED
  BY <1>2 DEF one, Cons

(* A sequence by its length and elements.                                  *)
ConsFirst(S) ==
  \A c \in S : \A s, t \in Seq(S) : Cons(c, s) \o t = Cons(c, s \o t)

LEMMA ConsConcatAll ==
  ASSUME NEW S
  PROVE  ConsFirst(S)
BY ConsConcat DEF ConsFirst

LEMMA SameSeq ==
  ASSUME NEW S, NEW s \in Seq(S), NEW t \in Seq(S), Len(s) = Len(t),
         \A i \in 1 .. Len(t) : s[i] = t[i]
  PROVE  s = t
<1>1. \A i \in 1 .. Len(s) : s[i] = t[i]
  OBVIOUS
<1> QED
  BY <1>1, SeqEqual

LEMMA FromConcat ==
  ASSUME NEW S, NEW a \in Seq(S), NEW b \in Seq(S), NEW n, n = Len(a) + 1
  PROVE  From(a \o b, n) = b
<1> DEFINE s == a \o b
           f == From(s, n)
<1>1. /\ s \in Seq(S) /\ Len(s) = Len(a) + Len(b)
      /\ \A i \in 1 .. Len(b) : s[Len(a) + i] = b[i]
  BY Concat
<1>2. Len(a) \in Nat /\ Len(b) \in Nat /\ n \in Nat \ {0}
  OBVIOUS
<1> HIDE DEF s
<1>3. /\ f \in Seq(S) /\ Len(f) = IF n <= Len(s) THEN Len(s) - n + 1 ELSE 0
      /\ \A j \in 1 .. Len(f) : f[j] = s[n + j - 1]
  BY <1>1, <1>2, FromIs
<1> HIDE DEF f
<1>4. Len(f) = Len(b)
  BY <1>1, <1>2, <1>3
<1>5. \A j \in 1 .. Len(b) : f[j] = b[j]
  <2>1. \A j \in 1 .. Len(b) : n + j - 1 = Len(a) + j
    BY <1>2
  <2> QED BY <1>1, <1>3, <1>4, <2>1
<1>6. f = b
  BY <1>3, <1>4, <1>5, SameSeq
<1> QED
  BY <1>6 DEF f, s

LEMMA FromCons ==
  ASSUME NEW S, NEW c \in S, NEW s \in Seq(S)
  PROVE  From(Cons(c, s), 2) = s
<1> DEFINE one == <<c>>
<1>1. one \in Seq(S) /\ 2 = Len(one) + 1
  OBVIOUS
<1> HIDE DEF one
<1>2. From(one \o s, 2) = s
  BY <1>1, FromConcat
<1> QED
  BY <1>2 DEF one, Cons

LEMMA ConsSplit ==
  ASSUME NEW S, NEW s \in Seq(S), s # <<>>
  PROVE  s[1] \in S /\ From(s, 2) \in Seq(S) /\ s = Cons(s[1], From(s, 2))
<1> DEFINE f == From(s, 2)
           t == Cons(s[1], f)
<1>1. s[1] \in S /\ Len(s) \in Nat \ {0}
  OBVIOUS
<1>2. /\ f \in Seq(S) /\ Len(f) = IF 2 <= Len(s) THEN Len(s) - 2 + 1 ELSE 0
      /\ \A j \in 1 .. Len(f) : f[j] = s[2 + j - 1]
  <2>1. 2 \in Nat \ {0}
    OBVIOUS
  <2> QED BY <2>1, FromIs
<1> HIDE DEF f
<1>3. Len(f) = Len(s) - 1
  <2> DEFINE n == Len(s)
             k == Len(f)
  <2>1. n \in Nat \ {0} /\ k = IF 2 <= n THEN n - 2 + 1 ELSE 0
    BY <1>1, <1>2
  <2> HIDE DEF n, k
  <2>2. k = n - 1
    BY <2>1
  <2> QED BY <2>2 DEF n, k
<1>4. /\ t \in Seq(S) /\ Len(t) = Len(f) + 1 /\ t[1] = s[1]
      /\ \A i \in 1 .. Len(f) : t[i + 1] = f[i]
  <2> DEFINE d == s[1]
  <2>1. d \in S /\ f \in Seq(S)
    BY <1>1, <1>2
  <2> HIDE DEF d
  <2>2. /\ Cons(d, f) \in Seq(S) /\ Len(Cons(d, f)) = Len(f) + 1 /\ Cons(d, f)[1] = d
        /\ \A i \in 1 .. Len(f) : Cons(d, f)[i + 1] = f[i]
    BY <2>1, ConsIs
  <2> QED BY <2>2 DEF d
<1> HIDE DEF t
<1>5. ASSUME NEW i \in 1 .. Len(t)
      PROVE  s[i] = t[i]
  <2>1. CASE i = 1
    BY <1>4, <2>1
  <2>2. CASE i # 1
    <3>1. i - 1 \in 1 .. Len(f) /\ i - 1 + 1 = i /\ 2 + (i - 1) - 1 = i
      BY <1>3, <1>4, <1>1, <2>2
    <3>2. t[i] = f[i - 1]
      BY <1>4, <3>1
    <3>3. f[i - 1] = s[i]
      BY <1>2, <3>1
    <3> QED BY <3>2, <3>3
  <2> QED BY <2>1, <2>2
<1>6. s = t
  BY <1>1, <1>3, <1>4, <1>5, SameSeq
<1> QED
  BY <1>1, <1>2, <1>6 DEF t, f

LEMMA BeforeConcat ==
  ASSUME NEW S, NEW a \in Seq(S), NEW c \in S, NEW b \in Seq(S),
         \A i \in 1 .. Len(a) : a[i] # c
  PROVE  Before(a \o Cons(c, b), c) = a
<1> DEFINE t == Cons(c, b)
           s == a \o t
           n == Len(a)
<1>1. t \in Seq(S) /\ Len(t) = Len(b) + 1 /\ t[1] = c
  BY ConsIs
<1> HIDE DEF t
<1>2. /\ s \in Seq(S) /\ Len(s) = Len(a) + Len(t)
      /\ \A i \in 1 .. Len(a) : s[i] = a[i]
      /\ \A i \in 1 .. Len(t) : s[Len(a) + i] = t[i]
  <2>1. t \in Seq(S)
    BY <1>1
  <2> QED BY <2>1, Concat
<1> HIDE DEF s
<1>3. n \in 0 .. Len(s) /\ Len(b) \in Nat /\ 1 \in 1 .. Len(t) /\ Len(a) \in Nat
  BY <1>1, <1>2
<1>4. \A i \in 1 .. n : s[i] # c
  BY <1>2
<1>5. s[n + 1] = c
  BY <1>1, <1>2, <1>3
<1>6. Before(s, c) = SubSeq(s, 1, n)
  <2>1. s \in Seq(S) /\ n \in 0 .. Len(s)
    BY <1>2, <1>3
  <2> HIDE DEF n
  <2> QED BY <1>4, <1>5, <2>1, BeforeEnds
<1> DEFINE p == SubSeq(s, 1, n)
<1>7. p \in Seq(S) /\ Len(p) = n /\ \A i \in 1 .. n : p[i] = s[i]
  <2> HIDE DEF n
  <2> QED BY <1>2, <1>3, PrefixIs
<1> HIDE DEF p
<1>8. p = a
  BY <1>2, <1>7, SameSeq
<1> QED
  BY <1>6, <1>8 DEF p, s, t

LEMMA BeforeNothing ==
  ASSUME NEW S, NEW s \in Seq(S), NEW c, \A i \in 1 .. Len(s) : s[i] # c
  PROVE  Before(s, c) = s
<1>1. Len(s) \in 0 .. Len(s)
  OBVIOUS
<1>2. Before(s, c) = SubSeq(s, 1, Len(s))
  BY <1>1, BeforeEnds
<1> QED
  BY <1>2, SubSeqFull

LEMMA Split ==
  ASSUME NEW S, NEW s \in Seq(S), NEW c, Len(Before(s, c)) < Len(s)
  PROVE  /\ c \in S
         /\ Before(s, c) \in Seq(S)
         /\ \A i \in 1 .. Len(Before(s, c)) : Before(s, c)[i] # c
         /\ From(s, Len(Before(s, c)) + 2) \in Seq(S)
         /\ s = Before(s, c) \o Cons(c, From(s, Len(Before(s, c)) + 2))
<1> DEFINE a == Before(s, c)
           n == Len(a)
           b == From(s, n + 2)
           t == Cons(c, b)
           w == a \o t
<1>1. /\ a \in Seq(S) /\ n \in 0 .. Len(s)
      /\ \A i \in 1 .. n : a[i] = s[i] /\ s[i] # c
      /\ n < Len(s) => s[n + 1] = c
  BY BeforeIs
<1> HIDE DEF a
<1>2. n \in Nat /\ n < Len(s) /\ s[n + 1] = c /\ c \in S /\ n + 2 \in Nat \ {0} /\ Len(s) \in Nat
  <2>1. n < Len(s)
    BY DEF a
  <2>2. n \in Nat /\ n + 1 \in 1 .. Len(s) /\ Len(s) \in Nat
    BY <1>1, <2>1
  <2> QED BY <1>1, <2>1, <2>2
<1> HIDE DEF n
<1>3. /\ b \in Seq(S) /\ Len(b) = IF n + 2 <= Len(s) THEN Len(s) - (n + 2) + 1 ELSE 0
      /\ \A j \in 1 .. Len(b) : b[j] = s[n + 2 + j - 1]
  BY <1>2, FromIs
<1> HIDE DEF b
<1>4. Len(b) = Len(s) - n - 1
  BY <1>2, <1>3
<1>5. /\ t \in Seq(S) /\ Len(t) = Len(b) + 1 /\ t[1] = c
      /\ \A i \in 1 .. Len(b) : t[i + 1] = b[i]
  <2>1. c \in S /\ b \in Seq(S)
    BY <1>2, <1>3
  <2> QED BY <2>1, ConsIs
<1> HIDE DEF t
<1>6. /\ w \in Seq(S) /\ Len(w) = Len(a) + Len(t)
      /\ \A i \in 1 .. Len(a) : w[i] = a[i]
      /\ \A i \in 1 .. Len(t) : w[Len(a) + i] = t[i]
  <2>1. a \in Seq(S) /\ t \in Seq(S)
    BY <1>1, <1>5
  <2> QED BY <2>1, Concat
<1> HIDE DEF w
<1>7. Len(w) = Len(s) /\ Len(a) = n
  BY <1>2, <1>4, <1>5, <1>6 DEF n
<1>8. ASSUME NEW i \in 1 .. Len(w)
      PROVE  s[i] = w[i]
  <2>1. CASE i <= n
    <3>1. i \in 1 .. n
      BY <1>2, <2>1
    <3> QED BY <1>1, <1>6, <1>7, <3>1
  <2>2. CASE i = n + 1
    <3>1. 1 \in 1 .. Len(t)
      BY <1>2, <1>4, <1>5
    <3>2. w[n + 1] = t[1]
      BY <1>6, <1>7, <3>1
    <3> QED BY <1>2, <1>5, <2>2, <3>2
  <2>3. CASE i > n + 1
    <3>1. /\ i - n - 1 \in 1 .. Len(b) /\ i - n \in 1 .. Len(t) /\ n + (i - n) = i
          /\ i - n - 1 + 1 = i - n /\ n + 2 + (i - n - 1) - 1 = i
      BY <1>2, <1>4, <1>5, <1>7, <2>3
    <3>2. w[i] = t[i - n]
      BY <1>6, <1>7, <3>1
    <3>3. t[i - n] = b[i - n - 1]
      BY <1>5, <3>1
    <3>4. b[i - n - 1] = s[i]
      BY <1>3, <3>1
    <3> QED BY <3>2, <3>3, <3>4
  <2> QED
    BY <1>2, <1>7, <2>1, <2>2, <2>3
<1>9. s = w
  BY <1>6, <1>7, <1>8, SameSeq
<1>10. \A i \in 1 .. n : a[i] # c
  BY <1>1
<1> QED
  BY <1>1, <1>2, <1>3, <1>9, <1>10 DEF w, t, b, n, a

-----------------------------------------------------------------------------
(* parse_client_command                                                    *)

LEMMA Words ==
  /\ Word.tweet = <<116>> /\ Word.subscribe = <<115>> /\ Word.unsubscribe = <<117>>
  /\ Word.timeline = <<108>> /\ Word.exit = <<101>>
BY DEF Word

LEMMA LetterIs ==
  ASSUME NEW n \in Typable, n # Space, n # QuoteMark
  PROVE  /\ <<n>> \in Seq(Typable) /\ <<n>> \in Seq(Byte) /\ Len(<<n>>) = 1
         /\ \A i \in 1 .. Len(<<n>>) : <<n>>[i] # Space /\ <<n>>[i] # QuoteMark
BY Chars

LEMMA WordsDiffer ==
  /\ Word.tweet \notin {Word.subscribe, Word.unsubscribe, Word.timeline, Word.exit}
  /\ Word.subscribe \notin {Word.unsubscribe, Word.timeline, Word.exit}
  /\ Word.unsubscribe \notin {Word.timeline, Word.exit}
  /\ Word.timeline # Word.exit
<1> DEFINE t == Word.tweet
           s == Word.subscribe
           u == Word.unsubscribe
           l == Word.timeline
           e == Word.exit
<1>1. t[1] = 116 /\ s[1] = 115 /\ u[1] = 117 /\ l[1] = 108 /\ e[1] = 101
  BY Words
<1> HIDE DEF t, s, u, l, e
<1>2. t \notin {s, u, l, e} /\ s \notin {u, l, e} /\ u \notin {l, e} /\ l # e
  BY <1>1
<1> QED
  BY <1>2 DEF t, s, u, l, e

WordSet == {Word.tweet, Word.subscribe, Word.unsubscribe, Word.timeline, Word.exit}

LEMMA WordIs ==
  ASSUME NEW w \in WordSet
  PROVE  /\ w \in Seq(Typable) /\ w \in Seq(Byte) /\ Len(w) = 1 /\ Len(w) <= COMMAND_LEN
         /\ \A i \in 1 .. Len(w) : w[i] # Space /\ w[i] # QuoteMark
<1>1. PICK n \in {116, 115, 117, 108, 101} : w = <<n>>
  <2>1. w \in {<<116>>, <<115>>, <<117>>, <<108>>, <<101>>}
    BY Words DEF WordSet
  <2> QED BY <2>1
<1>2. n \in Typable /\ n # Space /\ n # QuoteMark
  BY DEF Typable, Space, QuoteMark, Newline
<1>3. 1 <= COMMAND_LEN
  BY ClientParserAssumption
<1>4. /\ w \in Seq(Typable) /\ w \in Seq(Byte) /\ Len(w) = 1
      /\ \A i \in 1 .. Len(w) : w[i] # Space /\ w[i] # QuoteMark
  BY <1>1, <1>2, LetterIs
<1> QED
  BY <1>3, <1>4

LEMMA ParseCommandCases ==
  ASSUME NEW clientInput, NEW memory
  PROVE  LET word == Before(clientInput, Space)
             endOfCmd == Len(word) = Len(clientInput)
             s == From(clientInput \o <<EndOfString>> \o memory, Len(word) + 2)
             command == parse_client_command(clientInput, memory)
         IN  /\ word = Word.tweet => command = check_tweet_cmd(s)
             /\ word = Word.subscribe => command = CheckSubscription(s, REQ_SUBSCRIBE)
             /\ word = Word.unsubscribe => command = CheckSubscription(s, REQ_UNSUBSCRIBE)
             /\ word = Word.timeline => command = CheckSingleWord(endOfCmd, REQ_TIMELINE)
             /\ word = Word.exit => command = CheckSingleWord(endOfCmd, REQ_EXIT)
             /\ word \notin WordSet => command = Invalid
<1> DEFINE word == Before(clientInput, Space)
           endOfCmd == Len(word) = Len(clientInput)
           s == From(clientInput \o <<EndOfString>> \o memory, Len(word) + 2)
           command == parse_client_command(clientInput, memory)
           c1 == check_tweet_cmd(s)
           c2 == CheckSubscription(s, REQ_SUBSCRIBE)
           c3 == CheckSubscription(s, REQ_UNSUBSCRIBE)
           c4 == CheckSingleWord(endOfCmd, REQ_TIMELINE)
           c5 == CheckSingleWord(endOfCmd, REQ_EXIT)
           long == Len(word) > COMMAND_LEN
<1>1. command = CASE long -> Invalid [] word = Word.tweet -> c1 [] word = Word.subscribe -> c2
                  [] word = Word.unsubscribe -> c3 [] word = Word.timeline -> c4
                  [] word = Word.exit -> c5 [] OTHER -> Invalid
  BY DEF parse_client_command, BehindWord
<1>2. word \in WordSet => ~ long
  <2> HIDE DEF word
  <2>1. ASSUME word \in WordSet
        PROVE  ~ long
    <3>1. Len(word) = 1 /\ Len(word) <= COMMAND_LEN
      BY <2>1, WordIs
    <3>2. COMMAND_LEN \in Nat
      BY ClientParserAssumption
    <3> QED BY <3>1, <3>2
  <2> QED BY <2>1
<1> HIDE DEF word, command, c1, c2, c3, c4, c5, long
<1>3. /\ word = Word.tweet => command = c1
      /\ word = Word.subscribe => command = c2
      /\ word = Word.unsubscribe => command = c3
      /\ word = Word.timeline => command = c4
      /\ word = Word.exit => command = c5
      /\ word \notin WordSet => command = Invalid
  BY <1>1, <1>2, WordsDiffer DEF WordSet
<1> QED
  BY <1>3 DEF word, command, c1, c2, c3, c4, c5

(* What the checks of a command give, for any memory.                      *)
Codes == {REQ_INVALID, REQ_TWEET, REQ_SUBSCRIBE, REQ_UNSUBSCRIBE, REQ_TIMELINE, REQ_EXIT}

SoundCommand(c) ==
  /\ c.code \in Codes
  /\ c.ttweetString \in Seq(Byte) /\ Len(c.ttweetString) <= MAX_TWEET_LEN
  /\ c.inputHashtags \in Seq(Byte) /\ Len(c.inputHashtags) <= MAX_HASHTAG_LEN + 1

LEMMA InvalidSound ==
  ASSUME NEW code \in Codes
  PROVE  /\ SoundCommand(Invalid)
         /\ SoundCommand(CheckSingleWord(TRUE, code))
         /\ SoundCommand(CheckSingleWord(FALSE, code))
<1>1. <<>> \in Seq(Byte) /\ Len(<<>>) = 0
  OBVIOUS
<1>2. 0 <= MAX_TWEET_LEN /\ 0 <= MAX_HASHTAG_LEN + 1
  BY ClientParserAssumption
<1>3. REQ_INVALID \in Codes
  BY DEF Codes
<1>4. Invalid.code = REQ_INVALID /\ Invalid.ttweetString = <<>> /\ Invalid.inputHashtags = <<>>
  BY DEF Invalid
<1>5. SoundCommand(Invalid)
  BY <1>1, <1>2, <1>3, <1>4 DEF SoundCommand
<1> DEFINE c == [Invalid EXCEPT !.code = code]
<1>6. c.code = code /\ c.ttweetString = <<>> /\ c.inputHashtags = <<>>
  BY DEF Invalid
<1> HIDE DEF c
<1>7. SoundCommand(c)
  BY <1>1, <1>2, <1>6 DEF SoundCommand
<1> QED
  BY <1>5, <1>7 DEF CheckSingleWord, c

(* What is copied, whether or not the loop reaches the 0.                  *)
LEMMA CopyUpToIs ==
  ASSUME NEW limit \in Nat, NEW s \in Seq(Byte)
  PROVE  LET argument == Before(s, EndOfString)
             c == CopyUpTo(limit, s)
         IN  /\ c.s \in Seq(Byte) /\ Len(c.s) <= limit
             /\ c.bytes \in Nat /\ c.bytes <= limit + 1
             /\ c.ok = (Space \notin ToSet(argument) /\ Len(argument) <= limit)
             /\ c.ok => c.s = argument /\ c.bytes = Len(argument) + 1
<1> DEFINE argument == Before(s, EndOfString)
           word == Before(argument, Space)
           start == SubSeq(word, 1, limit)
           saved == IF Len(word) <= limit THEN word ELSE start
           ok == saved = argument
           bytes == IF ok THEN Len(saved) + 1 ELSE Len(saved)
           c == CopyUpTo(limit, s)
<1>1. c = [ok |-> ok, s |-> saved, bytes |-> bytes]
  BY DEF CopyUpTo
<1>2. argument \in Seq(Byte)
  BY BeforeIs
<1> HIDE DEF argument, c
<1>3. /\ word \in Seq(Byte) /\ Len(word) \in 0 .. Len(argument)
      /\ \A i \in 1 .. Len(word) : word[i] = argument[i] /\ argument[i] # Space
      /\ Len(word) < Len(argument) => argument[Len(word) + 1] = Space
      /\ word = SubSeq(argument, 1, Len(word))
  BY <1>2, BeforeIs
<1> HIDE DEF word
<1>4. Len(word) > limit => start \in Seq(Byte) /\ Len(start) = limit
  <2>1. ASSUME Len(word) > limit
        PROVE  start \in Seq(Byte) /\ Len(start) = limit
    <3>1. \A i \in 1 .. limit : word[i] \in Byte
      BY <1>3, <2>1
    <3> QED BY <1>3, <2>1, <3>1, SubSeqProperties
  <2> QED BY <2>1
<1> HIDE DEF start
<1>5. saved \in Seq(Byte) /\ Len(saved) \in Nat /\ Len(saved) <= limit
  BY <1>3, <1>4
<1>6. ok => Space \notin ToSet(argument) /\ Len(argument) <= limit
  <2> SUFFICES ASSUME saved = argument
               PROVE  Space \notin ToSet(argument) /\ Len(argument) <= limit
    OBVIOUS
  <2>1. Len(argument) <= limit
    BY <1>5
  <2>2. Len(word) = Len(argument)
    BY <1>2, <1>3, <1>4, <2>1
  <2>3. \A i \in 1 .. Len(argument) : argument[i] # Space
    BY <1>3, <2>2
  <2>4. DOMAIN argument = 1 .. Len(argument)
    BY <1>2
  <2> QED BY <2>1, <2>3, <2>4 DEF ToSet
<1>7. Space \notin ToSet(argument) /\ Len(argument) <= limit => ok
  <2> SUFFICES ASSUME Space \notin ToSet(argument), Len(argument) <= limit
               PROVE  saved = argument
    OBVIOUS
  <2>1. \A i \in 1 .. Len(argument) : argument[i] # Space
    BY <1>2 DEF ToSet
  <2>2. Len(word) = Len(argument)
    BY <1>2, <1>3, <2>1
  <2>3. word = argument
    BY <1>2, <1>3, <2>2, SubSeqFull
  <2> QED BY <2>2, <2>3
<1>8. ok => saved = argument
  OBVIOUS
<1>9. ok \in BOOLEAN
  OBVIOUS
<1> HIDE DEF saved, ok
<1>10. bytes \in Nat /\ bytes <= limit + 1 /\ (ok => bytes = Len(saved) + 1)
  BY <1>5, <1>9
<1> HIDE DEF bytes
<1>11. c.ok = ok /\ c.s = saved /\ c.bytes = bytes
  BY <1>1
<1>12. c.ok = (Space \notin ToSet(argument) /\ Len(argument) <= limit)
  BY <1>6, <1>7, <1>9, <1>11
<1>13. c.ok => c.s = argument /\ c.bytes = Len(argument) + 1
  BY <1>8, <1>10, <1>11
<1> QED
  BY <1>5, <1>10, <1>11, <1>12, <1>13 DEF c, argument

LEMMA CopiedSound ==
  ASSUME NEW s \in Seq(Byte)
  PROVE  LET hashtags == CopyHashtags(s)
             argument == Before(s, EndOfString)
         IN  /\ hashtags.s \in Seq(Byte) /\ Len(hashtags.s) <= MAX_HASHTAG_LEN + 1
             /\ hashtags.bytes \in Nat /\ hashtags.bytes <= MAX_HASHTAG_LEN + 2
             /\ hashtags.ok = (/\ Space \notin ToSet(argument)
                               /\ Len(argument) <= MAX_HASHTAG_LEN + 1)
             /\ hashtags.ok => /\ hashtags.s = argument
                               /\ hashtags.bytes = Len(argument) + 1
<1> DEFINE limit == MAX_HASHTAG_LEN + 1
<1>1. limit \in Nat /\ limit + 1 = MAX_HASHTAG_LEN + 2
  BY ClientParserAssumption
<1> HIDE DEF limit
<1>2. LET argument == Before(s, EndOfString)
          c == CopyUpTo(limit, s)
      IN  /\ c.s \in Seq(Byte) /\ Len(c.s) <= limit
          /\ c.bytes \in Nat /\ c.bytes <= limit + 1
          /\ c.ok = (Space \notin ToSet(argument) /\ Len(argument) <= limit)
          /\ c.ok => c.s = argument /\ c.bytes = Len(argument) + 1
  BY <1>1, CopyUpToIs
<1>3. CopyHashtags(s) = CopyUpTo(limit, s)
  BY DEF CopyHashtags, limit
<1> QED
  BY <1>1, <1>2, <1>3, Zenon DEF limit

LEMMA SubscriptionSound ==
  ASSUME NEW s \in Seq(Byte), NEW code \in Codes
  PROVE  SoundCommand(CheckSubscription(s, code))
<1> DEFINE h == CopyHashtags(s)
           c == [code |-> code, ttweetString |-> <<>>, inputHashtags |-> h.s]
<1>1. CheckSubscription(s, code) = IF h.ok THEN c ELSE Invalid
  BY DEF CheckSubscription
<1>2. h.s \in Seq(Byte) /\ Len(h.s) <= MAX_HASHTAG_LEN + 1
  BY CopiedSound
<1> HIDE DEF h
<1>3. c.code = code /\ c.ttweetString = <<>> /\ c.inputHashtags = h.s
  OBVIOUS
<1> HIDE DEF c
<1>4. <<>> \in Seq(Byte) /\ Len(<<>>) = 0 /\ 0 <= MAX_TWEET_LEN
  BY ClientParserAssumption
<1>5. h.ok => SoundCommand(c)
  BY <1>2, <1>3, <1>4 DEF SoundCommand
<1> QED
  BY <1>1, <1>5, InvalidSound

LEMMA MessageType ==
  ASSUME NEW s \in Seq(Byte)
  PROVE  /\ Message(s) \in Seq(Byte) /\ BehindMessage(s) \in Seq(Byte)
         /\ From(BehindMessage(s), 2) \in Seq(Byte)
<1>1. 2 \in Nat \ {0}
  OBVIOUS
<1>2. From(s, 2) \in Seq(Byte)
  BY <1>1, FromIs
<1>3. Message(s) \in Seq(Byte)
  <2> DEFINE t == From(s, 2)
  <2>1. t \in Seq(Byte)
    BY <1>2
  <2> HIDE DEF t
  <2>2. Before(t, QuoteMark) \in Seq(Byte)
    BY <2>1, BeforeIs
  <2> QED BY <2>2 DEF Message, t
<1>4. Len(Message(s)) + 3 \in Nat \ {0}
  BY <1>3
<1>5. BehindMessage(s) \in Seq(Byte)
  BY <1>4, FromIs DEF BehindMessage
<1>6. From(BehindMessage(s), 2) \in Seq(Byte)
  BY <1>1, <1>5, FromIs
<1> QED
  BY <1>3, <1>5, <1>6

LEMMA TweetSound ==
  ASSUME NEW s \in Seq(Byte)
  PROVE  SoundCommand(check_tweet_cmd(s))
<1> DEFINE message == Message(s)
           h == CopyHashtags(From(BehindMessage(s), 2))
           c == [code |-> REQ_TWEET, ttweetString |-> message, inputHashtags |-> h.s]
           good == HashtagsFollow(s) /\ h.ok
<1>1. check_tweet_cmd(s) = IF good THEN c ELSE Invalid
  BY DEF check_tweet_cmd
<1>2. message \in Seq(Byte)
  BY MessageType
<1>3. good => Len(message) <= MAX_TWEET_LEN
  BY ClientParserAssumption DEF HashtagsFollow, MessageRead
<1>5. h.s \in Seq(Byte) /\ Len(h.s) <= MAX_HASHTAG_LEN + 1
  BY MessageType, CopiedSound
<1> HIDE DEF h, message
<1>6. c.code = REQ_TWEET /\ c.ttweetString = message /\ c.inputHashtags = h.s
  OBVIOUS
<1> HIDE DEF c
<1>7. REQ_TWEET \in Codes /\ REQ_INVALID \in Codes
  BY DEF Codes
<1>8. good => SoundCommand(c)
  BY <1>2, <1>3, <1>5, <1>6, <1>7 DEF SoundCommand
<1> HIDE DEF good
<1> QED
  BY <1>1, <1>7, <1>8, InvalidSound

LEMMA BehindWordType ==
  ASSUME NEW clientInput \in Seq(Byte), NEW memory \in Seq(Byte)
  PROVE  BehindWord(clientInput, memory) \in Seq(Byte)
<1> DEFINE word == Before(clientInput, Space)
           zero == <<EndOfString>>
           a == clientInput \o zero
           whole == a \o memory
<1>1. zero \in Seq(Byte)
  BY Chars, OneChar
<1> HIDE DEF zero
<1>2. a \in Seq(Byte)
  BY <1>1, Concat
<1> HIDE DEF a
<1>3. whole \in Seq(Byte)
  BY <1>2, Concat
<1>4. Len(word) + 2 \in Nat \ {0}
  <2>1. word \in Seq(Byte)
    BY BeforeIs
  <2> HIDE DEF word
  <2> QED BY <2>1
<1> HIDE DEF whole, word
<1>5. From(whole, Len(word) + 2) \in Seq(Byte)
  BY <1>3, <1>4, FromIs
<1> QED
  BY <1>5 DEF BehindWord, whole, a, zero, word

LEMMA CommandSound ==
  ASSUME NEW clientInput \in Seq(Byte), NEW memory \in Seq(Byte)
  PROVE  SoundCommand(parse_client_command(clientInput, memory))
<1> DEFINE word == Before(clientInput, Space)
           endOfCmd == Len(word) = Len(clientInput)
           s == From(clientInput \o <<EndOfString>> \o memory, Len(word) + 2)
           c == parse_client_command(clientInput, memory)
<1>1. /\ word = Word.tweet => c = check_tweet_cmd(s)
      /\ word = Word.subscribe => c = CheckSubscription(s, REQ_SUBSCRIBE)
      /\ word = Word.unsubscribe => c = CheckSubscription(s, REQ_UNSUBSCRIBE)
      /\ word = Word.timeline => c = CheckSingleWord(endOfCmd, REQ_TIMELINE)
      /\ word = Word.exit => c = CheckSingleWord(endOfCmd, REQ_EXIT)
      /\ word \notin WordSet => c = Invalid
  BY ParseCommandCases
<1>2. s \in Seq(Byte)
  BY BehindWordType DEF BehindWord
<1>3. {REQ_SUBSCRIBE, REQ_UNSUBSCRIBE, REQ_TIMELINE, REQ_EXIT, REQ_INVALID} \subseteq Codes
  BY DEF Codes
<1> HIDE DEF word, endOfCmd, s, c
<1>4. endOfCmd \in BOOLEAN
  BY DEF endOfCmd
<1>5. /\ SoundCommand(check_tweet_cmd(s))
      /\ SoundCommand(CheckSubscription(s, REQ_SUBSCRIBE))
      /\ SoundCommand(CheckSubscription(s, REQ_UNSUBSCRIBE))
  BY <1>2, <1>3, TweetSound, SubscriptionSound
<1>6. /\ SoundCommand(CheckSingleWord(endOfCmd, REQ_TIMELINE))
      /\ SoundCommand(CheckSingleWord(endOfCmd, REQ_EXIT))
      /\ SoundCommand(Invalid)
  <2>1. CASE endOfCmd = TRUE
    BY <1>3, <2>1, InvalidSound
  <2>2. CASE endOfCmd = FALSE
    BY <1>3, <2>2, InvalidSound
  <2> QED BY <1>4, <2>1, <2>2
<1>7. SoundCommand(c)
  BY <1>1, <1>5, <1>6 DEF WordSet
<1> QED
  BY <1>7 DEF c

-----------------------------------------------------------------------------
(* RequestOf                                                               *)

Request(code, string, tags) ==
  [code |-> code, ttweetString |-> string, validHashtags |-> tags]

LEMMA RequestIs ==
  ASSUME NEW code, NEW string, NEW tags
  PROVE  /\ Request(code, string, tags).code = code
         /\ Request(code, string, tags).ttweetString = string
         /\ Request(code, string, tags).validHashtags = tags
BY DEF Request

LEMMA RequestCases ==
  ASSUME NEW c
  PROVE  LET h == parse_hashtags(c.inputHashtags)
             string == Before(c.ttweetString, EndOfString)
             r == RequestOf(c)
         IN  /\ c.code = REQ_TWEET =>
                  r = IF ALL \notin ToSet(h.valid) THEN Request(REQ_TWEET, string, h.valid)
                                                   ELSE NoRequest
             /\ c.code \in {REQ_SUBSCRIBE, REQ_UNSUBSCRIBE} =>
                  r = IF h.ok /\ Len(h.valid) = 1 THEN Request(c.code, string, h.valid)
                                                  ELSE NoRequest
             /\ c.code \in {REQ_TIMELINE, REQ_EXIT} => r = Request(c.code, string, <<>>)
             /\ c.code = REQ_INVALID => r = NoRequest
<1> DEFINE h == parse_hashtags(c.inputHashtags)
           string == Before(c.ttweetString, EndOfString)
           r == RequestOf(c)
           nothing == [ok |-> TRUE, valid |-> <<>>]
           hashtags == IF c.code \in {REQ_TWEET, REQ_SUBSCRIBE, REQ_UNSUBSCRIBE}
                         THEN h ELSE nothing
           noAll == ALL \notin ToSet(hashtags.valid)
           single == hashtags.ok /\ Len(hashtags.valid) = 1
           known == c.code # REQ_INVALID
           success == CommandSuccess(c, hashtags)
<1>1. r = IF success THEN Request(c.code, string, hashtags.valid) ELSE NoRequest
  BY DEF RequestOf, Request
<1>2. success = CASE c.code = REQ_TWEET -> noAll
                  [] c.code \in {REQ_SUBSCRIBE, REQ_UNSUBSCRIBE} -> single
                  [] OTHER -> known
  BY DEF CommandSuccess, is_hashtag_all_exists
<1>3. nothing.valid = <<>>
  OBVIOUS
<1> HIDE DEF h, r, nothing, noAll, single, success, string
<1>4. /\ REQ_TWEET \notin {REQ_SUBSCRIBE, REQ_UNSUBSCRIBE, REQ_TIMELINE, REQ_EXIT, REQ_INVALID}
      /\ REQ_SUBSCRIBE \notin {REQ_TIMELINE, REQ_EXIT, REQ_INVALID}
      /\ REQ_UNSUBSCRIBE \notin {REQ_TIMELINE, REQ_EXIT, REQ_INVALID}
      /\ REQ_INVALID \notin {REQ_TIMELINE, REQ_EXIT}
  BY DEF REQ_TWEET, REQ_SUBSCRIBE, REQ_UNSUBSCRIBE, REQ_TIMELINE, REQ_EXIT, REQ_INVALID
<1>5. ASSUME c.code = REQ_TWEET
      PROVE  r = IF ALL \notin ToSet(h.valid) THEN Request(REQ_TWEET, string, h.valid)
                                              ELSE NoRequest
  <2>1. hashtags = h
    BY <1>5
  <2>2. success = noAll
    BY <1>2, <1>4, <1>5
  <2> HIDE DEF hashtags
  <2>3. noAll = (ALL \notin ToSet(h.valid))
    BY <2>1 DEF noAll
  <2> QED BY <1>1, <1>5, <2>1, <2>2, <2>3
<1>6. ASSUME c.code \in {REQ_SUBSCRIBE, REQ_UNSUBSCRIBE}
      PROVE  r = IF h.ok /\ Len(h.valid) = 1 THEN Request(c.code, string, h.valid)
                                             ELSE NoRequest
  <2>1. hashtags = h
    BY <1>6
  <2>2. success = single
    BY <1>2, <1>4, <1>6
  <2> HIDE DEF hashtags
  <2>3. single = (h.ok /\ Len(h.valid) = 1)
    BY <2>1 DEF single
  <2> QED BY <1>1, <1>6, <2>1, <2>2, <2>3
<1>7. ASSUME c.code \in {REQ_TIMELINE, REQ_EXIT}
      PROVE  r = Request(c.code, string, <<>>)
  <2>1. hashtags = nothing
    BY <1>4, <1>7
  <2>2. success = known /\ known
    BY <1>2, <1>4, <1>7
  <2> QED BY <1>1, <1>3, <2>1, <2>2
<1>8. ASSUME c.code = REQ_INVALID
      PROVE  r = NoRequest
  <2>1. success = known /\ ~ known
    BY <1>2, <1>4, <1>8
  <2> QED BY <1>1, <2>1
<1> QED
  BY <1>5, <1>6, <1>7, <1>8 DEF h, string, r

(* A request that Fits, and no NoRequest.                                  *)
SoundRequest(r) ==
  /\ r.code \in Codes \ {REQ_INVALID}
  /\ r.ttweetString \in Seq(1 .. 255)
  /\ r.validHashtags \in Seq(Seq(Alnum))
  /\ r = Request(r.code, r.ttweetString, r.validHashtags)
  /\ Fits(r)

LEMMA NoZero ==
  ASSUME NEW s \in Seq(Byte)
  PROVE  /\ Before(s, EndOfString) \in Seq(1 .. 255)
         /\ Len(Before(s, EndOfString)) <= Len(s)
<1> DEFINE b == Before(s, EndOfString)
<1>1. /\ b \in Seq(Byte) /\ Len(b) \in 0 .. Len(s)
      /\ \A i \in 1 .. Len(b) : b[i] = s[i] /\ s[i] # EndOfString
  BY BeforeIs
<1> HIDE DEF b
<1>2. ASSUME NEW i \in 1 .. Len(b)
      PROVE  b[i] \in 1 .. 255
  <2>1. b[i] \in Byte /\ b[i] # EndOfString
    BY <1>1
  <2> QED BY <2>1 DEF Byte, EndOfString
<1>3. b \in Seq(1 .. 255)
  <2>1. Len(b) \in Nat /\ b = [i \in 1 .. Len(b) |-> b[i]]
    BY <1>1
  <2> DEFINE f == [i \in 1 .. Len(b) |-> b[i]]
  <2>2. f \in [1 .. Len(b) -> 1 .. 255]
    BY <1>2
  <2>3. f \in Seq(1 .. 255)
    <3> DEFINE n == Len(b)
               T == 1 .. 255
    <3>1. n \in Nat /\ f \in [1 .. n -> T]
      BY <2>1, <2>2
    <3> HIDE DEF n, f, T
    <3>2. f \in Seq(T)
      BY <3>1
    <3> QED BY <3>2 DEF T
  <2> QED BY <2>1, <2>3
<1> QED
  BY <1>1, <1>3 DEF b

LEMMA FitsIs ==
  ASSUME NEW code \in Codes \ {REQ_INVALID}, NEW string \in Seq(1 .. 255),
         Len(string) <= MAX_TWEET_LEN,
         NEW tags \in Seq(Seq(Alnum)), Len(tags) <= MAX_HASHTAG_CNT,
         \A i \in 1 .. Len(tags) : Len(tags[i]) < MAX_HASHTAG_LEN,
         code = REQ_TWEET => ALL \notin ToSet(tags),
         code \in {REQ_SUBSCRIBE, REQ_UNSUBSCRIBE} => Len(tags) = 1
  PROVE  SoundRequest(Request(code, string, tags))
<1> DEFINE r == Request(code, string, tags)
<1>1. r.code = code /\ r.ttweetString = string /\ r.validHashtags = tags
  BY RequestIs
<1>2. r = Request(r.code, r.ttweetString, r.validHashtags)
  BY <1>1
<1> HIDE DEF r
<1>3. \A t \in ToSet(tags) : Len(t) < MAX_HASHTAG_LEN
  BY DEF ToSet
<1>4. Fits(r)
  BY <1>1, <1>3 DEF Fits
<1>5. SoundRequest(r)
  BY <1>1, <1>2, <1>4 DEF SoundRequest
<1> QED
  BY <1>5 DEF r

LEMMA RequestSound ==
  ASSUME NEW c, SoundCommand(c)
  PROVE  RequestOf(c) = NoRequest \/ SoundRequest(RequestOf(c))
<1> DEFINE h == parse_hashtags(c.inputHashtags)
           string == Before(c.ttweetString, EndOfString)
           r == RequestOf(c)
<1>1. /\ c.code \in Codes
      /\ c.ttweetString \in Seq(Byte) /\ Len(c.ttweetString) <= MAX_TWEET_LEN
      /\ c.inputHashtags \in Seq(Byte)
  BY DEF SoundCommand
<1>2. /\ c.code = REQ_TWEET =>
           r = IF ALL \notin ToSet(h.valid) THEN Request(REQ_TWEET, string, h.valid)
                                            ELSE NoRequest
      /\ c.code \in {REQ_SUBSCRIBE, REQ_UNSUBSCRIBE} =>
           r = IF h.ok /\ Len(h.valid) = 1 THEN Request(c.code, string, h.valid)
                                           ELSE NoRequest
      /\ c.code \in {REQ_TIMELINE, REQ_EXIT} => r = Request(c.code, string, <<>>)
      /\ c.code = REQ_INVALID => r = NoRequest
  BY RequestCases
<1>3. string \in Seq(1 .. 255) /\ Len(string) <= MAX_TWEET_LEN
  <2>1. string \in Seq(1 .. 255) /\ Len(string) <= Len(c.ttweetString)
    BY <1>1, NoZero
  <2>2. Len(c.ttweetString) \in Nat /\ MAX_TWEET_LEN \in Nat
    BY <1>1, ClientParserAssumption
  <2> HIDE DEF string
  <2>3. Len(string) \in Nat
    BY <2>1
  <2> QED BY <1>1, <2>1, <2>2, <2>3
<1>4. /\ h.valid \in Seq(Seq(Alnum)) /\ Len(h.valid) <= MAX_HASHTAG_CNT
      /\ \A i \in 1 .. Len(h.valid) : Len(h.valid[i]) < MAX_HASHTAG_LEN
  <2>1. SoundTags(c.inputHashtags, h)
    BY <1>1, ParsedSound
  <2> HIDE DEF h
  <2> QED BY <2>1 DEF SoundTags
<1> HIDE DEF h, string, r
<1>5. ASSUME NEW code \in {REQ_TWEET, REQ_SUBSCRIBE, REQ_UNSUBSCRIBE, REQ_TIMELINE, REQ_EXIT}
      PROVE  code \in Codes \ {REQ_INVALID}
  BY DEF Codes, REQ_INVALID, REQ_TWEET, REQ_SUBSCRIBE, REQ_UNSUBSCRIBE, REQ_TIMELINE, REQ_EXIT
<1>6. REQ_TWEET \notin {REQ_SUBSCRIBE, REQ_UNSUBSCRIBE, REQ_TIMELINE, REQ_EXIT}
       /\ {REQ_SUBSCRIBE, REQ_UNSUBSCRIBE} \cap {REQ_TIMELINE, REQ_EXIT} = {}
  BY DEF REQ_TWEET, REQ_SUBSCRIBE, REQ_UNSUBSCRIBE, REQ_TIMELINE, REQ_EXIT
<1>7. CASE c.code = REQ_TWEET
  <2>1. CASE ALL \notin ToSet(h.valid)
    <3>1. r = Request(REQ_TWEET, string, h.valid)
      BY <1>2, <1>7, <2>1
    <3>2. SoundRequest(Request(REQ_TWEET, string, h.valid))
      BY <1>3, <1>4, <1>5, <1>6, <2>1, FitsIs
    <3> QED BY <3>1, <3>2 DEF r
  <2>2. CASE ALL \in ToSet(h.valid)
    BY <1>2, <1>7, <2>2 DEF r
  <2> QED BY <2>1, <2>2
<1>8. CASE c.code \in {REQ_SUBSCRIBE, REQ_UNSUBSCRIBE}
  <2>1. CASE h.ok /\ Len(h.valid) = 1
    <3>1. r = Request(c.code, string, h.valid)
      BY <1>2, <1>8, <2>1
    <3>2. SoundRequest(Request(c.code, string, h.valid))
      BY <1>3, <1>4, <1>5, <1>6, <1>8, <2>1, FitsIs, ZenonT(60)
    <3> QED BY <3>1, <3>2 DEF r
  <2>2. CASE ~ (h.ok /\ Len(h.valid) = 1)
    BY <1>2, <1>8, <2>2 DEF r
  <2> QED BY <2>1, <2>2
<1>9. CASE c.code \in {REQ_TIMELINE, REQ_EXIT}
  <2> DEFINE none == <<>>
  <2>1. r = Request(c.code, string, none)
    BY <1>2, <1>9
  <2>2. /\ none \in Seq(Seq(Alnum)) /\ Len(none) = 0 /\ 0 <= MAX_HASHTAG_CNT
        /\ \A i \in 1 .. 0 : Len(none[i]) < MAX_HASHTAG_LEN
    BY ClientParserAssumption
  <2> HIDE DEF none
  <2>3. Len(none) <= MAX_HASHTAG_CNT /\ \A i \in 1 .. Len(none) : Len(none[i]) < MAX_HASHTAG_LEN
    BY <2>2
  <2>4. SoundRequest(Request(c.code, string, none))
    BY <1>3, <1>5, <1>6, <1>9, <2>2, <2>3, FitsIs
  <2> QED BY <2>1, <2>4 DEF r
<1>10. CASE c.code = REQ_INVALID
  BY <1>2, <1>10 DEF r
<1> QED
  BY <1>1, <1>7, <1>8, <1>9, <1>10 DEF Codes

-----------------------------------------------------------------------------
(* Well-formed hashtags are read as they are                               *)

LEMMA ReadAppend ==
  ASSUME NEW s \in Seq(Byte), s # <<>>, NEW c \in Byte
  PROVE  ReadHashtags(Append(s, c)) = NextChar(ReadHashtags(s), c)
<1> DEFINE n == Len(s) - 1
           more == Append(s, c)
<1>1. /\ more \in Seq(Byte) /\ Len(more) = Len(s) + 1 /\ more # <<>>
      /\ \A i \in 1 .. Len(s) : more[i] = s[i]
      /\ more[Len(s) + 1] = c
  BY AppendIs
<1>2. /\ n \in Nat /\ Len(s) = n + 1 /\ DOMAIN Tail(s) = 1 .. n
      /\ \A i \in 0 .. n - 1 : Tail(s)[i + 1] = s[i + 2]
  <2>1. /\ n \in Nat /\ DOMAIN Tail(s) = 1 .. n
        /\ \A i \in 0 .. Len(s) - 2 : Tail(s)[i + 1] = s[i + 2]
    BY TailIs
  <2>2. Len(s) = n + 1 /\ Len(s) - 2 = n - 1
    OBVIOUS
  <2> QED BY <2>1, <2>2
<1> HIDE DEF n, more
<1>3. /\ DOMAIN Tail(more) = 1 .. n + 1
      /\ \A i \in 0 .. n : Tail(more)[i + 1] = more[i + 2]
  <2>1. more \in Seq(Byte) /\ more # <<>>
    BY <1>1
  <2>2. /\ DOMAIN Tail(more) = 1 .. Len(more) - 1
        /\ \A i \in 0 .. Len(more) - 2 : Tail(more)[i + 1] = more[i + 2]
    BY <2>1, TailIs
  <2>3. Len(more) - 1 = n + 1 /\ Len(more) - 2 = n
    BY <1>1, <1>2
  <2> QED BY <2>2, <2>3
<1>4. PICK g : /\ g[0] = LoopStart
               /\ \A i \in 0 .. n - 1 : g[i + 1] = NextChar(g[i], Tail(s)[i + 1])
               /\ g[n] = ReadHashtags(s)
  BY <1>2, LoopSteps
<1>5. PICK h : /\ h[0] = LoopStart
               /\ \A i \in 0 .. n : h[i + 1] = NextChar(h[i], Tail(more)[i + 1])
               /\ h[n + 1] = ReadHashtags(more)
  <2> DEFINE m == n + 1
  <2>1. m \in Nat /\ m - 1 = n /\ DOMAIN Tail(more) = 1 .. m
    BY <1>2, <1>3
  <2> HIDE DEF m
  <2>2. PICK h : /\ h[0] = LoopStart
                 /\ \A i \in 0 .. m - 1 : h[i + 1] = NextChar(h[i], Tail(more)[i + 1])
                 /\ h[m] = ReadHashtags(more)
    BY <2>1, LoopSteps
  <2>3. \A i \in 0 .. n : h[i + 1] = NextChar(h[i], Tail(more)[i + 1])
    BY <2>1, <2>2
  <2>4. h[n + 1] = ReadHashtags(more)
    BY <2>2 DEF m
  <2> QED BY <2>2, <2>3, <2>4
<1> DEFINE S == {i \in Nat : h[i] = g[i]}
<1>6. 0 \in S
  BY <1>4, <1>5
<1>7. ASSUME NEW i \in 0 .. n, i < n, i \in S
      PROVE  i + 1 \in S
  <2>1. i \in 0 .. n - 1 /\ i + 1 \in Nat /\ i + 2 \in 1 .. Len(s)
    BY <1>2, <1>7
  <2>2. g[i + 1] = NextChar(g[i], s[i + 2])
    BY <1>2, <1>4, <2>1
  <2>3. h[i + 1] = NextChar(h[i], more[i + 2])
    BY <1>3, <1>5
  <2>4. more[i + 2] = s[i + 2]
    BY <1>1, <2>1
  <2> QED
    BY <1>7, <2>1, <2>2, <2>3, <2>4
<1>8. n \in S
  <2> HIDE DEF S
  <2>1. 0 .. n \subseteq S
    BY <1>2, <1>6, <1>7, BoundedInduction
  <2> QED BY <1>2, <2>1
<1>9. h[n + 1] = NextChar(h[n], more[n + 2])
  <2>1. n \in 0 .. n
    BY <1>2
  <2> QED BY <1>3, <1>5, <2>1
<1>10. more[n + 2] = c
  <2>1. n + 2 = Len(s) + 1
    BY <1>2
  <2> QED BY <1>1, <2>1
<1>11. ReadHashtags(more) = NextChar(ReadHashtags(s), c)
  BY <1>4, <1>5, <1>8, <1>9, <1>10
<1> QED
  BY <1>11 DEF more

Tags(v) == v \in Seq(Seq(Alnum)) /\ \A i \in 1 .. Len(v) : v[i] # <<>>

LEMMA TagsSplit ==
  ASSUME NEW v, Tags(v), v # <<>>
  PROVE  \E w, t : /\ Tags(w) /\ t \in Seq(Alnum) /\ t # <<>>
                   /\ v = Append(w, t) /\ Len(v) = Len(w) + 1
<1> DEFINE n == Len(v)
           w == SubSeq(v, 1, n - 1)
           t == v[n]
<1>1. v \in Seq(Seq(Alnum)) /\ \A i \in 1 .. n : v[i] # <<>>
  BY DEF Tags
<1>2. /\ n \in Nat \ {0} /\ w \in Seq(Seq(Alnum)) /\ Len(w) = n - 1
      /\ t \in Seq(Alnum) /\ v = Append(w, t)
  <2>1. v \in Seq(Seq(Alnum))
    BY <1>1
  <2> QED BY <2>1, LastTag
<1>3. \A i \in 1 .. n - 1 : w[i] = v[i]
  <2>1. n - 1 \in 0 .. Len(v) /\ v \in Seq(Seq(Alnum))
    BY <1>1, <1>2
  <2> QED BY <2>1, PrefixIs
<1>4. t # <<>>
  <2> HIDE DEF n, w
  <2>1. n \in 1 .. n
    BY <1>2
  <2>2. \A i \in 1 .. n : v[i] # <<>>
    BY <1>1
  <2> QED BY <2>1, <2>2
<1> HIDE DEF w, t, n
<1>5. Tags(w)
  <2>1. \A i \in 1 .. Len(w) : i \in 1 .. n /\ i \in 1 .. n - 1
    BY <1>2
  <2> QED BY <1>1, <1>2, <1>3, <2>1 DEF Tags
<1>6. Len(v) = Len(w) + 1
  BY <1>2 DEF n
<1> QED
  BY <1>2, <1>4, <1>5, <1>6

LEMMA WordSplit ==
  ASSUME NEW u \in Seq(Alnum), u # <<>>
  PROVE  \E x \in Seq(Alnum), c \in Alnum : u = Append(x, c)
<1>1. /\ SubSeq(u, 1, Len(u) - 1) \in Seq(Alnum) /\ u[Len(u)] \in Alnum
      /\ u = Append(SubSeq(u, 1, Len(u) - 1), u[Len(u)])
  BY LastTag
<1> QED
  BY <1>1

LEMMA TagRead ==
  ASSUME NEW v, Tags(v), Len(v) <= MAX_HASHTAG_CNT, NEW u \in Seq(Alnum)
  PROVE  ReadHashtags(Hashtagged(Append(v, u))) = Reading(v, u, IF u = <<>> THEN 1 ELSE 0)
<1> DEFINE Good(w, x) == ReadHashtags(Hashtagged(Append(w, x)))
                            = Reading(w, x, IF x = <<>> THEN 1 ELSE 0)
           Size(w, x) == Len(Hashtagged(Append(w, x)))
           S == {n \in Nat : \A w \in Seq(Seq(Alnum)), x \in Seq(Alnum) :
                   Tags(w) /\ Len(w) <= MAX_HASHTAG_CNT /\ Size(w, x) = n => Good(w, x)}
<1>1. ASSUME NEW w \in Seq(Seq(Alnum)), NEW x \in Seq(Alnum)
      PROVE  /\ Hashtagged(Append(w, x)) \in Seq(Byte) /\ Size(w, x) \in Nat \ {0}
             /\ Hashtagged(Append(w, x)) # <<>>
             /\ Size(w, x) = Len(Hashtagged(w)) + 1 + Len(x)
  <2> DEFINE a == Hashtagged(Append(w, x))
             b == Hashtagged(w)
  <2>1. a \in Seq(Byte) /\ b \in Seq(Byte) /\ Len(a) = Len(b) + 1 + Len(x)
    BY AppendTag
  <2> HIDE DEF a, b
  <2>2. Len(a) \in Nat \ {0} /\ a # <<>>
    BY <2>1
  <2> QED BY <2>1, <2>2 DEF a, b
<1>2. 0 \in S
  BY <1>1
<1>3. ASSUME NEW n \in Nat, n \in S
      PROVE  n + 1 \in S
  <2>1. ASSUME NEW w \in Seq(Seq(Alnum)), NEW x \in Seq(Alnum),
               Tags(w), Len(w) <= MAX_HASHTAG_CNT, Size(w, x) = n + 1
        PROVE  Good(w, x)
    <3>1. CASE x # <<>>
      <4>1. PICK y \in Seq(Alnum), c \in Alnum : x = Append(y, c)
        BY <3>1, WordSplit
      <4> DEFINE s == Hashtagged(Append(w, y))
      <4>2. s \in Seq(Byte) /\ s # <<>>
        BY <1>1
      <4>3. Hashtagged(Append(w, x)) = Append(s, c)
        <5>1. Hashtagged(Append(w, Append(y, c))) = s \o <<c>>
          BY AppendChar
        <5>2. c \in Byte
          BY DEF Alnum
        <5> HIDE DEF s
        <5>3. Append(s, c) = s \o <<c>>
          BY <4>2, <5>2, AppendIs
        <5> QED BY <4>1, <5>1, <5>3
      <4>4. Size(w, y) = n
        <5>1. Size(w, x) = Size(w, y) + 1
          <6>1. c \in Byte
            BY DEF Alnum
          <6> HIDE DEF s
          <6>2. Len(Append(s, c)) = Len(s) + 1
            BY <4>2, <6>1, AppendIs
          <6> QED BY <4>3, <6>2 DEF s
        <5>2. Size(w, y) \in Nat
          BY <1>1
        <5> HIDE DEF Size
        <5> QED BY <2>1, <5>1, <5>2
      <4>5. Good(w, y)
        BY <1>3, <2>1, <4>4
      <4> DEFINE h == IF y = <<>> THEN 1 ELSE 0
      <4>6. ReadHashtags(s) = Reading(w, y, h) /\ h \in Nat
        BY <4>5
      <4>7. c \in Byte
        BY DEF Alnum
      <4> HIDE DEF s, h
      <4>8. ReadHashtags(Append(s, c)) = NextChar(Reading(w, y, h), c)
        BY <4>2, <4>6, <4>7, ReadAppend
      <4>9. NextChar(Reading(w, y, h), c) = Reading(w, Append(y, c), 0)
        BY <4>6, <4>7, NextCharIs
      <4> QED
        BY <3>1, <4>1, <4>3, <4>8, <4>9
    <3>2. CASE x = <<>> /\ w # <<>>
      <4>1. PICK v1, t : /\ Tags(v1) /\ t \in Seq(Alnum) /\ t # <<>>
                         /\ w = Append(v1, t) /\ Len(w) = Len(v1) + 1
        BY <2>1, <3>2, TagsSplit
      <4>2. v1 \in Seq(Seq(Alnum)) /\ Len(v1) \in Nat
        BY <4>1 DEF Tags
      <4>3. Len(v1) < MAX_HASHTAG_CNT /\ Len(v1) <= MAX_HASHTAG_CNT
        BY <2>1, <4>1, <4>2, ClientParserAssumption
      <4> DEFINE s == Hashtagged(Append(v1, t))
      <4>4. s \in Seq(Byte) /\ s # <<>>
        BY <1>1, <4>1, <4>2
      <4>5. Hashtagged(Append(w, x)) = Append(s, Hash)
        <5>1. Hashtagged(Append(w, x)) = Hashtagged(w) \o <<Hash>>
          BY <3>2, AppendTag
        <5>2. Hashtagged(w) = s
          BY <4>1
        <5>3. Hash \in Byte
          BY Chars
        <5> HIDE DEF s
        <5>4. Append(s, Hash) = s \o <<Hash>>
          BY <4>4, <5>3, AppendIs
        <5> QED BY <5>1, <5>2, <5>4
      <4>6. Size(v1, t) = n
        <5>1. Size(w, x) = Size(v1, t) + 1
          <6>1. Hash \in Byte
            BY Chars
          <6> HIDE DEF s
          <6>2. Len(Append(s, Hash)) = Len(s) + 1
            BY <4>4, <6>1, AppendIs
          <6> QED BY <4>5, <6>2 DEF s
        <5>2. Size(v1, t) \in Nat
          BY <1>1, <4>1, <4>2
        <5> HIDE DEF Size
        <5> QED BY <2>1, <5>1, <5>2
      <4>7. Good(v1, t)
        BY <1>3, <4>1, <4>2, <4>3, <4>6
      <4>8. ReadHashtags(s) = Reading(v1, t, 0)
        BY <4>1, <4>7
      <4>9. Hash \in Byte
        BY Chars
      <4> HIDE DEF s
      <4>10. ReadHashtags(Append(s, Hash)) = NextChar(Reading(v1, t, 0), Hash)
        BY <4>4, <4>8, <4>9, ReadAppend
      <4>11. NextChar(Reading(v1, t, 0), Hash) = Reading(Append(v1, t), <<>>, 1)
        <5>1. 0 \in Nat
          OBVIOUS
        <5> QED BY <4>1, <4>2, <4>3, <4>9, <5>1, NextCharIs
      <4> QED
        BY <3>2, <4>1, <4>5, <4>10, <4>11
    <3>3. CASE x = <<>> /\ w = <<>>
      <4> DEFINE s == Hashtagged(Append(w, x))
      <4>1. s = <<Hash>>
        <5>1. s = Hashtagged(w) \o <<Hash>>
          BY <3>3, AppendTag
        <5>2. <<Hash>> \in Seq(Byte)
          BY Chars, OneChar
        <5>3. <<>> \o <<Hash>> = <<Hash>>
          BY <5>2, ConcatEmptySeq
        <5> QED BY <3>3, <5>1, <5>3, HashtaggedEmpty
      <4>2. DOMAIN Tail(s) = 1 .. 0
        BY <4>1
      <4> HIDE DEF s
      <4>3. ReadHashtags(s) = LoopStart
        BY <4>2, LoopSteps
      <4>4. LoopStart = Reading(<<>>, <<>>, 1)
        BY DEF LoopStart, Reading
      <4> QED
        BY <3>3, <4>3, <4>4 DEF s
    <3> QED
      BY <3>1, <3>2, <3>3
  <2> HIDE DEF Good, Size
  <2> QED BY <2>1
<1>4. Nat \subseteq S
  <2> HIDE DEF S
  <2> QED BY <1>2, <1>3, Induction
<1>5. v \in Seq(Seq(Alnum)) /\ Size(v, u) \in Nat
  BY <1>1 DEF Tags
<1>6. Good(v, u)
  <2> HIDE DEF Good, Size
  <2> QED BY <1>4, <1>5
<1> QED
  BY <1>6

LEMMA HashFirst ==
  ASSUME NEW v, Tags(v), v # <<>>
  PROVE  Hashtagged(v) # <<>> /\ Hashtagged(v)[1] = Hash
<1> DEFINE Starts(w) == w # <<>> => Hashtagged(w) # <<>> /\ Hashtagged(w)[1] = Hash
           S == {n \in Nat : \A w \in Seq(Seq(Alnum)) : Tags(w) /\ Len(w) = n => Starts(w)}
<1>1. 0 \in S
  OBVIOUS
<1>2. ASSUME NEW n \in Nat, n \in S
      PROVE  n + 1 \in S
  <2>1. ASSUME NEW w \in Seq(Seq(Alnum)), Tags(w), Len(w) = n + 1, w # <<>>
        PROVE  Hashtagged(w) # <<>> /\ Hashtagged(w)[1] = Hash
    <3>1. PICK x, t : /\ Tags(x) /\ t \in Seq(Alnum) /\ t # <<>>
                      /\ w = Append(x, t) /\ Len(w) = Len(x) + 1
      BY <2>1, TagsSplit
    <3>2. x \in Seq(Seq(Alnum)) /\ Len(x) = n
      BY <2>1, <3>1 DEF Tags
    <3> DEFINE a == Hashtagged(x)
               b == Cons(Hash, t)
    <3>3. a \in Seq(Byte) /\ Hashtagged(w) = a \o b
      BY <3>1, <3>2, AppendTag DEF Cons
    <3>4. b \in Seq(Byte) /\ b[1] = Hash /\ Len(b) = Len(t) + 1
      <4>1. Hash \in Byte /\ t \in Seq(Byte)
        BY <3>1, Chars, AlnumIsByte
      <4> QED BY <4>1, ConsIs
    <3>5. Starts(x)
      BY <1>2, <3>1, <3>2
    <3>6. CASE x = <<>>
      <4>1. a \o b = b
        BY <3>4, <3>6, HashtaggedEmpty, ConcatEmptySeq
      <4>2. b # <<>>
        <5>1. Len(t) \in Nat
          BY <3>1
        <5> HIDE DEF b
        <5> QED BY <3>4, <5>1
      <4> QED BY <3>3, <3>4, <4>1, <4>2
    <3>7. CASE x # <<>>
      <4>1. a # <<>> /\ a[1] = Hash
        BY <3>5, <3>7
      <4> HIDE DEF a, b
      <4>2. /\ Len(a \o b) = Len(a) + Len(b)
            /\ \A i \in 1 .. Len(a) : (a \o b)[i] = a[i]
        <5>1. a \in Seq(Byte) /\ b \in Seq(Byte)
          BY <3>3, <3>4
        <5> QED BY <5>1, Concat
      <4>3. Len(a) \in Nat \ {0} /\ Len(b) \in Nat
        <5>1. a \in Seq(Byte) /\ b \in Seq(Byte)
          BY <3>3, <3>4
        <5> QED BY <4>1, <5>1
      <4>4. 1 \in 1 .. Len(a) /\ Len(a \o b) # 0
        BY <4>2, <4>3
      <4>5. (a \o b)[1] = Hash
        BY <4>1, <4>2, <4>4
      <4>6. a \o b # <<>>
        BY <4>4
      <4> QED BY <3>3, <4>5, <4>6
    <3> QED BY <3>6, <3>7
  <2> QED BY <2>1
<1>3. Nat \subseteq S
  <2> HIDE DEF S
  <2> QED BY <1>1, <1>2, Induction
<1>4. v \in Seq(Seq(Alnum)) /\ Len(v) \in Nat
  BY DEF Tags
<1>5. Starts(v)
  <2> HIDE DEF Starts
  <2> QED BY <1>3, <1>4
<1> QED
  BY <1>5

LEMMA LastOfConcat ==
  ASSUME NEW S, NEW a \in Seq(S), NEW b \in Seq(S), b # <<>>
  PROVE  Last(a \o b) = Last(b)
<1> DEFINE w == a \o b
<1>1. Len(w) = Len(a) + Len(b) /\ \A i \in 1 .. Len(b) : w[Len(a) + i] = b[i]
  BY Concat
<1>2. Len(b) \in 1 .. Len(b) /\ Len(a) \in Nat
  OBVIOUS
<1> HIDE DEF w
<1>3. w[Len(w)] = b[Len(b)]
  BY <1>1, <1>2
<1> QED
  BY <1>3 DEF Last, w

(* Well-formed hashtags are accepted, and are what is read.                *)
LEMMA ParsedBack ==
  ASSUME NEW tags, Tags(tags), tags # <<>>, Len(tags) <= MAX_HASHTAG_CNT, IsInjective(tags),
         Len(Hashtagged(tags)) <= MAX_HASHTAG_LEN
  PROVE  /\ parse_hashtags(Hashtagged(tags)).ok
         /\ parse_hashtags(Hashtagged(tags)).valid = tags
<1> DEFINE s == Hashtagged(tags)
           p == parse_hashtags(s)
           l == ReadHashtags(s)
           all == Append(l.valid, l.current)
           failed == l.error \/ Len(l.valid) = MAX_HASHTAG_CNT
<1>1. PICK v, u : /\ Tags(v) /\ u \in Seq(Alnum) /\ u # <<>>
                  /\ tags = Append(v, u) /\ Len(tags) = Len(v) + 1
  BY TagsSplit
<1>2. v \in Seq(Seq(Alnum)) /\ Len(v) \in Nat /\ tags \in Seq(Seq(Alnum))
  BY <1>1 DEF Tags
<1>3. Len(v) <= MAX_HASHTAG_CNT /\ Len(v) # MAX_HASHTAG_CNT
  BY <1>1, <1>2, ClientParserAssumption
<1>4. l = Reading(v, u, 0)
  <2>1. ReadHashtags(Hashtagged(Append(v, u))) = Reading(v, u, IF u = <<>> THEN 1 ELSE 0)
    BY <1>1, <1>3, TagRead
  <2> QED BY <1>1, <2>1
<1>5. l.valid = v /\ l.current = u /\ ~ l.error
  <2>1. 0 \in Nat
    OBVIOUS
  <2> HIDE DEF l
  <2> QED BY <1>1, <1>2, <1>4, <2>1, FieldsOfState
<1>6. ~ Unreadable(s)
  <2>1. s \in Seq(Byte) /\ Len(s) = Len(Hashtagged(v)) + 1 + Len(u)
    BY <1>1, <1>2, AppendTag
  <2>2. Len(Hashtagged(v)) \in Nat /\ Len(u) \in Nat \ {0}
    <3>1. Hashtagged(v) \in Seq(Byte)
      BY <1>1, <1>2, AppendTag
    <3>2. Len(Hashtagged(v)) \in Nat
      BY <3>1
    <3>3. Len(u) \in Nat \ {0}
      BY <1>1
    <3> QED BY <3>2, <3>3
  <2>3. Len(s) \in 2 .. MAX_HASHTAG_LEN
    <3>1. MAX_HASHTAG_LEN \in Nat /\ Len(s) <= MAX_HASHTAG_LEN
      BY ClientParserAssumption
    <3> HIDE DEF s
    <3> QED BY <2>1, <2>2, <3>1
  <2>4. s[1] = Hash
    BY HashFirst
  <2>5. Last(s) # Hash
    <3> DEFINE a == Hashtagged(v) \o <<Hash>>
    <3>1. a \in Seq(Byte) /\ s = a \o u
      <4>1. Hashtagged(v) \in Seq(Byte) /\ s = a \o u
        BY <1>1, <1>2, AppendTag
      <4>2. <<Hash>> \in Seq(Byte)
        BY Chars, OneChar
      <4>3. a \in Seq(Byte)
        BY <4>1, <4>2, ConcatProperties
      <4> QED BY <4>1, <4>3
    <3> HIDE DEF a
    <3>2. u \in Seq(Byte)
      BY <1>1, AlnumIsByte
    <3>3. Last(a \o u) = Last(u)
      BY <1>1, <3>1, <3>2, LastOfConcat
    <3>4. Last(u) \in Alnum
      BY <1>1 DEF Last
    <3> QED BY <3>1, <3>3, <3>4, Chars
  <2> HIDE DEF s
  <2> QED BY <2>3, <2>4, <2>5 DEF Unreadable
<1>7. /\ ~ Unreadable(s) /\ ~ failed => p.ok = (~ has_duplicate_string(all)) /\ p.valid = all
  BY ParseCases
<1>8. ~ failed /\ all = tags
  <2> HIDE DEF l
  <2> QED BY <1>1, <1>3, <1>5
<1>9. ~ has_duplicate_string(tags)
  <2>1. \A i \in DOMAIN tags : i \in Nat
    BY <1>2
  <2> QED BY <2>1 DEF has_duplicate_string, IsInjective
<1> HIDE DEF p, failed, all
<1> QED
  BY <1>6, <1>7, <1>8, <1>9 DEF p

-----------------------------------------------------------------------------
(* The loop                                                                *)

(* ReadCommand's LET, one operator for each of its definitions.            *)
Input == get_client_input(stdin)
Command(memory) == parse_client_command(Input.clientInput, memory)
RequestRead(memory) == IF Input.ok THEN RequestOf(Command(memory)) ELSE NoRequest
OverrunRead(memory) == IF Input.ok THEN Overrun(Input.clientInput, memory) ELSE NoOverrun

LEMMA ReadCommandIs ==
  ASSUME NEW memory, ReadCommand(memory)
  PROVE  /\ pc \in {"prompt", "typed"} /\ stdin # <<>>
         /\ stdin' = Input.rest
         /\ overrun' = OverrunRead(memory)
         /\ RequestRead(memory) = NoRequest => Prompt
         /\ RequestRead(memory) # NoRequest =>
              /\ pc' = "sent"
              /\ request' = RequestRead(memory)
              /\ UNCHANGED <<line, meant>>
BY DEF ReadCommand, Input, Command, RequestRead, OverrunRead

LEMMA InputIs ==
  ASSUME NEW s \in Seq(1 .. 255)
  PROVE  /\ get_client_input(s).clientInput \in Seq(1 .. 255)
         /\ get_client_input(s).rest \in Seq(1 .. 255)
<1> DEFINE l == Before(s, Newline)
           T == 1 .. 255
           i == get_client_input(s)
           j == [ok |-> TRUE, clientInput |-> l, rest |-> From(s, Len(l) + 2)]
           k == [ok |-> FALSE, clientInput |-> <<>>, rest |-> From(s, MAX_CLI_INPUT_LEN - 3)]
<1>1. i = IF Len(l) <= MAX_CLI_INPUT_LEN - 5 THEN j ELSE k
  BY DEF get_client_input
<1>2. s \in Seq(T)
  OBVIOUS
<1> HIDE DEF T
<1>3. l \in Seq(T)
  BY <1>2, BeforeIs
<1> HIDE DEF l
<1>4. Len(l) + 2 \in Nat \ {0}
  BY <1>3
<1>5. MAX_CLI_INPUT_LEN - 3 \in Nat \ {0}
  BY ClientParserAssumption
<1>6. From(s, Len(l) + 2) \in Seq(T) /\ From(s, MAX_CLI_INPUT_LEN - 3) \in Seq(T)
  BY <1>2, <1>4, <1>5, FromIs
<1>7. j.clientInput \in Seq(T) /\ j.rest \in Seq(T) /\ k.clientInput \in Seq(T) /\ k.rest \in Seq(T)
  BY <1>3, <1>6
<1> HIDE DEF j, k, i
<1>8. i.clientInput \in Seq(T) /\ i.rest \in Seq(T)
  BY <1>1, <1>7
<1> QED
  BY <1>8 DEF i, T

OverrunNames == {"clientCommand", "ttweetString", "inputHashtags"}

Overruns(o) ==
  /\ o \in [OverrunNames -> Nat]
  /\ o.clientCommand <= 1 /\ o.ttweetString <= 1 /\ o.inputHashtags <= 2

LEMMA NoOverrunIs ==
  Overruns(NoOverrun) /\ NoOverrun.clientCommand = 0
BY DEF Overruns, OverrunNames, NoOverrun

LEMMA PastEndIs ==
  ASSUME NEW n \in Nat, NEW size \in Nat, NEW more \in Nat, n <= size + more
  PROVE  PastEnd(n, size) \in Nat /\ PastEnd(n, size) <= more
BY DEF PastEnd

(* For any command, whether or not it is accepted; a known word stays      *)
(* inside clientCommand.                                                   *)
LEMMA OverrunIs ==
  ASSUME NEW clientInput \in Seq(Byte), NEW memory \in Seq(Byte)
  PROVE  /\ Overruns(Overrun(clientInput, memory))
         /\ Before(clientInput, Space) \in WordSet =>
              Overrun(clientInput, memory).clientCommand = 0
<1> DEFINE word == Before(clientInput, Space)
           s == BehindWord(clientInput, memory)
           subscription == word \in {Word.subscribe, Word.unsubscribe}
           tweet == word = Word.tweet /\ HashtagsFollow(s)
           copied == CopyHashtags(s).bytes
           follow == CopyHashtags(From(BehindMessage(s), 2)).bytes
           x == IF Len(word) <= COMMAND_LEN THEN PastEnd(Len(word) + 1, COMMAND_LEN) ELSE 0
           y == IF word = Word.tweet /\ MessageRead(s)
                  THEN PastEnd(Len(Message(s)) + 1, MAX_TWEET_LEN)
                  ELSE 0
           z == CASE subscription -> PastEnd(copied, MAX_HASHTAG_LEN)
                  [] tweet -> PastEnd(follow, MAX_HASHTAG_LEN)
                  [] OTHER -> 0
           o == Overrun(clientInput, memory)
<1>1. o = [clientCommand |-> x, ttweetString |-> y, inputHashtags |-> z]
  BY DEF Overrun
<1>2. s \in Seq(Byte)
  BY BehindWordType
<1>3. Message(s) \in Seq(Byte) /\ From(BehindMessage(s), 2) \in Seq(Byte)
  <2> HIDE DEF s
  <2> QED BY <1>2, MessageType
<1>4. Len(word) \in Nat
  <2>1. Before(clientInput, Space) \in Seq(Byte)
    BY BeforeIs
  <2> QED BY <2>1
<1>5. word \in WordSet => Len(word) = 1
  <2> HIDE DEF word
  <2> QED BY WordIs
<1>6. /\ copied \in Nat /\ copied <= MAX_HASHTAG_LEN + 2
      /\ follow \in Nat /\ follow <= MAX_HASHTAG_LEN + 2
  <2> HIDE DEF s
  <2> QED BY <1>2, <1>3, CopiedSound
<1> HIDE DEF o, word
<1>7. COMMAND_LEN \in Nat /\ COMMAND_LEN > 1 /\ MAX_TWEET_LEN \in Nat /\ MAX_HASHTAG_LEN \in Nat
  BY ClientParserAssumption
<1>8. x \in Nat /\ x <= 1
  BY <1>4, <1>7 DEF PastEnd
<1>9. word \in WordSet => x = 0
  <2>1. ASSUME word \in WordSet
        PROVE  x = 0
    <3>1. Len(word) = 1
      BY <1>5, <2>1
    <3>2. PastEnd(1 + 1, COMMAND_LEN) = 0
      BY <1>7 DEF PastEnd
    <3> QED BY <1>7, <3>1, <3>2
  <2> QED BY <2>1
<1>10. y \in Nat /\ y <= 1
  <2> HIDE DEF s
  <2>1. MessageRead(s) => Len(Message(s)) <= MAX_TWEET_LEN
    BY <1>7 DEF MessageRead
  <2>2. Len(Message(s)) \in Nat
    BY <1>3
  <2> QED BY <1>7, <2>1, <2>2 DEF PastEnd
<1> HIDE DEF copied, follow, subscription, tweet
<1>11. /\ PastEnd(copied, MAX_HASHTAG_LEN) \in Nat /\ PastEnd(copied, MAX_HASHTAG_LEN) <= 2
       /\ PastEnd(follow, MAX_HASHTAG_LEN) \in Nat /\ PastEnd(follow, MAX_HASHTAG_LEN) <= 2
  BY <1>6, <1>7, PastEndIs
<1>12. z \in Nat /\ z <= 2
  BY <1>11
<1> HIDE DEF x, y, z
<1>13. o.clientCommand = x /\ o.ttweetString = y /\ o.inputHashtags = z
       /\ o \in [OverrunNames -> Nat]
  BY <1>1, <1>8, <1>10, <1>12 DEF OverrunNames
<1>14. Overruns(o) /\ (word \in WordSet => o.clientCommand = 0)
  BY <1>8, <1>9, <1>10, <1>12, <1>13 DEF Overruns
<1> QED
  BY <1>14 DEF o, word

LEMMA StringTypes ==
  /\ Seq(1 .. 255) \subseteq Seq(Byte)
  /\ Seq(Typable) \subseteq Seq(1 .. 255) /\ Seq(Typable) \subseteq Seq(Byte)
<1> DEFINE T == 1 .. 255
<1>1. T \subseteq Byte /\ Typable \subseteq T /\ Typable \subseteq Byte
  BY Chars
<1> HIDE DEF T
<1>2. Seq(T) \subseteq Seq(Byte)
  BY <1>1, SeqOfPart
<1>3. Seq(Typable) \subseteq Seq(T) /\ Seq(Typable) \subseteq Seq(Byte)
  BY <1>1, SeqOfPart
<1> QED
  BY <1>2, <1>3 DEF T

(* What is not refused starts with a known word.                           *)
LEMMA KnownWord ==
  ASSUME NEW clientInput, NEW memory,
         RequestOf(parse_client_command(clientInput, memory)) # NoRequest
  PROVE  Before(clientInput, Space) \in WordSet
<1>1. Before(clientInput, Space) \notin WordSet =>
        parse_client_command(clientInput, memory) = Invalid
  BY ParseCommandCases
<1>2. Invalid.code = REQ_INVALID
  BY DEF Invalid
<1>3. RequestOf(Invalid) = NoRequest
  BY <1>2, RequestCases
<1> QED
  BY <1>1, <1>3

LEMMA TurnSound ==
  ASSUME NEW memory \in Memories, stdin \in Seq(1 .. 255)
  PROVE  /\ Input.rest \in Seq(1 .. 255)
         /\ Overruns(OverrunRead(memory))
         /\ RequestRead(memory) # NoRequest =>
              SoundRequest(RequestRead(memory)) /\ OverrunRead(memory).clientCommand = 0
<1>1. Input.clientInput \in Seq(1 .. 255) /\ Input.rest \in Seq(1 .. 255)
  BY InputIs DEF Input
<1>2. Input.clientInput \in Seq(Byte)
  BY <1>1, StringTypes
<1>3. memory \in Seq(Byte)
  BY ClientLoopAssumption
<1>4. SoundCommand(Command(memory))
  BY <1>2, <1>3, CommandSound DEF Command
<1>5. RequestOf(Command(memory)) = NoRequest \/ SoundRequest(RequestOf(Command(memory)))
  BY <1>4, RequestSound
<1>6. Overruns(OverrunRead(memory))
  BY <1>2, <1>3, OverrunIs, NoOverrunIs DEF OverrunRead
<1>7. ASSUME RequestRead(memory) # NoRequest
      PROVE  OverrunRead(memory).clientCommand = 0
  <2>1. Input.ok /\ RequestOf(Command(memory)) # NoRequest
    BY <1>7 DEF RequestRead
  <2>2. Before(Input.clientInput, Space) \in WordSet
    BY <2>1, KnownWord DEF Command
  <2> QED BY <1>2, <1>3, <2>1, <2>2, OverrunIs DEF OverrunRead
<1> QED
  BY <1>1, <1>5, <1>6, <1>7 DEF RequestRead

(* What is sent, but for the first request, is sound.                      *)
Sendable(r) == r = ValidateRequest \/ SoundRequest(r)

RequestType ==
  [code : REQ_INVALID .. REQ_VALIDATE_USER,
   ttweetString : Seq(1 .. 255), validHashtags : Seq(Seq(1 .. 255))]

LEMMA NoRequestIs ==
  /\ NoRequest.code = REQ_INVALID /\ NoRequest.ttweetString = <<>>
  /\ NoRequest.validHashtags = <<>>
  /\ ValidateRequest.code = REQ_VALIDATE_USER /\ ValidateRequest.ttweetString = <<>>
  /\ ValidateRequest.validHashtags = <<>>
  /\ NoRequest \in RequestType /\ ValidateRequest \in RequestType
<1> DEFINE A == Seq(1 .. 255)
           B == Seq(Seq(1 .. 255))
           D == REQ_INVALID .. REQ_VALIDATE_USER
<1>1. <<>> \in A /\ <<>> \in B /\ REQ_INVALID \in D /\ REQ_VALIDATE_USER \in D
  BY DEF REQ_INVALID, REQ_VALIDATE_USER
<1>2. ValidateRequest =
        [code |-> REQ_VALIDATE_USER, ttweetString |-> <<>>, validHashtags |-> <<>>]
  BY DEF ValidateRequest, NoRequest
<1> HIDE DEF A, B, D
<1>3. /\ NoRequest \in [code : D, ttweetString : A, validHashtags : B]
      /\ ValidateRequest \in [code : D, ttweetString : A, validHashtags : B]
  BY <1>1, <1>2 DEF NoRequest
<1>4. NoRequest \in RequestType /\ ValidateRequest \in RequestType
  BY <1>3 DEF A, B, D, RequestType
<1>5. /\ NoRequest.code = REQ_INVALID /\ NoRequest.ttweetString = <<>>
      /\ NoRequest.validHashtags = <<>>
  BY DEF NoRequest
<1>6. /\ ValidateRequest.code = REQ_VALIDATE_USER /\ ValidateRequest.ttweetString = <<>>
      /\ ValidateRequest.validHashtags = <<>>
  BY <1>2
<1> QED
  BY <1>4, <1>5, <1>6

LEMMA SendableType ==
  ASSUME NEW r, Sendable(r)
  PROVE  r \in RequestType /\ Fits(r)
<1>1. CASE r = ValidateRequest
  <2>1. Len(<<>>) = 0 /\ ToSet(<<>>) = {}
    BY DEF ToSet
  <2>2. 0 <= MAX_HASHTAG_CNT /\ 0 <= MAX_TWEET_LEN
    BY ClientParserAssumption
  <2>3. r.code \notin {REQ_TWEET, REQ_SUBSCRIBE, REQ_UNSUBSCRIBE}
    BY <1>1, NoRequestIs
       DEF REQ_VALIDATE_USER, REQ_TWEET, REQ_SUBSCRIBE, REQ_UNSUBSCRIBE
  <2>4. r.ttweetString = <<>> /\ r.validHashtags = <<>>
    BY <1>1, NoRequestIs
  <2>5. Fits(r)
    BY <2>1, <2>2, <2>3, <2>4 DEF Fits
  <2> QED BY <1>1, <2>5, NoRequestIs
<1>2. CASE SoundRequest(r)
  <2>1. /\ r.code \in Codes \ {REQ_INVALID} /\ r.ttweetString \in Seq(1 .. 255)
        /\ r.validHashtags \in Seq(Seq(Alnum))
        /\ r = Request(r.code, r.ttweetString, r.validHashtags) /\ Fits(r)
    BY <1>2 DEF SoundRequest
  <2>2. r.code \in REQ_INVALID .. REQ_VALIDATE_USER
    BY <2>1 DEF Codes, REQ_INVALID, REQ_TWEET, REQ_SUBSCRIBE, REQ_UNSUBSCRIBE, REQ_TIMELINE,
                REQ_EXIT, REQ_VALIDATE_USER
  <2> DEFINE T == 1 .. 255
             A == Seq(T)
             B == Seq(Seq(T))
             D == REQ_INVALID .. REQ_VALIDATE_USER
  <2>3. r.validHashtags \in B
    <3>1. Alnum \subseteq T
      BY Chars
    <3> HIDE DEF T
    <3> QED BY <2>1, <3>1, TagsAreTypable
  <2>4. r.ttweetString \in A /\ r.code \in D
    BY <2>1, <2>2
  <2> HIDE DEF A, B, D
  <2>5. ASSUME NEW x \in D, NEW y \in A, NEW z \in B
        PROVE  Request(x, y, z) \in [code : D, ttweetString : A, validHashtags : B]
    BY DEF Request
  <2>6. r \in [code : D, ttweetString : A, validHashtags : B]
    BY <2>1, <2>3, <2>4, <2>5
  <2> QED BY <2>1, <2>6 DEF A, B, D, T, RequestType
<1> QED
  BY <1>1, <1>2 DEF Sendable

LEMMA SoundIsNoValidate ==
  ASSUME NEW r, SoundRequest(r)
  PROVE  r # NoRequest /\ r.code # REQ_VALIDATE_USER /\ r.code # REQ_INVALID
<1>1. r.code \in Codes \ {REQ_INVALID}
  BY DEF SoundRequest
<1> QED
  BY <1>1, NoRequestIs
     DEF Codes, REQ_INVALID, REQ_TWEET, REQ_SUBSCRIBE, REQ_UNSUBSCRIBE, REQ_TIMELINE,
         REQ_EXIT, REQ_VALIDATE_USER

-----------------------------------------------------------------------------
(* Well-formed requests                                                    *)

LEMMA WellFormedFields ==
  ASSUME NEW r, IsWellFormed(r)
  PROVE  /\ r.ttweetString \in Seq(Typable)
         /\ r.validHashtags \in Seq(Seq(Typable))
         /\ \A i \in 1 .. Len(r.validHashtags) : WellFormedTag(r.validHashtags[i])
         /\ r = Request(r.code, r.ttweetString, r.validHashtags)
<1> DEFINE A == Seq(Typable)
           B == Seq(Seq(Typable))
<1>1. r \in [code : Nat, ttweetString : A, validHashtags : B]
  BY DEF IsWellFormed
<1>2. \A t \in ToSet(r.validHashtags) : WellFormedTag(t)
  BY DEF IsWellFormed
<1>3. ASSUME NEW a, NEW b, r \in [code : Nat, ttweetString : a, validHashtags : b]
      PROVE  /\ r.ttweetString \in a /\ r.validHashtags \in b
             /\ r = Request(r.code, r.ttweetString, r.validHashtags)
  BY <1>3 DEF Request
<1> HIDE DEF A, B
<1>4. /\ r.ttweetString \in A /\ r.validHashtags \in B
      /\ r = Request(r.code, r.ttweetString, r.validHashtags)
  BY <1>1, <1>3
<1>5. \A i \in 1 .. Len(r.validHashtags) : r.validHashtags[i] \in ToSet(r.validHashtags)
  <2> DEFINE v == r.validHashtags
  <2>1. v \in Seq(Seq(Typable))
    BY <1>4 DEF B
  <2> HIDE DEF v
  <2>2. \A i \in 1 .. Len(v) : v[i] \in ToSet(v)
    BY <2>1 DEF ToSet
  <2> QED BY <2>2 DEF v
<1> QED
  BY <1>2, <1>4, <1>5 DEF A, B

LEMMA TagIs ==
  ASSUME NEW t \in Seq(Typable), WellFormedTag(t)
  PROVE  t \in Seq(Alnum) /\ t # <<>>
<1>1. Len(t) \in Nat /\ \A i \in 1 .. Len(t) : t[i] \in Typable /\ IsAlnum(t[i])
  BY DEF WellFormedTag
<1>2. \A i \in 1 .. Len(t) : t[i] \in Alnum
  BY <1>1, Chars DEF Alnum
<1>3. t = [i \in 1 .. Len(t) |-> t[i]]
  OBVIOUS
<1> DEFINE n == Len(t)
           f == [i \in 1 .. n |-> t[i]]
<1>4. n \in Nat /\ f \in [1 .. n -> Alnum]
  BY <1>1, <1>2
<1> HIDE DEF n, f
<1>5. f \in Seq(Alnum)
  BY <1>4
<1> QED
  BY <1>3, <1>5 DEF f, n, WellFormedTag

LEMMA TagsAre ==
  ASSUME NEW v \in Seq(Seq(Typable)), \A i \in 1 .. Len(v) : WellFormedTag(v[i])
  PROVE  Tags(v)
<1>1. Len(v) \in Nat /\ \A i \in 1 .. Len(v) : v[i] \in Seq(Typable)
  OBVIOUS
<1>2. \A i \in 1 .. Len(v) : v[i] \in Seq(Alnum) /\ v[i] # <<>>
  BY <1>1, TagIs
<1>3. v = [i \in 1 .. Len(v) |-> v[i]]
  OBVIOUS
<1> DEFINE n == Len(v)
           A == Seq(Alnum)
           f == [i \in 1 .. n |-> v[i]]
<1>4. n \in Nat /\ f \in [1 .. n -> A]
  BY <1>1, <1>2
<1> HIDE DEF n, f, A
<1>5. f \in Seq(A)
  BY <1>4
<1> QED
  BY <1>2, <1>3, <1>5 DEF f, n, A, Tags

(* A line of hashtags has neither a space nor a 0.                         *)
LEMMA TagLine ==
  ASSUME NEW v, Tags(v)
  PROVE  /\ Hashtagged(v) \in Seq(Typable) /\ Hashtagged(v) \in Seq(Byte)
         /\ \A i \in 1 .. Len(Hashtagged(v)) :
              Hashtagged(v)[i] # Space /\ Hashtagged(v)[i] # EndOfString
<1> DEFINE C == Alnum \cup {Hash}
           h == Hashtagged(v)
<1>1. Alnum \subseteq C /\ Hash \in C /\ C \subseteq Typable
  BY Chars
<1>2. Space \notin C /\ EndOfString \notin C
  BY Chars
<1> HIDE DEF C
<1>3. v \in Seq(Seq(C))
  <2>1. v \in Seq(Seq(Alnum))
    BY DEF Tags
  <2> QED BY <1>1, <2>1, TagsAreTypable
<1>4. h \in Seq(C)
  BY <1>1, <1>3, HashtaggedType
<1> HIDE DEF h
<1>5. \A i \in 1 .. Len(h) : h[i] \in C
  BY <1>4
<1>6. h \in Seq(Typable)
  BY <1>1, <1>4, SeqOfPart
<1>7. h \in Seq(Byte)
  BY <1>6, StringTypes
<1> QED
  BY <1>2, <1>5, <1>6, <1>7 DEF h

LEMMA RenderedCases ==
  ASSUME NEW r
  PROVE  /\ r.code = REQ_TWEET =>
              Rendered(r) = Word.tweet \o <<Space, QuoteMark>> \o r.ttweetString
                              \o <<QuoteMark, Space>> \o Hashtagged(r.validHashtags)
         /\ r.code = REQ_SUBSCRIBE =>
              Rendered(r) = Word.subscribe \o <<Space>> \o Hashtagged(r.validHashtags)
         /\ r.code = REQ_UNSUBSCRIBE =>
              Rendered(r) = Word.unsubscribe \o <<Space>> \o Hashtagged(r.validHashtags)
         /\ r.code = REQ_TIMELINE => Rendered(r) = Word.timeline
         /\ r.code = REQ_EXIT => Rendered(r) = Word.exit
<1> DEFINE a == Word.tweet \o <<Space, QuoteMark>> \o r.ttweetString
                  \o <<QuoteMark, Space>> \o Hashtagged(r.validHashtags)
           b == Word.subscribe \o <<Space>> \o Hashtagged(r.validHashtags)
           c == Word.unsubscribe \o <<Space>> \o Hashtagged(r.validHashtags)
           d == Word.timeline
           e == Word.exit
           n == <<>>
<1>1. Rendered(r) = CASE r.code = REQ_TWEET -> a [] r.code = REQ_SUBSCRIBE -> b
                      [] r.code = REQ_UNSUBSCRIBE -> c [] r.code = REQ_TIMELINE -> d
                      [] r.code = REQ_EXIT -> e [] OTHER -> n
  BY DEF Rendered
<1> HIDE DEF a, b, c, d, e, n
<1>2. /\ r.code = REQ_TWEET => Rendered(r) = a
      /\ r.code = REQ_SUBSCRIBE => Rendered(r) = b
      /\ r.code = REQ_UNSUBSCRIBE => Rendered(r) = c
      /\ r.code = REQ_TIMELINE => Rendered(r) = d
      /\ r.code = REQ_EXIT => Rendered(r) = e
  BY <1>1 DEF REQ_TWEET, REQ_SUBSCRIBE, REQ_UNSUBSCRIBE, REQ_TIMELINE, REQ_EXIT
<1> QED
  BY <1>2 DEF a, b, c, d, e

(* What follows the command word of a tweet.                               *)
Quoted(m, h) == Cons(QuoteMark, m \o Cons(QuoteMark, Cons(Space, h)))

(* The line for a tweet, char by char from the left.                       *)
LEMMA TwoChars ==
  ASSUME NEW c, NEW d
  PROVE  <<c, d>> = <<c>> \o <<d>>
<1> DEFINE S == {c, d}
           x == <<c, d>>
           a == <<c>>
           b == <<d>>
           y == a \o b
<1>1. x \in Seq(S) /\ Len(x) = 2 /\ x[1] = c /\ x[2] = d
  OBVIOUS
<1>2. a \in Seq(S) /\ b \in Seq(S) /\ Len(a) = 1 /\ Len(b) = 1 /\ a[1] = c /\ b[1] = d
  OBVIOUS
<1>3. 1 \in 1 .. 1 /\ 1 + 1 = 2
  OBVIOUS
<1> HIDE DEF x, a, b
<1>4. y \in Seq(S) /\ Len(y) = 2 /\ y[1] = a[1] /\ y[1 + 1] = b[1]
  <2>1. a \in Seq(S) /\ b \in Seq(S)
    BY <1>2
  <2>2. /\ y \in Seq(S) /\ Len(y) = Len(a) + Len(b)
        /\ \A i \in 1 .. Len(a) : y[i] = a[i]
        /\ \A i \in 1 .. Len(b) : y[Len(a) + i] = b[i]
    BY <2>1, Concat
  <2> HIDE DEF y
  <2> QED BY <1>2, <1>3, <2>2
<1> HIDE DEF y, S
<1>5. \A i \in 1 .. Len(y) : x[i] = y[i]
  BY <1>1, <1>2, <1>3, <1>4
<1>6. Len(x) = Len(y) /\ x \in Seq(S) /\ y \in Seq(S)
  BY <1>1, <1>4
<1>7. x = y
  BY <1>5, <1>6, SameSeq
<1> QED
  BY <1>7 DEF x, y, a, b

(* The line for a tweet, char by char from the left.                       *)
LEMMA TweetLine ==
  ASSUME NEW S, Space \in S, QuoteMark \in S,
         NEW w \in Seq(S), NEW m \in Seq(S), NEW h \in Seq(S)
  PROVE  /\ w \o <<Space, QuoteMark>> \o m \o <<QuoteMark, Space>> \o h =
              w \o Cons(Space, Quoted(m, h))
         /\ w \o Cons(Space, Quoted(m, h)) \in Seq(S)
<1> DEFINE x == <<Space, QuoteMark>>
           y == <<QuoteMark, Space>>
           a == <<Space>>
           b == <<QuoteMark>>
<1>0. Associative(S)
  BY RegroupAll
<1>1. a \in Seq(S) /\ b \in Seq(S)
  BY OneChar
<1>2. x = a \o b /\ y = b \o a
  BY TwoChars
<1> HIDE DEF x, y, a, b
<1>3. x \in Seq(S) /\ y \in Seq(S)
  BY <1>1, <1>2, Concat
<1> DEFINE p == a \o h
           q == y \o h
           z == m \o q
           c == b \o z
           v == w \o x
           vm == v \o m
<1>4. q = b \o p /\ q \in Seq(S)
  BY <1>1, <1>2, <1>3, Concat, Regroup, SMTT(40)
<1> HIDE DEF q
<1>5. z \in Seq(S)
  BY <1>4, Concat
<1> HIDE DEF z
<1>6. x \o z = a \o c
  <2>1. a \in Seq(S) /\ b \in Seq(S) /\ z \in Seq(S)
    BY <1>1, <1>5
  <2>2. (a \o b) \o z = a \o (b \o z)
    BY <1>0, <2>1, SMTT(60) DEF Associative
  <2> QED BY <1>2, <2>2
<1>7. x \o z \in Seq(S)
  BY <1>3, <1>5, Concat
<1> DEFINE xz == x \o z
<1>8. w \o xz \in Seq(S)
  <2> HIDE DEF xz
  <2>1. xz \in Seq(S)
    BY <1>7 DEF xz
  <2> QED BY <2>1, Concat
<1>9. v \in Seq(S)
  BY <1>3, Concat
<1>10. v \o z = w \o (x \o z)
  <2>1. w \in Seq(S) /\ x \in Seq(S) /\ z \in Seq(S)
    BY <1>3, <1>5
  <2>2. (w \o x) \o z = w \o (x \o z)
    BY <1>0, <2>1, Zenon DEF Associative
  <2> QED BY <2>2
<1> HIDE DEF v
<1>11. vm \in Seq(S)
  BY <1>9, Concat
<1>12. vm \o q = v \o z
  <2>1. v \in Seq(S) /\ m \in Seq(S) /\ q \in Seq(S)
    BY <1>4, <1>9
  <2>2. (v \o m) \o q = v \o (m \o q)
    BY <1>0, <2>1, ZenonT(60) DEF Associative
  <2> QED BY <2>2 DEF z
<1> HIDE DEF vm
<1>13. (vm \o y) \o h = vm \o q
  BY <1>3, <1>11, Regroup, SMTT(40) DEF q
<1>14. vm \o y \o h = w \o (a \o c)
  BY <1>6, <1>10, <1>12, <1>13
<1>15. w \o (a \o c) \in Seq(S)
  BY <1>6, <1>8
<1>16. c = b \o (m \o (b \o (a \o h)))
  BY <1>4 DEF z
<1> HIDE DEF c
<1> QED
  BY <1>14, <1>15, <1>16 DEF vm, v, x, y, a, b, Cons, Quoted

LEMMA LineRead ==
  ASSUME NEW l \in Seq(Typable), Len(l) <= MAX_CLI_INPUT_LEN - 5
  PROVE  /\ get_client_input(Append(l, Newline)).ok
         /\ get_client_input(Append(l, Newline)).clientInput = l
         /\ get_client_input(Append(l, Newline)).rest = <<>>
<1> DEFINE s == Append(l, Newline)
           b == Before(s, Newline)
           i == get_client_input(s)
           j == [ok |-> TRUE, clientInput |-> b, rest |-> From(s, Len(b) + 2)]
           k == [ok |-> FALSE, clientInput |-> <<>>, rest |-> From(s, MAX_CLI_INPUT_LEN - 3)]
<1>1. i = IF Len(b) <= MAX_CLI_INPUT_LEN - 5 THEN j ELSE k
  BY DEF get_client_input
<1>2. l \in Seq(Byte) /\ Newline \in Byte /\ <<>> \in Seq(Byte)
  <2>1. l \in Seq(Byte)
    BY StringTypes
  <2>2. Newline \in Byte
    BY Chars
  <2>3. <<>> \in Seq(Byte)
    OBVIOUS
  <2> QED BY <2>1, <2>2, <2>3
<1>3. \A n \in 1 .. Len(l) : l[n] # Newline
  BY DEF Typable
<1>4. s = l \o Cons(Newline, <<>>)
  <2> DEFINE z == <<Newline>>
  <2>1. s = l \o z
    BY <1>2, AppendIs
  <2>2. z \in Seq(Byte)
    BY <1>2, OneChar
  <2> HIDE DEF z, s
  <2>3. z \o <<>> = z
    BY <2>2, ConcatEmptySeq
  <2> QED BY <2>1, <2>3 DEF Cons, z
<1>5. b = l
  <2>1. Before(l \o Cons(Newline, <<>>), Newline) = l
    BY <1>2, <1>3, BeforeConcat
  <2> HIDE DEF s
  <2> QED BY <1>4, <2>1
<1>6. From(s, Len(l) + 2) = <<>>
  <2>1. s \in Seq(Byte) /\ Len(s) = Len(l) + 1
    BY <1>2, AppendIs
  <2>2. Len(l) + 2 \in Nat \ {0} /\ Len(l) \in Nat
    OBVIOUS
  <2> HIDE DEF s
  <2> DEFINE n == Len(l) + 2
             f == From(s, n)
  <2>3. ~ (n <= Len(s)) /\ n \in Nat \ {0}
    BY <2>1, <2>2
  <2> HIDE DEF n
  <2>4. f \in Seq(Byte) /\ Len(f) = 0
    BY <2>1, <2>3, FromIs
  <2> HIDE DEF f
  <2>5. f = <<>>
    BY <2>4
  <2> QED BY <2>5 DEF f, n
<1> HIDE DEF s, b
<1>7. j.ok = TRUE /\ j.clientInput = l /\ j.rest = <<>>
  BY <1>5, <1>6
<1>8. i = j
  BY <1>1, <1>5
<1> HIDE DEF i, j
<1>9. i.ok /\ i.clientInput = l /\ i.rest = <<>>
  BY <1>7, <1>8
<1> QED
  BY <1>9 DEF i, s

LEMMA CopiedBack ==
  ASSUME NEW h \in Seq(Byte), Len(h) <= MAX_HASHTAG_LEN,
         \A i \in 1 .. Len(h) : h[i] # Space /\ h[i] # EndOfString,
         NEW memory \in Seq(Byte)
  PROVE  /\ CopyHashtags(h \o Cons(EndOfString, memory)).ok
         /\ CopyHashtags(h \o Cons(EndOfString, memory)).s = h
         /\ CopyHashtags(h \o Cons(EndOfString, memory)).bytes = Len(h) + 1
<1> DEFINE s == h \o Cons(EndOfString, memory)
           g == CopyHashtags(s)
<1>1. EndOfString \in Byte
  BY Chars
<1>2. Before(s, EndOfString) = h
  BY <1>1, BeforeConcat
<1>3. s \in Seq(Byte)
  <2> DEFINE z == Cons(EndOfString, memory)
  <2>1. z \in Seq(Byte)
    BY <1>1, ConsIs
  <2> HIDE DEF z
  <2>2. h \o z \in Seq(Byte)
    BY <2>1, Concat
  <2> QED BY <2>2 DEF z
<1> HIDE DEF s
<1>4. /\ g.ok => g.s = Before(s, EndOfString) /\ g.bytes = Len(Before(s, EndOfString)) + 1
      /\ g.ok = (/\ Space \notin ToSet(Before(s, EndOfString))
                 /\ Len(Before(s, EndOfString)) <= MAX_HASHTAG_LEN + 1)
  BY <1>3, CopiedSound
<1> HIDE DEF g
<1>5. Space \notin ToSet(h)
  BY DEF ToSet
<1>6. Len(h) <= MAX_HASHTAG_LEN + 1
  BY ClientParserAssumption
<1>7. g.ok /\ g.s = h /\ g.bytes = Len(h) + 1
  BY <1>2, <1>4, <1>5, <1>6
<1> QED
  BY <1>7 DEF g, s

(* A message between its quotes, and what follows them.                    *)
TweetCommand(m, h) == [code |-> REQ_TWEET, ttweetString |-> m, inputHashtags |-> h]

LEMMA QuotedIs ==
  ASSUME NEW m \in Seq(Byte), \A i \in 1 .. Len(m) : m[i] # QuoteMark, NEW d \in Seq(Byte)
  PROVE  LET s == Cons(QuoteMark, m \o Cons(QuoteMark, d))
         IN  s[1] = QuoteMark /\ Message(s) = m /\ BehindMessage(s) = d
<1> DEFINE e == Cons(QuoteMark, d)
           f == m \o e
           s == Cons(QuoteMark, f)
           message == Before(From(s, 2), QuoteMark)
           rest == From(s, Len(message) + 3)
<1>1. Message(s) = message /\ BehindMessage(s) = rest
  BY DEF Message, BehindMessage
<1>2. QuoteMark \in Byte /\ Space \in Byte
  BY Chars
<1>5. e \in Seq(Byte)
  BY <1>2, ConsIs
<1>6. Before(f, QuoteMark) = m
  BY <1>2, BeforeConcat
<1>7. f \in Seq(Byte)
  <2> HIDE DEF e
  <2> QED BY <1>5, Concat
<1>8. s[1] = QuoteMark
  <2> HIDE DEF f
  <2> QED BY <1>2, <1>7, ConsIs
<1>9. From(s, 2) = f
  <2> HIDE DEF f
  <2> QED BY <1>2, <1>7, FromCons
<1>10. message = m
  <2> HIDE DEF f, s
  <2> QED BY <1>6, <1>9
<1>11. From(s, Len(m) + 3) = d
  <2> DEFINE q == <<QuoteMark>>
             qm == q \o m
             g == qm \o q
  <2>1. q \in Seq(Byte) /\ Len(q) = 1
    BY <1>2, OneChar
  <2> HIDE DEF q
  <2>2. qm \in Seq(Byte) /\ Len(qm) = 1 + Len(m)
    <3>1. q \in Seq(Byte) /\ m \in Seq(Byte)
      BY <2>1
    <3>2. q \o m \in Seq(Byte) /\ Len(q \o m) = Len(q) + Len(m)
      BY <3>1, Concat
    <3> QED BY <2>1, <3>2
  <2> HIDE DEF qm
  <2>3. g \in Seq(Byte) /\ Len(g) = 1 + Len(m) + 1
    <3>1. qm \in Seq(Byte) /\ q \in Seq(Byte)
      BY <2>1, <2>2
    <3>2. qm \o q \in Seq(Byte) /\ Len(qm \o q) = Len(qm) + Len(q)
      BY <3>1, Concat
    <3> QED BY <2>1, <2>2, <3>2
  <2>4. g \o d = qm \o e
    <3>1. Associative(Byte)
      BY RegroupAll
    <3>2. (qm \o q) \o d = qm \o (q \o d)
      BY <2>1, <2>2, <3>1, Zenon DEF Associative
    <3> QED BY <3>2 DEF Cons, q
  <2>5. qm \o e = q \o f
    <3>1. Associative(Byte)
      BY RegroupAll
    <3> HIDE DEF e
    <3>2. (q \o m) \o e = q \o (m \o e)
      BY <1>5, <2>1, <3>1, Zenon DEF Associative
    <3> QED BY <3>2 DEF qm
  <2>6. g \o d = s
    BY <2>4, <2>5 DEF Cons, q
  <2> HIDE DEF g, s
  <2>7. Len(m) + 3 = Len(g) + 1
    <3>1. Len(m) \in Nat
      OBVIOUS
    <3> QED BY <2>3, <3>1
  <2>8. From(g \o d, Len(m) + 3) = d
    BY <2>3, <2>7, FromConcat
  <2> QED BY <2>6, <2>8
<1> HIDE DEF s, message, f, e
<1>12. rest = d
  BY <1>10, <1>11
<1> HIDE DEF rest
<1> QED
  BY <1>1, <1>8, <1>10, <1>12 DEF s, f, e

LEMMA TweetCases ==
  ASSUME NEW m \in Seq(Byte), \A i \in 1 .. Len(m) : m[i] # QuoteMark, NEW d \in Seq(Byte)
  PROVE  check_tweet_cmd(Cons(QuoteMark, m \o Cons(QuoteMark, d))) =
           IF /\ Len(m) \in 1 .. MAX_TWEET_LEN
              /\ d # <<>> /\ d[1] = Space
              /\ CopyHashtags(From(d, 2)).ok
             THEN TweetCommand(m, CopyHashtags(From(d, 2)).s)
             ELSE Invalid
<1> DEFINE s == Cons(QuoteMark, m \o Cons(QuoteMark, d))
           h == CopyHashtags(From(BehindMessage(s), 2))
<1>1. check_tweet_cmd(s) =
        IF HashtagsFollow(s) /\ h.ok THEN TweetCommand(Message(s), h.s) ELSE Invalid
  BY DEF check_tweet_cmd, TweetCommand
<1>2. s[1] = QuoteMark /\ Message(s) = m /\ BehindMessage(s) = d
  BY QuotedIs
<1> HIDE DEF s
<1>3. HashtagsFollow(s) = (Len(m) \in 1 .. MAX_TWEET_LEN /\ d # <<>> /\ d[1] = Space)
  BY <1>2 DEF HashtagsFollow, MessageRead
<1> QED
  BY <1>1, <1>2, <1>3 DEF s

LEMMA TweetBack ==
  ASSUME NEW m \in Seq(Byte), Len(m) \in 1 .. MAX_TWEET_LEN,
         \A i \in 1 .. Len(m) : m[i] # QuoteMark,
         NEW a \in Seq(Byte), CopyHashtags(a).ok
  PROVE  LET c == check_tweet_cmd(Quoted(m, a))
         IN  /\ c.code = REQ_TWEET /\ c.ttweetString = m
             /\ c.inputHashtags = CopyHashtags(a).s
<1> DEFINE d == Cons(Space, a)
           s == Cons(QuoteMark, m \o Cons(QuoteMark, d))
           h == CopyHashtags(a)
<1>1. Space \in Byte
  BY Chars
<1>2. d \in Seq(Byte) /\ d[1] = Space /\ d # <<>>
  BY <1>1, ConsIs
<1>3. From(d, 2) = a
  BY <1>1, FromCons
<1>4. s = Quoted(m, a)
  BY DEF Quoted
<1> HIDE DEF d
<1>5. check_tweet_cmd(s) = TweetCommand(m, h.s)
  BY <1>2, <1>3, TweetCases
<1> HIDE DEF s, h
<1>6. /\ TweetCommand(m, h.s).code = REQ_TWEET /\ TweetCommand(m, h.s).ttweetString = m
      /\ TweetCommand(m, h.s).inputHashtags = h.s
  BY DEF TweetCommand
<1> QED
  BY <1>4, <1>5, <1>6 DEF h

(* What follows the command word and its space.                            *)
LEMMA WholeIs ==
  ASSUME NEW w \in WordSet, NEW t \in Seq(Byte), NEW memory \in Seq(Byte)
  PROVE  LET input == w \o Cons(Space, t)
         IN  /\ Before(input, Space) = w
             /\ From(input \o <<EndOfString>> \o memory, Len(w) + 2) =
                  t \o Cons(EndOfString, memory)
<1> DEFINE p == <<Space>>
           z == <<EndOfString>>
           wp == w \o p
           input == w \o Cons(Space, t)
           pt == p \o t
           zm == z \o memory
           tz == t \o zm
<1>1. w \in Seq(Byte) /\ Len(w) = 1 /\ \A i \in 1 .. Len(w) : w[i] # Space
  BY WordIs
<1>2. Space \in Byte /\ EndOfString \in Byte
  BY Chars
<1>3. Before(input, Space) = w
  BY <1>1, <1>2, BeforeConcat
<1>4. p \in Seq(Byte) /\ z \in Seq(Byte) /\ Len(p) = 1
  BY <1>2, OneChar
<1>5. Associative(Byte)
  BY RegroupAll
<1>6. input = w \o pt
  BY DEF Cons
<1>7. zm = Cons(EndOfString, memory)
  BY DEF Cons
<1> HIDE DEF p, z, input
<1>8. wp \in Seq(Byte) /\ Len(wp) = 2
  <2>1. w \in Seq(Byte) /\ p \in Seq(Byte)
    BY <1>1, <1>4
  <2>2. w \o p \in Seq(Byte) /\ Len(w \o p) = Len(w) + Len(p)
    BY <2>1, Concat
  <2> QED BY <1>1, <1>4, <2>2
<1>9. zm \in Seq(Byte) /\ pt \in Seq(Byte)
  <2>1. z \in Seq(Byte) /\ memory \in Seq(Byte) /\ p \in Seq(Byte) /\ t \in Seq(Byte)
    BY <1>4
  <2> QED BY <2>1, Concat
<1>10. w \o pt = wp \o t
  <2>1. w \in Seq(Byte) /\ p \in Seq(Byte) /\ t \in Seq(Byte)
    BY <1>1, <1>4
  <2>2. (w \o p) \o t = w \o (p \o t)
    BY <1>5, <2>1, Zenon DEF Associative
  <2> QED BY <2>2
<1> HIDE DEF zm, wp, pt
<1>11. tz \in Seq(Byte)
  BY <1>9, Concat
<1>12. input \in Seq(Byte)
  <2>1. w \in Seq(Byte) /\ pt \in Seq(Byte)
    BY <1>1, <1>9
  <2>2. w \o pt \in Seq(Byte)
    BY <2>1, Concat
  <2> QED BY <1>6, <2>2
<1>13. (input \o z) \o memory = input \o zm
  <2>1. input \in Seq(Byte) /\ z \in Seq(Byte) /\ memory \in Seq(Byte)
    BY <1>4, <1>12
  <2>2. (input \o z) \o memory = input \o (z \o memory)
    BY <1>5, <2>1, Zenon DEF Associative
  <2> QED BY <2>2 DEF zm
<1>14. input \o zm = wp \o tz
  <2>1. wp \in Seq(Byte) /\ t \in Seq(Byte) /\ zm \in Seq(Byte)
    BY <1>8, <1>9
  <2>2. (wp \o t) \o zm = wp \o (t \o zm)
    BY <1>5, <2>1, Zenon DEF Associative
  <2> QED BY <1>6, <1>10, <2>2
<1>15. From(wp \o tz, Len(w) + 2) = tz
  <2>1. Len(w) + 2 = Len(wp) + 1
    BY <1>1, <1>8
  <2> HIDE DEF tz
  <2> QED BY <1>8, <1>11, <2>1, FromConcat
<1>16. From(input \o z \o memory, Len(w) + 2) = tz
  BY <1>13, <1>14, <1>15
<1> QED
  BY <1>3, <1>7, <1>16 DEF z, input

(* What follows a tweet's hashtags stays behind them.                      *)
LEMMA TweetTail ==
  ASSUME NEW m \in Seq(Byte), NEW h \in Seq(Byte), NEW z \in Seq(Byte)
  PROVE  /\ Quoted(m, h) \in Seq(Byte)
         /\ Quoted(m, h) \o z = Quoted(m, h \o z)
<1>0. ConsFirst(Byte)
  BY ConsConcatAll
<1>1. QuoteMark \in Byte /\ Space \in Byte
  BY Chars
<1> DEFINE d == Cons(Space, h)
           e == Cons(QuoteMark, d)
           f == m \o e
           g == Cons(QuoteMark, f)
<1>2. d \in Seq(Byte) /\ d \o z = Cons(Space, h \o z)
  <2>1. Space \in Byte /\ h \in Seq(Byte) /\ z \in Seq(Byte)
    BY <1>1
  <2>2. d \in Seq(Byte)
    BY <2>1, ConsIs
  <2>3. d \o z = Cons(Space, h \o z)
    BY <1>0, <2>1, Zenon DEF ConsFirst
  <2> QED BY <2>2, <2>3
<1> HIDE DEF d
<1>3. e \in Seq(Byte) /\ e \o z = Cons(QuoteMark, d \o z)
  <2>1. QuoteMark \in Byte /\ d \in Seq(Byte) /\ z \in Seq(Byte)
    BY <1>1, <1>2
  <2>2. e \in Seq(Byte)
    BY <2>1, ConsIs
  <2>3. e \o z = Cons(QuoteMark, d \o z)
    BY <1>0, <2>1, Zenon DEF ConsFirst
  <2> QED BY <2>2, <2>3
<1> HIDE DEF e
<1>4. f \in Seq(Byte)
  BY <1>3, Concat
<1>5. f \o z = m \o (e \o z)
  <2>1. Associative(Byte) /\ m \in Seq(Byte) /\ e \in Seq(Byte) /\ z \in Seq(Byte)
    BY <1>3, RegroupAll
  <2>2. (m \o e) \o z = m \o (e \o z)
    BY <2>1, Zenon DEF Associative
  <2> QED BY <2>2
<1> HIDE DEF f
<1>6. g \in Seq(Byte) /\ g \o z = Cons(QuoteMark, f \o z)
  <2>1. QuoteMark \in Byte /\ f \in Seq(Byte) /\ z \in Seq(Byte)
    BY <1>1, <1>4
  <2>2. g \in Seq(Byte)
    BY <2>1, ConsIs
  <2>3. g \o z = Cons(QuoteMark, f \o z)
    BY <1>0, <2>1, Zenon DEF ConsFirst
  <2> QED BY <2>2, <2>3
<1>7. g \o z = Cons(QuoteMark, m \o Cons(QuoteMark, Cons(Space, h \o z)))
  <2> HIDE DEF g
  <2> QED BY <1>2, <1>3, <1>5, <1>6
<1> QED
  BY <1>6, <1>7 DEF g, f, e, d, Quoted

(* What parse_client_command makes of a well-formed line.                  *)
CommandFor(r, c) ==
  /\ c.code = r.code /\ c.ttweetString = r.ttweetString
  /\ c.inputHashtags = Hashtagged(r.validHashtags)

LEMMA WordOf ==
  ASSUME NEW w \in WordSet
  PROVE  Before(w, Space) = w /\ w \in Seq(Typable)
<1>1. w \in Seq(Byte) /\ w \in Seq(Typable) /\ \A i \in 1 .. Len(w) : w[i] # Space
  BY WordIs
<1> QED
  BY <1>1, BeforeNothing

LEMMA SubscriptionBack ==
  ASSUME NEW r, IsWellFormed(r), NEW memory \in Seq(Byte), NEW w \in WordSet,
         r.code \in {REQ_SUBSCRIBE, REQ_UNSUBSCRIBE},
         r.code = REQ_SUBSCRIBE => w = Word.subscribe,
         r.code = REQ_UNSUBSCRIBE => w = Word.unsubscribe,
         Tags(r.validHashtags), Len(Hashtagged(r.validHashtags)) <= MAX_HASHTAG_LEN,
         r.ttweetString = <<>>
  PROVE  /\ CommandFor(r, parse_client_command(Rendered(r), memory))
         /\ Before(Rendered(r), Space) = w
         /\ BehindWord(Rendered(r), memory) =
              Hashtagged(r.validHashtags) \o Cons(EndOfString, memory)
         /\ Rendered(r) \in Seq(Typable)
<1> DEFINE h == Hashtagged(r.validHashtags)
           z == Cons(EndOfString, memory)
           a == h \o z
           input == w \o Cons(Space, h)
           s == From(input \o <<EndOfString>> \o memory, Len(w) + 2)
           c == parse_client_command(input, memory)
           g == CopyHashtags(a)
<1>1. /\ h \in Seq(Typable) /\ h \in Seq(Byte)
      /\ \A i \in 1 .. Len(h) : h[i] # Space /\ h[i] # EndOfString
  BY TagLine
<1> HIDE DEF h
<1>2. Rendered(r) = input
  <2>1. Associative(Typable)
    BY RegroupAll
  <2> DEFINE p == <<Space>>
  <2>2. p \in Seq(Typable)
    BY Chars, OneChar
  <2>3. Rendered(r) = w \o p \o h
    BY RenderedCases DEF h
  <2> HIDE DEF p
  <2>4. w \in Seq(Typable)
    BY WordIs
  <2>5. (w \o p) \o h = w \o (p \o h)
    BY <1>1, <2>1, <2>2, <2>4, Zenon DEF Associative
  <2> QED BY <2>3, <2>5 DEF Cons, p
<1>3. input \in Seq(Typable)
  <2> DEFINE x == Cons(Space, h)
  <2>1. Space \in Typable /\ h \in Seq(Typable) /\ w \in Seq(Typable)
    BY <1>1, Chars, WordIs
  <2>2. x \in Seq(Typable)
    BY <2>1, ConsIs
  <2> HIDE DEF x
  <2>3. w \o x \in Seq(Typable)
    BY <2>1, <2>2, Concat
  <2> QED BY <2>3 DEF x
<1>4. Before(input, Space) = w /\ s = a
  BY <1>1, WholeIs
<1>11. BehindWord(input, memory) = s
  BY <1>4 DEF BehindWord
<1> HIDE DEF input
<1>5. g.ok /\ g.s = h
  BY <1>1, CopiedBack DEF h
<1> HIDE DEF a, g
<1>6. /\ w = Word.subscribe => c = CheckSubscription(s, REQ_SUBSCRIBE)
      /\ w = Word.unsubscribe => c = CheckSubscription(s, REQ_UNSUBSCRIBE)
  BY <1>4, ParseCommandCases
<1> HIDE DEF s, c
<1>7. c = CheckSubscription(a, r.code)
  BY <1>4, <1>6
<1> DEFINE d == [code |-> r.code, ttweetString |-> <<>>, inputHashtags |-> g.s]
<1>8. CheckSubscription(a, r.code) = d
  BY <1>5 DEF CheckSubscription, g
<1>9. d.code = r.code /\ d.ttweetString = <<>> /\ d.inputHashtags = h
  BY <1>5
<1> HIDE DEF d
<1>10. c.code = r.code /\ c.ttweetString = r.ttweetString /\ c.inputHashtags = h
  BY <1>7, <1>8, <1>9
<1>12. BehindWord(input, memory) = a
  BY <1>4, <1>11
<1> QED
  BY <1>2, <1>3, <1>4, <1>10, <1>12 DEF a, c, h, CommandFor

LEMMA SingleWordBack ==
  ASSUME NEW r, IsWellFormed(r), NEW memory \in Seq(Byte), NEW w \in WordSet,
         r.code \in {REQ_TIMELINE, REQ_EXIT},
         r.code = REQ_TIMELINE => w = Word.timeline,
         r.code = REQ_EXIT => w = Word.exit,
         r.ttweetString = <<>>, r.validHashtags = <<>>
  PROVE  /\ CommandFor(r, parse_client_command(Rendered(r), memory))
         /\ Before(Rendered(r), Space) = w
         /\ Rendered(r) \in Seq(Typable)
<1> DEFINE c == parse_client_command(w, memory)
           d == [Invalid EXCEPT !.code = r.code]
<1>1. Rendered(r) = w
  BY RenderedCases
<1>2. Before(w, Space) = w /\ w \in Seq(Typable)
  BY WordOf
<1>3. /\ w = Word.timeline => c = CheckSingleWord(TRUE, REQ_TIMELINE)
      /\ w = Word.exit => c = CheckSingleWord(TRUE, REQ_EXIT)
  <2> DEFINE b == Before(w, Space)
             e == Len(b) = Len(w)
  <2>1. /\ b = Word.timeline => c = CheckSingleWord(e, REQ_TIMELINE)
        /\ b = Word.exit => c = CheckSingleWord(e, REQ_EXIT)
    BY ParseCommandCases
  <2>2. b = w /\ e = TRUE
    BY <1>2
  <2> HIDE DEF c, b, e
  <2> QED BY <2>1, <2>2
<1> HIDE DEF c
<1>4. c = CheckSingleWord(TRUE, r.code)
  BY <1>3
<1>5. CheckSingleWord(TRUE, r.code) = d
  BY DEF CheckSingleWord
<1>6. d.code = r.code /\ d.ttweetString = <<>> /\ d.inputHashtags = <<>>
  BY DEF Invalid
<1> HIDE DEF d
<1>7. c.code = r.code /\ c.ttweetString = r.ttweetString
      /\ c.inputHashtags = Hashtagged(r.validHashtags)
  BY <1>4, <1>5, <1>6, HashtaggedEmpty
<1> QED
  BY <1>1, <1>2, <1>7 DEF c, CommandFor

LEMMA TweetLineBack ==
  ASSUME NEW r, IsWellFormed(r), NEW memory \in Seq(Byte),
         r.code = REQ_TWEET,
         Tags(r.validHashtags), Len(Hashtagged(r.validHashtags)) <= MAX_HASHTAG_LEN,
         r.ttweetString \in Seq(Typable), Len(r.ttweetString) \in 1 .. MAX_TWEET_LEN,
         \A i \in 1 .. Len(r.ttweetString) : r.ttweetString[i] # QuoteMark
  PROVE  /\ CommandFor(r, parse_client_command(Rendered(r), memory))
         /\ Before(Rendered(r), Space) = Word.tweet
         /\ BehindWord(Rendered(r), memory) =
              Quoted(r.ttweetString,
                     Hashtagged(r.validHashtags) \o Cons(EndOfString, memory))
         /\ Rendered(r) \in Seq(Typable)
<1> DEFINE w == Word.tweet
           h == Hashtagged(r.validHashtags)
           m == r.ttweetString
           z == Cons(EndOfString, memory)
           a == h \o z
           t == Quoted(m, h)
           u == Quoted(m, a)
           input == w \o Cons(Space, t)
           s == From(input \o <<EndOfString>> \o memory, Len(w) + 2)
           c == parse_client_command(input, memory)
           g == CopyHashtags(a)
<1>1. /\ h \in Seq(Typable) /\ h \in Seq(Byte)
      /\ \A i \in 1 .. Len(h) : h[i] # Space /\ h[i] # EndOfString
  BY TagLine
<1>2. m \in Seq(Typable) /\ m \in Seq(Byte)
  BY StringTypes
<1>3. w \in WordSet /\ w \in Seq(Typable)
  <2>1. w \in WordSet
    BY DEF WordSet
  <2> QED BY <2>1, WordIs
<1>4. z \in Seq(Byte)
  BY Chars, ConsIs
<1>5. Len(h) <= MAX_HASHTAG_LEN
  OBVIOUS
<1>6. Rendered(r) = w \o <<Space, QuoteMark>> \o m \o <<QuoteMark, Space>> \o h
  BY RenderedCases
<1>7. Len(m) \in 1 .. MAX_TWEET_LEN /\ \A i \in 1 .. Len(m) : m[i] # QuoteMark
  OBVIOUS
<1> HIDE DEF h, m, w
<1>8. Rendered(r) = input /\ input \in Seq(Typable)
  <2>1. w \in Seq(Typable) /\ m \in Seq(Typable) /\ h \in Seq(Typable)
        /\ Space \in Typable /\ QuoteMark \in Typable
    BY <1>1, <1>2, <1>3, Chars
  <2>2. w \o <<Space, QuoteMark>> \o m \o <<QuoteMark, Space>> \o h = input
        /\ input \in Seq(Typable)
    BY <2>1, TweetLine
  <2> QED BY <1>6, <2>2
<1>9. g.ok /\ g.s = h
  BY <1>1, <1>5, CopiedBack
<1> HIDE DEF z
<1>10. a \in Seq(Byte)
  BY <1>1, <1>4, Concat
<1>11. t \in Seq(Byte) /\ t \o z = u
  <2>1. m \in Seq(Byte) /\ h \in Seq(Byte) /\ z \in Seq(Byte)
    BY <1>1, <1>2, <1>4
  <2> QED BY <2>1, TweetTail
<1> DEFINE d == check_tweet_cmd(u)
<1>12. d.code = REQ_TWEET /\ d.ttweetString = m /\ d.inputHashtags = g.s
  <2> HIDE DEF a
  <2> QED BY <1>2, <1>7, <1>9, <1>10, TweetBack
<1> HIDE DEF g, a, t, u
<1>13. Before(input, Space) = w /\ s = t \o z
  BY <1>3, <1>11, WholeIs DEF z
<1>17. BehindWord(input, memory) = u
  <2>1. BehindWord(input, memory) = s
    BY <1>13 DEF BehindWord
  <2> QED BY <1>11, <1>13, <2>1
<1> HIDE DEF input
<1>14. c = check_tweet_cmd(s)
  <2>1. Before(input, Space) = Word.tweet
    BY <1>13 DEF w
  <2> QED BY <1>13, <2>1, ParseCommandCases
<1> HIDE DEF s, c
<1>15. c = d
  BY <1>11, <1>13, <1>14
<1> HIDE DEF d
<1>16. c.code = r.code /\ c.ttweetString = m /\ c.inputHashtags = h
  BY <1>9, <1>12, <1>15
<1> QED
  BY <1>8, <1>13, <1>16, <1>17 DEF a, c, h, m, u, w, z, CommandFor

(* Everything that is known of a well-formed request.                      *)
WellFormed(r) ==
  /\ r.code \in {REQ_TWEET, REQ_SUBSCRIBE, REQ_UNSUBSCRIBE, REQ_TIMELINE, REQ_EXIT}
  /\ r = Request(r.code, r.ttweetString, r.validHashtags)
  /\ r.ttweetString \in Seq(Typable) /\ Len(r.ttweetString) <= MAX_TWEET_LEN
  /\ Tags(r.validHashtags) /\ IsInjective(r.validHashtags)
  /\ Len(Hashtagged(r.validHashtags)) <= MAX_HASHTAG_LEN
  /\ Len(r.validHashtags) <= MAX_HASHTAG_CNT
  /\ r.code = REQ_TWEET =>
       /\ Len(r.ttweetString) \in 1 .. MAX_TWEET_LEN
       /\ \A i \in 1 .. Len(r.ttweetString) : r.ttweetString[i] # QuoteMark
       /\ ALL \notin ToSet(r.validHashtags) /\ r.validHashtags # <<>>
  /\ r.code \in {REQ_SUBSCRIBE, REQ_UNSUBSCRIBE} =>
       r.ttweetString = <<>> /\ Len(r.validHashtags) = 1
  /\ r.code \in {REQ_TIMELINE, REQ_EXIT} => r.ttweetString = <<>> /\ r.validHashtags = <<>>

LEMMA CodesDiffer ==
  /\ REQ_TWEET \notin {REQ_SUBSCRIBE, REQ_UNSUBSCRIBE, REQ_TIMELINE, REQ_EXIT}
  /\ {REQ_SUBSCRIBE, REQ_UNSUBSCRIBE} \cap {REQ_TIMELINE, REQ_EXIT} = {}
  /\ REQ_SUBSCRIBE # REQ_UNSUBSCRIBE /\ REQ_TIMELINE # REQ_EXIT
BY DEF REQ_TWEET, REQ_SUBSCRIBE, REQ_UNSUBSCRIBE, REQ_TIMELINE, REQ_EXIT

LEMMA WellFormedIs ==
  ASSUME NEW r, IsWellFormed(r)
  PROVE  WellFormed(r)
<1>1. /\ r.ttweetString \in Seq(Typable)
      /\ r.validHashtags \in Seq(Seq(Typable))
      /\ \A i \in 1 .. Len(r.validHashtags) : WellFormedTag(r.validHashtags[i])
      /\ r = Request(r.code, r.ttweetString, r.validHashtags)
  BY WellFormedFields
<1>2. Tags(r.validHashtags)
  BY <1>1, TagsAre
<1> DEFINE n == Len(r.validHashtags)
           tweet == r.code = REQ_TWEET
           subscription == r.code \in {REQ_SUBSCRIBE, REQ_UNSUBSCRIBE}
           D == 1 .. MAX_HASHTAG_CNT
<1>3. /\ r.code \in {REQ_TWEET, REQ_SUBSCRIBE, REQ_UNSUBSCRIBE, REQ_TIMELINE, REQ_EXIT}
      /\ IsInjective(r.validHashtags)
      /\ Len(Hashtagged(r.validHashtags)) <= MAX_HASHTAG_LEN
      /\ tweet =>
           /\ Len(r.ttweetString) \in 1 .. MAX_TWEET_LEN
           /\ QuoteMark \notin ToSet(r.ttweetString)
           /\ ALL \notin ToSet(r.validHashtags)
      /\ r.code # REQ_TWEET => r.ttweetString = <<>>
  BY DEF IsWellFormed
<1>4. n \in CASE tweet -> D [] subscription -> {1} [] OTHER -> {0}
  BY DEF IsWellFormed
<1>5. n \in Nat
  BY <1>1
<1> HIDE DEF n
<1>6. /\ tweet => n \in D
      /\ subscription => n = 1
      /\ r.code \in {REQ_TIMELINE, REQ_EXIT} => n = 0
  <2> HIDE DEF D
  <2> QED BY <1>4, CodesDiffer
<1>7. n <= MAX_HASHTAG_CNT
  BY <1>3, <1>5, <1>6, ClientParserAssumption
<1>8. tweet => r.validHashtags # <<>>
  BY <1>5, <1>6 DEF n
<1>9. r.code \in {REQ_TIMELINE, REQ_EXIT} => r.validHashtags = <<>>
  BY <1>1, <1>6 DEF n
<1>10. tweet => \A i \in 1 .. Len(r.ttweetString) : r.ttweetString[i] # QuoteMark
  <2> DEFINE m == r.ttweetString
  <2>1. m \in Seq(Typable)
    BY <1>1
  <2> HIDE DEF m
  <2>2. \A i \in 1 .. Len(m) : m[i] \in ToSet(m)
    BY <2>1 DEF ToSet
  <2> QED BY <1>3, <2>2 DEF m
<1>11. Len(r.ttweetString) <= MAX_TWEET_LEN
  <2>1. CASE tweet
    BY <1>3, <2>1, ClientParserAssumption
  <2>2. CASE ~ tweet
    <3>1. Len(r.ttweetString) = 0
      BY <1>3, <2>2
    <3>2. 0 <= MAX_TWEET_LEN
      BY ClientParserAssumption
    <3> QED BY <3>1, <3>2
  <2> QED BY <2>1, <2>2
<1>12. subscription \/ r.code \in {REQ_TIMELINE, REQ_EXIT} => r.ttweetString = <<>>
  BY <1>3, CodesDiffer
<1> QED
  BY <1>1, <1>2, <1>3, <1>6, <1>7, <1>8, <1>9, <1>10, <1>11, <1>12 DEF WellFormed, n

(* The overrun of a well-formed command.                                   *)
FullLengths(r) ==
  [clientCommand |-> 0,
   ttweetString |-> IF Len(r.ttweetString) = MAX_TWEET_LEN THEN 1 ELSE 0,
   inputHashtags |->
     IF Len(Hashtagged(r.validHashtags)) = MAX_HASHTAG_LEN THEN 1 ELSE 0]

LEMMA PastEndExactly ==
  ASSUME NEW n \in Nat, NEW size \in Nat, n <= size
  PROVE  PastEnd(n + 1, size) = IF n = size THEN 1 ELSE 0
BY DEF PastEnd

LEMMA OverrunCases ==
  ASSUME NEW l, NEW memory, Before(l, Space) \in WordSet
  PROVE  LET w == Before(l, Space)
             s == BehindWord(l, memory)
             copied == PastEnd(CopyHashtags(s).bytes, MAX_HASHTAG_LEN)
             follow == PastEnd(CopyHashtags(From(BehindMessage(s), 2)).bytes, MAX_HASHTAG_LEN)
             message == PastEnd(Len(Message(s)) + 1, MAX_TWEET_LEN)
         IN  /\ w \in {Word.subscribe, Word.unsubscribe} =>
                  Overrun(l, memory) =
                    [clientCommand |-> 0, ttweetString |-> 0, inputHashtags |-> copied]
             /\ w = Word.tweet /\ HashtagsFollow(s) =>
                  Overrun(l, memory) =
                    [clientCommand |-> 0, ttweetString |-> message, inputHashtags |-> follow]
             /\ w \in {Word.timeline, Word.exit} => Overrun(l, memory) = NoOverrun
<1> DEFINE w == Before(l, Space)
           s == BehindWord(l, memory)
           copied == PastEnd(CopyHashtags(s).bytes, MAX_HASHTAG_LEN)
           follow == PastEnd(CopyHashtags(From(BehindMessage(s), 2)).bytes, MAX_HASHTAG_LEN)
           message == PastEnd(Len(Message(s)) + 1, MAX_TWEET_LEN)
           x == IF Len(w) <= COMMAND_LEN THEN PastEnd(Len(w) + 1, COMMAND_LEN) ELSE 0
           y == IF w = Word.tweet /\ MessageRead(s) THEN message ELSE 0
           z == CASE w \in {Word.subscribe, Word.unsubscribe} -> copied
                  [] w = Word.tweet /\ HashtagsFollow(s) -> follow
                  [] OTHER -> 0
           o == Overrun(l, memory)
<1>1. o = [clientCommand |-> x, ttweetString |-> y, inputHashtags |-> z]
  BY DEF Overrun
<1>2. HashtagsFollow(s) => MessageRead(s)
  BY DEF HashtagsFollow
<1> HIDE DEF o, s, w, copied, follow, message
<1>3. Len(w) = 1
  BY WordIs DEF w
<1>4. x = 0
  BY <1>3, ClientParserAssumption DEF PastEnd
<1>5. /\ Word.tweet \notin {Word.subscribe, Word.unsubscribe, Word.timeline, Word.exit}
      /\ {Word.subscribe, Word.unsubscribe} \cap {Word.timeline, Word.exit} = {}
  BY WordsDiffer
<1>6. w \in {Word.subscribe, Word.unsubscribe} => y = 0 /\ z = copied
  BY <1>5
<1>7. w = Word.tweet /\ HashtagsFollow(s) => y = message /\ z = follow
  BY <1>2, <1>5
<1>8. w \in {Word.timeline, Word.exit} => y = 0 /\ z = 0
  BY <1>5
<1> HIDE DEF x, y, z
<1> QED
  BY <1>1, <1>4, <1>6, <1>7, <1>8 DEF o, s, w, copied, follow, message, NoOverrun

LEMMA SubscriptionOverrun ==
  ASSUME NEW r, WellFormed(r), NEW memory \in Seq(Byte),
         r.code \in {REQ_SUBSCRIBE, REQ_UNSUBSCRIBE},
         Before(Rendered(r), Space) \in {Word.subscribe, Word.unsubscribe},
         BehindWord(Rendered(r), memory) =
           Hashtagged(r.validHashtags) \o Cons(EndOfString, memory)
  PROVE  Overrun(Rendered(r), memory) = FullLengths(r)
<1> DEFINE h == Hashtagged(r.validHashtags)
           s == h \o Cons(EndOfString, memory)
           copied == PastEnd(CopyHashtags(s).bytes, MAX_HASHTAG_LEN)
<1>1. /\ h \in Seq(Byte) /\ Len(h) <= MAX_HASHTAG_LEN
      /\ \A i \in 1 .. Len(h) : h[i] # Space /\ h[i] # EndOfString
  BY TagLine DEF WellFormed
<1>2. CopyHashtags(s).bytes = Len(h) + 1
  <2> HIDE DEF h
  <2> QED BY <1>1, CopiedBack
<1>3. Before(Rendered(r), Space) \in WordSet
  BY DEF WordSet
<1>4. Overrun(Rendered(r), memory) =
        [clientCommand |-> 0, ttweetString |-> 0, inputHashtags |-> copied]
  BY <1>3, OverrunCases
<1> HIDE DEF s, h
<1>5. copied = IF Len(h) = MAX_HASHTAG_LEN THEN 1 ELSE 0
  BY <1>1, <1>2, ClientParserAssumption, PastEndExactly
<1>6. Len(r.ttweetString) # MAX_TWEET_LEN
  <2>1. r.ttweetString = <<>> /\ MAX_TWEET_LEN # 0
    BY ClientParserAssumption DEF WellFormed
  <2> QED BY <2>1
<1> QED
  BY <1>4, <1>5, <1>6 DEF FullLengths, h

LEMMA TweetOverrun ==
  ASSUME NEW r, WellFormed(r), NEW memory \in Seq(Byte), r.code = REQ_TWEET,
         Before(Rendered(r), Space) = Word.tweet,
         BehindWord(Rendered(r), memory) =
           Quoted(r.ttweetString, Hashtagged(r.validHashtags) \o Cons(EndOfString, memory))
  PROVE  Overrun(Rendered(r), memory) = FullLengths(r)
<1> DEFINE m == r.ttweetString
           h == Hashtagged(r.validHashtags)
           z == Cons(EndOfString, memory)
           a == h \o z
           d == Cons(Space, a)
           s == Cons(QuoteMark, m \o Cons(QuoteMark, d))
           follow == PastEnd(CopyHashtags(From(BehindMessage(s), 2)).bytes, MAX_HASHTAG_LEN)
           message == PastEnd(Len(Message(s)) + 1, MAX_TWEET_LEN)
<1>1. /\ h \in Seq(Byte) /\ Len(h) <= MAX_HASHTAG_LEN
      /\ \A i \in 1 .. Len(h) : h[i] # Space /\ h[i] # EndOfString
  BY TagLine DEF WellFormed
<1>2. /\ m \in Seq(Byte) /\ Len(m) \in 1 .. MAX_TWEET_LEN
      /\ \A i \in 1 .. Len(m) : m[i] # QuoteMark
  BY StringTypes DEF WellFormed
<1>3. CopyHashtags(a).bytes = Len(h) + 1
  <2> HIDE DEF h
  <2> QED BY <1>1, CopiedBack
<1>4. z \in Seq(Byte)
  BY Chars, ConsIs
<1> HIDE DEF h, m, z
<1>5. a \in Seq(Byte)
  BY <1>1, <1>4, Concat
<1>6. BehindWord(Rendered(r), memory) = s
  BY DEF Quoted, m, h, z
<1> HIDE DEF a
<1>7. d \in Seq(Byte) /\ d[1] = Space /\ d # <<>> /\ From(d, 2) = a
  <2>1. Space \in Byte
    BY Chars
  <2>2. d \in Seq(Byte) /\ d[1] = Space /\ d # <<>>
    BY <1>5, <2>1, ConsIs
  <2>3. From(d, 2) = a
    BY <1>5, <2>1, FromCons
  <2> QED BY <2>2, <2>3
<1> HIDE DEF d
<1>8. s[1] = QuoteMark /\ Message(s) = m /\ BehindMessage(s) = d
  BY <1>2, <1>7, QuotedIs
<1> HIDE DEF s
<1>9. HashtagsFollow(s)
  BY <1>2, <1>7, <1>8 DEF HashtagsFollow, MessageRead
<1>10. Overrun(Rendered(r), memory) =
         [clientCommand |-> 0, ttweetString |-> message, inputHashtags |-> follow]
  <2>1. Before(Rendered(r), Space) \in WordSet
    BY DEF WordSet
  <2> QED BY <1>6, <1>9, <2>1, OverrunCases
<1>11. follow = IF Len(h) = MAX_HASHTAG_LEN THEN 1 ELSE 0
  BY <1>1, <1>3, <1>7, <1>8, ClientParserAssumption, PastEndExactly
<1>12. message = IF Len(m) = MAX_TWEET_LEN THEN 1 ELSE 0
  BY <1>2, <1>8, ClientParserAssumption, PastEndExactly
<1> HIDE DEF follow, message
<1> QED
  BY <1>10, <1>11, <1>12 DEF FullLengths, h, m

LEMMA SingleWordOverrun ==
  ASSUME NEW r, WellFormed(r), NEW memory \in Seq(Byte), r.code \in {REQ_TIMELINE, REQ_EXIT},
         Before(Rendered(r), Space) \in {Word.timeline, Word.exit}
  PROVE  Overrun(Rendered(r), memory) = FullLengths(r)
<1>1. Before(Rendered(r), Space) \in WordSet
  BY DEF WordSet
<1>2. Overrun(Rendered(r), memory) = NoOverrun
  BY <1>1, OverrunCases
<1>3. r.ttweetString = <<>> /\ r.validHashtags = <<>>
  BY DEF WellFormed
<1>4. Len(<<>>) # MAX_TWEET_LEN /\ Len(<<>>) # MAX_HASHTAG_LEN
  BY ClientParserAssumption
<1>5. FullLengths(r) = NoOverrun
  BY <1>3, <1>4, HashtaggedEmpty DEF FullLengths, NoOverrun
<1> QED
  BY <1>2, <1>5

LEMMA CommandBack ==
  ASSUME NEW r, IsWellFormed(r), NEW memory \in Seq(Byte)
  PROVE  /\ CommandFor(r, parse_client_command(Rendered(r), memory))
         /\ Overrun(Rendered(r), memory) = FullLengths(r)
         /\ Rendered(r) \in Seq(Typable)
<1> DEFINE Back(w) == /\ CommandFor(r, parse_client_command(Rendered(r), memory))
                      /\ Before(Rendered(r), Space) = w
                      /\ Rendered(r) \in Seq(Typable)
           Tag == BehindWord(Rendered(r), memory) =
                    Hashtagged(r.validHashtags) \o Cons(EndOfString, memory)
           Tweet == BehindWord(Rendered(r), memory) =
                      Quoted(r.ttweetString,
                             Hashtagged(r.validHashtags) \o Cons(EndOfString, memory))
           exact == Overrun(Rendered(r), memory) = FullLengths(r)
<1>1. WellFormed(r)
  BY WellFormedIs
<1>2. WordSet = {Word.tweet, Word.subscribe, Word.unsubscribe, Word.timeline, Word.exit}
  BY DEF WordSet
<1>3. r.code = REQ_TWEET => Back(Word.tweet) /\ exact
  <2>1. r.code = REQ_TWEET => Back(Word.tweet) /\ Tweet
    BY <1>1, TweetLineBack DEF WellFormed
  <2> QED BY <1>1, <2>1, TweetOverrun
<1>4. r.code = REQ_SUBSCRIBE => Back(Word.subscribe) /\ exact
  <2>1. r.code = REQ_SUBSCRIBE => Back(Word.subscribe) /\ Tag
    BY <1>1, <1>2, CodesDiffer, SubscriptionBack DEF WellFormed
  <2> QED BY <1>1, <2>1, SubscriptionOverrun
<1>5. r.code = REQ_UNSUBSCRIBE => Back(Word.unsubscribe) /\ exact
  <2>1. r.code = REQ_UNSUBSCRIBE => Back(Word.unsubscribe) /\ Tag
    BY <1>1, <1>2, CodesDiffer, SubscriptionBack DEF WellFormed
  <2> QED BY <1>1, <2>1, SubscriptionOverrun
<1>6. r.code = REQ_TIMELINE => Back(Word.timeline) /\ exact
  <2>1. r.code = REQ_TIMELINE => Back(Word.timeline)
    BY <1>1, <1>2, CodesDiffer, SingleWordBack DEF WellFormed
  <2> QED BY <1>1, <2>1, SingleWordOverrun
<1>7. r.code = REQ_EXIT => Back(Word.exit) /\ exact
  <2>1. r.code = REQ_EXIT => Back(Word.exit)
    BY <1>1, <1>2, CodesDiffer, SingleWordBack DEF WellFormed
  <2> QED BY <1>1, <2>1, SingleWordOverrun
<1>8. r.code \in {REQ_TWEET, REQ_SUBSCRIBE, REQ_UNSUBSCRIBE, REQ_TIMELINE, REQ_EXIT}
  BY <1>1 DEF WellFormed
<1> QED
  BY <1>3, <1>4, <1>5, <1>6, <1>7, <1>8

(* A well-formed command becomes the request it is for.                    *)
LEMMA RequestBack ==
  ASSUME NEW r, WellFormed(r), NEW c, CommandFor(r, c)
  PROVE  RequestOf(c) = r
<1> DEFINE h == parse_hashtags(c.inputHashtags)
           string == Before(c.ttweetString, EndOfString)
           p == RequestOf(c)
           tags == r.validHashtags
<1>1. c.code = r.code /\ c.ttweetString = r.ttweetString /\ c.inputHashtags = Hashtagged(tags)
  BY DEF CommandFor
<1>2. /\ c.code = REQ_TWEET =>
           p = IF ALL \notin ToSet(h.valid) THEN Request(REQ_TWEET, string, h.valid)
                                            ELSE NoRequest
      /\ c.code \in {REQ_SUBSCRIBE, REQ_UNSUBSCRIBE} =>
           p = IF h.ok /\ Len(h.valid) = 1 THEN Request(c.code, string, h.valid)
                                           ELSE NoRequest
      /\ c.code \in {REQ_TIMELINE, REQ_EXIT} => p = Request(c.code, string, <<>>)
  BY RequestCases
<1>3. string = r.ttweetString
  <2> DEFINE m == r.ttweetString
  <2>1. m \in Seq(Typable)
    BY DEF WellFormed
  <2> HIDE DEF m
  <2>2. m \in Seq(Byte) /\ \A i \in 1 .. Len(m) : m[i] # EndOfString
    <3>1. \A i \in 1 .. Len(m) : m[i] \in Typable
      BY <2>1
    <3>2. EndOfString \notin Typable
      BY Chars
    <3>3. m \in Seq(Byte)
      BY <2>1, StringTypes
    <3> QED BY <3>1, <3>2, <3>3
  <2>3. Before(m, EndOfString) = m
    BY <2>2, BeforeNothing
  <2> QED BY <1>1, <2>3 DEF m
<1>4. r = Request(r.code, r.ttweetString, tags)
  BY DEF WellFormed
<1>5. ASSUME tags # <<>>
      PROVE  h.ok /\ h.valid = tags
  <2>1. /\ Tags(tags) /\ Len(tags) <= MAX_HASHTAG_CNT /\ IsInjective(tags)
        /\ Len(Hashtagged(tags)) <= MAX_HASHTAG_LEN
    BY DEF WellFormed
  <2>2. /\ parse_hashtags(Hashtagged(tags)).ok
        /\ parse_hashtags(Hashtagged(tags)).valid = tags
    BY <1>5, <2>1, ParsedBack
  <2> QED BY <1>1, <2>2
<1> HIDE DEF h, string, p, tags
<1>6. CASE r.code = REQ_TWEET
  <2>1. ALL \notin ToSet(tags) /\ tags # <<>>
    BY <1>6 DEF WellFormed, tags
  <2>2. p = Request(REQ_TWEET, string, h.valid)
    BY <1>1, <1>2, <1>5, <1>6, <2>1
  <2> QED BY <1>3, <1>4, <1>5, <1>6, <2>1, <2>2 DEF p
<1>7. CASE r.code \in {REQ_SUBSCRIBE, REQ_UNSUBSCRIBE}
  <2>1. Len(tags) = 1
    BY <1>7 DEF WellFormed, tags
  <2>2. tags # <<>>
    BY <2>1
  <2>3. p = Request(c.code, string, h.valid)
    BY <1>1, <1>2, <1>5, <1>7, <2>1, <2>2
  <2> QED BY <1>1, <1>3, <1>4, <1>5, <2>2, <2>3 DEF p
<1>8. CASE r.code \in {REQ_TIMELINE, REQ_EXIT}
  <2>1. tags = <<>>
    BY <1>8 DEF WellFormed, tags
  <2>2. p = Request(c.code, string, <<>>)
    BY <1>1, <1>2, <1>8
  <2> QED BY <1>1, <1>3, <1>4, <2>1, <2>2 DEF p
<1> QED
  BY <1>6, <1>7, <1>8 DEF WellFormed

(* A turn of the loop with a well-formed line sends its request.           *)
LEMMA TurnBack ==
  ASSUME NEW memory \in Memories, meant \in Meant, stdin = Append(Rendered(meant), Newline)
  PROVE  /\ RequestRead(memory) = meant
         /\ OverrunRead(memory) = FullLengths(meant)
         /\ Input.rest = <<>>
<1>1. IsWellFormed(meant) /\ Len(Rendered(meant)) <= MAX_CLI_INPUT_LEN - 5
  BY ClientLoopAssumption
<1>2. memory \in Seq(Byte)
  BY ClientLoopAssumption
<1>3. /\ CommandFor(meant, parse_client_command(Rendered(meant), memory))
      /\ Overrun(Rendered(meant), memory) = FullLengths(meant)
      /\ Rendered(meant) \in Seq(Typable)
  BY <1>1, <1>2, CommandBack
<1>4. Input.ok /\ Input.clientInput = Rendered(meant) /\ Input.rest = <<>>
  BY <1>1, <1>3, LineRead DEF Input
<1>5. CommandFor(meant, Command(memory))
  BY <1>3, <1>4 DEF Command
<1>6. WellFormed(meant)
  BY <1>1, WellFormedIs
<1> QED
  BY <1>3, <1>4, <1>5, <1>6, RequestBack DEF RequestRead, OverrunRead

-----------------------------------------------------------------------------
(* The inductive invariant                                                 *)

(* What is sent is sound.                                                  *)
SoundInv ==
  /\ pc \in {"prompt", "typed", "sent", "left"}
  /\ stdin \in Seq(1 .. 255)
  /\ line \in Seq(Typable)
  /\ Overruns(overrun)
  /\ request = NoRequest \/ Sendable(request)
  /\ pc = "sent" => Sendable(request) /\ overrun.clientCommand = 0

(* A well-formed line is read as a whole, and not twice.                   *)
MeantInv ==
  /\ meant = NoRequest \/ meant \in Meant
  /\ pc = "typed" => /\ stdin = Append(line, Newline)
                     /\ meant # NoRequest => line = Rendered(meant)
  /\ pc # "typed" /\ stdin # <<>> => meant = NoRequest
  /\ pc = "prompt" => meant = NoRequest
  /\ pc = "sent" /\ meant # NoRequest => overrun = FullLengths(meant)

ClientInv == SoundInv /\ MeantInv

LEMMA MeantIsRequest ==
  ASSUME NEW r \in Meant
  PROVE  IsWellFormed(r) /\ r # NoRequest /\ Rendered(r) \in Seq(Typable)
<1>1. IsWellFormed(r)
  BY ClientLoopAssumption
<1>2. WellFormed(r)
  BY <1>1, WellFormedIs
<1>3. r.code # REQ_INVALID
  BY <1>2 DEF WellFormed, REQ_INVALID, REQ_TWEET, REQ_SUBSCRIBE, REQ_UNSUBSCRIBE,
              REQ_TIMELINE, REQ_EXIT
<1>4. <<>> \in Seq(Byte)
  OBVIOUS
<1>5. Rendered(r) \in Seq(Typable)
  BY <1>1, <1>4, CommandBack
<1> QED
  BY <1>1, <1>3, <1>5, NoRequestIs

LEMMA InitInv ==
  ASSUME ClientInit
  PROVE  ClientInv
<1>1. Sendable(request) /\ Overruns(overrun) /\ overrun.clientCommand = 0
  BY NoOverrunIs DEF ClientInit, Sendable
<1>2. <<>> \in Seq(1 .. 255) /\ <<>> \in Seq(Typable)
  OBVIOUS
<1> QED
  BY <1>1, <1>2 DEF ClientInit, ClientInv, SoundInv, MeantInv

LEMMA PromptInv ==
  ASSUME ClientInv, Prompt, stdin' \in Seq(1 .. 255), Overruns(overrun'),
         stdin' # <<>> => meant = NoRequest
  PROVE  ClientInv'
<1>1. /\ pc' = "prompt" /\ request' = NoRequest
      /\ stdin' = <<>> => line' = <<>> /\ meant' = NoRequest
      /\ stdin' # <<>> => line' = line /\ meant' = meant
  BY DEF Prompt
<1>2. meant' = NoRequest
  BY <1>1
<1>3. line' \in Seq(Typable)
  <2>1. line \in Seq(Typable)
    BY DEF ClientInv, SoundInv
  <2>2. <<>> \in Seq(Typable)
    OBVIOUS
  <2> QED BY <1>1, <2>1, <2>2
<1>5. SoundInv'
  BY <1>1, <1>3 DEF SoundInv
<1>6. MeantInv'
  BY <1>1, <1>2 DEF MeantInv
<1> QED
  BY <1>5, <1>6 DEF ClientInv

LEMMA TypeLineInv ==
  ASSUME ClientInv, TypeLine
  PROVE  ClientInv'
<1>1. /\ pc' = "typed" /\ stdin' = Append(line', Newline) /\ overrun' = NoOverrun
      /\ request' = request
      /\ \/ meant' = NoRequest /\ line' \in Lines
         \/ meant' \in Meant /\ line' = Rendered(meant')
  BY DEF TypeLine
<1>2. line' \in Seq(Typable)
  BY <1>1, MeantIsRequest, ClientLoopAssumption
<1>3. stdin' \in Seq(1 .. 255)
  <2>1. line' \in Seq(1 .. 255) /\ Newline \in 1 .. 255
    BY <1>2, StringTypes, Chars
  <2> QED BY <1>1, <2>1, AppendProperties
<1>4. SoundInv'
  BY <1>1, <1>2, <1>3, NoOverrunIs DEF ClientInv, SoundInv
<1>5. MeantInv'
  BY <1>1 DEF MeantInv
<1> QED
  BY <1>4, <1>5 DEF ClientInv

LEMMA ReadCommandInv ==
  ASSUME ClientInv, NEW memory \in Memories, ReadCommand(memory)
  PROVE  ClientInv'
<1> DEFINE r == RequestRead(memory)
           o == OverrunRead(memory)
<1>1. /\ pc \in {"prompt", "typed"} /\ stdin # <<>>
      /\ stdin' = Input.rest /\ overrun' = o
      /\ r = NoRequest => Prompt
      /\ r # NoRequest => /\ pc' = "sent" /\ request' = r
                          /\ UNCHANGED <<line, meant>>
  BY ReadCommandIs
<1>2. /\ Input.rest \in Seq(1 .. 255) /\ Overruns(o)
      /\ r # NoRequest => SoundRequest(r) /\ o.clientCommand = 0
  BY TurnSound DEF ClientInv, SoundInv
<1>3. meant # NoRequest => r = meant /\ o = FullLengths(meant) /\ Input.rest = <<>>
  BY <1>1, TurnBack DEF ClientInv, MeantInv
<1> HIDE DEF r, o
<1>4. CASE r = NoRequest
  BY <1>1, <1>2, <1>3, <1>4, PromptInv
<1>5. CASE r # NoRequest
  <2>1. SoundInv'
    BY <1>1, <1>2, <1>5 DEF ClientInv, SoundInv, Sendable
  <2>2. MeantInv'
    BY <1>1, <1>3, <1>5 DEF ClientInv, MeantInv
  <2> QED BY <2>1, <2>2 DEF ClientInv
<1> QED
  BY <1>4, <1>5

LEMMA AnsweredInv ==
  ASSUME ClientInv, Answered
  PROVE  ClientInv'
<1>1. pc = "sent" /\ stdin' = stdin /\ overrun' = NoOverrun /\ Prompt
  BY DEF Answered
<1>2. stdin' \in Seq(1 .. 255) /\ (stdin' # <<>> => meant = NoRequest)
  BY <1>1 DEF ClientInv, SoundInv, MeantInv
<1> QED
  BY <1>1, <1>2, NoOverrunIs, PromptInv

LEMMA LeaveInv ==
  ASSUME ClientInv, Leave
  PROVE  ClientInv'
BY DEF ClientInv, SoundInv, MeantInv, Leave

LEMMA NextInv ==
  ASSUME ClientInv, [ClientNext]_clientVars
  PROVE  ClientInv'
<1>1. CASE TypeLine
  BY <1>1, TypeLineInv
<1>2. CASE \E memory \in Memories : ReadCommand(memory)
  BY <1>2, ReadCommandInv
<1>3. CASE Answered
  BY <1>3, AnsweredInv
<1>4. CASE Leave
  BY <1>4, LeaveInv
<1>5. CASE UNCHANGED clientVars
  BY <1>5 DEF clientVars, ClientInv, SoundInv, MeantInv
<1> QED
  BY <1>1, <1>2, <1>3, <1>4, <1>5 DEF ClientNext

LEMMA Invariant ==
  ClientSpec => []ClientInv
<1>1. ClientInit => ClientInv
  BY InitInv
<1>2. ClientInv /\ [ClientNext]_clientVars => ClientInv'
  BY NextInv
<1> QED
  BY <1>1, <1>2, PTL DEF ClientSpec

(* Every variable of the client's loop has its type; for meant, that the   *)
(* request a line was typed for is well-formed.                            *)
THEOREM ClientTypeCorrect ==
  ClientSpec => []ClientTypeOK
<1>1. ClientInv => ClientTypeOK
  <2> SUFFICES ASSUME ClientInv PROVE ClientTypeOK
    OBVIOUS
  <2>1. SoundInv /\ MeantInv
    BY DEF ClientInv
  <2>2. request \in RequestType
    BY <2>1, NoRequestIs, SendableType DEF SoundInv
  <2>3. meant = NoRequest \/ IsWellFormed(meant)
    BY <2>1, MeantIsRequest DEF MeantInv
  <2>4. overrun \in [{"clientCommand", "ttweetString", "inputHashtags"} -> Nat]
    BY <2>1 DEF SoundInv, Overruns, OverrunNames
  <2> QED BY <2>1, <2>2, <2>3, <2>4 DEF SoundInv, ClientTypeOK, RequestType
<1> QED
  BY <1>1, Invariant, PTL

(* Whatever is typed, and whatever is in memory behind it, the message and *)
(* the hashtags that the client sends are no longer than the arrays that   *)
(* the server copies them to, a subscription has one hashtag, and no tweet *)
(* is for #ALL (ttweetcli.c:185).                                          *)
THEOREM RequestsFit ==
  ClientSpec => []RequestFits
<1>1. ClientInv => RequestFits
  BY SendableType DEF ClientInv, SoundInv, RequestFits
<1> QED
  BY <1>1, Invariant, PTL

(* A well-formed line is never refused, and what is sent for it is the     *)
(* request it was typed for, whatever is in memory behind the line.        *)
THEOREM MeantSent ==
  ClientSpec => MeantIsSent
<1> DEFINE Sent == pc = "typed" /\ pc' # "typed" /\ meant # NoRequest => request' = meant
<1>1. ClientInv /\ [ClientNext]_clientVars => [Sent]_clientVars
  <2> SUFFICES ASSUME ClientInv, ClientNext, pc = "typed", pc' # "typed", meant # NoRequest
               PROVE  request' = meant
    OBVIOUS
  <2>1. CASE TypeLine \/ Answered \/ Leave
    BY <2>1 DEF TypeLine, Answered, Leave
  <2>2. CASE \E memory \in Memories : ReadCommand(memory)
    <3>1. PICK memory \in Memories : ReadCommand(memory)
      BY <2>2
    <3>2. RequestRead(memory) = meant
      BY TurnBack DEF ClientInv, MeantInv
    <3> QED BY <3>1, <3>2, ReadCommandIs
  <2> QED BY <2>1, <2>2 DEF ClientNext
<1> QED
  BY <1>1, Invariant, PTL DEF ClientSpec, MeantIsSent

(* Whatever is typed, and whatever is in memory behind it, a command,      *)
(* refused ones included, writes at most a 0 past clientCommand and past   *)
(* ttweetString, and at most a char and a 0 past inputHashtags; one that   *)
(* is sent stays inside clientCommand, and a well-formed one writes past   *)
(* the others only the 0 behind a message or behind hashtags of the full   *)
(* length (ttweetcli.c:352, 415, 430).                                     *)
THEOREM OverrunsAreSmall ==
  ClientSpec => []OverrunsAreBounded
<1>1. ClientInv => OverrunsAreBounded
  <2> SUFFICES ASSUME ClientInv PROVE OverrunsAreBounded
    OBVIOUS
  <2>1. /\ Overruns(overrun) /\ (pc = "sent" => overrun.clientCommand = 0)
        /\ pc = "sent" /\ meant # NoRequest => overrun = FullLengths(meant)
    BY DEF ClientInv, SoundInv, MeantInv
  <2>2. overrun.clientCommand <= (IF pc = "sent" THEN 0 ELSE 1)
    BY <2>1 DEF Overruns
  <2> QED BY <2>1, <2>2 DEF OverrunsAreBounded, Overruns, FullLengths
<1> QED
  BY <1>1, Invariant, PTL

-----------------------------------------------------------------------------
(* What is sent was typed                                                  *)

(* One line of SentWasTyped.                                               *)
WasTyped(r, l) ==
  \/ IsWellFormed(r) /\ Rendered(r) = l
  \/ r.code = REQ_TWEET /\ IsPrefix(Rendered(r), l)
  \/ ReadsOn(l)

LEMMA NoTweetIsWellFormed ==
  ASSUME NEW code \in {REQ_SUBSCRIBE, REQ_UNSUBSCRIBE, REQ_TIMELINE, REQ_EXIT},
         NEW tags, Tags(tags), IsInjective(tags), Len(Hashtagged(tags)) <= MAX_HASHTAG_LEN,
         code \in {REQ_SUBSCRIBE, REQ_UNSUBSCRIBE} => Len(tags) = 1,
         code \in {REQ_TIMELINE, REQ_EXIT} => tags = <<>>
  PROVE  IsWellFormed(Request(code, <<>>, tags))
<1> DEFINE A == Seq(Typable)
           B == Seq(Seq(Typable))
           none == <<>>
           r == Request(code, none, tags)
           n == Len(tags)
           tweet == code = REQ_TWEET
           subscription == code \in {REQ_SUBSCRIBE, REQ_UNSUBSCRIBE}
           D == 1 .. MAX_HASHTAG_CNT
<1>1. none \in A /\ tags \in B
  <2>1. Alnum \subseteq Typable
    BY Chars
  <2>2. tags \in Seq(Seq(Typable))
    BY <2>1, TagsAreTypable DEF Tags
  <2> QED BY <2>2
<1>2. code \in Nat /\ ~ tweet
  BY DEF REQ_TWEET, REQ_SUBSCRIBE, REQ_UNSUBSCRIBE, REQ_TIMELINE, REQ_EXIT
<1>3. r \in [code : Nat, ttweetString : A, validHashtags : B]
  <2> HIDE DEF A, B, none
  <2> QED BY <1>1, <1>2 DEF Request
<1>4. \A t \in ToSet(tags) : WellFormedTag(t)
  <2>1. \A i \in 1 .. Len(tags) : tags[i] \in Seq(Alnum) /\ tags[i] # <<>>
    BY DEF Tags
  <2>2. ASSUME NEW i \in 1 .. Len(tags)
        PROVE  WellFormedTag(tags[i])
    <3> DEFINE t == tags[i]
    <3>1. t \in Seq(Alnum) /\ t # <<>>
      BY <2>1
    <3> HIDE DEF t
    <3>2. \A j \in DOMAIN t : t[j] \in Alnum
      BY <3>1
    <3>3. WellFormedTag(t)
      BY <3>1, <3>2 DEF WellFormedTag, Alnum
    <3> QED BY <3>3 DEF t
  <2>3. DOMAIN tags = 1 .. Len(tags)
    BY DEF Tags
  <2> QED BY <2>2, <2>3 DEF ToSet
<1>5. n \in CASE tweet -> D [] subscription -> {1} [] OTHER -> {0}
  <2>1. Len(<<>>) = 0
    OBVIOUS
  <2>2. subscription => n = 1
    OBVIOUS
  <2>3. ~ subscription => n = 0
    BY <2>1
  <2> HIDE DEF n, D, tweet, subscription
  <2> QED BY <1>2, <2>2, <2>3
<1>6. r.code = code /\ r.ttweetString = none /\ r.validHashtags = tags
  BY RequestIs
<1>7. code \in {REQ_TWEET, REQ_SUBSCRIBE, REQ_UNSUBSCRIBE, REQ_TIMELINE, REQ_EXIT}
  OBVIOUS
<1> HIDE DEF r
<1>8. IsWellFormed(r)
  BY <1>2, <1>3, <1>4, <1>5, <1>6, <1>7 DEF IsWellFormed, A, B, D, n, none
<1> QED
  BY <1>8 DEF r

LEMMA NoZeroTyped ==
  ASSUME NEW t \in Seq(Typable)
  PROVE  t \in Seq(Byte) /\ \A i \in 1 .. Len(t) : t[i] # EndOfString
<1>1. t \in Seq(Byte)
  BY StringTypes
<1>2. \A i \in 1 .. Len(t) : t[i] \in Typable
  OBVIOUS
<1>3. EndOfString \notin Typable
  BY Chars
<1> QED
  BY <1>1, <1>2, <1>3

LEMMA CopiedTo ==
  ASSUME NEW t \in Seq(Typable), NEW memory \in Seq(Byte)
  PROVE  CopyHashtags(t \o Cons(EndOfString, memory)).ok =>
           CopyHashtags(t \o Cons(EndOfString, memory)).s = t
<1> DEFINE z == Cons(EndOfString, memory)
           s == t \o z
<1>1. t \in Seq(Byte) /\ \A i \in 1 .. Len(t) : t[i] # EndOfString
  BY NoZeroTyped
<1>2. EndOfString \in Byte
  BY Chars
<1>3. Before(s, EndOfString) = t
  BY <1>1, <1>2, BeforeConcat
<1>4. z \in Seq(Byte)
  BY <1>2, ConsIs
<1> HIDE DEF z
<1>5. s \in Seq(Byte)
  BY <1>1, <1>4, Concat
<1> HIDE DEF s
<1>6. CopyHashtags(s).ok => CopyHashtags(s).s = Before(s, EndOfString)
  BY <1>5, CopiedSound
<1> QED
  BY <1>3, <1>6 DEF s, z

LEMMA SubscriptionTyped ==
  ASSUME NEW w \in WordSet, NEW t \in Seq(Typable), NEW memory \in Seq(Byte),
         NEW code \in {REQ_SUBSCRIBE, REQ_UNSUBSCRIBE},
         code = REQ_SUBSCRIBE => w = Word.subscribe,
         code = REQ_UNSUBSCRIBE => w = Word.unsubscribe,
         NEW r, r = RequestOf(CheckSubscription(t \o Cons(EndOfString, memory), code)),
         r # NoRequest
  PROVE  IsWellFormed(r) /\ Rendered(r) = w \o Cons(Space, t)
<1> DEFINE s == t \o Cons(EndOfString, memory)
           g == CopyHashtags(s)
           d == [code |-> code, ttweetString |-> <<>>, inputHashtags |-> g.s]
           c == CheckSubscription(s, code)
           h == parse_hashtags(t)
           none == <<>>
<1>1. c = IF g.ok THEN d ELSE Invalid
  BY DEF CheckSubscription
<1>2. g.ok => g.s = t
  BY CopiedTo
<1> HIDE DEF g
<1>3. d.code = code /\ d.ttweetString = none /\ (g.ok => d.inputHashtags = t)
  BY <1>2
<1>4. Invalid.code = REQ_INVALID
  BY DEF Invalid
<1> HIDE DEF s, c, d
<1>5. r = RequestOf(c)
  BY DEF s, c
<1>6. c.code = code /\ c.ttweetString = none /\ c.inputHashtags = t
  <2>1. RequestOf(Invalid) = NoRequest
    BY <1>4, RequestCases
  <2>2. g.ok
    BY <1>1, <1>5, <2>1
  <2> QED BY <1>1, <1>3, <2>2
<1>7. Before(none, EndOfString) = none
  <2>1. none \in Seq(Byte) /\ \A i \in 1 .. Len(none) : none[i] # EndOfString
    OBVIOUS
  <2> HIDE DEF none
  <2> QED BY <2>1, BeforeNothing
<1> HIDE DEF none
<1>8. h.ok /\ Len(h.valid) = 1 /\ r = Request(code, none, h.valid)
  <2>1. RequestOf(c) = IF parse_hashtags(c.inputHashtags).ok
                            /\ Len(parse_hashtags(c.inputHashtags).valid) = 1
                         THEN Request(c.code, Before(c.ttweetString, EndOfString),
                                      parse_hashtags(c.inputHashtags).valid)
                         ELSE NoRequest
    BY <1>6, RequestCases
  <2> HIDE DEF h
  <2>2. RequestOf(c) = IF h.ok /\ Len(h.valid) = 1 THEN Request(code, none, h.valid)
                                                    ELSE NoRequest
    BY <1>6, <1>7, <2>1 DEF h
  <2> QED BY <1>5, <2>2
<1>9. Tags(h.valid) /\ IsInjective(h.valid) /\ Hashtagged(h.valid) = t
      /\ Len(t) <= MAX_HASHTAG_LEN
  <2>1. SoundTags(t, h)
    BY NoZeroTyped, ParsedSound
  <2> HIDE DEF h
  <2> QED BY <1>8, <2>1 DEF SoundTags, Tags
<1> HIDE DEF h
<1>10. IsWellFormed(r)
  <2>1. Len(Hashtagged(h.valid)) <= MAX_HASHTAG_LEN
    BY <1>9
  <2>2. code \notin {REQ_TIMELINE, REQ_EXIT}
    BY CodesDiffer
  <2>3. IsWellFormed(Request(code, <<>>, h.valid))
    BY <1>8, <1>9, <2>1, <2>2, NoTweetIsWellFormed
  <2> QED BY <1>8, <2>3 DEF none
<1>11. Rendered(r) = w \o Cons(Space, t)
  <2> DEFINE p == <<Space>>
  <2>1. r.code = code /\ r.validHashtags = h.valid
    BY <1>8, RequestIs
  <2>2. Rendered(r) = w \o p \o t
    BY <1>9, <2>1, RenderedCases
  <2>3. p \in Seq(Typable) /\ w \in Seq(Typable)
    BY Chars, OneChar, WordIs
  <2> HIDE DEF p
  <2>4. Associative(Typable)
    BY RegroupAll
  <2>5. (w \o p) \o t = w \o (p \o t)
    BY <2>3, <2>4, Zenon DEF Associative
  <2> QED BY <2>2, <2>5 DEF p, Cons
<1> QED
  BY <1>10, <1>11

LEMMA SingleWordTyped ==
  ASSUME NEW w \in WordSet, NEW code \in {REQ_TIMELINE, REQ_EXIT},
         code = REQ_TIMELINE => w = Word.timeline,
         code = REQ_EXIT => w = Word.exit,
         NEW endOfCmd \in BOOLEAN,
         NEW r, r = RequestOf(CheckSingleWord(endOfCmd, code)), r # NoRequest
  PROVE  endOfCmd /\ IsWellFormed(r) /\ Rendered(r) = w
<1> DEFINE d == [Invalid EXCEPT !.code = code]
           c == CheckSingleWord(endOfCmd, code)
           none == <<>>
<1>1. c = IF endOfCmd THEN d ELSE Invalid
  BY DEF CheckSingleWord
<1>2. d.code = code /\ d.ttweetString = none /\ Invalid.code = REQ_INVALID
  BY DEF Invalid
<1> HIDE DEF c, d
<1>3. r = RequestOf(c)
  BY DEF c
<1>4. endOfCmd /\ c = d
  <2>1. RequestOf(Invalid) = NoRequest
    BY <1>2, RequestCases
  <2> QED BY <1>1, <1>3, <2>1
<1>5. Before(none, EndOfString) = none
  <2>1. none \in Seq(Byte) /\ \A i \in 1 .. Len(none) : none[i] # EndOfString
    OBVIOUS
  <2> HIDE DEF none
  <2> QED BY <2>1, BeforeNothing
<1>6. r = Request(code, none, none)
  <2> HIDE DEF none
  <2>1. RequestOf(c) = Request(c.code, Before(c.ttweetString, EndOfString), <<>>)
    BY <1>2, <1>4, RequestCases
  <2> QED BY <1>2, <1>3, <1>4, <1>5, <2>1 DEF none
<1>7. IsWellFormed(r)
  <2>1. Tags(none) /\ IsInjective(none)
    BY DEF Tags, IsInjective
  <2>2. Len(Hashtagged(none)) <= MAX_HASHTAG_LEN
    <3>1. Hashtagged(none) = <<>> /\ Len(<<>>) = 0
      BY HashtaggedEmpty
    <3>2. 0 <= MAX_HASHTAG_LEN
      BY ClientParserAssumption
    <3> QED BY <3>1, <3>2
  <2>3. code \notin {REQ_SUBSCRIBE, REQ_UNSUBSCRIBE}
    BY CodesDiffer
  <2>4. none = <<>>
    OBVIOUS
  <2> HIDE DEF none
  <2>5. IsWellFormed(Request(code, <<>>, none))
    BY <2>1, <2>2, <2>3, <2>4, NoTweetIsWellFormed
  <2> QED BY <1>6, <2>4, <2>5
<1>8. Rendered(r) = w
  <2>1. r.code = code
    BY <1>6, RequestIs
  <2> QED BY <2>1, RenderedCases
<1> QED
  BY <1>4, <1>7, <1>8

LEMMA PrefixOfConcat ==
  ASSUME NEW S, NEW a \in Seq(S), NEW b \in Seq(S)
  PROVE  IsPrefix(a, a \o b)
<1> DEFINE n == Len(a)
           s == a \o b
<1>1. /\ s \in Seq(S) /\ Len(s) = Len(a) + Len(b)
      /\ \A i \in 1 .. Len(a) : s[i] = a[i]
  BY Concat
<1>2. n \in Nat /\ Len(b) \in Nat
  OBVIOUS
<1> HIDE DEF s
<1>3. n \in 0 .. Len(s)
  BY <1>1, <1>2
<1> DEFINE p == SubSeq(s, 1, n)
<1>4. p \in Seq(S) /\ Len(p) = n /\ \A i \in 1 .. n : p[i] = s[i]
  <2> HIDE DEF n
  <2> QED BY <1>1, <1>3, PrefixIs
<1> HIDE DEF p
<1>5. p = a
  <2>1. \A i \in 1 .. Len(a) : p[i] = a[i]
    BY <1>1, <1>4
  <2> QED BY <1>4, <2>1, SameSeq
<1>6. SubSeq(a, 1, n) = a
  BY PrefixIsAll
<1>7. Len(a) <= Len(s) /\ SubSeq(a, 1, Len(a)) = SubSeq(s, 1, Len(a))
  BY <1>3, <1>5, <1>6 DEF p
<1> QED
  BY <1>7 DEF IsPrefix, s

LEMMA PrefixAndRest ==
  ASSUME NEW S, NEW s \in Seq(S), NEW n \in 0 .. Len(s)
  PROVE  /\ SubSeq(s, 1, n) \in Seq(S) /\ From(s, n + 1) \in Seq(S)
         /\ s = SubSeq(s, 1, n) \o From(s, n + 1)
<1> DEFINE a == SubSeq(s, 1, n)
           b == From(s, n + 1)
           w == a \o b
<1>1. a \in Seq(S) /\ Len(a) = n /\ \A i \in 1 .. n : a[i] = s[i]
  BY PrefixIs
<1> DEFINE m == n + 1
<1>2. m \in Nat \ {0} /\ n \in Nat /\ Len(s) \in Nat /\ n <= Len(s)
  OBVIOUS
<1>3. /\ b \in Seq(S) /\ Len(b) = Len(s) - n
      /\ \A j \in 1 .. Len(b) : b[j] = s[n + j]
  <2> DEFINE f == From(s, m)
  <2>1. m = n + 1
    OBVIOUS
  <2> HIDE DEF m
  <2>2. /\ f \in Seq(S) /\ Len(f) = IF m <= Len(s) THEN Len(s) - m + 1 ELSE 0
        /\ \A j \in 1 .. Len(f) : f[j] = s[m + j - 1]
    BY <1>2, FromIs
  <2> HIDE DEF f
  <2>3. Len(f) = Len(s) - n
    BY <1>2, <2>1, <2>2
  <2>4. \A j \in 1 .. Len(f) : m + j - 1 = n + j
    BY <1>2, <2>1
  <2>5. \A j \in 1 .. Len(f) : f[j] = s[n + j]
    BY <2>2, <2>4
  <2> QED BY <2>1, <2>2, <2>3, <2>5 DEF f
<1> HIDE DEF a, b
<1>4. /\ w \in Seq(S) /\ Len(w) = Len(a) + Len(b)
      /\ \A i \in 1 .. Len(a) : w[i] = a[i]
      /\ \A i \in 1 .. Len(b) : w[Len(a) + i] = b[i]
  <2>1. a \in Seq(S) /\ b \in Seq(S)
    BY <1>1, <1>3
  <2> QED BY <2>1, Concat
<1> HIDE DEF w
<1>5. Len(w) = Len(s)
  BY <1>1, <1>2, <1>3, <1>4
<1>6. ASSUME NEW i \in 1 .. Len(s)
      PROVE  w[i] = s[i]
  <2>1. CASE i <= n
    BY <1>1, <1>2, <1>4, <2>1
  <2>2. CASE ~ (i <= n)
    <3> DEFINE j == i - n
    <3>1. j \in 1 .. Len(b) /\ i = n + j
      BY <1>2, <1>3, <2>2
    <3> HIDE DEF j
    <3> QED BY <1>1, <1>3, <1>4, <3>1
  <2> QED BY <2>1, <2>2
<1>7. w = s
  BY <1>4, <1>5, <1>6, SameSeq
<1> QED
  BY <1>1, <1>3, <1>7 DEF a, b, w

LEMMA QuotesSplit ==
  ASSUME NEW t \in Seq(Typable), NEW q \in 2 .. Len(t), t[1] = QuoteMark, t[q] = QuoteMark
  PROVE  \E m, u \in Seq(Typable) :
           /\ \A i \in 1 .. Len(m) : m[i] # QuoteMark
           /\ t = Cons(QuoteMark, m \o Cons(QuoteMark, u))
<1> DEFINE s == From(t, 2)
           m == Before(s, QuoteMark)
<1>1. q \in Nat /\ Len(t) \in Nat /\ 2 <= q /\ q <= Len(t)
  OBVIOUS
<1>2. t # <<>>
  BY <1>1
<1>3. s \in Seq(Typable) /\ t = Cons(QuoteMark, s)
  BY <1>2, ConsSplit
<1>4. QuoteMark \in Typable
  BY Chars
<1> HIDE DEF s
<1> DEFINE j == q - 1
<1>5. j \in 1 .. Len(s) /\ s[j] = QuoteMark
  <2> DEFINE c == Cons(QuoteMark, s)
  <2>0. QuoteMark \in Typable /\ s \in Seq(Typable)
    BY <1>3, <1>4
  <2>1. Len(c) = Len(s) + 1 /\ \A i \in 1 .. Len(s) : c[i + 1] = s[i]
    BY <2>0, ConsIs
  <2>2. c = t
    BY <1>3
  <2> HIDE DEF c
  <2>3. Len(s) \in Nat
    BY <1>3
  <2>4. j \in 1 .. Len(s) /\ j + 1 = q
    BY <1>1, <2>1, <2>2, <2>3
  <2> HIDE DEF j
  <2> QED BY <2>1, <2>2, <2>4
<1> HIDE DEF j
<1>6. /\ m \in Seq(Typable) /\ Len(m) \in 0 .. Len(s)
      /\ \A i \in 1 .. Len(m) : m[i] = s[i] /\ s[i] # QuoteMark
  BY <1>3, BeforeIs
<1>7. Len(m) < Len(s)
  <2> HIDE DEF m
  <2>1. Len(m) # Len(s)
    BY <1>5, <1>6
  <2> QED BY <1>3, <1>6, <2>1
<1> DEFINE u == From(s, Len(m) + 2)
<1>8. u \in Seq(Typable) /\ s = m \o Cons(QuoteMark, u)
  BY <1>3, <1>7, Split, SMTT(40)
<1> HIDE DEF m, u
<1>9. \A i \in 1 .. Len(m) : m[i] # QuoteMark
  BY <1>6
<1> QED
  BY <1>3, <1>6, <1>8, <1>9

LEMMA QuoteTail ==
  ASSUME NEW m \in Seq(Byte), NEW d \in Seq(Byte), NEW z \in Seq(Byte)
  PROVE  /\ Cons(QuoteMark, m \o Cons(QuoteMark, d)) \in Seq(Byte)
         /\ Cons(QuoteMark, m \o Cons(QuoteMark, d)) \o z =
              Cons(QuoteMark, m \o Cons(QuoteMark, d \o z))
<1>0. ConsFirst(Byte)
  BY ConsConcatAll
<1>1. QuoteMark \in Byte
  BY Chars
<1> DEFINE e == Cons(QuoteMark, d)
           f == m \o e
           g == Cons(QuoteMark, f)
<1>2. e \in Seq(Byte)
  BY <1>1, ConsIs
<1>3. e \o z = Cons(QuoteMark, d \o z)
  BY <1>0, <1>1, Zenon DEF ConsFirst
<1> HIDE DEF e
<1>4. f \in Seq(Byte)
  BY <1>2, Concat
<1>5. f \o z = m \o (e \o z)
  <2>1. Associative(Byte) /\ m \in Seq(Byte) /\ e \in Seq(Byte) /\ z \in Seq(Byte)
    BY <1>2, RegroupAll
  <2>2. (m \o e) \o z = m \o (e \o z)
    BY <2>1, Zenon DEF Associative
  <2> QED BY <2>2
<1> HIDE DEF f
<1>6. g \in Seq(Byte)
  BY <1>1, <1>4, ConsIs
<1>7. g \o z = Cons(QuoteMark, f \o z)
  <2>1. f \in Seq(Byte) /\ z \in Seq(Byte) /\ QuoteMark \in Byte
    BY <1>1, <1>4
  <2> QED BY <1>0, <2>1, Zenon DEF ConsFirst
<1>8. g \o z = Cons(QuoteMark, m \o Cons(QuoteMark, d \o z))
  <2> HIDE DEF g
  <2> QED BY <1>3, <1>5, <1>7
<1> QED
  BY <1>6, <1>8 DEF g, f, e

LEMMA FirstOfConcat ==
  ASSUME NEW S, NEW a \in Seq(S), NEW b \in Seq(S), a # <<>>
  PROVE  (a \o b)[1] = a[1]
<1>1. \A i \in 1 .. Len(a) : (a \o b)[i] = a[i]
  BY Concat
<1>2. 1 \in 1 .. Len(a)
  OBVIOUS
<1> QED
  BY <1>1, <1>2

(* A tweet that was not refused, with both its quotes in the line.         *)
LEMMA TweetAccepted ==
  ASSUME NEW t \in Seq(Typable), NEW memory \in Seq(Byte),
         NEW p \in 1 .. Len(t), NEW q \in 1 .. Len(t), p < q,
         t[p] = QuoteMark, t[q] = QuoteMark,
         check_tweet_cmd(t \o Cons(EndOfString, memory)) # Invalid
  PROVE  \E m, h \in Seq(Typable) :
           /\ t = Quoted(m, h)
           /\ check_tweet_cmd(t \o Cons(EndOfString, memory)) = TweetCommand(m, h)
<1> DEFINE z == Cons(EndOfString, memory)
           s == t \o z
           c == check_tweet_cmd(s)
<1>1. EndOfString \in Byte /\ t \in Seq(Byte) /\ Space \in Byte /\ EndOfString # Space
  BY StringTypes, Chars
<1>2. z \in Seq(Byte) /\ z[1] = EndOfString
  BY <1>1, ConsIs
<1>3. t # <<>> /\ q \in 2 .. Len(t)
  <2>1. Len(t) \in Nat
    OBVIOUS
  <2> QED BY <2>1
<1>4. t[1] = QuoteMark
  <2>1. s[1] # QuoteMark => c = Invalid
    BY DEF check_tweet_cmd, HashtagsFollow, MessageRead
  <2>2. s[1] = t[1]
    <3> HIDE DEF z
    <3> QED BY <1>1, <1>2, <1>3, FirstOfConcat
  <2> QED BY <2>1, <2>2
<1>5. PICK m, u \in Seq(Typable) : /\ \A i \in 1 .. Len(m) : m[i] # QuoteMark
                                   /\ t = Cons(QuoteMark, m \o Cons(QuoteMark, u))
  BY <1>3, <1>4, QuotesSplit
<1>6. m \in Seq(Byte) /\ u \in Seq(Byte)
  BY StringTypes
<1> HIDE DEF z
<1> DEFINE d == u \o z
<1>7. d \in Seq(Byte)
  BY <1>2, <1>6, Concat
<1>8. s = Cons(QuoteMark, m \o Cons(QuoteMark, d))
  <2>1. m \in Seq(Byte) /\ u \in Seq(Byte) /\ z \in Seq(Byte)
    BY <1>2, <1>6
  <2> DEFINE e == Cons(QuoteMark, m \o Cons(QuoteMark, u))
             f == Cons(QuoteMark, m \o Cons(QuoteMark, d))
  <2>2. e \o z = f
    BY <2>1, QuoteTail
  <2>3. t = e
    BY <1>5
  <2> HIDE DEF e, f
  <2>4. t \o z = f
    BY <2>2, <2>3
  <2> QED BY <2>4 DEF f
<1> HIDE DEF d, s
<1> DEFINE k == CopyHashtags(From(d, 2))
<1>9. c = IF Len(m) \in 1 .. MAX_TWEET_LEN /\ d # <<>> /\ d[1] = Space /\ k.ok
            THEN TweetCommand(m, k.s) ELSE Invalid
  BY <1>5, <1>6, <1>7, <1>8, TweetCases
<1>10. c # Invalid
  BY DEF s, z
<1> HIDE DEF c, k
<1>11. d[1] = Space /\ k.ok /\ c = TweetCommand(m, k.s)
  BY <1>9, <1>10
<1>12. u # <<>>
  <2> SUFFICES ASSUME u = <<>> PROVE FALSE
    OBVIOUS
  <2>1. d = z
    BY <1>2, ConcatEmptySeq DEF d
  <2> QED BY <1>1, <1>2, <1>11, <2>1
<1> DEFINE h == From(u, 2)
<1>13. u[1] = Space
  <2>1. d[1] = u[1]
    BY <1>2, <1>6, <1>12, FirstOfConcat DEF d
  <2> QED BY <1>11, <2>1
<1>14. h \in Seq(Typable) /\ u = Cons(Space, h)
  BY <1>12, <1>13, ConsSplit
<1> HIDE DEF h
<1>15. From(d, 2) = h \o z
  <2>1. h \in Seq(Byte) /\ z \in Seq(Byte) /\ Space \in Byte
    BY <1>1, <1>2, <1>14, StringTypes
  <2>2. ConsFirst(Byte)
    BY ConsConcatAll
  <2> DEFINE x == h \o z
  <2>3. Cons(Space, h) \o z = Cons(Space, x)
    BY <2>1, <2>2, Zenon DEF ConsFirst
  <2>4. x \in Seq(Byte)
    BY <2>1, Concat
  <2> HIDE DEF x
  <2>5. From(Cons(Space, x), 2) = x
    BY <2>1, <2>4, FromCons
  <2> QED BY <1>14, <2>3, <2>5 DEF d, x
<1>16. k.s = h
  BY <1>11, <1>14, <1>15, CopiedTo DEF k, z
<1>17. t = Quoted(m, h)
  BY <1>5, <1>14 DEF Quoted
<1>18. c = TweetCommand(m, h)
  BY <1>11, <1>16
<1> QED
  BY <1>14, <1>17, <1>18 DEF c, s, z

(* What is sent for a tweet is rendered as the start of the line.          *)
LEMMA TweetTyped ==
  ASSUME NEW t \in Seq(Typable), NEW memory \in Seq(Byte),
         NEW p \in 1 .. Len(t), NEW q \in 1 .. Len(t), p < q,
         t[p] = QuoteMark, t[q] = QuoteMark,
         NEW r, r = RequestOf(check_tweet_cmd(t \o Cons(EndOfString, memory))),
         r # NoRequest
  PROVE  r.code = REQ_TWEET /\ IsPrefix(Rendered(r), Word.tweet \o Cons(Space, t))
<1> DEFINE c == check_tweet_cmd(t \o Cons(EndOfString, memory))
<1>1. c # Invalid
  <2>1. r = RequestOf(c)
    OBVIOUS
  <2> HIDE DEF c
  <2>2. Invalid.code = REQ_INVALID
    BY DEF Invalid
  <2> DEFINE i == Invalid
  <2>3. i.code = REQ_INVALID
    BY <2>2
  <2> HIDE DEF i
  <2>4. RequestOf(i) = NoRequest
    BY <2>3, RequestCases
  <2> QED BY <2>1, <2>4 DEF i
<1>2. PICK m \in Seq(Typable), h \in Seq(Typable) : t = Quoted(m, h) /\ c = TweetCommand(m, h)
  BY <1>1, TweetAccepted
<1>3. c.code = REQ_TWEET /\ c.ttweetString = m /\ c.inputHashtags = h
  <2> HIDE DEF c
  <2> QED BY <1>2 DEF TweetCommand
<1>4. r = RequestOf(c)
  OBVIOUS
<1> HIDE DEF c
<1>5. m \in Seq(Byte) /\ h \in Seq(Byte) /\ t \in Seq(Byte)
  BY StringTypes
<1>6. Before(m, EndOfString) = m
  BY NoZeroTyped, BeforeNothing
<1> DEFINE y == parse_hashtags(h)
           v == y.valid
<1>7. SoundTags(h, y)
  BY <1>5, ParsedSound
<1>8. r = Request(REQ_TWEET, m, v)
  BY <1>3, <1>4, <1>6, RequestCases
<1> HIDE DEF y
<1>9. PICK n \in 0 .. Len(h) : Hashtagged(v) = SubSeq(h, 1, n)
  BY <1>7 DEF SoundTags
<1> HIDE DEF v
<1>10. r.code = REQ_TWEET /\ r.ttweetString = m /\ r.validHashtags = v
  BY <1>8, RequestIs
<1> DEFINE a == SubSeq(h, 1, n)
           b == From(h, n + 1)
           w == Word.tweet
<1>11. a \in Seq(Byte) /\ b \in Seq(Byte) /\ h = a \o b
  BY <1>5, PrefixAndRest
<1>12. w \in Seq(Typable) /\ w \in Seq(Byte) /\ Space \in Byte /\ QuoteMark \in Byte
  BY WordIs, Chars DEF WordSet
<1>24. a \in Seq(Typable)
  BY PrefixAndRest
<1>13. Hashtagged(v) = a
  BY <1>9
<1> HIDE DEF a, b
<1>14. Rendered(r) = w \o Cons(Space, Quoted(m, a))
  <2>1. Rendered(r) = w \o <<Space, QuoteMark>> \o m \o <<QuoteMark, Space>> \o a
    BY <1>10, <1>13, RenderedCases
  <2>2. /\ w \in Seq(Typable) /\ m \in Seq(Typable) /\ a \in Seq(Typable)
        /\ Space \in Typable /\ QuoteMark \in Typable
    BY <1>12, <1>24, Chars
  <2> HIDE DEF w
  <2>3. /\ w \o <<Space, QuoteMark>> \o m \o <<QuoteMark, Space>> \o a =
             w \o Cons(Space, Quoted(m, a))
        /\ w \o Cons(Space, Quoted(m, a)) \in Seq(Typable)
    BY <2>2, TweetLine
  <2> QED BY <2>1, <2>3
<1> HIDE DEF w
<1> DEFINE x == Quoted(m, a)
<1>15. x \in Seq(Byte) /\ x \o b = t
  <2>1. m \in Seq(Byte) /\ a \in Seq(Byte) /\ b \in Seq(Byte)
    BY <1>5, <1>11
  <2>2. Quoted(m, a) \in Seq(Byte) /\ Quoted(m, a) \o b = Quoted(m, a \o b)
    BY <2>1, TweetTail, SMTT(60)
  <2> QED BY <1>2, <1>11, <2>2
<1>16. Rendered(r) = w \o Cons(Space, x)
  BY <1>14
<1> HIDE DEF x
<1> DEFINE y2 == Cons(Space, x)
<1>17. y2 \in Seq(Byte)
  BY <1>12, <1>15, ConsIs
<1>18. y2 \o b = Cons(Space, t)
  <2>1. ConsFirst(Byte) /\ Space \in Byte /\ x \in Seq(Byte) /\ b \in Seq(Byte)
    BY <1>11, <1>12, <1>15, ConsConcatAll
  <2>2. Cons(Space, x) \o b = Cons(Space, x \o b)
    BY <2>1, Zenon DEF ConsFirst
  <2> QED BY <1>15, <2>2
<1>19. Rendered(r) = w \o y2
  BY <1>16
<1> HIDE DEF y2
<1>20. (w \o y2) \o b = w \o Cons(Space, t)
  <2>1. Associative(Byte) /\ w \in Seq(Byte) /\ y2 \in Seq(Byte) /\ b \in Seq(Byte)
    BY <1>11, <1>12, <1>17, RegroupAll
  <2>2. (w \o y2) \o b = w \o (y2 \o b)
    BY <2>1, Zenon DEF Associative
  <2> QED BY <1>18, <2>2
<1> DEFINE f == w \o y2
<1>21. f \in Seq(Byte)
  BY <1>12, <1>17, Concat
<1>22. Rendered(r) = f /\ f \o b = w \o Cons(Space, t)
  BY <1>19, <1>20
<1> HIDE DEF f
<1>23. IsPrefix(f, f \o b)
  BY <1>11, <1>21, PrefixOfConcat
<1> QED
  BY <1>10, <1>22, <1>23 DEF w

LEMMA InvalidIsNotSent ==
  RequestOf(Invalid) = NoRequest
<1> DEFINE i == Invalid
<1>1. i.code = REQ_INVALID
  BY DEF Invalid
<1> HIDE DEF i
<1>2. RequestOf(i) = NoRequest
  BY <1>1, RequestCases
<1> QED
  BY <1>2 DEF i

(* Two quotes in a line that starts with tweet are behind the space.       *)
LEMMA QuotesBehind ==
  ASSUME NEW l \in Seq(Typable), Before(l, Space) = Word.tweet, Len(l) > 1,
         NEW i \in 1 .. Len(l), NEW j \in 1 .. Len(l), i < j,
         l[i] = QuoteMark, l[j] = QuoteMark
  PROVE  \E p, q \in 1 .. Len(From(l, 3)) :
           p < q /\ From(l, 3)[p] = QuoteMark /\ From(l, 3)[q] = QuoteMark
<1> DEFINE w == Word.tweet
<1>1. Len(w) = 1 /\ \A k \in 1 .. Len(w) : w[k] # QuoteMark
  <2>1. w \in WordSet
    BY DEF WordSet
  <2> HIDE DEF w
  <2> QED BY <2>1, WordIs
<1> DEFINE b == Before(l, Space)
<1>2. /\ \A k \in 1 .. Len(b) : b[k] = l[k]
      /\ Len(b) < Len(l) => l[Len(b) + 1] = Space
  BY BeforeIs
<1>3. b = w
  OBVIOUS
<1> HIDE DEF b, w
<1> DEFINE x == 1
           y == Len(b)
<1>11. y = x /\ \A k \in 1 .. y : b[k] # QuoteMark
  <2> HIDE DEF x
  <2>1. Len(b) = Len(w)
    BY <1>3
  <2>2. Len(w) = x
    BY <1>1 DEF x
  <2>3. \A k \in 1 .. Len(w) : b[k] # QuoteMark
    BY <1>1, <1>3
  <2> QED BY <2>1, <2>2, <2>3
<1>12. /\ \A k \in 1 .. y : b[k] = l[k]
       /\ y < Len(l) => l[y + 1] = Space
  BY <1>2
<1> HIDE DEF y
<1>4. l[1] # QuoteMark
  <2>1. 1 \in 1 .. y
    BY <1>11
  <2> QED BY <1>11, <1>12, <2>1
<1>5. l[2] = Space /\ Space # QuoteMark
  <2>1. y < Len(l) /\ y + 1 = 2
    BY <1>11
  <2> QED BY <1>12, <2>1, Chars
<1> DEFINE t == From(l, 3)
           n == Len(l)
<1>6. n \in Nat
  OBVIOUS
<1>7. Len(t) = (IF 3 <= n THEN n - 3 + 1 ELSE 0) /\ \A k \in 1 .. Len(t) : t[k] = l[3 + k - 1]
  BY FromIs
<1> HIDE DEF t
<1>8. i \in 1 .. n /\ j \in 1 .. n /\ i # 1 /\ i # 2 /\ j # 1 /\ j # 2
  BY <1>4, <1>5
<1> HIDE DEF n
<1> DEFINE p == i - 2
           q == j - 2
<1>9. p \in 1 .. Len(t) /\ q \in 1 .. Len(t) /\ p < q /\ 3 + p - 1 = i /\ 3 + q - 1 = j
  BY <1>6, <1>7, <1>8
<1>10. t[p] = QuoteMark /\ t[q] = QuoteMark
  <2> HIDE DEF p, q
  <2> QED BY <1>7, <1>9
<1> QED
  BY <1>9, <1>10 DEF t

(* What is sent for the chars of a line and what is in memory behind them. *)
LEMMA LineTyped ==
  ASSUME NEW l \in Seq(Typable), NEW memory \in Seq(Byte),
         NEW r, r = RequestOf(parse_client_command(l, memory)), r # NoRequest
  PROVE  WasTyped(r, l)
<1> DEFINE w == Before(l, Space)
           endOfCmd == Len(w) = Len(l)
           s == From(l \o <<EndOfString>> \o memory, Len(w) + 2)
           c == parse_client_command(l, memory)
<1>1. /\ w = Word.tweet => c = check_tweet_cmd(s)
      /\ w = Word.subscribe => c = CheckSubscription(s, REQ_SUBSCRIBE)
      /\ w = Word.unsubscribe => c = CheckSubscription(s, REQ_UNSUBSCRIBE)
      /\ w = Word.timeline => c = CheckSingleWord(endOfCmd, REQ_TIMELINE)
      /\ w = Word.exit => c = CheckSingleWord(endOfCmd, REQ_EXIT)
      /\ w \notin WordSet => c = Invalid
  BY ParseCommandCases
<1>2. r = RequestOf(c)
  OBVIOUS
<1>3. w \in WordSet
  <2> HIDE DEF c, w
  <2> QED BY <1>1, <1>2, InvalidIsNotSent
<1>4. endOfCmd \in BOOLEAN
  OBVIOUS
<1>5. w = Word.timeline \/ w = Word.exit => endOfCmd /\ IsWellFormed(r) /\ Rendered(r) = w
  <2> HIDE DEF c, w, endOfCmd
  <2>1. CASE w = Word.timeline
    <3>1. w # Word.exit
      BY <2>1, WordsDiffer
    <3>2. r = RequestOf(CheckSingleWord(endOfCmd, REQ_TIMELINE)) /\ REQ_TIMELINE # REQ_EXIT
      BY <1>1, <1>2, <2>1, CodesDiffer
    <3> QED BY <1>3, <1>4, <2>1, <3>1, <3>2, SingleWordTyped
  <2>2. CASE w = Word.exit
    <3>1. w # Word.timeline
      BY <2>2, WordsDiffer
    <3>2. r = RequestOf(CheckSingleWord(endOfCmd, REQ_EXIT)) /\ REQ_TIMELINE # REQ_EXIT
      BY <1>1, <1>2, <2>2, CodesDiffer
    <3> QED BY <1>3, <1>4, <2>2, <3>1, <3>2, SingleWordTyped
  <2> QED BY <2>1, <2>2
<1>6. w \in Seq(Typable) /\ Len(w) \in 0 .. Len(l) /\ w = SubSeq(l, 1, Len(w))
  BY BeforeIs
<1>7. CASE Len(w) = Len(l)
  <2>1. w = l
    BY <1>6, <1>7, PrefixIsAll
  <2>2. w \in {Word.tweet, Word.subscribe, Word.unsubscribe} => ReadsOn(l)
    BY <2>1 DEF ReadsOn
  <2> HIDE DEF w
  <2> QED BY <1>3, <1>5, <2>1, <2>2 DEF WordSet, WasTyped
<1>8. CASE Len(w) # Len(l)
  <2> DEFINE t == From(l, Len(w) + 2)
  <2>1. Len(w) < Len(l)
    <3> HIDE DEF w
    <3> QED BY <1>6, <1>8
  <2>2. t \in Seq(Typable) /\ l = w \o Cons(Space, t)
    BY <2>1, Split
  <2>3. t \in Seq(Byte)
    BY <2>2, StringTypes
  <2>4. s = t \o Cons(EndOfString, memory)
    <3> HIDE DEF t, w
    <3> QED BY <1>3, <2>2, <2>3, WholeIs
  <2>5. w # Word.timeline /\ w # Word.exit
    <3> HIDE DEF w
    <3> QED BY <1>5, <1>8
  <2>6. CASE w \in {Word.subscribe, Word.unsubscribe}
    <3> HIDE DEF w, t, s, c
    <3>1. CASE w = Word.subscribe
      <4>1. w # Word.unsubscribe
        BY <3>1, WordsDiffer
      <4>2. r = RequestOf(CheckSubscription(t \o Cons(EndOfString, memory), REQ_SUBSCRIBE))
        BY <1>1, <1>2, <2>4, <3>1
      <4>3. REQ_SUBSCRIBE # REQ_UNSUBSCRIBE
        BY CodesDiffer
      <4>4. IsWellFormed(r) /\ Rendered(r) = w \o Cons(Space, t)
        BY <1>3, <2>2, <3>1, <4>1, <4>2, <4>3, SubscriptionTyped
      <4> QED BY <2>2, <4>4 DEF WasTyped
    <3>2. CASE w = Word.unsubscribe
      <4>1. w # Word.subscribe
        BY <3>2, WordsDiffer
      <4>2. r = RequestOf(CheckSubscription(t \o Cons(EndOfString, memory), REQ_UNSUBSCRIBE))
        BY <1>1, <1>2, <2>4, <3>2
      <4>3. REQ_SUBSCRIBE # REQ_UNSUBSCRIBE
        BY CodesDiffer
      <4>4. IsWellFormed(r) /\ Rendered(r) = w \o Cons(Space, t)
        BY <1>3, <2>2, <3>2, <4>1, <4>2, <4>3, SubscriptionTyped
      <4> QED BY <2>2, <4>4 DEF WasTyped
    <3> QED BY <2>6, <3>1, <3>2
  <2>7. CASE w = Word.tweet /\ ~ ReadsOn(l)
    <3>1. Before(l, Space) = Word.tweet
      BY <2>7
    <3>2. PICK i \in DOMAIN l, j \in DOMAIN l : i < j /\ l[i] = QuoteMark /\ l[j] = QuoteMark
      BY <2>7, <3>1 DEF ReadsOn
    <3>3. Len(w) = 1
      BY <2>7, WordIs DEF WordSet
    <3>4. Len(l) > 1
      <4> HIDE DEF w
      <4> QED BY <2>1, <3>3
    <3>5. t = From(l, 3)
      BY <3>3
    <3>6. PICK p \in 1 .. Len(t), q \in 1 .. Len(t) :
            p < q /\ t[p] = QuoteMark /\ t[q] = QuoteMark
      <4>1. i \in 1 .. Len(l) /\ j \in 1 .. Len(l)
        OBVIOUS
      <4> HIDE DEF t
      <4> QED BY <3>1, <3>2, <3>4, <3>5, <4>1, QuotesBehind
    <3>7. r = RequestOf(check_tweet_cmd(t \o Cons(EndOfString, memory)))
      <4> HIDE DEF w, t, s, c
      <4> QED BY <1>1, <1>2, <2>4, <2>7
    <3> HIDE DEF t, w, s, c
    <3>8. r.code = REQ_TWEET /\ IsPrefix(Rendered(r), Word.tweet \o Cons(Space, t))
      BY <2>2, <3>6, <3>7, TweetTyped
    <3> QED BY <2>2, <2>7, <3>8 DEF WasTyped
  <2> HIDE DEF w
  <2> QED BY <1>3, <2>5, <2>6, <2>7 DEF WordSet, WasTyped
<1> QED
  BY <1>7, <1>8

-----------------------------------------------------------------------------
(* The parts in which a line is read                                       *)

Part == MAX_CLI_INPUT_LEN - 4

(* What is left of line l is what starts at one of its parts.              *)
Unread(l, s) ==
  s # <<>> => \E k \in 0 .. Len(l) : /\ k * Part <= Len(l)
                                     /\ s = Append(From(l, k * Part + 1), Newline)

(* What is sent was typed as one of the parts of line l.                   *)
SentPart(l, p, r) ==
  p = "sent" /\ r.code # REQ_VALIDATE_USER =>
    \E k \in 0 .. Len(l) : WasTyped(r, From(l, k * Part + 1))

TypedInv == Unread(line, stdin) /\ SentPart(line, pc, request)

LEMMA FromAll ==
  ASSUME NEW S, NEW s \in Seq(S)
  PROVE  From(s, 1) = s
<1> DEFINE f == From(s, 1)
<1>1. f \in Seq(S) /\ Len(f) = Len(s) /\ \A j \in 1 .. Len(f) : f[j] = s[1 + j - 1]
  <2> DEFINE i == 1
             n == Len(s)
  <2>1. i \in Nat \ {0} /\ i = 1 /\ n \in Nat
    OBVIOUS
  <2> HIDE DEF i
  <2>2. /\ From(s, i) \in Seq(S)
        /\ Len(From(s, i)) = IF i <= Len(s) THEN Len(s) - i + 1 ELSE 0
        /\ \A j \in 1 .. Len(From(s, i)) : From(s, i)[j] = s[i + j - 1]
    BY <2>1, FromIs
  <2>3. From(s, i) = f
    BY <2>1
  <2> HIDE DEF f
  <2>4. (IF i <= n THEN n - i + 1 ELSE 0) = n
    <3> HIDE DEF n
    <3> QED BY <2>1
  <2> QED BY <2>1, <2>2, <2>3, <2>4
<1> HIDE DEF f
<1>2. \A j \in 1 .. Len(s) : f[j] = s[j]
  <2> SUFFICES ASSUME NEW j \in 1 .. Len(s) PROVE f[j] = s[j]
    OBVIOUS
  <2>1. 1 + j - 1 = j
    OBVIOUS
  <2> QED BY <1>1, <2>1
<1>3. f = s
  BY <1>1, <1>2, SameSeq
<1> QED
  BY <1>3 DEF f

LEMMA FromAppend ==
  ASSUME NEW S, NEW s \in Seq(S), NEW c \in S, NEW n \in 1 .. Len(s) + 1
  PROVE  From(Append(s, c), n) = Append(From(s, n), c)
<1> DEFINE a == Append(s, c)
           f == From(s, n)
           x == From(a, n)
           y == Append(f, c)
           m == Len(s)
<1>1. m \in Nat /\ n \in 1 .. m + 1 /\ n \in Nat \ {0}
  OBVIOUS
<1>2. a \in Seq(S) /\ Len(a) = m + 1 /\ (\A i \in 1 .. m : a[i] = s[i]) /\ a[m + 1] = c
  BY AppendIs
<1>3. /\ f \in Seq(S) /\ Len(f) = IF n <= m THEN m - n + 1 ELSE 0
      /\ \A j \in 1 .. Len(f) : f[j] = s[n + j - 1]
  BY <1>1, FromIs
<1> HIDE DEF a
<1>4. /\ x \in Seq(S) /\ Len(x) = IF n <= Len(a) THEN Len(a) - n + 1 ELSE 0
      /\ \A j \in 1 .. Len(x) : x[j] = a[n + j - 1]
  BY <1>1, <1>2, FromIs
<1> HIDE DEF f
<1>5. /\ y \in Seq(S) /\ Len(y) = Len(f) + 1
      /\ (\A i \in 1 .. Len(f) : y[i] = f[i]) /\ y[Len(f) + 1] = c
  BY <1>3, AppendIs
<1> HIDE DEF x, y, m
<1>6. Len(f) = m - n + 1 /\ Len(x) = m - n + 2
  BY <1>1, <1>2, <1>3, <1>4
<1> DEFINE k == m - n + 1
<1>7. k \in Nat /\ Len(f) = k /\ Len(x) = k + 1 /\ Len(y) = k + 1 /\ n + k = m + 1
  BY <1>1, <1>5, <1>6
<1> HIDE DEF k
<1>8. \A j \in 1 .. Len(y) : x[j] = y[j]
  <2> SUFFICES ASSUME NEW j \in 1 .. k + 1 PROVE x[j] = y[j]
    BY <1>7
  <2>1. x[j] = a[n + j - 1]
    BY <1>4, <1>7
  <2>2. CASE j = k + 1
    <3>1. n + j - 1 = m + 1
      BY <1>1, <1>7, <2>2
    <3> QED BY <1>2, <1>5, <1>7, <2>1, <2>2, <3>1
  <2>3. CASE j # k + 1
    <3>1. j \in 1 .. k /\ n + j - 1 \in 1 .. m
      BY <1>1, <1>7, <2>3
    <3>2. a[n + j - 1] = s[n + j - 1]
      BY <1>2, <3>1
    <3>3. y[j] = f[j] /\ f[j] = s[n + j - 1]
      BY <1>3, <1>5, <1>7, <3>1
    <3> QED BY <2>1, <3>2, <3>3
  <2> QED BY <2>2, <2>3
<1>9. x = y
  BY <1>4, <1>5, <1>7, <1>8, SameSeq
<1> QED
  BY <1>9 DEF x, y, a, f

LEMMA FromFrom ==
  ASSUME NEW S, NEW s \in Seq(S), NEW i \in 1 .. Len(s) + 1, NEW j \in Nat \ {0}
  PROVE  From(From(s, i), j) = From(s, i + j - 1)
<1> DEFINE m == Len(s)
           k == i + j - 1
           f == From(s, i)
           x == From(f, j)
           y == From(s, k)
<1>1. m \in Nat /\ i \in 1 .. m + 1 /\ i \in Nat \ {0} /\ j \in Nat \ {0} /\ k \in Nat \ {0}
  OBVIOUS
<1>2. /\ f \in Seq(S) /\ Len(f) = IF i <= m THEN m - i + 1 ELSE 0
      /\ \A q \in 1 .. Len(f) : f[q] = s[i + q - 1]
  BY <1>1, FromIs
<1>3. k = i + j - 1
  OBVIOUS
<1> HIDE DEF f, k
<1>4. /\ x \in Seq(S) /\ Len(x) = IF j <= Len(f) THEN Len(f) - j + 1 ELSE 0
      /\ \A q \in 1 .. Len(x) : x[q] = f[j + q - 1]
  BY <1>1, <1>2, FromIs
<1>5. /\ y \in Seq(S) /\ Len(y) = IF k <= m THEN m - k + 1 ELSE 0
      /\ \A q \in 1 .. Len(y) : y[q] = s[k + q - 1]
  BY <1>1, FromIs
<1> HIDE DEF x, y, m
<1>6. Len(f) = m - i + 1
  BY <1>1, <1>2
<1>7. Len(x) = Len(y)
  BY <1>1, <1>3, <1>4, <1>5, <1>6
<1> DEFINE n == Len(y)
<1>8. n \in Nat /\ n = IF j <= Len(f) THEN Len(f) - j + 1 ELSE 0
  BY <1>4, <1>5, <1>7
<1>9. \A q \in 1 .. Len(y) : x[q] = y[q]
  <2> SUFFICES ASSUME NEW q \in 1 .. n PROVE x[q] = y[q]
    OBVIOUS
  <2>1. x[q] = f[j + q - 1]
    BY <1>4, <1>7
  <2>2. y[q] = s[k + q - 1]
    BY <1>5
  <2> HIDE DEF n
  <2>3. j + q - 1 \in 1 .. Len(f)
    BY <1>1, <1>6, <1>8
  <2>4. f[j + q - 1] = s[i + (j + q - 1) - 1]
    BY <1>2, <2>3
  <2>5. i + (j + q - 1) - 1 = k + q - 1
    BY <1>1, <1>3
  <2> QED BY <2>1, <2>2, <2>4, <2>5
<1>10. x = y
  BY <1>4, <1>5, <1>7, <1>9, SameSeq
<1> QED
  BY <1>10 DEF x, y, f, k

(* A line that is too long is given up, and the rest of it is a line.      *)
LEMMA LongLine ==
  ASSUME NEW l \in Seq(Typable), Len(l) > MAX_CLI_INPUT_LEN - 5
  PROVE  /\ ~ get_client_input(Append(l, Newline)).ok
         /\ get_client_input(Append(l, Newline)).rest = Append(From(l, Part + 1), Newline)
<1> DEFINE s == Append(l, Newline)
           b == Before(s, Newline)
           i == get_client_input(s)
           j == [ok |-> TRUE, clientInput |-> b, rest |-> From(s, Len(b) + 2)]
           k == [ok |-> FALSE, clientInput |-> <<>>, rest |-> From(s, MAX_CLI_INPUT_LEN - 3)]
<1>1. i = IF Len(b) <= MAX_CLI_INPUT_LEN - 5 THEN j ELSE k
  BY DEF get_client_input
<1>2. l \in Seq(Byte) /\ Newline \in Byte /\ <<>> \in Seq(Byte)
  <2>1. l \in Seq(Byte)
    BY StringTypes
  <2>2. Newline \in Byte
    BY Chars
  <2>3. <<>> \in Seq(Byte)
    OBVIOUS
  <2> QED BY <2>1, <2>2, <2>3
<1>3. \A n \in 1 .. Len(l) : l[n] # Newline
  BY DEF Typable
<1>4. s = l \o Cons(Newline, <<>>)
  <2> DEFINE z == <<Newline>>
  <2>1. s = l \o z
    BY <1>2, AppendIs
  <2>2. z \in Seq(Byte)
    BY <1>2, OneChar
  <2> HIDE DEF z, s
  <2>3. z \o <<>> = z
    BY <2>2, ConcatEmptySeq
  <2> QED BY <2>1, <2>3 DEF Cons, z
<1>5. b = l
  <2>1. Before(l \o Cons(Newline, <<>>), Newline) = l
    BY <1>2, <1>3, BeforeConcat
  <2> HIDE DEF s
  <2> QED BY <1>4, <2>1
<1>6. From(s, MAX_CLI_INPUT_LEN - 3) = Append(From(l, Part + 1), Newline)
  <2> DEFINE n == Part + 1
  <2>1. n = MAX_CLI_INPUT_LEN - 3 /\ n \in Nat /\ n \in 1 .. Len(l) + 1
    BY ClientParserAssumption DEF Part
  <2> HIDE DEF n
  <2>2. From(Append(l, Newline), n) = Append(From(l, n), Newline)
    BY <1>2, <2>1, FromAppend
  <2> QED BY <2>1, <2>2 DEF n
<1>7. ~ k.ok /\ k.rest = From(s, MAX_CLI_INPUT_LEN - 3)
  OBVIOUS
<1>8. i = k
  <2>1. ~ (Len(l) <= MAX_CLI_INPUT_LEN - 5)
    <3>1. Len(l) \in Nat /\ MAX_CLI_INPUT_LEN \in Nat
      BY ClientParserAssumption
    <3> QED BY <3>1
  <2> HIDE DEF i, j, k, b
  <2> QED BY <1>1, <1>5, <2>1
<1> HIDE DEF i, k, s
<1>9. ~ i.ok /\ i.rest = Append(From(l, Part + 1), Newline)
  BY <1>6, <1>7, <1>8
<1> QED
  BY <1>9 DEF i, s

(* A turn reads one part of the line.                                      *)
LEMMA NextPart ==
  ASSUME NEW l \in Seq(Typable), NEW s, s # <<>>, Unread(l, s)
  PROVE  \E k \in 0 .. Len(l) :
           /\ From(l, k * Part + 1) \in Seq(Typable)
           /\ get_client_input(s).ok =>
                /\ get_client_input(s).clientInput = From(l, k * Part + 1)
                /\ get_client_input(s).rest = <<>>
           /\ ~ get_client_input(s).ok => Unread(l, get_client_input(s).rest)
<1>1. PICK k \in 0 .. Len(l) : k * Part <= Len(l) /\ s = Append(From(l, k * Part + 1), Newline)
  BY DEF Unread
<1>2. Part \in Nat /\ Part >= 1 /\ MAX_CLI_INPUT_LEN - 5 = Part - 1
  BY ClientParserAssumption DEF Part
<1> DEFINE n == Len(l)
           m == k * Part
           x == From(l, m + 1)
           i == get_client_input(s)
<1>3. n \in Nat /\ m \in Nat /\ k \in Nat /\ m <= n
  BY <1>1, <1>2
<1>4. (k + 1) * Part = m + Part
  BY <1>2, <1>3
<1>5. m >= k
  BY <1>2, <1>3
<1>6. s = Append(x, Newline)
  BY <1>1
<1> HIDE DEF m
<1>7. x \in Seq(Typable) /\ Len(x) = n - m
  <2> DEFINE q == m + 1
  <2>1. q \in Nat \ {0} /\ q = m + 1
    BY <1>3
  <2> HIDE DEF q
  <2>2. /\ From(l, q) \in Seq(Typable)
        /\ Len(From(l, q)) = IF q <= Len(l) THEN Len(l) - q + 1 ELSE 0
    BY <2>1, FromIs
  <2>3. (IF q <= n THEN n - q + 1 ELSE 0) = n - m
    <3> HIDE DEF n
    <3> QED BY <1>3, <2>1
  <2>4. x = From(l, q)
    BY <2>1
  <2> QED BY <2>2, <2>3, <2>4
<1>8. CASE Len(x) <= MAX_CLI_INPUT_LEN - 5
  <2>1. i.ok /\ i.clientInput = x /\ i.rest = <<>>
    <3> HIDE DEF x
    <3> QED BY <1>6, <1>7, <1>8, LineRead
  <2> HIDE DEF i
  <2>2. /\ i.ok => i.clientInput = x /\ i.rest = <<>>
        /\ ~ i.ok => Unread(l, i.rest)
    BY <2>1
  <2> QED BY <1>7, <2>2 DEF i, m
<1>9. CASE Len(x) > MAX_CLI_INPUT_LEN - 5
  <2>1. ~ i.ok /\ i.rest = Append(From(x, Part + 1), Newline)
    <3> HIDE DEF x
    <3> QED BY <1>6, <1>7, <1>9, LongLine
  <2> HIDE DEF i
  <2> DEFINE j == k + 1
             p == j * Part
  <2>2. p = m + Part
    BY <1>4
  <2>3. j \in Nat /\ j = k + 1
    BY <1>3
  <2> HIDE DEF p, j
  <2>4. p <= n /\ p \in Nat /\ j \in 0 .. n
    <3>1. n - m > Part - 1
      BY <1>2, <1>7, <1>9
    <3> HIDE DEF n
    <3> QED BY <1>2, <1>3, <1>5, <2>2, <2>3, <3>1
  <2>5. From(x, Part + 1) = From(l, p + 1)
    <3> DEFINE a == m + 1
               b == Part + 1
    <3>1. a \in 1 .. Len(l) + 1 /\ b \in Nat \ {0} /\ a + b - 1 = p + 1
      BY <1>2, <1>3, <2>2
    <3> HIDE DEF a, b
    <3>2. From(From(l, a), b) = From(l, a + b - 1)
      BY <3>1, FromFrom
    <3> QED BY <3>1, <3>2 DEF a, b
  <2> HIDE DEF x
  <2>6. i.rest = Append(From(l, p + 1), Newline)
    BY <2>1, <2>5
  <2>7. Unread(l, i.rest)
    BY <2>4, <2>6 DEF Unread, p
  <2>8. /\ i.ok => i.clientInput = x /\ i.rest = <<>>
        /\ ~ i.ok => Unread(l, i.rest)
    BY <2>1, <2>7
  <2> QED BY <1>7, <2>8 DEF i, m, x
<1>10. Len(x) <= MAX_CLI_INPUT_LEN - 5 \/ Len(x) > MAX_CLI_INPUT_LEN - 5
  <2>1. Len(x) \in Int /\ MAX_CLI_INPUT_LEN - 5 \in Int
    BY <1>2, <1>3, <1>7
  <2> HIDE DEF x
  <2> QED BY <2>1
<1> QED
  BY <1>8, <1>9, <1>10

LEMMA PromptTyped ==
  ASSUME Prompt, Unread(line, stdin')
  PROVE  TypedInv'
<1>1. pc' = "prompt" /\ (stdin' # <<>> => line' = line)
  BY DEF Prompt
<1>2. SentPart(line', pc', request')
  BY <1>1 DEF SentPart
<1>3. Unread(line', stdin')
  BY <1>1 DEF Unread
<1> QED
  BY <1>2, <1>3 DEF TypedInv

LEMMA TypeLineTyped ==
  ASSUME ClientInv', TypeLine
  PROVE  TypedInv'
<1>1. pc' = "typed" /\ stdin' = Append(line', Newline)
  BY DEF TypeLine
<1>2. line' \in Seq(Typable)
  BY DEF ClientInv, SoundInv
<1>3. PICK l \in Seq(Typable) : l = line'
  BY <1>2
<1>4. Unread(l, stdin')
  <2>1. From(l, 1) = l
    BY FromAll
  <2>2. Part \in Nat /\ Len(l) \in Nat
    BY ClientParserAssumption DEF Part
  <2>3. 0 * Part = 0 /\ 0 \in 0 .. Len(l) /\ 0 <= Len(l) /\ 0 + 1 = 1
    BY <2>2
  <2>4. stdin' = Append(From(l, 0 * Part + 1), Newline)
    BY <1>1, <1>3, <2>1, <2>3
  <2> QED BY <2>3, <2>4 DEF Unread
<1>5. SentPart(line', pc', request')
  BY <1>1 DEF SentPart
<1> QED
  BY <1>3, <1>4, <1>5 DEF TypedInv

LEMMA ReadCommandTyped ==
  ASSUME ClientInv, TypedInv, NEW memory \in Memories, ReadCommand(memory)
  PROVE  TypedInv'
<1> DEFINE r == RequestRead(memory)
<1>1. /\ stdin # <<>> /\ stdin' = Input.rest
      /\ r = NoRequest => Prompt
      /\ r # NoRequest => pc' = "sent" /\ request' = r /\ line' = line
  BY ReadCommandIs
<1>2. line \in Seq(Typable) /\ Unread(line, stdin)
  BY DEF ClientInv, SoundInv, TypedInv
<1>3. PICK k \in 0 .. Len(line) :
        /\ From(line, k * Part + 1) \in Seq(Typable)
        /\ Input.ok => /\ Input.clientInput = From(line, k * Part + 1)
                       /\ Input.rest = <<>>
        /\ ~ Input.ok => Unread(line, Input.rest)
  BY <1>1, <1>2, NextPart DEF Input
<1>4. Unread(line, stdin')
  BY <1>1, <1>3 DEF Unread
<1>5. r # NoRequest => WasTyped(r, From(line, k * Part + 1))
  <2> SUFFICES ASSUME r # NoRequest PROVE WasTyped(r, From(line, k * Part + 1))
    OBVIOUS
  <2> DEFINE x == From(line, k * Part + 1)
  <2>1. Input.ok /\ r = RequestOf(parse_client_command(Input.clientInput, memory))
    BY DEF RequestRead, Command
  <2>2. x \in Seq(Typable) /\ r = RequestOf(parse_client_command(x, memory))
    BY <1>3, <2>1
  <2>3. memory \in Seq(Byte)
    BY ClientLoopAssumption
  <2> HIDE DEF x, r
  <2>4. WasTyped(r, x)
    BY <2>2, <2>3, LineTyped
  <2> QED BY <2>4 DEF x
<1> HIDE DEF r
<1>6. CASE r = NoRequest
  BY <1>1, <1>4, <1>6, PromptTyped
<1>7. CASE r # NoRequest
  <2>1. SentPart(line', pc', request')
    BY <1>1, <1>5, <1>7 DEF SentPart
  <2> QED BY <1>1, <1>4, <1>7, <2>1 DEF TypedInv
<1> QED
  BY <1>6, <1>7

LEMMA NextTyped ==
  ASSUME ClientInv, ClientInv', TypedInv, [ClientNext]_clientVars
  PROVE  TypedInv'
<1>1. CASE TypeLine
  BY <1>1, TypeLineTyped
<1>2. CASE \E memory \in Memories : ReadCommand(memory)
  BY <1>2, ReadCommandTyped
<1>3. CASE Answered
  BY <1>3, PromptTyped DEF Answered, TypedInv
<1>4. CASE Leave
  BY <1>4 DEF Leave, TypedInv, SentPart
<1>5. CASE UNCHANGED clientVars
  BY <1>5 DEF clientVars, TypedInv
<1> QED
  BY <1>1, <1>2, <1>3, <1>4, <1>5 DEF ClientNext

(* What the client sends was typed: it is well-formed and is one of the    *)
(* parts in which the last line is read, or it is a tweet and the start of *)
(* one, or that part has no argument for its command word.                 *)
THEOREM SentTyped ==
  ClientSpec => []SentWasTyped
<1>1. ClientInit => TypedInv
  <2> SUFFICES ASSUME ClientInit PROVE TypedInv
    OBVIOUS
  <2>1. stdin = <<>> /\ request.code = REQ_VALIDATE_USER
    BY NoRequestIs DEF ClientInit
  <2> QED BY <2>1 DEF TypedInv, Unread, SentPart
<1>2. ClientInv /\ ClientInv' /\ TypedInv /\ [ClientNext]_clientVars => TypedInv'
  BY NextTyped
<1>3. TypedInv => SentWasTyped
  BY DEF TypedInv, SentPart, SentWasTyped, WasTyped, Part
<1> QED
  BY <1>1, <1>2, <1>3, Invariant, PTL DEF ClientSpec

==============================================================================
