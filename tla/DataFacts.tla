----------------------------- MODULE DataFacts -----------------------------
(***************************************************************************)
(* Facts about numbers and sequences that the proofs cite: least elements, *)
(* induction stated for sets, the largest element of a sequence, and what  *)
(* moving an element from one queue to the next leaves of the stream that  *)
(* passes through both.                                                    *)
(***************************************************************************)
EXTENDS SequencesExt, SequenceTheorems, WellFoundedInduction, TLAPS

(* A nonempty set of natural numbers has a least element, and Min finds it. *)
LEMMA NatMin ==
  ASSUME NEW S \in SUBSET Nat, S # {}
  PROVE  Min(S) \in S /\ \A x \in S : Min(S) <= x
<1>1. PICK m \in S : \A x \in S : ~ (<<x, m>> \in OpToRel(<, Nat))
  BY NatLessThanWellFounded, WFMin
<1>2. \A x \in S : m <= x
  <2> TAKE x \in S
  <2>1. ~ (<<x, m>> \in {ss \in Nat \X Nat : ss[1] < ss[2]})
    BY <1>1 DEF OpToRel
  <2>2. ~ (x < m)
    BY <2>1
  <2> QED BY <2>2
<1>3. \E x \in S : \A y \in S : x =< y
  BY <1>2
<1> QED BY <1>3 DEF Min

(* Induction, for the set of numbers that have the property.                *)
LEMMA SetInduction ==
  ASSUME NEW S \in SUBSET Nat, 0 \in S, \A n \in S : n + 1 \in S
  PROVE  S = Nat
<1> DEFINE T == Nat \ S
<1> SUFFICES ASSUME T # {} PROVE FALSE
  OBVIOUS
<1>1. Min(T) \in T /\ \A x \in T : Min(T) <= x
  BY NatMin
<1>2. Min(T) - 1 \in Nat /\ Min(T) - 1 \notin T
  BY <1>1
<1>3. (Min(T) - 1) + 1 \in S
  BY <1>2
<1> QED BY <1>1, <1>3

(* The elements of a sequence of integers, with one more, have a largest    *)
(* one, and Max finds it.                                                   *)
LEMMA SeqMax ==
  ASSUME NEW s \in Seq(Int), NEW d \in Int
  PROVE  /\ Max(Range(s) \cup {d}) \in Range(s) \cup {d}
         /\ \A x \in Range(s) \cup {d} : x <= Max(Range(s) \cup {d})
<1> DEFINE First(n) == {s[j] : j \in 1 .. n} \cup {d}
           Good == {n \in Nat : n <= Len(s) => \E m \in First(n) : \A x \in First(n) : x <= m}
<1>1. 0 \in Good
  OBVIOUS
<1>2. ASSUME NEW n \in Good PROVE n + 1 \in Good
  <2> SUFFICES ASSUME n + 1 <= Len(s)
               PROVE  \E m \in First(n + 1) : \A x \in First(n + 1) : x <= m
    OBVIOUS
  <2>1. PICK m \in First(n) : \A x \in First(n) : x <= m
    OBVIOUS
  <2>2. First(n + 1) = First(n) \cup {s[n + 1]}
    OBVIOUS
  <2>3. m \in Int /\ s[n + 1] \in Int /\ \A x \in First(n) : x \in Int
    OBVIOUS
  <2> HIDE DEF First
  <2>4. CASE s[n + 1] <= m
    BY <2>1, <2>2, <2>3, <2>4
  <2>5. CASE ~(s[n + 1] <= m)
    BY <2>1, <2>2, <2>3, <2>5
  <2> QED BY <2>4, <2>5
<1>3. Good \in SUBSET Nat
  OBVIOUS
<1>. HIDE DEF Good
<1>4. Good = Nat
  BY <1>1, <1>2, <1>3, SetInduction
<1>5. \E m \in First(Len(s)) : \A x \in First(Len(s)) : x <= m
  <2>1. Len(s) \in Nat /\ Len(s) \in Good
    BY <1>4
  <2> QED BY <2>1 DEF Good
<1>6. First(Len(s)) = Range(s) \cup {d}
  BY DEF Range
<1>7. \E m \in Range(s) \cup {d} : \A x \in Range(s) \cup {d} : m >= x
  BY <1>5, <1>6
<1> QED BY <1>7 DEF Max

-----------------------------------------------------------------------------
(* Streams. *)

(* A prefix, element by element.                                            *)
LEMMA PrefixElements ==
  ASSUME NEW S, NEW s \in Seq(S), NEW t \in Seq(S)
  PROVE  IsPrefix(s, t) <=> Len(s) <= Len(t) /\ \A k \in 1 .. Len(s) : s[k] = t[k]
<1> DEFINE x == SubSeq(s, 1, Len(s))
           y == SubSeq(t, 1, Len(s))
<1>1. Len(s) \in Nat /\ Len(t) \in Nat
  OBVIOUS
<1>2. x \in Seq(S) /\ Len(x) = Len(s) /\ \A k \in 1 .. Len(s) : x[k] = s[k]
  BY <1>1
<1>3. ASSUME Len(s) <= Len(t)
      PROVE  (x = y) <=> \A k \in 1 .. Len(s) : s[k] = t[k]
  <2>1. y \in Seq(S) /\ Len(y) = Len(s) /\ \A k \in 1 .. Len(s) : y[k] = t[k]
    BY <1>1, <1>3
  <2> HIDE DEF x, y
  <2> QED BY <1>2, <2>1, SeqEqual
<1> HIDE DEF x, y
<1>4. IsPrefix(s, t) <=> Len(s) <= Len(t) /\ x = y
  BY DEF IsPrefix, x, y
<1> QED BY <1>3, <1>4

LEMMA PrefixFacts ==
  ASSUME NEW S, NEW s \in Seq(S), NEW t \in Seq(S)
  PROVE  IsPrefix(s, s \o t) /\ IsPrefix(<<>>, t) /\ IsPrefix(s, s)
<1>1. /\ s \o t \in Seq(S) /\ Len(s \o t) = Len(s) + Len(t)
      /\ Len(s) \in Nat /\ Len(t) \in Nat
      /\ \A k \in 1 .. Len(s) : (s \o t)[k] = s[k]
  OBVIOUS
<1>2. IsPrefix(s, s \o t)
  <2> DEFINE x == s \o t
  <2> HIDE DEF x
  <2>1. x \in Seq(S) /\ Len(s) <= Len(x) /\ \A k \in 1 .. Len(s) : s[k] = x[k]
    BY <1>1 DEF x
  <2>2. IsPrefix(s, x)
    BY <2>1, PrefixElements, Zenon
  <2> QED BY <2>2 DEF x
<1>3. IsPrefix(s, s)
  BY <1>1, PrefixElements
<1>5. IsPrefix(<<>>, t)
  BY SubSeqEmpty DEF IsPrefix
<1> QED BY <1>2, <1>3, <1>5

LEMMA PrefixTransitive ==
  ASSUME NEW S, NEW r \in Seq(S), NEW s \in Seq(S), NEW t \in Seq(S),
         IsPrefix(r, s), IsPrefix(s, t)
  PROVE  IsPrefix(r, t)
<1>1. Len(r) \in Nat /\ Len(s) \in Nat /\ Len(t) \in Nat
  OBVIOUS
<1>2. Len(r) <= Len(s) /\ \A k \in 1 .. Len(r) : r[k] = s[k]
  BY PrefixElements
<1>3. Len(s) <= Len(t) /\ \A k \in 1 .. Len(s) : s[k] = t[k]
  BY PrefixElements
<1>4. Len(r) <= Len(t) /\ \A k \in 1 .. Len(r) : r[k] = t[k]
  BY <1>1, <1>2, <1>3
<1> QED BY <1>4, PrefixElements

(* Cutting the end of a stream leaves a prefix of it.                       *)
LEMMA CutPrefix ==
  ASSUME NEW S, NEW r \in Seq(S), NEW s \in Seq(S), NEW n \in 0 .. Len(s)
  PROVE  SubSeq(s, 1, n) \in Seq(S) /\ IsPrefix(r \o SubSeq(s, 1, n), r \o s)
<1> DEFINE c == SubSeq(s, 1, n)
           x == r \o c
           y == r \o s
<1>1. Len(r) \in Nat /\ Len(s) \in Nat /\ n \in Nat /\ n <= Len(s)
  OBVIOUS
<1>2. c \in Seq(S) /\ Len(c) = n /\ \A k \in 1 .. n : c[k] = s[k]
  BY <1>1
<1> HIDE DEF c
<1>3. /\ x \in Seq(S) /\ Len(x) = Len(r) + n
      /\ \A k \in 1 .. Len(r) + n : x[k] = IF k <= Len(r) THEN r[k] ELSE c[k - Len(r)]
  BY <1>1, <1>2
<1>4. /\ y \in Seq(S) /\ Len(y) = Len(r) + Len(s)
      /\ \A k \in 1 .. Len(r) + Len(s) : y[k] = IF k <= Len(r) THEN r[k] ELSE s[k - Len(r)]
  BY <1>1
<1> HIDE DEF x, y
<1>5. ASSUME NEW k \in 1 .. Len(r) + n PROVE x[k] = y[k]
  <2>1. k \in Nat /\ k \in 1 .. Len(r) + Len(s)
    BY <1>1
  <2>2. CASE k <= Len(r)
    BY <1>3, <1>4, <2>1, <2>2
  <2>3. CASE ~(k <= Len(r))
    <3>1. k - Len(r) \in 1 .. n
      BY <1>1, <2>1, <2>3
    <3> QED BY <1>2, <1>3, <1>4, <2>1, <2>3, <3>1
  <2> QED BY <2>2, <2>3
<1>6. IsPrefix(x, y)
  <2>1. Len(x) <= Len(y) /\ \A k \in 1 .. Len(x) : x[k] = y[k]
    BY <1>1, <1>3, <1>4, <1>5
  <2> QED BY <1>3, <1>4, <2>1, PrefixElements, Zenon
<1> QED BY <1>2, <1>6 DEF c, x, y

(* The two parts of a sequence that is taken in two.                        *)
LEMMA TwoParts ==
  ASSUME NEW S, NEW s \in Seq(S), NEW n \in 0 .. Len(s)
  PROVE  /\ SubSeq(s, 1, n) \in Seq(S) /\ SubSeq(s, n + 1, Len(s)) \in Seq(S)
         /\ SubSeq(s, 1, n) \o SubSeq(s, n + 1, Len(s)) = s
         /\ n > 0 => SubSeq(s, 1, n) # <<>>
<1> DEFINE a == SubSeq(s, 1, n)
           b == SubSeq(s, n + 1, Len(s))
           x == a \o b
<1>1. Len(s) \in Nat /\ n \in Nat /\ n <= Len(s)
  OBVIOUS
<1>2. a \in Seq(S) /\ Len(a) = n /\ \A k \in 1 .. n : a[k] = s[k]
  BY <1>1
<1>3. b \in Seq(S) /\ Len(b) = Len(s) - n /\ \A k \in 1 .. Len(s) - n : b[k] = s[n + k]
  BY <1>1
<1> HIDE DEF a, b
<1>4. /\ x \in Seq(S) /\ Len(x) = Len(s)
      /\ \A k \in 1 .. Len(s) : x[k] = IF k <= n THEN a[k] ELSE b[k - n]
  BY <1>1, <1>2, <1>3
<1> HIDE DEF x
<1>5. ASSUME NEW k \in 1 .. Len(s) PROVE x[k] = s[k]
  <2>1. CASE k <= n
    BY <1>1, <1>2, <1>4, <2>1
  <2>2. CASE ~(k <= n)
    <3>1. k - n \in 1 .. Len(s) - n /\ n + (k - n) = k
      BY <1>1, <2>2
    <3> QED BY <1>3, <1>4, <2>2, <3>1
  <2> QED BY <2>1, <2>2
<1>6. x = s
  BY <1>4, <1>5, SeqEqual
<1>7. n > 0 => a # <<>>
  BY <1>1, <1>2, EmptySeq
<1> QED BY <1>2, <1>3, <1>6, <1>7 DEF a, b, x

(* What is added to the last part is added to the whole.                    *)
LEMMA AddBehind ==
  ASSUME NEW S, NEW s \in Seq(S), NEW t \in Seq(S), NEW v \in S
  PROVE  s \o Append(t, v) = Append(s \o t, v)
<1> DEFINE x == s \o Append(t, v)
           u == s \o t
           y == Append(u, v)
<1>1. Len(s) \in Nat /\ Len(t) \in Nat
  OBVIOUS
<1>2. /\ u \in Seq(S) /\ Len(u) = Len(s) + Len(t)
      /\ \A k \in 1 .. Len(s) + Len(t) : u[k] = IF k <= Len(s) THEN s[k] ELSE t[k - Len(s)]
  BY <1>1
<1>3. /\ x \in Seq(S) /\ Len(x) = Len(s) + Len(t) + 1
      /\ \A k \in 1 .. Len(s) + Len(t) + 1 :
           x[k] = IF k <= Len(s) THEN s[k] ELSE Append(t, v)[k - Len(s)]
  BY <1>1
<1> HIDE DEF u
<1>4. /\ y \in Seq(S) /\ Len(y) = Len(s) + Len(t) + 1
      /\ \A k \in 1 .. Len(s) + Len(t) : y[k] = u[k]
      /\ y[Len(s) + Len(t) + 1] = v
  BY <1>1, <1>2
<1>5. /\ \A k \in 1 .. Len(t) : Append(t, v)[k] = t[k]
      /\ Append(t, v)[Len(t) + 1] = v
  BY <1>1
<1> HIDE DEF x, y
<1>6. ASSUME NEW k \in 1 .. Len(s) + Len(t) + 1 PROVE x[k] = y[k]
  <2>1. CASE k <= Len(s)
    BY <1>1, <1>2, <1>3, <1>4, <2>1
  <2>2. CASE ~(k <= Len(s)) /\ k # Len(s) + Len(t) + 1
    <3>1. k - Len(s) \in 1 .. Len(t) /\ k \in 1 .. Len(s) + Len(t)
      BY <1>1, <2>2
    <3> QED BY <1>1, <1>2, <1>3, <1>4, <1>5, <2>2, <3>1
  <2>3. CASE k = Len(s) + Len(t) + 1
    <3>1. k - Len(s) = Len(t) + 1 /\ ~(k <= Len(s))
      BY <1>1, <2>3
    <3> QED BY <1>3, <1>4, <1>5, <2>3, <3>1
  <2> QED BY <2>1, <2>2, <2>3
<1>7. x = y
  BY <1>3, <1>4, <1>6, SeqEqual
<1> QED BY <1>7 DEF u, x, y

(* The head of the second queue becomes the last of the first.              *)
LEMMA PassOn ==
  ASSUME NEW S, NEW s \in Seq(S), NEW t \in Seq(S), t # <<>>
  PROVE  /\ Append(s, Head(t)) \o Tail(t) = s \o t
         /\ Append(s, Head(t)) \in Seq(S) /\ Tail(t) \in Seq(S)
<1> DEFINE a == Append(s, Head(t))
           x == a \o Tail(t)
           y == s \o t
<1>1. /\ Head(t) \in S /\ Tail(t) \in Seq(S) /\ Len(Tail(t)) = Len(t) - 1
      /\ \A k \in 1 .. Len(t) - 1 : Tail(t)[k] = t[k + 1]
  BY HeadTailProperties
<1>2. a \in Seq(S) /\ Len(a) = Len(s) + 1 /\ a[Len(s) + 1] = t[1]
      /\ \A k \in 1 .. Len(s) : a[k] = s[k]
  BY <1>1
<1>3. Len(t) \in Nat \ {0} /\ Len(s) \in Nat
  BY EmptySeq
<1> HIDE DEF a
<1>4. x \in Seq(S) /\ y \in Seq(S) /\ Len(x) = Len(s) + Len(t) /\ Len(y) = Len(s) + Len(t)
  BY <1>1, <1>2, <1>3
<1>5. ASSUME NEW k \in 1 .. Len(s) + Len(t) PROVE x[k] = y[k]
  <2>1. /\ x[k] = IF k <= Len(s) + 1 THEN a[k] ELSE Tail(t)[k - (Len(s) + 1)]
        /\ y[k] = IF k <= Len(s) THEN s[k] ELSE t[k - Len(s)]
    BY <1>1, <1>2, <1>3
  <2> HIDE DEF x, y
  <2>2. CASE k <= Len(s)
    BY <1>2, <1>3, <2>1, <2>2
  <2>3. CASE k = Len(s) + 1
    BY <1>2, <1>3, <2>1, <2>3
  <2>4. CASE k > Len(s) + 1
    <3>1. k - (Len(s) + 1) \in 1 .. Len(t) - 1 /\ (k - (Len(s) + 1)) + 1 = k - Len(s)
      BY <1>3, <2>4
    <3> QED BY <1>1, <1>3, <2>1, <2>4, <3>1
  <2> QED BY <1>3, <2>2, <2>3, <2>4
<1>6. x = y
  <2> HIDE DEF x, y
  <2> QED BY <1>4, <1>5, SeqEqual
<1> QED BY <1>1, <1>2, <1>6 DEF a

(* What passes through three queues, the oldest in the first.               *)
Stream(r, s, t) == (r \o s) \o t

(* What moves into the middle of three queues leaves the stream as it was.  *)
LEMMA PassOnBehind ==
  ASSUME NEW S, NEW r \in Seq(S), NEW s \in Seq(S), NEW t \in Seq(S), t # <<>>
  PROVE  Stream(r, Append(s, Head(t)), Tail(t)) = Stream(r, s, t)
<1> DEFINE a == Append(s, Head(t))
           b == Tail(t)
<1>1. a \in Seq(S) /\ b \in Seq(S)
  BY PassOn
<1>2. a \o b = s \o t
  BY PassOn
<1> HIDE DEF a, b
<1>3. (r \o a) \o b = r \o (a \o b)
  BY <1>1
<1>4. (r \o s) \o t = r \o (s \o t)
  OBVIOUS
<1>5. (r \o a) \o b = (r \o s) \o t
  BY <1>2, <1>3, <1>4
<1> QED BY <1>5 DEF a, b, Stream

(* What moves to the first queue still starts the stream.                   *)
LEMMA PassOnPrefix ==
  ASSUME NEW S, NEW r \in Seq(S), NEW s \in Seq(S), NEW t \in Seq(S), s # <<>>
  PROVE  /\ IsPrefix(Append(r, Head(s)), r \o s)
         /\ IsPrefix(Append(r, Head(s)), Stream(r, s, t))
<1> DEFINE a == Append(r, Head(s))
           b == Tail(s)
<1>1. a \in Seq(S) /\ b \in Seq(S)
  BY PassOn
<1>2. a \o b = r \o s
  BY PassOn
<1> HIDE DEF a, b
<1>3. (a \o b) \o t = a \o (b \o t)
  BY <1>1
<1>4. b \o t \in Seq(S)
  BY <1>1
<1>5. IsPrefix(a, a \o b)
  BY <1>1, PrefixFacts
<1>6. IsPrefix(a, a \o (b \o t))
  BY <1>1, <1>4, PrefixFacts
<1>7. IsPrefix(a, r \o s) /\ IsPrefix(a, (r \o s) \o t)
  BY <1>2, <1>3, <1>5, <1>6
<1> QED BY <1>7 DEF a, b, Stream

LEMMA PassOnAhead ==
  ASSUME NEW S, NEW r \in Seq(S), NEW s \in Seq(S), NEW t \in Seq(S), s # <<>>
  PROVE  Stream(Append(r, Head(s)), Tail(s), t) = Stream(r, s, t)
BY PassOn DEF Stream

LEMMA PassOnWithin ==
  ASSUME NEW S, NEW g \in Seq(S), NEW r \in Seq(S), NEW s \in Seq(S), NEW t \in Seq(S), s # <<>>
  PROVE  Stream(g \o Append(r, Head(s)), Tail(s), t) = Stream(g \o r, s, t)
<1> DEFINE u == g \o r
<1>1. Head(s) \in S
  BY HeadTailProperties
<1>2. g \o Append(r, Head(s)) = Append(u, Head(s))
  BY <1>1, AddBehind
<1>3. u \in Seq(S)
  OBVIOUS
<1> HIDE DEF u
<1>4. Stream(Append(u, Head(s)), Tail(s), t) = Stream(u, s, t)
  BY <1>3, PassOnAhead
<1>5. Stream(g \o Append(r, Head(s)), Tail(s), t) = Stream(u, s, t)
  BY <1>2, <1>4
<1> QED BY <1>5 DEF u

(* A piece of the last queue moves to the empty one before it.              *)
LEMMA TakeFromLast ==
  ASSUME NEW S, NEW r \in Seq(S), NEW t \in Seq(S), NEW n \in 0 .. Len(t)
  PROVE  Stream(r, SubSeq(t, 1, n), SubSeq(t, n + 1, Len(t))) = Stream(r, <<>>, t)
<1> DEFINE a == SubSeq(t, 1, n)
           b == SubSeq(t, n + 1, Len(t))
<1>1. a \in Seq(S) /\ b \in Seq(S)
  BY TwoParts
<1>2. a \o b = t
  BY TwoParts
<1> HIDE DEF a, b
<1>3. (r \o a) \o b = r \o (a \o b)
  BY <1>1
<1>4. r \o <<>> = r
  OBVIOUS
<1>5. Stream(r, a, b) = Stream(r, <<>>, t)
  BY <1>2, <1>3, <1>4 DEF Stream
<1> QED BY <1>5 DEF a, b

LEMMA AddLast ==
  ASSUME NEW S, NEW r \in Seq(S), NEW s \in Seq(S), NEW t \in Seq(S), NEW v \in S
  PROVE  Stream(r, s, Append(t, v)) = Append(Stream(r, s, t), v)
<1> DEFINE a == r \o s
<1>1. a \in Seq(S)
  OBVIOUS
<1> HIDE DEF a
<1>2. a \o Append(t, v) = Append(a \o t, v)
  BY <1>1, AddBehind
<1> QED BY <1>2 DEF a, Stream

(* The first queue is the beginning of the stream.                          *)
LEMMA StreamPrefix ==
  ASSUME NEW S, NEW r \in Seq(S), NEW s \in Seq(S), NEW t \in Seq(S)
  PROVE  IsPrefix(r, Stream(r, s, t)) /\ Stream(r, s, t) \in Seq(S)
<1> DEFINE u == s \o t
<1>1. u \in Seq(S)
  OBVIOUS
<1>2. (r \o s) \o t = r \o u
  OBVIOUS
<1> HIDE DEF u
<1>3. IsPrefix(r, r \o u) /\ r \o u \in Seq(S)
  BY <1>1, PrefixFacts
<1> QED BY <1>2, <1>3 DEF Stream

LEMMA AppendPrefix ==
  ASSUME NEW S, NEW s \in Seq(S), NEW v \in S
  PROVE  IsPrefix(s, Append(s, v)) /\ Append(s, v) \in Seq(S)
<1> DEFINE x == Append(s, v)
<1>1. x \in Seq(S) /\ Len(x) = Len(s) + 1 /\ \A k \in 1 .. Len(s) : s[k] = x[k]
  OBVIOUS
<1>2. Len(s) \in Nat
  OBVIOUS
<1> HIDE DEF x
<1>3. x \in Seq(S) /\ Len(s) <= Len(x) /\ \A k \in 1 .. Len(s) : s[k] = x[k]
  BY <1>1, <1>2
<1>4. IsPrefix(s, x)
  BY <1>3, PrefixElements, Zenon
<1> QED BY <1>3, <1>4 DEF x

LEMMA TwoOnes ==
  ASSUME NEW S, NEW a \in Seq(S), NEW b \in Seq(S), NEW c \in Seq(S)
  PROVE  Len(a) = 1 /\ Len(b) = 1 /\ Len(c) = 2 /\ c[1] = a[1] /\ c[2] = b[1] => a \o b = c
<1> DEFINE u == a \o b
<1>1. /\ u \in Seq(S) /\ Len(u) = Len(a) + Len(b)
      /\ \A k \in 1 .. Len(a) + Len(b) : u[k] = IF k <= Len(a) THEN a[k] ELSE b[k - Len(a)]
  OBVIOUS
<1> HIDE DEF u
<1> SUFFICES ASSUME Len(a) = 1, Len(b) = 1, Len(c) = 2, c[1] = a[1], c[2] = b[1]
             PROVE  u = c
  BY DEF u
<1>2. \A k \in 1 .. 2 : u[k] = IF k <= 1 THEN a[k] ELSE b[k - 1]
  BY <1>1
<1>3. u[1] = a[1] /\ u[2] = b[2 - 1]
  BY <1>2
<1> QED BY <1>1, <1>3, SeqEqual

-----------------------------------------------------------------------------
(* FlattenSeq joins the sequences from the first to the last: its recursion *)
(* has one solution, which grows with the sequence.                         *)

Unrolled(q, f) == [j \in 1 .. Len(q) |-> IF j = 1 THEN q[j] ELSE f[j - 1] \o q[j]]
UnrolledTo(q, f, k) ==
  /\ f = [j \in 1 .. Len(q) |-> f[j]]
  /\ \A j \in 1 .. Len(q) : j <= k => f[j] = Unrolled(q, f)[j]

LEMMA UnrolledExists ==
  ASSUME NEW q, Len(q) \in Nat
  PROVE  \E f : f = Unrolled(q, f)
<1> DEFINE M == {k \in Nat : \E f : UnrolledTo(q, f, k)}
<1>1. 0 \in M
  <2> DEFINE f == [j \in 1 .. Len(q) |-> 0]
  <2>1. UnrolledTo(q, f, 0)
    BY DEF UnrolledTo
  <2> HIDE DEF f
  <2> QED BY <2>1
<1>2. \A k \in M : k + 1 \in M
  <2> SUFFICES ASSUME NEW k \in Nat, NEW f, UnrolledTo(q, f, k)
               PROVE  \E g : UnrolledTo(q, g, k + 1)
    OBVIOUS
  <2> DEFINE g == Unrolled(q, f)
  <2>1. ASSUME NEW j \in 1 .. Len(q), j <= k + 1 PROVE g[j] = Unrolled(q, g)[j]
    <3>1. CASE j = 1
      BY <3>1 DEF Unrolled
    <3>2. CASE j # 1
      <4>1. j - 1 \in 1 .. Len(q) /\ j - 1 <= k
        BY <2>1, <3>2
      <4>2. f[j - 1] = g[j - 1]
        BY <4>1 DEF UnrolledTo
      <4> QED BY <3>2, <4>2 DEF Unrolled
    <3> QED BY <3>1, <3>2
  <2>2. g = [j \in 1 .. Len(q) |-> g[j]]
    BY DEF Unrolled
  <2> HIDE DEF g
  <2>3. UnrolledTo(q, g, k + 1)
    BY <2>1, <2>2 DEF UnrolledTo
  <2> QED BY <2>3
<1>3. Len(q) \in M
  <2>1. M \in SUBSET Nat
    OBVIOUS
  <2> HIDE DEF M
  <2> QED BY <1>1, <1>2, <2>1, SetInduction
<1>4. PICK f : UnrolledTo(q, f, Len(q))
  BY <1>3
<1>5. \A j \in 1 .. Len(q) : f[j] = Unrolled(q, f)[j]
  BY <1>4 DEF UnrolledTo
<1>6. f = [j \in 1 .. Len(q) |-> f[j]]
  BY <1>4 DEF UnrolledTo
<1>7. Unrolled(q, f) = [j \in 1 .. Len(q) |-> Unrolled(q, f)[j]]
  BY DEF Unrolled
<1>8. f = Unrolled(q, f)
  BY <1>5, <1>6, <1>7
<1> QED BY <1>8

LEMMA FlattenIs ==
  ASSUME NEW q, Len(q) \in Nat \ {0}
  PROVE  \E f : f = Unrolled(q, f) /\ FlattenSeq(q) = f[Len(q)]
<1> DEFINE f == CHOOSE f : f = [j \in 1 .. Len(q) |-> IF j = 1 THEN q[j] ELSE f[j - 1] \o q[j]]
<1>1. FlattenSeq(q) = f[Len(q)]
  BY DEF FlattenSeq
<1>2. f = Unrolled(q, f)
  BY UnrolledExists DEF Unrolled
<1> HIDE DEF f
<1> QED BY <1>1, <1>2

(* What is joined is a sequence of the elements.                            *)
LEMMA FlattenStep ==
  ASSUME NEW S, NEW q \in Seq(Seq(S)), NEW y \in Seq(S)
  PROVE  /\ FlattenSeq(Append(q, y)) = FlattenSeq(q) \o y
         /\ FlattenSeq(q) \in Seq(S) /\ FlattenSeq(<<>>) = <<>>
<1> DEFINE x == Append(q, y)
<1>1. /\ x \in Seq(Seq(S)) /\ Len(x) = Len(q) + 1 /\ Len(q) \in Nat /\ x[Len(x)] = y
      /\ \A j \in 1 .. Len(q) : x[j] = q[j] /\ q[j] \in Seq(S)
  OBVIOUS
<1> HIDE DEF x
<1>2. PICK g : g = Unrolled(x, g) /\ FlattenSeq(x) = g[Len(x)]
  BY <1>1, FlattenIs
<1>3. FlattenSeq(<<>>) = <<>>
  BY DEF FlattenSeq
<1>4. CASE Len(q) = 0
  <2>1. q = <<>> /\ Len(x) = 1
    BY <1>1, <1>4
  <2>2. g[1] = y
    BY <1>1, <1>2, <2>1 DEF Unrolled
  <2>3. <<>> \o y = y /\ <<>> \in Seq(S)
    OBVIOUS
  <2> QED BY <1>2, <1>3, <2>1, <2>2, <2>3 DEF x
<1>5. CASE Len(q) # 0
  <2>1. PICK f : f = Unrolled(q, f) /\ FlattenSeq(q) = f[Len(q)]
    BY <1>1, <1>5, FlattenIs
  <2> DEFINE M == {k \in Nat : k + 1 <= Len(q) => f[k + 1] = g[k + 1] /\ f[k + 1] \in Seq(S)}
  <2>2. \A j \in 1 .. Len(q) : f[j] = IF j = 1 THEN q[j] ELSE f[j - 1] \o q[j]
    BY <2>1 DEF Unrolled
  <2>3. \A j \in 1 .. Len(x) : g[j] = IF j = 1 THEN x[j] ELSE g[j - 1] \o x[j]
    BY <1>2 DEF Unrolled
  <2>4. 0 \in M
    BY <1>1, <1>5, <2>2, <2>3
  <2>5. \A k \in M : k + 1 \in M
    <3> SUFFICES ASSUME NEW k \in Nat, k \in M, k + 2 <= Len(q)
                 PROVE  f[k + 2] = g[k + 2] /\ f[k + 2] \in Seq(S)
      OBVIOUS
    <3>1. k + 2 \in 1 .. Len(q) /\ k + 2 \in 1 .. Len(x) /\ k + 2 # 1 /\ (k + 2) - 1 = k + 1
      BY <1>1
    <3>2. f[k + 1] = g[k + 1] /\ f[k + 1] \in Seq(S)
      BY <1>1
    <3>3. f[k + 2] = f[k + 1] \o q[k + 2] /\ g[k + 2] = g[k + 1] \o x[k + 2]
      BY <2>2, <2>3, <3>1
    <3>4. q[k + 2] \in Seq(S) /\ x[k + 2] = q[k + 2]
      BY <1>1, <3>1
    <3>5. f[k + 1] \o q[k + 2] \in Seq(S)
      BY <3>2, <3>4
    <3> QED BY <3>2, <3>3, <3>4, <3>5, Zenon
  <2>6. Len(q) - 1 \in M
    <3>1. M \in SUBSET Nat /\ Len(q) - 1 \in Nat
      BY <1>1, <1>5
    <3> HIDE DEF M
    <3> QED BY <2>4, <2>5, <3>1, SetInduction
  <2>7. f[Len(q)] = g[Len(q)] /\ f[Len(q)] \in Seq(S)
    BY <1>1, <2>6
  <2>8. g[Len(x)] = g[Len(q)] \o y
    <3>1. Len(x) \in 1 .. Len(x) /\ Len(x) # 1 /\ Len(x) - 1 = Len(q)
      BY <1>1, <1>5
    <3>2. g[Len(x)] = g[Len(x) - 1] \o x[Len(x)]
      BY <2>3, <3>1, Zenon
    <3> QED BY <1>1, <3>1, <3>2, Zenon
  <2> QED BY <1>2, <1>3, <2>1, <2>7, <2>8 DEF x
<1> QED BY <1>4, <1>5

LEMMA OneElement ==
  ASSUME NEW S, NEW x \in S
  PROVE  <<x>> \in Seq(S)
OBVIOUS

LEMMA AsSequence ==
  ASSUME NEW T, NEW m \in Nat, NEW f, f = [k \in 1 .. m |-> f[k]], \A k \in 1 .. m : f[k] \in T
  PROVE  f \in Seq(T) /\ Len(f) = m
OBVIOUS
=============================================================================
