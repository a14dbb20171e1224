--------------------------- MODULE MigrationProofs --------------------------
(***************************************************************************)
(* Proofs about Migration: type correctness, that a group is on one side   *)
(* at a time, what the journal says, that the stages implement Handover,   *)
(* that what was removed runs, what a complete replay puts back, that a    *)
(* first move loses nothing, and that what is at rest is served.           *)
(***************************************************************************)
EXTENDS Migration, FiniteSetTheorems, WellFoundedInduction, TLAPS

-----------------------------------------------------------------------------
(* Sequences *)

LEMMA LeastNatural ==
    ASSUME NEW T \in SUBSET Nat, T # {}
    PROVE  \E n \in T : \A m \in T : n <= m
<1> DEFINE R == OpToRel(<, Nat)
<1>1. IsWellFoundedOn(R, Nat)
  BY NatLessThanWellFounded
<1>2. PICK n \in T : \A m \in T : ~ (<<m, n>> \in R)
  BY <1>1, WFMin, Zenon
<1>3. \A m \in T : ~ (m < n)
  BY <1>2 DEF OpToRel
<1> QED  BY <1>3

\* No Y comes after an X.
NoneAfter(seq, X, Y) ==
    \A i, j \in DOMAIN seq : i < j /\ seq[i] \in X => seq[j] \notin Y

\* Keeping the first n elements of those that are in T.
KeptOf(seq, T, k) ==
    /\ k[0] = <<>>
    /\ \A i \in 1 .. Len(seq) :
          k[i] = IF seq[i] \in T THEN Append(k[i - 1], seq[i]) ELSE k[i - 1]

LEMMA KeptExists ==
    ASSUME NEW S, NEW seq \in Seq(S), NEW T
    PROVE  \E k \in [0 .. Len(seq) -> Seq(S \cap T)] : KeptOf(seq, T, k)
<1> DEFINE UpTo(n) == \E k \in [0 .. n -> Seq(S \cap T)] :
                         /\ k[0] = <<>>
                         /\ \A i \in 1 .. n :
                               k[i] = IF seq[i] \in T THEN Append(k[i - 1], seq[i]) ELSE k[i - 1]
           Bad == {n \in Nat : n <= Len(seq) /\ ~ UpTo(n)}
<1>4. Len(seq) \in Nat /\ <<>> \in Seq(S \cap T)
  OBVIOUS
<1>5. UpTo(0)
  <2>1. 0 .. 0 = {0} /\ 1 .. 0 = {}
    OBVIOUS
  <2> DEFINE k == [i \in {0} |-> <<>>]
  <2>2. k \in [0 .. 0 -> Seq(S \cap T)] /\ k[0] = <<>>
    BY <1>4, <2>1
  <2> HIDE DEF k
  <2> QED  BY <2>1, <2>2
<1>6. ASSUME NEW n \in 1 .. Len(seq), UpTo(n - 1)  PROVE UpTo(n)
  <2>1. PICK k \in [0 .. n - 1 -> Seq(S \cap T)] :
          /\ k[0] = <<>>
          /\ \A i \in 1 .. n - 1 :
                k[i] = IF seq[i] \in T THEN Append(k[i - 1], seq[i]) ELSE k[i - 1]
    BY <1>6
  <2> DEFINE last == IF seq[n] \in T THEN Append(k[n - 1], seq[n]) ELSE k[n - 1]
             g == [i \in 0 .. n |-> IF i = n THEN last ELSE k[i]]
  <2>2. n \in Nat /\ n # 0 /\ n - 1 \in 0 .. n - 1
    BY <1>4
  <2>3. last \in Seq(S \cap T)
    <3>1. k[n - 1] \in Seq(S \cap T) /\ seq[n] \in S
      BY <2>2
    <3> QED  BY <3>1
  <2>4. \A i \in 0 .. n : i = n \/ i \in 0 .. n - 1
    BY <2>2
  <2> HIDE DEF last
  <2>5. g \in [0 .. n -> Seq(S \cap T)]
    BY <2>3, <2>4
  <2>6. g[0] = <<>>
    BY <2>1, <2>2
  <2>7. ASSUME NEW i \in 1 .. n
        PROVE  g[i] = IF seq[i] \in T THEN Append(g[i - 1], seq[i]) ELSE g[i - 1]
    <3>1. i - 1 \in 0 .. n /\ i - 1 # n
      BY <2>2
    <3>2. g[i - 1] = k[i - 1]
      BY <3>1
    <3>3. CASE i = n
      <4>1. g[i] = last
        BY <2>2, <3>3
      <4> QED  BY <3>2, <3>3, <4>1 DEF last
    <3>4. CASE i # n
      <4>1. i \in 1 .. n - 1 /\ i \in 0 .. n
        BY <2>2, <3>4
      <4>2. g[i] = k[i]
        BY <3>4, <4>1
      <4> QED  BY <2>1, <3>2, <4>1, <4>2
    <3> QED  BY <3>3, <3>4
  <2> HIDE DEF g
  <2> QED  BY <2>5, <2>6, <2>7
<1> HIDE DEF UpTo
<1>1. Bad = {}
  <2> SUFFICES ASSUME Bad # {}  PROVE FALSE
    OBVIOUS
  <2>1. PICK n \in Bad : \A m \in Bad : n <= m
    BY LeastNatural
  <2>2. n \in 1 .. Len(seq)
    BY <1>4, <1>5
  <2>3. n - 1 \in Nat /\ n - 1 <= Len(seq) /\ n - 1 \notin Bad
    BY <1>4, <2>1, <2>2
  <2>4. UpTo(n - 1)
    BY <2>3
  <2> QED  BY <1>6, <2>2, <2>4
<1>2. Len(seq) \in Nat
  OBVIOUS
<1>3. UpTo(Len(seq))
  BY <1>1, <1>2
<1> QED  BY <1>3 DEF KeptOf, UpTo

LEMMA OnlyIs ==
    ASSUME NEW S, NEW seq \in Seq(S), NEW T
    PROVE  \E k \in [0 .. Len(seq) -> Seq(S \cap T)] :
              KeptOf(seq, T, k) /\ Only(seq, T) = k[Len(seq)]
<1> DEFINE body(f) == [i \in 0 .. Len(seq) |->
                          IF i = 0 THEN <<>>
                          ELSE IF seq[i] \in T THEN Append(f[i - 1], seq[i]) ELSE f[i - 1]]
           kept == CHOOSE f : f = body(f)
<1>1. Only(seq, T) = kept[Len(seq)]
  BY DEF Only
<1>2. Len(seq) \in Nat
  OBVIOUS
<1>3. \E f : f = body(f)
  <2>1. PICK k \in [0 .. Len(seq) -> Seq(S \cap T)] : KeptOf(seq, T, k)
    BY KeptExists
  <2>2. \A i \in 0 .. Len(seq) : i = 0 \/ i \in 1 .. Len(seq)
    BY <1>2
  <2>3. k = body(k)
    BY <2>1, <2>2 DEF KeptOf
  <2> QED  BY <2>3
<1>4. kept = body(kept)
  <2> HIDE DEF body
  <2> QED  BY <1>3
<1>5. KeptOf(seq, T, kept)
  <2>1. 0 \in 0 .. Len(seq) /\ \A i \in 1 .. Len(seq) : i \in 0 .. Len(seq) /\ i # 0
    BY <1>2
  <2> DEFINE K == kept
  <2>2. K = body(K)
    BY <1>4
  <2> HIDE DEF K
  <2>3. KeptOf(seq, T, K)
    BY <2>1, <2>2 DEF KeptOf
  <2> QED  BY <2>3 DEF K
<1>6. kept \in [0 .. Len(seq) -> Seq(S \cap T)]
  <2>1. PICK k \in [0 .. Len(seq) -> Seq(S \cap T)] : KeptOf(seq, T, k)
    BY KeptExists
  <2> DEFINE K == kept
             Bad == {n \in Nat : n <= Len(seq) /\ K[n] # k[n]}
  <2>2. DOMAIN K = 0 .. Len(seq) /\ K = [i \in 0 .. Len(seq) |-> K[i]]
    BY <1>4
  <2>3. KeptOf(seq, T, K)
    BY <1>5
  <2> HIDE DEF K
  <2>4. Bad = {}
    <3> SUFFICES ASSUME Bad # {}  PROVE FALSE
      OBVIOUS
    <3>1. PICK n \in Bad : \A m \in Bad : n <= m
      BY LeastNatural
    <3>2. n # 0
      BY <2>1, <2>3 DEF KeptOf
    <3>3. n - 1 \in Nat /\ n - 1 \notin Bad /\ n \in 1 .. Len(seq)
      BY <1>2, <3>1, <3>2
    <3>4. K[n - 1] = k[n - 1]
      BY <3>3
    <3>5. K[n] = k[n]
      BY <2>1, <2>3, <3>3, <3>4 DEF KeptOf
    <3> QED  BY <3>1, <3>5
  <2>5. \A i \in 0 .. Len(seq) : i \in Nat /\ i <= Len(seq)
    BY <1>2
  <2>6. \A i \in 0 .. Len(seq) : K[i] = k[i]
    BY <2>4, <2>5
  <2>7. K = k
    BY <2>2, <2>6
  <2> QED  BY <2>7 DEF K
<1> HIDE DEF kept
<1> QED  BY <1>1, <1>5, <1>6

LEMMA InSeq ==
    ASSUME NEW S, NEW seq \in Seq(S)
    PROVE  ToSet(seq) \subseteq S /\ (seq = <<>> <=> ToSet(seq) = {})
<1>1. Len(seq) \in Nat /\ DOMAIN seq = 1 .. Len(seq) /\ \A i \in 1 .. Len(seq) : seq[i] \in S
  OBVIOUS
<1>2. ToSet(seq) \subseteq S
  BY <1>1 DEF ToSet
<1>3. ASSUME seq # <<>>  PROVE ToSet(seq) # {}
  <2>1. 1 \in DOMAIN seq
    BY <1>3
  <2> QED  BY <2>1 DEF ToSet
<1>4. ASSUME seq = <<>>  PROVE ToSet(seq) = {}
  BY <1>4 DEF ToSet
<1> QED  BY <1>2, <1>3, <1>4

LEMMA SeqWithin ==
    ASSUME NEW S, NEW seq \in Seq(S), NEW T, ToSet(seq) \subseteq T
    PROVE  seq \in Seq(T)
<1>1. Len(seq) \in Nat /\ seq \in [1 .. Len(seq) -> S]
  OBVIOUS
<1>2. \A i \in 1 .. Len(seq) : seq[i] \in T
  BY <1>1 DEF ToSet
<1>3. seq \in [1 .. Len(seq) -> T]
  BY <1>1, <1>2
<1> DEFINE n == Len(seq)
<1>4. n \in Nat /\ seq \in [1 .. n -> T]
  BY <1>1, <1>3
<1> HIDE DEF n
<1> QED  BY <1>4

LEMMA AppendSet ==
    ASSUME NEW S, NEW seq \in Seq(S), NEW e \in S
    PROVE  ToSet(Append(seq, e)) = ToSet(seq) \union {e}
<1>1. /\ Len(seq) \in Nat /\ DOMAIN seq = 1 .. Len(seq)
      /\ DOMAIN Append(seq, e) = 1 .. Len(seq) + 1
      /\ \A i \in 1 .. Len(seq) : Append(seq, e)[i] = seq[i]
      /\ Append(seq, e)[Len(seq) + 1] = e
  OBVIOUS
<1>2. \A i \in 1 .. Len(seq) + 1 : i \in 1 .. Len(seq) \/ i = Len(seq) + 1
  BY <1>1
<1>3. Len(seq) + 1 \in 1 .. Len(seq) + 1 /\ \A i \in 1 .. Len(seq) : i \in 1 .. Len(seq) + 1
  BY <1>1
<1> QED  BY <1>1, <1>2, <1>3 DEF ToSet

LEMMA AppendNone ==
    ASSUME NEW S, NEW seq \in Seq(S), NEW e \in S, NEW X, NEW Y, NoneAfter(seq, X, Y),
           ToSet(seq) \cap X = {} \/ e \notin Y
    PROVE  NoneAfter(Append(seq, e), X, Y)
<1>1. /\ Len(seq) \in Nat /\ DOMAIN seq = 1 .. Len(seq)
      /\ DOMAIN Append(seq, e) = 1 .. Len(seq) + 1
      /\ \A i \in 1 .. Len(seq) : Append(seq, e)[i] = seq[i]
      /\ Append(seq, e)[Len(seq) + 1] = e
  OBVIOUS
<1> SUFFICES ASSUME NEW i \in 1 .. Len(seq) + 1, NEW j \in 1 .. Len(seq) + 1, i < j,
                    Append(seq, e)[i] \in X
             PROVE  Append(seq, e)[j] \notin Y
  BY <1>1 DEF NoneAfter
<1>2. i \in 1 .. Len(seq) /\ seq[i] \in X
  BY <1>1
<1>3. CASE j = Len(seq) + 1
  <2>1. seq[i] \in ToSet(seq)
    BY <1>1, <1>2 DEF ToSet
  <2> QED  BY <1>1, <1>2, <1>3, <2>1
<1>4. CASE j # Len(seq) + 1
  <2>1. j \in 1 .. Len(seq)
    BY <1>1, <1>4
  <2> QED  BY <1>1, <1>2, <2>1 DEF NoneAfter
<1> QED  BY <1>3, <1>4

LEMMA TailSet ==
    ASSUME NEW S, NEW seq \in Seq(S), seq # <<>>
    PROVE  /\ Tail(seq) \in Seq(S) /\ Head(seq) \in S
           /\ ToSet(seq) = {Head(seq)} \union ToSet(Tail(seq))
<1>1. /\ Len(seq) \in Nat /\ Len(seq) > 0 /\ DOMAIN seq = 1 .. Len(seq)
      /\ DOMAIN Tail(seq) = 1 .. Len(seq) - 1
      /\ \A i \in 1 .. Len(seq) - 1 : Tail(seq)[i] = seq[i + 1]
      /\ Head(seq) = seq[1]
  OBVIOUS
<1>2. \A i \in 1 .. Len(seq) : i = 1 \/ (i - 1 \in 1 .. Len(seq) - 1 /\ i = (i - 1) + 1)
  BY <1>1
<1>3. 1 \in 1 .. Len(seq) /\ \A i \in 1 .. Len(seq) - 1 : i + 1 \in 1 .. Len(seq)
  BY <1>1
<1>4. ToSet(seq) \subseteq {Head(seq)} \union ToSet(Tail(seq))
  <2> SUFFICES ASSUME NEW i \in 1 .. Len(seq), i # 1  PROVE seq[i] \in ToSet(Tail(seq))
    BY <1>1 DEF ToSet
  <2>1. i - 1 \in 1 .. Len(seq) - 1 /\ Tail(seq)[i - 1] = seq[(i - 1) + 1] /\ (i - 1) + 1 = i
    BY <1>1, <1>2
  <2> QED  BY <1>1, <2>1 DEF ToSet
<1>5. {Head(seq)} \union ToSet(Tail(seq)) \subseteq ToSet(seq)
  BY <1>1, <1>3 DEF ToSet
<1> QED  BY <1>4, <1>5

LEMMA TailNone ==
    ASSUME NEW S, NEW seq \in Seq(S), seq # <<>>, NEW X, NEW Y, NoneAfter(seq, X, Y)
    PROVE  NoneAfter(Tail(seq), X, Y) /\ (Head(seq) \in X => ToSet(Tail(seq)) \cap Y = {})
<1>1. /\ Len(seq) \in Nat /\ Len(seq) > 0 /\ DOMAIN seq = 1 .. Len(seq)
      /\ DOMAIN Tail(seq) = 1 .. Len(seq) - 1
      /\ \A i \in 1 .. Len(seq) - 1 : Tail(seq)[i] = seq[i + 1]
      /\ Head(seq) = seq[1]
  OBVIOUS
<1>2. 1 \in 1 .. Len(seq) /\ \A i \in 1 .. Len(seq) - 1 : i + 1 \in 1 .. Len(seq) /\ 1 < i + 1
  BY <1>1
<1>3. \A i, j \in 1 .. Len(seq) - 1 : i < j => i + 1 < j + 1
  BY <1>1
<1>4. NoneAfter(Tail(seq), X, Y)
  BY <1>1, <1>2, <1>3 DEF NoneAfter
<1>5. ASSUME Head(seq) \in X, NEW e \in ToSet(Tail(seq))  PROVE e \notin Y
  <2>1. PICK i \in 1 .. Len(seq) - 1 : e = Tail(seq)[i]
    BY <1>1 DEF ToSet
  <2> QED  BY <1>1, <1>2, <1>5, <2>1 DEF NoneAfter
<1> QED  BY <1>4, <1>5

LEMMA ConcatSet ==
    ASSUME NEW S, NEW a \in Seq(S), NEW b \in Seq(S)
    PROVE  a \o b \in Seq(S) /\ ToSet(a \o b) = ToSet(a) \union ToSet(b)
<1>1. /\ Len(a) \in Nat /\ Len(b) \in Nat /\ DOMAIN a = 1 .. Len(a) /\ DOMAIN b = 1 .. Len(b)
      /\ a \o b \in Seq(S) /\ DOMAIN (a \o b) = 1 .. Len(a) + Len(b)
      /\ \A i \in 1 .. Len(a) + Len(b) :
            (a \o b)[i] = IF i <= Len(a) THEN a[i] ELSE b[i - Len(a)]
  OBVIOUS
<1>2. ASSUME NEW i \in 1 .. Len(a) + Len(b)
      PROVE  (a \o b)[i] \in ToSet(a) \union ToSet(b)
  <2>1. i \in 1 .. Len(a) \/ (~ (i <= Len(a)) /\ i - Len(a) \in 1 .. Len(b))
    BY <1>1
  <2> QED  BY <1>1, <2>1 DEF ToSet
<1>3. ASSUME NEW i \in 1 .. Len(a)  PROVE a[i] \in ToSet(a \o b)
  <2>1. i \in 1 .. Len(a) + Len(b) /\ i <= Len(a)
    BY <1>1
  <2> QED  BY <1>1, <2>1 DEF ToSet
<1>4. ASSUME NEW i \in 1 .. Len(b)  PROVE b[i] \in ToSet(a \o b)
  <2>1. i + Len(a) \in 1 .. Len(a) + Len(b) /\ ~ (i + Len(a) <= Len(a)) /\ (i + Len(a)) - Len(a) = i
    BY <1>1
  <2>2. (a \o b)[i + Len(a)] = b[i]
    BY <1>1, <2>1
  <2> QED  BY <1>1, <2>1, <2>2 DEF ToSet
<1>5. ToSet(a \o b) \subseteq ToSet(a) \union ToSet(b)
  BY <1>1, <1>2 DEF ToSet
<1>6. ToSet(a) \subseteq ToSet(a \o b)
  BY <1>1, <1>3 DEF ToSet
<1>7. ToSet(b) \subseteq ToSet(a \o b)
  BY <1>1, <1>4 DEF ToSet
<1> QED  BY <1>1, <1>5, <1>6, <1>7

LEMMA ConcatAssoc ==
    ASSUME NEW S, NEW a \in Seq(S), NEW b \in Seq(S), NEW c \in Seq(S)
    PROVE  (a \o b) \o c = a \o (b \o c)
  OBVIOUS

LEMMA ConcatNone ==
    ASSUME NEW S, NEW a \in Seq(S), NEW b \in Seq(S), NEW X, NEW Y,
           NoneAfter(a, X, Y), NoneAfter(b, X, Y),
           ToSet(a) \cap X = {} \/ ToSet(b) \cap Y = {}
    PROVE  NoneAfter(a \o b, X, Y)
<1>1. /\ Len(a) \in Nat /\ Len(b) \in Nat /\ DOMAIN a = 1 .. Len(a) /\ DOMAIN b = 1 .. Len(b)
      /\ a \o b \in Seq(S) /\ DOMAIN (a \o b) = 1 .. Len(a) + Len(b)
      /\ \A i \in 1 .. Len(a) + Len(b) :
            (a \o b)[i] = IF i <= Len(a) THEN a[i] ELSE b[i - Len(a)]
  OBVIOUS
<1> SUFFICES ASSUME NEW i \in 1 .. Len(a) + Len(b), NEW j \in 1 .. Len(a) + Len(b), i < j,
                    (a \o b)[i] \in X, (a \o b)[j] \in Y
             PROVE  FALSE
  BY <1>1 DEF NoneAfter
<1>2. CASE j <= Len(a)
  <2>1. i \in 1 .. Len(a) /\ j \in 1 .. Len(a) /\ (a \o b)[i] = a[i] /\ (a \o b)[j] = a[j]
    BY <1>1, <1>2
  <2> QED  BY <1>1, <2>1 DEF NoneAfter
<1>3. CASE ~ (i <= Len(a))
  <2>1. /\ i - Len(a) \in 1 .. Len(b) /\ j - Len(a) \in 1 .. Len(b) /\ i - Len(a) < j - Len(a)
        /\ ~ (j <= Len(a))
    BY <1>1, <1>3
  <2>2. (a \o b)[i] = b[i - Len(a)] /\ (a \o b)[j] = b[j - Len(a)]
    BY <1>1, <1>3, <2>1
  <2> QED  BY <1>1, <2>1, <2>2 DEF NoneAfter
<1>4. CASE i <= Len(a) /\ ~ (j <= Len(a))
  <2>1. i \in 1 .. Len(a) /\ j - Len(a) \in 1 .. Len(b)
    BY <1>1, <1>4
  <2>2. (a \o b)[i] = a[i] /\ (a \o b)[j] = b[j - Len(a)]
    BY <1>1, <1>4
  <2> QED  BY <1>1, <2>1, <2>2 DEF ToSet
<1> QED  BY <1>2, <1>3, <1>4

LEMMA ReverseSet ==
    ASSUME NEW S, NEW seq \in Seq(S)
    PROVE  Reverse(seq) \in Seq(S) /\ ToSet(Reverse(seq)) = ToSet(seq)
<1>1. /\ Len(seq) \in Nat /\ DOMAIN seq = 1 .. Len(seq)
      /\ \A i \in 1 .. Len(seq) : (Len(seq) - i) + 1 \in 1 .. Len(seq)
                                  /\ (Len(seq) - ((Len(seq) - i) + 1)) + 1 = i
      /\ \A i \in 1 .. Len(seq) : seq[i] \in S
  OBVIOUS
<1>2. DOMAIN Reverse(seq) = 1 .. Len(seq)
      /\ \A i \in 1 .. Len(seq) : Reverse(seq)[i] = seq[(Len(seq) - i) + 1]
  BY DEF Reverse
<1>3. Reverse(seq) \in [1 .. Len(seq) -> S]
  BY <1>1 DEF Reverse
<1>4. Reverse(seq) \in Seq(S)
  BY <1>1, <1>3
<1> QED  BY <1>1, <1>2, <1>4 DEF ToSet

LEMMA ReverseNone ==
    ASSUME NEW S, NEW seq \in Seq(S), NEW X, NEW Y, NoneAfter(seq, Y, X)
    PROVE  NoneAfter(Reverse(seq), X, Y)
<1>1. Len(seq) \in Nat /\ DOMAIN seq = 1 .. Len(seq)
  OBVIOUS
<1>2. DOMAIN Reverse(seq) = 1 .. Len(seq)
      /\ \A i \in 1 .. Len(seq) : Reverse(seq)[i] = seq[(Len(seq) - i) + 1]
  BY DEF Reverse
<1> SUFFICES ASSUME NEW i \in 1 .. Len(seq), NEW j \in 1 .. Len(seq), i < j,
                    seq[(Len(seq) - i) + 1] \in X, seq[(Len(seq) - j) + 1] \in Y
             PROVE  FALSE
  BY <1>2 DEF NoneAfter
<1>3. /\ (Len(seq) - i) + 1 \in 1 .. Len(seq) /\ (Len(seq) - j) + 1 \in 1 .. Len(seq)
      /\ (Len(seq) - j) + 1 < (Len(seq) - i) + 1
  BY <1>1
<1> QED  BY <1>1, <1>3 DEF NoneAfter

LEMMA ApartNone ==
    ASSUME NEW S, NEW seq \in Seq(S), NEW X, NEW Y, ToSet(seq) \cap X = {} \/ ToSet(seq) \cap Y = {}
    PROVE  NoneAfter(seq, X, Y)
  BY DEF NoneAfter, ToSet

LEMMA OnlySet ==
    ASSUME NEW S, NEW seq \in Seq(S), NEW T
    PROVE  Only(seq, T) \in Seq(S \cap T) /\ ToSet(Only(seq, T)) = ToSet(seq) \cap T
<1>1. PICK k \in [0 .. Len(seq) -> Seq(S \cap T)] :
        KeptOf(seq, T, k) /\ Only(seq, T) = k[Len(seq)]
  BY OnlyIs
<1>2. Len(seq) \in Nat /\ DOMAIN seq = 1 .. Len(seq) /\ \A i \in 1 .. Len(seq) : seq[i] \in S
  OBVIOUS
<1> DEFINE Upto(n) == {seq[i] : i \in 1 .. n}
           Bad == {n \in Nat : n <= Len(seq) /\ ToSet(k[n]) # Upto(n) \cap T}
<1>3. Bad = {}
  <2> SUFFICES ASSUME Bad # {}  PROVE FALSE
    OBVIOUS
  <2>1. PICK n \in Bad : \A m \in Bad : n <= m
    BY LeastNatural
  <2>2. n # 0
    BY <1>1 DEF KeptOf, ToSet
  <2>9. n \in Nat /\ n <= Len(seq) /\ ToSet(k[n]) # Upto(n) \cap T
    BY <2>1
  <2> HIDE DEF Bad
  <2>3. n \in 1 .. Len(seq) /\ n - 1 \in 0 .. Len(seq) /\ n - 1 \in Nat /\ n - 1 \notin Bad
    BY <1>2, <2>1, <2>2, <2>9
  <2>4. ToSet(k[n - 1]) = Upto(n - 1) \cap T
    BY <1>2, <2>3 DEF Bad
  <2>5. Upto(n) = Upto(n - 1) \union {seq[n]}
    <3>1. \A i \in 1 .. n : i = n \/ i \in 1 .. n - 1
      BY <2>3
    <3>2. n \in 1 .. n /\ \A i \in 1 .. n - 1 : i \in 1 .. n
      BY <2>3
    <3> QED  BY <3>1, <3>2
  <2> DEFINE U == S \cap T
             before == k[n - 1]
  <2>6. before \in Seq(U)
    BY <1>1, <2>3
  <2> HIDE DEF Upto, U, before
  <2>7. CASE seq[n] \in T
    <3>1. k[n] = Append(before, seq[n]) /\ seq[n] \in U
      BY <1>1, <1>2, <2>3, <2>7 DEF KeptOf, U, before
    <3>2. ToSet(k[n]) = ToSet(before) \union {seq[n]}
      BY <2>6, <3>1, AppendSet
    <3> QED  BY <2>9, <2>4, <2>5, <2>7, <3>2 DEF before
  <2>8. CASE seq[n] \notin T
    <3>1. k[n] = k[n - 1]
      BY <1>1, <2>3, <2>8 DEF KeptOf
    <3> QED  BY <2>9, <2>4, <2>5, <2>8, <3>1
  <2> QED  BY <2>7, <2>8
<1>4. ToSet(k[Len(seq)]) = Upto(Len(seq)) \cap T
  BY <1>2, <1>3
<1>5. Upto(Len(seq)) = ToSet(seq)
  BY <1>2 DEF ToSet
<1>6. k[Len(seq)] \in Seq(S \cap T)
  BY <1>1, <1>2
<1> HIDE DEF Upto
<1> QED  BY <1>1, <1>4, <1>5, <1>6

LEMMA OnlyNone ==
    ASSUME NEW S, NEW seq \in Seq(S), NEW T, NEW X, NEW Y, NoneAfter(seq, X, Y)
    PROVE  NoneAfter(Only(seq, T), X, Y)
<1>1. PICK k \in [0 .. Len(seq) -> Seq(S \cap T)] :
        KeptOf(seq, T, k) /\ Only(seq, T) = k[Len(seq)]
  BY OnlyIs
<1>2. Len(seq) \in Nat /\ DOMAIN seq = 1 .. Len(seq) /\ \A i \in 1 .. Len(seq) : seq[i] \in S
  OBVIOUS
<1> DEFINE Fine(n) == /\ \A e \in ToSet(k[n]) : \E i \in 1 .. n : e = seq[i]
                      /\ NoneAfter(k[n], X, Y)
           Bad == {n \in Nat : n <= Len(seq) /\ ~ Fine(n)}
<1>3. Bad = {}
  <2> SUFFICES ASSUME Bad # {}  PROVE FALSE
    OBVIOUS
  <2>1. PICK n \in Bad : \A m \in Bad : n <= m
    BY LeastNatural
  <2>2. n # 0
    <3>1. Fine(0)
      BY <1>1 DEF KeptOf, ToSet, NoneAfter
    <3> HIDE DEF Fine
    <3> QED  BY <2>1, <3>1
  <2>3. n \in 1 .. Len(seq) /\ n - 1 \in 0 .. Len(seq) /\ n - 1 \in Nat /\ n - 1 \notin Bad
    BY <1>2, <2>1, <2>2
  <2> HIDE DEF Fine
  <2>4. Fine(n - 1)
    BY <1>2, <2>3
  <2> DEFINE U == S \cap T
             before == k[n - 1]
  <2>5. before \in Seq(U)
    BY <1>1, <2>3
  <2> HIDE DEF U, before
  <2>6. \A i \in 1 .. n - 1 : i \in 1 .. n /\ i \in DOMAIN seq /\ i < n
    BY <1>2, <2>3
  <2>7. CASE seq[n] \in T
    <3>1. k[n] = Append(before, seq[n]) /\ seq[n] \in U
      BY <1>1, <1>2, <2>3, <2>7 DEF KeptOf, U, before
    <3>2. ToSet(k[n]) = ToSet(before) \union {seq[n]}
      BY <2>5, <3>1, AppendSet
    <3>3. \A e \in ToSet(k[n]) : \E i \in 1 .. n : e = seq[i]
      BY <2>3, <2>4, <2>6, <3>2 DEF Fine, before
    <3>4. ToSet(before) \cap X = {} \/ seq[n] \notin Y
      <4> SUFFICES ASSUME NEW e \in ToSet(before), e \in X  PROVE seq[n] \notin Y
        OBVIOUS
      <4>1. PICK i \in 1 .. n - 1 : e = seq[i]
        BY <2>4 DEF Fine, before
      <4> QED  BY <1>2, <2>3, <2>6, <4>1 DEF NoneAfter
    <3>5. NoneAfter(k[n], X, Y)
      <4>1. NoneAfter(before, X, Y)
        BY <2>4 DEF Fine, before
      <4> QED  BY <2>5, <3>1, <3>4, <4>1, AppendNone
    <3> QED  BY <2>1, <3>3, <3>5 DEF Fine
  <2>8. CASE seq[n] \notin T
    <3>1. k[n] = k[n - 1]
      BY <1>1, <2>3, <2>8 DEF KeptOf
    <3> QED  BY <2>1, <2>4, <2>6, <3>1 DEF Fine
  <2> QED  BY <2>7, <2>8
<1> HIDE DEF Fine
<1>4. Fine(Len(seq))
  BY <1>2, <1>3
<1> QED  BY <1>1, <1>4 DEF Fine

\* Joining the first n sequences.
JoinOf(seqs, n, k) ==
    /\ k[1] = seqs[1]
    /\ \A i \in 2 .. n : k[i] = k[i - 1] \o seqs[i]

LEMMA JoinExists ==
    ASSUME NEW S, NEW seqs \in Seq(Seq(S)), seqs # <<>>
    PROVE  \E k \in [1 .. Len(seqs) -> Seq(S)] : JoinOf(seqs, Len(seqs), k)
<1> DEFINE UpTo(n) == \E k \in [1 .. n -> Seq(S)] : JoinOf(seqs, n, k)
           Bad == {n \in Nat : 1 <= n /\ n <= Len(seqs) /\ ~ UpTo(n)}
<1>1. /\ Len(seqs) \in Nat /\ Len(seqs) >= 1
      /\ \A i \in 1 .. Len(seqs) : seqs[i] \in Seq(S)
  OBVIOUS
<1>2. UpTo(1)
  <2>1. 1 .. 1 = {1} /\ 2 .. 1 = {} /\ seqs[1] \in Seq(S)
    BY <1>1
  <2> DEFINE k == [i \in {1} |-> seqs[1]]
  <2>2. k \in [1 .. 1 -> Seq(S)] /\ k[1] = seqs[1]
    BY <2>1
  <2> HIDE DEF k
  <2> QED  BY <2>1, <2>2 DEF JoinOf
<1>3. ASSUME NEW n \in 2 .. Len(seqs), UpTo(n - 1)  PROVE UpTo(n)
  <2>1. PICK k \in [1 .. n - 1 -> Seq(S)] : JoinOf(seqs, n - 1, k)
    BY <1>3
  <2> DEFINE last == k[n - 1] \o seqs[n]
             g == [i \in 1 .. n |-> IF i = n THEN last ELSE k[i]]
  <2>2. n \in Nat /\ n # 1 /\ n - 1 \in 1 .. n - 1 /\ n \in 1 .. Len(seqs)
    BY <1>1
  <2>3. last \in Seq(S)
    <3>1. k[n - 1] \in Seq(S) /\ seqs[n] \in Seq(S)
      BY <1>1, <2>2
    <3> QED  BY <3>1
  <2>4. \A i \in 1 .. n : i = n \/ i \in 1 .. n - 1
    BY <2>2
  <2> HIDE DEF last
  <2>5. g \in [1 .. n -> Seq(S)]
    BY <2>3, <2>4
  <2>6. g[1] = seqs[1]
    BY <2>1, <2>2 DEF JoinOf
  <2>7. ASSUME NEW i \in 2 .. n
        PROVE  g[i] = g[i - 1] \o seqs[i]
    <3>1. i - 1 \in 1 .. n /\ i - 1 # n
      BY <2>2
    <3>2. g[i - 1] = k[i - 1]
      BY <3>1
    <3>3. CASE i = n
      <4>1. g[i] = last
        BY <2>2, <3>3
      <4> QED  BY <3>2, <3>3, <4>1 DEF last
    <3>4. CASE i # n
      <4>1. i \in 2 .. n - 1 /\ i \in 1 .. n
        BY <2>2, <3>4
      <4>2. g[i] = k[i]
        BY <3>4, <4>1
      <4> QED  BY <2>1, <3>2, <4>1, <4>2 DEF JoinOf
    <3> QED  BY <3>3, <3>4
  <2> HIDE DEF g
  <2> QED  BY <2>5, <2>6, <2>7 DEF JoinOf
<1> HIDE DEF UpTo
<1>4. Bad = {}
  <2> SUFFICES ASSUME Bad # {}  PROVE FALSE
    OBVIOUS
  <2>1. PICK n \in Bad : \A m \in Bad : n <= m
    BY LeastNatural
  <2>2. n \in 2 .. Len(seqs)
    BY <1>1, <1>2
  <2>3. n - 1 \in Nat /\ 1 <= n - 1 /\ n - 1 <= Len(seqs) /\ n - 1 \notin Bad
    BY <1>1, <2>1, <2>2
  <2>4. UpTo(n - 1)
    BY <2>3
  <2> QED  BY <1>3, <2>2, <2>4
<1>5. UpTo(Len(seqs))
  BY <1>1, <1>4
<1> QED  BY <1>5 DEF UpTo

LEMMA FlattenIs ==
    ASSUME NEW S, NEW seqs \in Seq(Seq(S)), seqs # <<>>
    PROVE  \E k \in [1 .. Len(seqs) -> Seq(S)] :
              JoinOf(seqs, Len(seqs), k) /\ FlattenSeq(seqs) = k[Len(seqs)]
<1> DEFINE body(f) == [i \in 1 .. Len(seqs) |->
                          IF i = 1 THEN seqs[i] ELSE f[i - 1] \o seqs[i]]
           flatten == CHOOSE f : f = body(f)
<1>1. Len(seqs) \in Nat /\ Len(seqs) >= 1 /\ Len(seqs) # 0
  OBVIOUS
<1>2. FlattenSeq(seqs) = flatten[Len(seqs)]
  BY <1>1 DEF FlattenSeq
<1>3. PICK k \in [1 .. Len(seqs) -> Seq(S)] : JoinOf(seqs, Len(seqs), k)
  BY JoinExists
<1>4. \A i \in 1 .. Len(seqs) : i = 1 \/ i \in 2 .. Len(seqs)
  BY <1>1
<1>5. k = body(k)
  BY <1>3, <1>4 DEF JoinOf
<1>6. flatten = body(flatten)
  <2> HIDE DEF body
  <2> QED  BY <1>5
<1> DEFINE K == flatten
<1>7. K = body(K)
  BY <1>6
<1> HIDE DEF K
<1>8. 1 \in 1 .. Len(seqs) /\ \A i \in 2 .. Len(seqs) : i \in 1 .. Len(seqs) /\ i # 1
  BY <1>1
<1>9. JoinOf(seqs, Len(seqs), K)
  BY <1>7, <1>8 DEF JoinOf
<1> DEFINE Bad == {n \in Nat : 1 <= n /\ n <= Len(seqs) /\ K[n] # k[n]}
<1>10. Bad = {}
  <2> SUFFICES ASSUME Bad # {}  PROVE FALSE
    OBVIOUS
  <2>1. PICK n \in Bad : \A m \in Bad : n <= m
    BY LeastNatural
  <2>2. n # 1
    BY <1>3, <1>9 DEF JoinOf
  <2>3. n - 1 \in Nat /\ n - 1 \notin Bad /\ n \in 2 .. Len(seqs)
    BY <1>1, <2>1, <2>2
  <2>4. K[n - 1] = k[n - 1]
    BY <2>3
  <2>5. K[n] = k[n]
    BY <1>3, <1>9, <2>3, <2>4 DEF JoinOf
  <2> QED  BY <2>1, <2>5
<1>11. \A i \in 1 .. Len(seqs) : i \in Nat /\ 1 <= i /\ i <= Len(seqs)
  BY <1>1
<1>12. \A i \in 1 .. Len(seqs) : K[i] = k[i]
  BY <1>10, <1>11
<1>13. Len(seqs) \in 1 .. Len(seqs)
  BY <1>1
<1>14. FlattenSeq(seqs) = k[Len(seqs)]
  BY <1>2, <1>12, <1>13 DEF K
<1> QED  BY <1>3, <1>14

LEMMA JoinedSet ==
    ASSUME NEW S, NEW seqs \in Seq(Seq(S))
    PROVE  /\ FlattenSeq(seqs) \in Seq(S)
           /\ ToSet(FlattenSeq(seqs)) = UNION {ToSet(seqs[i]) : i \in DOMAIN seqs}
<1>1. CASE seqs = <<>>
  BY <1>1 DEF FlattenSeq, ToSet
<1>2. CASE seqs # <<>>
  <2>1. PICK k \in [1 .. Len(seqs) -> Seq(S)] :
          JoinOf(seqs, Len(seqs), k) /\ FlattenSeq(seqs) = k[Len(seqs)]
    BY <1>2, FlattenIs
  <2>2. /\ Len(seqs) \in Nat /\ Len(seqs) >= 1 /\ DOMAIN seqs = 1 .. Len(seqs)
        /\ \A i \in 1 .. Len(seqs) : seqs[i] \in Seq(S)
    BY <1>2
  <2>10. \A i \in 1 .. Len(seqs) : k[i] \in Seq(S)
    OBVIOUS
  <2> DEFINE Upto(n) == UNION {ToSet(seqs[i]) : i \in 1 .. n}
             Bad == {n \in Nat : 1 <= n /\ n <= Len(seqs) /\ ToSet(k[n]) # Upto(n)}
  <2>3. Upto(1) = ToSet(seqs[1])
    <3>1. 1 .. 1 = {1}
      OBVIOUS
    <3> QED  BY <3>1
  <2>4. \A n \in 2 .. Len(seqs) : Upto(n) = Upto(n - 1) \union ToSet(seqs[n])
    <3> TAKE n \in 2 .. Len(seqs)
    <3>1. 1 .. n = (1 .. n - 1) \union {n}
      BY <2>2
    <3> QED  BY <3>1
  <2> HIDE DEF Upto
  <2>5. Bad = {}
    <3> SUFFICES ASSUME Bad # {}  PROVE FALSE
      OBVIOUS
    <3>1. PICK n \in Bad : \A m \in Bad : n <= m
      BY LeastNatural
    <3>2. n # 1
      BY <2>1, <2>3 DEF JoinOf
    <3>3. n \in Nat /\ n <= Len(seqs) /\ ToSet(k[n]) # Upto(n)
      BY <3>1
    <3> HIDE DEF Bad
    <3>4. n \in 2 .. Len(seqs) /\ n - 1 \in 1 .. Len(seqs) /\ n - 1 \in Nat /\ n - 1 \notin Bad
      BY <2>2, <3>1, <3>2, <3>3 DEF Bad
    <3>5. ToSet(k[n - 1]) = Upto(n - 1)
      BY <2>2, <3>4 DEF Bad
    <3> DEFINE before == k[n - 1]
               new1 == seqs[n]
    <3>6. before \in Seq(S) /\ new1 \in Seq(S)
      BY <2>2, <2>10, <3>4
    <3>7. k[n] = before \o new1
      BY <2>1, <3>4 DEF JoinOf
    <3>10. Upto(n) = Upto(n - 1) \union ToSet(seqs[n])
      BY <2>4, <3>4
    <3>8. ToSet(before) = Upto(n - 1) /\ Upto(n) = Upto(n - 1) \union ToSet(new1)
      BY <3>5, <3>10
    <3> HIDE DEF before, new1
    <3>9. ToSet(k[n]) = ToSet(before) \union ToSet(new1)
      BY <3>6, <3>7, ConcatSet
    <3> QED  BY <3>3, <3>8, <3>9
  <2>9. Len(seqs) \in 1 .. Len(seqs)
    BY <2>2
  <2>11. \A n \in 1 .. Len(seqs) : n \in Nat /\ 1 <= n /\ n <= Len(seqs)
    BY <2>2
  <2>12. \A n \in 1 .. Len(seqs) : ToSet(k[n]) = Upto(n)
    BY <2>5, <2>11
  <2>6. ToSet(k[Len(seqs)]) = Upto(Len(seqs))
    BY <2>9, <2>12
  <2>7. k[Len(seqs)] \in Seq(S)
    BY <2>9, <2>10
  <2>8. Upto(Len(seqs)) = UNION {ToSet(seqs[i]) : i \in DOMAIN seqs}
    <3>1. 1 .. Len(seqs) = DOMAIN seqs
      BY <2>2
    <3> QED  BY <3>1 DEF Upto
  <2> QED  BY <2>1, <2>6, <2>7, <2>8
<1> QED  BY <1>1, <1>2

-----------------------------------------------------------------------------
(* The form of each stage *)

MoveKinds == {"ready", "stop", "dump", "copy", "service", "start", "healthy", "restore",
              "tcp", "domain", "publish", "probe"}

MoveStep(g) ==
    {s \in MoveKinds \X Members(g) :
        /\ s[1] = "tcp" => s[2] \in Ports
        /\ s[1] \in {"domain", "publish"} => s[2] \in ToSet(Domains)}

CutoverStep ==
    ({"ready", "trust", "fallback", "proxy", "console", "edge", "gone", "caddy", "up"} \X {Host})
        \union ({"probe"} \X Workloads)

FinishStep ==
    ({"remove"} \X Workloads) \union ({"platform", "clear", "agent", "complete"} \X {Host})

\* What may be in the journal with an undo, and what is undone.
LiveStep ==
    ({"stop", "service", "start", "tcp", "domain", "publish"} \X Workloads)
        \union ({"trust", "fallback", "console", "edge", "up"} \X {Host})

UndoStep(g) == (LiveStep \cap StepsOf(g)) \union ({"outright"} \X Members(g))

JobType ==
    [kind : {"idle"} \union Runs \union Replays, group : Groups \union {Host},
     todo : Seq(Steps), noting : {NotNoted} \union Noting, failed : BOOLEAN,
     first : BOOLEAN, ended : Ends]

\* Each stage has steps of its own left;
Stage(j) ==
    /\ j.kind = "idle" => j.todo = <<>>
    /\ j.kind = "move" => j.group \in Groups /\ j.todo \in Seq(MoveStep(j.group))
    /\ j.kind = "cutover" => j.group = Host /\ j.todo \in Seq(CutoverStep)
    /\ j.kind = "finish" => j.group = Host /\ j.todo \in Seq(FinishStep)
    /\ j.kind = "undo" => j.group \in Groups /\ j.todo \in Seq(UndoStep(j.group))
    /\ j.kind = "rollback" => j.todo \in Seq(LiveStep \cap StepsOf(j.group))
    /\ j.kind = "restore" => j.group = Host /\ j.todo \in Seq({<<"edge", Host>>})

\* only one that runs notes any.
Hand(j) ==
    /\ j.noting # NotNoted =>
          j.kind \in Runs /\ j.todo # <<>> /\ Head(j.todo)[1] \in Journalled
    /\ j.noting = "undo" => Head(j.todo) \in LiveStep

JournalType == [done : SUBSET Steps, live : Seq(LiveStep)]

InForm == job \in JobType /\ Stage(job) /\ Hand(job) /\ journal \in JournalType

RestOK ==
    /\ movable \in Plans
    /\ was \in [Workloads -> {"up", "down"}]
    /\ old \in [Workloads -> {"up", "down", "gone"}]
    /\ new \in [Workloads -> BOOLEAN]
    /\ data \in [Carried -> [old : Nat, new : Nat, dump : Nat \union {Nothing}]]
    /\ routes \in [switched : SUBSET ToSet(Domains), published : SUBSET ToSet(Domains),
                   tcp : SUBSET Ports]
    /\ edge \in [at : {"ports", "side", "down", "gone"}, ports : {"old", "caddy", "nobody"},
                 trust : BOOLEAN, console : {"up", "down", "gone"},
                 fallback : SUBSET ToSet(Domains)]
    /\ past \in [cut : SUBSET (Groups \union {Host}), again : SUBSET Groups,
                 returned : SUBSET Groups]
    /\ budget \in [Expenses -> Nat]

LEMMA KindsAre ==
    /\ Runs = {"move", "cutover", "finish"} /\ Replays = {"undo", "rollback", "restore"}
    /\ Runs \cap Replays = {} /\ "idle" \notin Runs \union Replays
    /\ MoveKinds \subseteq Kinds
  BY DEF Runs, Replays, MoveKinds, Kinds

LEMMA StepsAre ==
    /\ \A g \in Groups : Members(g) \subseteq Workloads /\ MoveStep(g) \subseteq Steps
                         /\ UndoStep(g) \subseteq Steps
    /\ CutoverStep \subseteq Steps /\ FinishStep \subseteq Steps /\ LiveStep \subseteq Steps
<1>1. \A g \in Groups : Members(g) \subseteq Workloads
  BY DEF Workloads
<1>2. \A g \in Groups : MoveStep(g) \subseteq Steps
  BY <1>1, KindsAre DEF MoveStep, Steps
<1>3. LiveStep \subseteq Steps
  BY DEF LiveStep, Steps, Kinds, HostSteps
<1>4. \A g \in Groups : UndoStep(g) \subseteq Steps
  BY <1>1, <1>3 DEF UndoStep, Steps, Kinds
<1>5. CutoverStep \subseteq Steps /\ FinishStep \subseteq Steps
  BY DEF CutoverStep, FinishStep, Steps, Kinds, HostSteps
<1> QED  BY <1>1, <1>2, <1>3, <1>4, <1>5

LEMMA SeqIn ==
    ASSUME NEW S, NEW T, S \subseteq T, NEW seq \in Seq(S)
    PROVE  seq \in Seq(T)
  OBVIOUS

LEMMA TypeIs ==
    ASSUME InForm, RestOK
    PROVE  TypeOK
<1>1. journal.live \in Seq(Steps)
  BY StepsAre, SeqIn DEF InForm, JournalType
<1> QED  BY <1>1 DEF InForm, RestOK, TypeOK, JobType, JournalType

LEMMA FormIs ==
    ASSUME TypeOK
    PROVE  RestOK
  BY DEF TypeOK, RestOK

LEMMA EachIs ==
    ASSUME NEW S, NEW ws \in Seq(S), NEW what
    PROVE  /\ Each(what, ws) \in Seq({what} \X S)
           /\ ToSet(Each(what, ws)) = {<<what, w>> : w \in ToSet(ws)}
<1> DEFINE P == {what} \X S
<1>1. Len(ws) \in Nat /\ DOMAIN ws = 1 .. Len(ws) /\ \A i \in 1 .. Len(ws) : ws[i] \in S
  OBVIOUS
<1>2. DOMAIN Each(what, ws) = 1 .. Len(ws)
      /\ \A i \in 1 .. Len(ws) : Each(what, ws)[i] = <<what, ws[i]>>
  BY <1>1 DEF Each
<1>3. \A i \in 1 .. Len(ws) : <<what, ws[i]>> \in P
  BY <1>1
<1> HIDE DEF P
<1>4. Each(what, ws) \in [1 .. Len(ws) -> P]
  BY <1>1, <1>3 DEF Each
<1>5. Each(what, ws) \in Seq(P)
  BY <1>1, <1>4
<1>6. ToSet(Each(what, ws)) = {<<what, w>> : w \in ToSet(ws)}
  BY <1>1, <1>2 DEF ToSet
<1> QED  BY <1>5, <1>6 DEF P

LEMMA OneOf ==
    ASSUME NEW S, NEW a \in S
    PROVE  <<a>> \in Seq(S) /\ ToSet(<<a>>) = {a}
  BY DEF ToSet

LEMMA PairIs ==
    ASSUME NEW S, NEW a \in S, NEW b \in S
    PROVE  <<a, b>> \in Seq(S) /\ ToSet(<<a, b>>) = {a, b}
<1>1. <<a, b>> \in Seq(S) /\ DOMAIN <<a, b>> = {1, 2}
  OBVIOUS
<1> QED  BY <1>1 DEF ToSet

LEMMA TripleIs ==
    ASSUME NEW S, NEW a \in S, NEW b \in S, NEW c \in S
    PROVE  <<a, b, c>> \in Seq(S) /\ ToSet(<<a, b, c>>) = {a, b, c}
<1>1. <<a, b, c>> \in Seq(S) /\ DOMAIN <<a, b, c>> = {1, 2, 3}
  OBVIOUS
<1> QED  BY <1>1 DEF ToSet

LEMMA StartIs ==
    ASSUME NEW w
    PROVE  /\ Start(w) \in Seq({"service", "healthy", "start"} \X {w})
           /\ ToSet(Start(w)) = IF w \in Stacks
                                THEN {<<"service", w>>, <<"healthy", w>>, <<"start", w>>}
                                ELSE {<<"start", w>>, <<"healthy", w>>}
<1> DEFINE S == {"service", "healthy", "start"} \X {w}
           a == <<"service", w>>
           b == <<"healthy", w>>
           c == <<"start", w>>
<1>1. a \in S /\ b \in S /\ c \in S
  OBVIOUS
<1>2. Start(w) = IF w \in Stacks THEN <<a, b, c>> ELSE <<c, b>>
  BY DEF Start
<1> HIDE DEF S, a, b, c
<1>3. /\ <<a, b, c>> \in Seq(S) /\ ToSet(<<a, b, c>>) = {a, b, c}
      /\ <<c, b>> \in Seq(S) /\ ToSet(<<c, b>>) = {c, b}
  BY <1>1, PairIs, TripleIs
<1>4. Start(w) \in Seq(S) /\ ToSet(Start(w)) = IF w \in Stacks THEN {a, b, c} ELSE {c, b}
  BY <1>2, <1>3
<1> QED  BY <1>4 DEF S, a, b, c

LEMMA StartAllIs ==
    ASSUME NEW S, NEW ws \in Seq(S)
    PROVE  /\ StartAll(ws) \in Seq({"service", "healthy", "start"} \X S)
           /\ ToSet(StartAll(ws)) = UNION {ToSet(Start(w)) : w \in ToSet(ws)}
<1> DEFINE P == {"service", "healthy", "start"} \X S
           f == [i \in DOMAIN ws |-> Start(ws[i])]
<1>1. Len(ws) \in Nat /\ DOMAIN ws = 1 .. Len(ws) /\ \A i \in 1 .. Len(ws) : ws[i] \in S
  OBVIOUS
<1>2. ASSUME NEW i \in 1 .. Len(ws)  PROVE Start(ws[i]) \in Seq(P)
  <2> DEFINE w == ws[i]
             Q == {"service", "healthy", "start"} \X {w}
  <2>1. Start(w) \in Seq(Q)
    BY StartIs
  <2>2. Q \subseteq P
    BY <1>1
  <2> HIDE DEF Q, P
  <2>3. Start(w) \in Seq(P)
    BY <2>1, <2>2, SeqIn
  <2> QED  BY <2>3
<1> HIDE DEF P
<1>3. f \in [1 .. Len(ws) -> Seq(P)]
  BY <1>1, <1>2
<1>4. f \in Seq(Seq(P)) /\ DOMAIN f = DOMAIN ws /\ \A i \in DOMAIN ws : f[i] = Start(ws[i])
  BY <1>1, <1>3
<1>5. StartAll(ws) = FlattenSeq(f)
  BY DEF StartAll
<1> HIDE DEF f
<1>6. StartAll(ws) \in Seq(P) /\ ToSet(StartAll(ws)) = UNION {ToSet(f[i]) : i \in DOMAIN f}
  BY <1>4, <1>5, JoinedSet
<1>7. {ToSet(f[i]) : i \in DOMAIN f} = {ToSet(Start(w)) : w \in ToSet(ws)}
  BY <1>4 DEF ToSet
<1> QED  BY <1>6, <1>7 DEF P

-----------------------------------------------------------------------------
(* The steps of each stage *)

StopsOf(g) == {"stop"} \X Members(g)
StartsOf(g) == {"start", "service"} \X Members(g)
AppStops(g) == {"stop"} \X ToSet(Applications[g])
DumpsOf(g) == {"dump"} \X (Members(g) \cap Dumped)

LEMMA ListsAre ==
    ASSUME NEW g \in Groups
    PROVE  /\ Applications[g] \in Seq(Members(g)) /\ Databases[g] \in Seq(Members(g))
           /\ DomainsOf(g) \in Seq(Members(g) \cap ToSet(Domains))
           /\ ToSet(DomainsOf(g)) = Members(g) \cap ToSet(Domains)
<1>1. Applications[g] \in Seq(Members(g)) /\ Databases[g] \in Seq(Members(g))
  BY MigrationAssumption
<1>2. Domains \in Seq(Workloads)
  BY MigrationAssumption
<1> DEFINE D == DomainsOf(g)  WM == Workloads \cap Members(g)
<1>3. D \in Seq(WM) /\ ToSet(D) = ToSet(Domains) \cap Members(g)
  BY <1>2, OnlySet DEF DomainsOf
<1> HIDE DEF D, WM
<1>4. ToSet(D) \subseteq Members(g) \cap ToSet(Domains)
  BY <1>3
<1>5. D \in Seq(Members(g) \cap ToSet(Domains))
  BY <1>3, <1>4, SeqWithin
<1> QED  BY <1>1, <1>3, <1>5 DEF D

\* What is dumped are databases.
LEMMA DumpedIn ==
    ASSUME NEW g \in Groups, NEW w \in Members(g) \cap Dumped
    PROVE  w \in ToSet(Databases[g])
<1>1. PICK h \in Groups : w \in ToSet(Databases[h])
  BY MigrationAssumption
<1>2. w \in Members(h)
  BY <1>1 DEF Members
<1>3. h = g
  BY <1>2, MigrationAssumption
<1> QED  BY <1>1, <1>3

LEMMA TakeDownIs ==
    ASSUME NEW g \in Groups
    PROVE  /\ TakeDown(g) \in Seq({"stop", "dump"} \X Members(g))
           /\ StopsOf(g) \subseteq ToSet(TakeDown(g))
           /\ DumpsOf(g) \subseteq ToSet(TakeDown(g))
           /\ NoneAfter(TakeDown(g), {"dump"} \X Members(g), AppStops(g))
<1> DEFINE M == Members(g)
           P == {"stop", "dump"} \X M
           A == Each("stop", Applications[g])
           B == Each("dump", Only(Databases[g], Dumped))
           C == Each("stop", Databases[g])
<1>1. Applications[g] \in Seq(M) /\ Databases[g] \in Seq(M)
  BY ListsAre
<1>2. /\ Only(Databases[g], Dumped) \in Seq(M)
      /\ ToSet(Only(Databases[g], Dumped)) = ToSet(Databases[g]) \cap Dumped
  <2>1. Only(Databases[g], Dumped) \in Seq(M \cap Dumped)
    BY <1>1, OnlySet
  <2> QED  BY <1>1, <2>1, OnlySet
<1>3. /\ A \in Seq({"stop"} \X M) /\ ToSet(A) = {<<"stop", w>> : w \in ToSet(Applications[g])}
      /\ C \in Seq({"stop"} \X M) /\ ToSet(C) = {<<"stop", w>> : w \in ToSet(Databases[g])}
      /\ B \in Seq({"dump"} \X M)
      /\ ToSet(B) = {<<"dump", w>> : w \in ToSet(Databases[g]) \cap Dumped}
  <2>1. A \in Seq({"stop"} \X M) /\ ToSet(A) = {<<"stop", w>> : w \in ToSet(Applications[g])}
    BY <1>1, EachIs
  <2>2. C \in Seq({"stop"} \X M) /\ ToSet(C) = {<<"stop", w>> : w \in ToSet(Databases[g])}
    BY <1>1, EachIs
  <2>3. /\ B \in Seq({"dump"} \X M)
        /\ ToSet(B) = {<<"dump", w>> : w \in ToSet(Databases[g]) \cap Dumped}
    <3> DEFINE kept == Only(Databases[g], Dumped)
    <3> HIDE DEF kept, M
    <3>1. /\ Each("dump", kept) \in Seq({"dump"} \X M)
          /\ ToSet(Each("dump", kept)) = {<<"dump", w>> : w \in ToSet(kept)}
      BY <1>2, EachIs DEF kept
    <3>2. ToSet(kept) = ToSet(Databases[g]) \cap Dumped
      BY <1>2 DEF kept
    <3> QED  BY <3>1, <3>2 DEF kept
  <2> QED  BY <2>1, <2>2, <2>3
<1>4. {"stop"} \X M \subseteq P /\ {"dump"} \X M \subseteq P
  OBVIOUS
<1>5. TakeDown(g) = (A \o B) \o C
  BY DEF TakeDown
<1>14. /\ ToSet(A) \cap ({"dump"} \X M) = {} /\ ToSet(C) \cap AppStops(g) = {}
       /\ ToSet(B) \cap AppStops(g) = {} /\ ToSet(C) \cap ({"dump"} \X M) = {}
  <2>1. ToSet(Applications[g]) \cap ToSet(Databases[g]) = {}
    BY MigrationAssumption
  <2> QED  BY <1>3, <2>1 DEF AppStops
<1>15. DumpsOf(g) \subseteq ToSet(B)
  BY <1>3, DumpedIn DEF DumpsOf
<1> HIDE DEF A, B, C, P
<1>6. A \in Seq(P) /\ B \in Seq(P) /\ C \in Seq(P)
  BY <1>3, <1>4, SeqIn
<1> DEFINE AB == A \o B
<1>7. AB \in Seq(P) /\ ToSet(AB) = ToSet(A) \union ToSet(B)
  BY <1>6, ConcatSet
<1>8. TakeDown(g) = AB \o C
  BY <1>5
<1> HIDE DEF AB
<1>13. AB \o C \in Seq(P) /\ ToSet(AB \o C) = ToSet(AB) \union ToSet(C)
  BY <1>6, <1>7, ConcatSet
<1>9. \A w \in M : w \in ToSet(Applications[g]) \/ w \in ToSet(Databases[g])
  BY DEF Members
<1>10. \A w \in M : <<"stop", w>> \in ToSet(A) \/ <<"stop", w>> \in ToSet(C)
  BY <1>3, <1>9
<1>11. \A w \in M : <<"stop", w>> \in ToSet(TakeDown(g))
  BY <1>7, <1>8, <1>10, <1>13
<1>12. StopsOf(g) \subseteq ToSet(TakeDown(g))
  BY <1>11 DEF StopsOf
<1>16. DumpsOf(g) \subseteq ToSet(TakeDown(g))
  BY <1>7, <1>8, <1>13, <1>15
<1>17. NoneAfter(TakeDown(g), {"dump"} \X M, AppStops(g))
  <2> DEFINE X == {"dump"} \X M  Y == AppStops(g)
  <2> HIDE DEF X, Y
  <2>1. /\ ToSet(A) \cap X = {} /\ ToSet(C) \cap X = {}
        /\ ToSet(B) \cap Y = {} /\ ToSet(C) \cap Y = {}
    BY <1>14 DEF X, Y
  <2>2. NoneAfter(A, X, Y) /\ NoneAfter(B, X, Y) /\ NoneAfter(C, X, Y)
    BY <1>6, <2>1, ApartNone
  <2>3. NoneAfter(AB, X, Y)
    BY <1>6, <2>1, <2>2, ConcatNone DEF AB
  <2>4. NoneAfter(AB \o C, X, Y)
    BY <1>6, <1>7, <2>1, <2>2, <2>3, ConcatNone
  <2> QED  BY <1>8, <2>4 DEF X, Y
<1> QED  BY <1>8, <1>12, <1>13, <1>16, <1>17 DEF P

LEMMA BringUpIs ==
    ASSUME NEW g \in Groups
    PROVE  BringUp(g) \in Seq({"copy", "restore", "service", "healthy", "start"} \X Members(g))
<1> DEFINE M == Members(g)
           P == {"copy", "restore", "service", "healthy", "start"} \X M
           A == Each("copy", Only(Databases[g] \o Applications[g], Copied))
           B == StartAll(Databases[g])
           C == Each("restore", Only(Databases[g], Dumped))
           D == StartAll(Applications[g])
<1>1. Applications[g] \in Seq(M) /\ Databases[g] \in Seq(M)
  BY ListsAre
<1>2. Only(Databases[g], Dumped) \in Seq(M)
  <2>1. Only(Databases[g], Dumped) \in Seq(M \cap Dumped)
    BY <1>1, OnlySet
  <2> QED  BY <2>1
<1>3. Only(Databases[g] \o Applications[g], Copied) \in Seq(M)
  <2>1. Databases[g] \o Applications[g] \in Seq(M)
    BY <1>1, ConcatSet
  <2>2. Only(Databases[g] \o Applications[g], Copied) \in Seq(M \cap Copied)
    BY <2>1, OnlySet
  <2> QED  BY <2>2
<1>4. /\ A \in Seq({"copy"} \X M) /\ C \in Seq({"restore"} \X M)
      /\ B \in Seq({"service", "healthy", "start"} \X M)
      /\ D \in Seq({"service", "healthy", "start"} \X M)
  BY <1>1, <1>2, <1>3, EachIs, StartAllIs
<1>5. /\ {"copy"} \X M \subseteq P /\ {"restore"} \X M \subseteq P
      /\ {"service", "healthy", "start"} \X M \subseteq P
  OBVIOUS
<1>6. BringUp(g) = ((A \o B) \o C) \o D
  BY DEF BringUp
<1> HIDE DEF A, B, C, D, P
<1>7. A \in Seq(P) /\ B \in Seq(P) /\ C \in Seq(P) /\ D \in Seq(P)
  BY <1>4, <1>5, SeqIn
<1> DEFINE AB == A \o B  CD == C \o D
<1>8. AB \in Seq(P) /\ CD \in Seq(P)
  BY <1>7, ConcatSet
<1>9. BringUp(g) = AB \o CD
  <2> HIDE DEF P
  <2>1. (AB \o C) \o D = AB \o (C \o D)
    BY <1>7, <1>8, ConcatAssoc
  <2> QED  BY <1>6, <2>1
<1> HIDE DEF AB, CD
<1>10. AB \o CD \in Seq(P)
  BY <1>8, ConcatSet
<1> QED  BY <1>9, <1>10 DEF P

LEMMA SwitchesAre ==
    ASSUME NEW g \in Groups
    PROVE  FlattenSeq([i \in DOMAIN DomainsOf(g) |-> Switch(DomainsOf(g)[i])])
                \in Seq({"domain", "publish"} \X (Members(g) \cap ToSet(Domains)))
<1> DEFINE N == Members(g) \cap ToSet(Domains)
           P == {"domain", "publish"} \X N
           ws == DomainsOf(g)
           f == [i \in DOMAIN ws |-> Switch(ws[i])]
<1>1. ws \in Seq(N)
  BY ListsAre
<1> HIDE DEF ws, N
<1>2. Len(ws) \in Nat /\ DOMAIN ws = 1 .. Len(ws) /\ \A i \in 1 .. Len(ws) : ws[i] \in N
  BY <1>1
<1>3. ASSUME NEW i \in 1 .. Len(ws)  PROVE Switch(ws[i]) \in Seq(P)
  <2> DEFINE w == ws[i]  a == <<"domain", w>>  b == <<"publish", w>>
  <2>1. a \in P /\ b \in P
    BY <1>2
  <2>2. Switch(w) = IF Done("fallback", Host) THEN <<b>> ELSE <<a, b>>
    BY DEF Switch
  <2> HIDE DEF w, a, b, P
  <2>3. <<b>> \in Seq(P) /\ <<a, b>> \in Seq(P)
    BY <2>1, OneOf, PairIs
  <2>4. Switch(w) \in Seq(P)
    BY <2>2, <2>3
  <2> QED  BY <2>4 DEF w
<1> HIDE DEF P
<1>4. f \in [1 .. Len(ws) -> Seq(P)]
  BY <1>2, <1>3
<1>5. f \in Seq(Seq(P))
  BY <1>2, <1>4
<1>6. FlattenSeq(f) \in Seq(P)
  BY <1>5, JoinedSet
<1> QED  BY <1>6 DEF P, N, ws, f

\* A move is what takes the group down, then what brings it up, then its routes.
LEMMA MoveIs ==
    ASSUME NEW g \in Groups
    PROVE  \E a, d \in Seq(MoveStep(g)) :
              /\ MoveSteps(g) = a \o (BringUp(g) \o d)
              /\ BringUp(g) \in Seq(MoveStep(g))
              /\ StopsOf(g) \subseteq ToSet(a) /\ DumpsOf(g) \subseteq ToSet(a)
              /\ NoneAfter(a, {"dump"} \X Members(g), AppStops(g))
              /\ ToSet(a) \subseteq {"ready", "stop", "dump"} \X Members(g)
              /\ ToSet(d) \subseteq {"tcp", "domain", "publish", "probe"} \X Members(g)
<1> DEFINE M == Members(g)
           S == MoveStep(g)
           N == M \cap ToSet(Domains)
           A == Each("ready", Only(Applications[g], Stacks))
           B == TakeDown(g)
           C == BringUp(g)
           D == Each("tcp", Only(Databases[g], Ports))
           E == FlattenSeq([i \in DOMAIN DomainsOf(g) |-> Switch(DomainsOf(g)[i])])
           F == Each("probe", DomainsOf(g))
           PA0 == {"ready"} \X M
<1>1. Applications[g] \in Seq(M) /\ Databases[g] \in Seq(M) /\ DomainsOf(g) \in Seq(N)
  BY ListsAre
<1>2. Only(Applications[g], Stacks) \in Seq(M)
  <2>1. Only(Applications[g], Stacks) \in Seq(M \cap Stacks)
    BY <1>1, OnlySet
  <2> QED  BY <2>1
<1>3. Only(Databases[g], Ports) \in Seq(M \cap Ports)
  BY <1>1, OnlySet
<1>4. /\ A \in Seq({"ready"} \X M) /\ D \in Seq({"tcp"} \X (M \cap Ports))
      /\ F \in Seq({"probe"} \X N)
  BY <1>1, <1>2, <1>3, EachIs
<1>5. /\ B \in Seq({"stop", "dump"} \X M) /\ StopsOf(g) \subseteq ToSet(B)
      /\ DumpsOf(g) \subseteq ToSet(B) /\ NoneAfter(B, {"dump"} \X M, AppStops(g))
      /\ C \in Seq({"copy", "restore", "service", "healthy", "start"} \X M)
      /\ E \in Seq({"domain", "publish"} \X N)
  BY TakeDownIs, BringUpIs, SwitchesAre
<1>6. /\ {"ready"} \X M \subseteq S /\ {"tcp"} \X (M \cap Ports) \subseteq S
      /\ {"probe"} \X N \subseteq S /\ {"stop", "dump"} \X M \subseteq S
      /\ {"copy", "restore", "service", "healthy", "start"} \X M \subseteq S
      /\ {"domain", "publish"} \X N \subseteq S
  BY DEF MoveStep, MoveKinds
<1>7. MoveSteps(g) = ((((A \o B) \o C) \o D) \o E) \o F
  BY DEF MoveSteps
<1> DEFINE L1 == {"ready", "stop", "dump"} \X M
           L2 == {"tcp", "domain", "publish", "probe"} \X M
<1>23. ASSUME NEW x \in PA0  PROVE x \notin {"dump"} \X M /\ x \notin AppStops(g)
  BY <1>23 DEF AppStops
<1> HIDE DEF A, B, C, D, E, F
<1> DEFINE PA == {"ready"} \X M  PB == {"stop", "dump"} \X M  PD == {"tcp"} \X (M \cap Ports)
           PE == {"domain", "publish"} \X N  PF == {"probe"} \X N
<1>21. /\ PA \subseteq L1 /\ PB \subseteq L1
       /\ PD \subseteq L2 /\ PE \subseteq L2 /\ PF \subseteq L2
  OBVIOUS
<1>22. A \in Seq(PA) /\ B \in Seq(PB) /\ D \in Seq(PD) /\ E \in Seq(PE) /\ F \in Seq(PF)
  BY <1>4, <1>5
<1> HIDE DEF PA, PB, PD, PE, PF
<1>8. ToSet(A) \subseteq L1 /\ ToSet(B) \subseteq L1
  <2>1. ToSet(A) \subseteq PA /\ ToSet(B) \subseteq PB
    BY <1>22, InSeq
  <2> QED  BY <1>21, <2>1
<1>9. ToSet(D) \subseteq L2 /\ ToSet(E) \subseteq L2 /\ ToSet(F) \subseteq L2
  <2>1. ToSet(D) \subseteq PD /\ ToSet(E) \subseteq PE /\ ToSet(F) \subseteq PF
    BY <1>22, InSeq
  <2> QED  BY <1>21, <2>1
<1> HIDE DEF A, B, C, D, E, F, S, N, M, L1, L2
<1>10. A \in Seq(S) /\ B \in Seq(S) /\ C \in Seq(S) /\ D \in Seq(S) /\ E \in Seq(S) /\ F \in Seq(S)
  BY <1>4, <1>5, <1>6, SeqIn
<1> DEFINE AB == A \o B  DE == D \o E
<1>11. /\ AB \in Seq(S) /\ ToSet(AB) = ToSet(A) \union ToSet(B)
       /\ DE \in Seq(S) /\ ToSet(DE) = ToSet(D) \union ToSet(E)
  BY <1>10, ConcatSet
<1>12. MoveSteps(g) = (((AB \o C) \o D) \o E) \o F
  BY <1>7
<1>13. ((AB \o C) \o D) \o E = (AB \o C) \o DE
  <2> DEFINE ABC == AB \o C
  <2>1. ABC \in Seq(S)
    <3> HIDE DEF AB
    <3> QED  BY <1>10, <1>11
  <2> HIDE DEF AB, ABC
  <2>2. (ABC \o D) \o E = ABC \o (D \o E)
    BY <1>10, <2>1
  <2> QED  BY <2>2 DEF ABC
<1> HIDE DEF AB, DE
<1> DEFINE d == DE \o F
<1>14. d \in Seq(S) /\ ToSet(d) = ToSet(DE) \union ToSet(F)
  BY <1>10, <1>11, ConcatSet
<1>15. MoveSteps(g) = ((AB \o C) \o DE) \o F
  BY <1>12, <1>13
<1>16. ((AB \o C) \o DE) \o F = AB \o (C \o d)
  <2> DEFINE ABC == AB \o C
  <2>1. ABC \in Seq(S)
    BY <1>10, <1>11
  <2> HIDE DEF ABC
  <2>2. (ABC \o DE) \o F = ABC \o (DE \o F)
    BY <1>10, <1>11, <2>1
  <2> HIDE DEF d
  <2>3. (AB \o C) \o d = AB \o (C \o d)
    BY <1>10, <1>11, <1>14
  <2> QED  BY <2>2, <2>3 DEF ABC, d
<1> HIDE DEF d
<1>17. MoveSteps(g) = AB \o (C \o d)
  BY <1>15, <1>16
<1>18. /\ StopsOf(g) \subseteq ToSet(AB) /\ DumpsOf(g) \subseteq ToSet(AB)
       /\ NoneAfter(AB, {"dump"} \X M, AppStops(g))
  <2>1. StopsOf(g) \subseteq ToSet(AB) /\ DumpsOf(g) \subseteq ToSet(AB)
    BY <1>5, <1>11 DEF B
  <2> DEFINE X == {"dump"} \X M  Y == AppStops(g)
  <2>2. ToSet(A) \subseteq PA
    BY <1>22, InSeq
  <2>3. ToSet(A) \cap X = {} /\ ToSet(A) \cap Y = {}
    BY <1>23, <2>2 DEF PA
  <2>4. NoneAfter(B, X, Y)
    BY <1>5 DEF B
  <2> HIDE DEF X, Y
  <2>5. NoneAfter(A, X, Y)
    BY <1>10, <2>3, ApartNone
  <2>6. NoneAfter(A \o B, X, Y)
    BY <1>10, <2>3, <2>4, <2>5, ConcatNone
  <2> QED  BY <2>1, <2>6 DEF AB, X, Y
<1>19. ToSet(AB) \subseteq L1 /\ ToSet(d) \subseteq L2
  BY <1>8, <1>9, <1>11, <1>14
<1>20. \E a, e \in Seq(S) :
          /\ MoveSteps(g) = a \o (C \o e) /\ C \in Seq(S)
          /\ StopsOf(g) \subseteq ToSet(a) /\ ToSet(a) \subseteq L1 /\ ToSet(e) \subseteq L2
          /\ DumpsOf(g) \subseteq ToSet(a) /\ NoneAfter(a, {"dump"} \X M, AppStops(g))
  <2> DEFINE Good(a) == DumpsOf(g) \subseteq ToSet(a) /\ NoneAfter(a, {"dump"} \X M, AppStops(g))
  <2>1. Good(AB)
    BY <1>18
  <2> HIDE DEF Good
  <2>2. \E a, e \in Seq(S) :
          /\ MoveSteps(g) = a \o (C \o e) /\ C \in Seq(S)
          /\ StopsOf(g) \subseteq ToSet(a) /\ ToSet(a) \subseteq L1 /\ ToSet(e) \subseteq L2
          /\ Good(a)
    BY <1>10, <1>11, <1>14, <1>17, <1>18, <1>19, <2>1
  <2> QED  BY <2>2 DEF Good
<1> QED  BY <1>20 DEF C, S, L1, L2, M

\* All of a group stops before any of it starts.
LEMMA MoveStepsAre ==
    ASSUME NEW g \in Groups
    PROVE  /\ MoveSteps(g) \in Seq(MoveStep(g))
           /\ StopsOf(g) \subseteq ToSet(MoveSteps(g))
           /\ NoneAfter(MoveSteps(g), StartsOf(g), StopsOf(g))
<1> DEFINE S == MoveStep(g)  C == BringUp(g)
<1>1. PICK a \in Seq(S), d \in Seq(S) :
              /\ MoveSteps(g) = a \o (C \o d) /\ C \in Seq(S)
              /\ StopsOf(g) \subseteq ToSet(a)
              /\ ToSet(a) \subseteq {"ready", "stop", "dump"} \X Members(g)
              /\ ToSet(d) \subseteq {"tcp", "domain", "publish", "probe"} \X Members(g)
  BY MoveIs
<1>2. ToSet(C) \subseteq {"copy", "restore", "service", "healthy", "start"} \X Members(g)
  <2> DEFINE PC == {"copy", "restore", "service", "healthy", "start"} \X Members(g)
  <2>1. C \in Seq(PC)
    BY BringUpIs
  <2> HIDE DEF PC, C
  <2>2. ToSet(C) \subseteq PC
    BY <2>1, InSeq
  <2> QED  BY <2>2 DEF PC
<1> DEFINE r == C \o d
<1> HIDE DEF S, C
<1>3. r \in Seq(S) /\ ToSet(r) = ToSet(C) \union ToSet(d)
  BY <1>1, ConcatSet
<1> HIDE DEF r
<1>4. a \o r \in Seq(S) /\ ToSet(a \o r) = ToSet(a) \union ToSet(r)
  BY <1>1, <1>3, ConcatSet
<1>5. ToSet(a) \cap StartsOf(g) = {}
  BY <1>1 DEF StartsOf
<1>6. ToSet(r) \cap StopsOf(g) = {}
  BY <1>1, <1>2, <1>3 DEF StopsOf
<1>7. NoneAfter(a, StartsOf(g), StopsOf(g)) /\ NoneAfter(r, StartsOf(g), StopsOf(g))
  BY <1>1, <1>3, <1>5, <1>6, ApartNone
<1>8. NoneAfter(a \o r, StartsOf(g), StopsOf(g))
  BY <1>1, <1>3, <1>5, <1>7, ConcatNone
<1>9. MoveSteps(g) = a \o r
  BY <1>1 DEF r
<1> QED  BY <1>1, <1>4, <1>8, <1>9 DEF S

LEMMA WorkloadsFinite == IsFiniteSet(Workloads)
<1>1. ASSUME NEW S, NEW seq \in Seq(S)  PROVE IsFiniteSet(ToSet(seq))
  <2>1. Len(seq) \in Nat /\ DOMAIN seq = 1 .. Len(seq) /\ seq \in [1 .. Len(seq) -> S]
    OBVIOUS
  <2>2. seq \in Surjection(1 .. Len(seq), ToSet(seq))
    BY <2>1 DEF Surjection, ToSet
  <2>3. IsFiniteSet(1 .. Len(seq))
    BY <2>1, FS_Interval
  <2> QED  BY <2>2, <2>3, FS_Surjection
<1>2. ASSUME NEW g \in Groups  PROVE IsFiniteSet(Members(g))
  <2>1. IsFiniteSet(ToSet(Applications[g])) /\ IsFiniteSet(ToSet(Databases[g]))
    BY <1>1, ListsAre
  <2> QED  BY <2>1, FS_Union DEF Members
<1> DEFINE f == [g \in Groups |-> Members(g)]
           T == {Members(g) : g \in Groups}
<1>3. f \in Surjection(Groups, T)
  BY DEF Surjection
<1>4. IsFiniteSet(T)
  <2>1. IsFiniteSet(Groups)
    BY MigrationAssumption
  <2> HIDE DEF f, T
  <2> QED  BY <1>3, <2>1, FS_Surjection
<1>5. \A M \in T : IsFiniteSet(M)
  BY <1>2
<1>6. IsFiniteSet(UNION T)
  <2> HIDE DEF T
  <2> QED  BY <1>4, <1>5, FS_UNION
<1> QED  BY <1>6 DEF Workloads

LEMMA ListOfSet ==
    ASSUME NEW S, IsFiniteSet(S)
    PROVE  SetToSeq(S) \in Seq(S)
<1>1. Cardinality(S) \in Nat /\ ExistsBijection(1 .. Cardinality(S), S)
  BY FS_CardinalityType
<1>2. PICK f : f \in Bijection(1 .. Cardinality(S), S)
  BY <1>1 DEF ExistsBijection
<1>3. f \in [1 .. Cardinality(S) -> S] /\ IsInjective(f)
  BY <1>2 DEF Bijection, Injection, IsInjective
<1>4. SetToSeq(S) \in [1 .. Cardinality(S) -> S]
  BY <1>3 DEF SetToSeq
<1> QED  BY <1>1, <1>4

LEMMA FinishStepsAre ==
    /\ FinishSteps \in Seq(FinishStep)
    /\ \A w \in Workloads : <<"remove", w>> \in ToSet(FinishSteps) => Done("start", w)
    /\ <<"agent", Host>> \in ToSet(FinishSteps) /\ <<"complete", Host>> \in ToSet(FinishSteps)
    /\ NoneAfter(FinishSteps, {<<"complete", Host>>}, {<<"agent", Host>>})
<1> DEFINE W == {w \in Workloads : Done("start", w)}
           A == Each("remove", SetToSeq(W))
           h1 == <<"platform", Host>>
           h2 == <<"clear", Host>>
           h3 == <<"agent", Host>>
           h4 == <<"complete", Host>>
           B == <<h1, h2, h3, h4>>
           PA == {"remove"} \X W
           S == FinishStep
<1>1. A \in Seq(PA)
  <2>1. IsFiniteSet(W)
    BY WorkloadsFinite, FS_Subset
  <2> HIDE DEF W
  <2>2. SetToSeq(W) \in Seq(W)
    BY <2>1, ListOfSet
  <2> QED  BY <2>2, EachIs
<1>2. PA \subseteq S /\ h1 \in S /\ h2 \in S /\ h3 \in S /\ h4 \in S
  BY DEF FinishStep
<1>3. h1 # h3 /\ h2 # h3 /\ h4 # h3 /\ h1 # h4 /\ h2 # h4 /\ h3 \notin PA /\ h4 \notin PA
  OBVIOUS
<1>4. FinishSteps = A \o B
  BY DEF FinishSteps
<1>5. \A w \in Workloads : <<"remove", w>> \in PA => Done("start", w)
  OBVIOUS
<1>6. \A w \in Workloads :
        <<"remove", w>> # h1 /\ <<"remove", w>> # h2 /\ <<"remove", w>> # h3 /\ <<"remove", w>> # h4
  OBVIOUS
<1> HIDE DEF A, PA, S, h1, h2, h3, h4, W
<1>7. /\ B \in Seq(S) /\ DOMAIN B = {1, 2, 3, 4}
      /\ B[1] = h1 /\ B[2] = h2 /\ B[3] = h3 /\ B[4] = h4
  BY <1>2
<1> HIDE DEF B
<1>8. ToSet(B) = {h1, h2, h3, h4}
  BY <1>7 DEF ToSet
<1>9. NoneAfter(B, {h4}, {h3})
  <2> SUFFICES ASSUME NEW i \in {1, 2, 3, 4}, NEW j \in {1, 2, 3, 4}, i < j, B[i] = h4, B[j] = h3
               PROVE  FALSE
    BY <1>7 DEF NoneAfter
  <2>1. i = 4
    BY <1>3, <1>7
  <2> QED  BY <2>1
<1>10. A \in Seq(S) /\ ToSet(A) \subseteq PA
  BY <1>1, <1>2, SeqIn, InSeq
<1>11. ToSet(A) \cap {h4} = {}
  BY <1>3, <1>10
<1>12. NoneAfter(A, {h4}, {h3})
  BY <1>10, <1>11, ApartNone
<1>13. NoneAfter(A \o B, {h4}, {h3})
  BY <1>7, <1>9, <1>10, <1>11, <1>12, ConcatNone
<1>14. A \o B \in Seq(S) /\ ToSet(A \o B) = ToSet(A) \union ToSet(B)
  BY <1>7, <1>10, ConcatSet
<1>15. \A w \in Workloads : <<"remove", w>> \in ToSet(FinishSteps) => Done("start", w)
  BY <1>4, <1>5, <1>6, <1>8, <1>10, <1>14
<1>16. h3 \in ToSet(FinishSteps) /\ h4 \in ToSet(FinishSteps)
  BY <1>4, <1>8, <1>14
<1> QED  BY <1>4, <1>13, <1>14, <1>15, <1>16 DEF S, h3, h4

\* What a cutover does before the old edge is told to go.
Early == {"ready", "trust", "fallback", "proxy", "console"} \X {Host}

\* The edge lets go of the ports once and after all that comes early, Meshploy's
\* takes them after that, and nothing but probes follows its being up.
LEMMA CutoverStepsAre ==
    ASSUME NEW first
    PROVE  /\ CutoverSteps(first) \in Seq(CutoverStep)
           /\ {<<"edge", Host>>, <<"up", Host>>} \subseteq ToSet(CutoverSteps(first))
           /\ NoneAfter(CutoverSteps(first), {<<"edge", Host>>}, {<<"edge", Host>>})
           /\ NoneAfter(CutoverSteps(first), {<<"caddy", Host>>},
                        CutoverStep \ ({<<"up", Host>>} \union ({"probe"} \X Workloads)))
           /\ NoneAfter(CutoverSteps(first), {"probe"} \X Workloads, {<<"up", Host>>})
           /\ NoneAfter(CutoverSteps(first), {<<"up", Host>>},
                        CutoverStep \ ({"probe"} \X Workloads))
           /\ NoneAfter(CutoverSteps(first), {<<"edge", Host>>}, Early)
           /\ first => {<<"trust", Host>>, <<"fallback", Host>>} \subseteq ToSet(CutoverSteps(first))
<1> DEFINE h1 == <<"console", Host>>
           h2 == <<"edge", Host>>
           h3 == <<"gone", Host>>
           h4 == <<"caddy", Host>>
           h5 == <<"up", Host>>
           t1 == <<"trust", Host>>
           t2 == <<"fallback", Host>>
           t3 == <<"proxy", Host>>
           S == CutoverStep
           PR == {"probe"} \X Workloads
           RD == {"ready"} \X {Host}
           EA == Early
           R == Each("ready", <<Host>>)
           T == IF first THEN <<t1, t2, t3>> ELSE <<>>
           C == <<h1, h2, h3, h4, h5>>
           D == Each("probe", Only(Domains, {w \in Workloads : GroupOf(w) \in movable}))
<1>1. /\ RD \subseteq S /\ PR \subseteq S
      /\ h1 \in S /\ h2 \in S /\ h3 \in S /\ h4 \in S /\ h5 \in S
      /\ t1 \in S /\ t2 \in S /\ t3 \in S
  BY DEF CutoverStep
<1>2. /\ h1 # h2 /\ h3 # h2 /\ h4 # h2 /\ h5 # h2
      /\ h1 # h4 /\ h3 # h4 /\ h5 # h4
      /\ h1 # h5 /\ h3 # h5
  OBVIOUS
<1>3. /\ {h1, h2, h3, h4, h5} \cap PR = {} /\ {t1, t2, t3} \cap PR = {} /\ RD \cap PR = {}
      /\ {h2, h4, h5} \cap {t1, t2, t3} = {} /\ {h2, h4, h5} \cap RD = {}
      /\ {h2, h3, h4, h5} \cap EA = {} /\ PR \cap EA = {}
  BY DEF Early
<1>4. R \in Seq(RD)
  BY EachIs, OneOf
<1>5. D \in Seq(PR)
  <2> DEFINE K == {w \in Workloads : GroupOf(w) \in movable}
  <2>1. Domains \in Seq(Workloads)
    BY MigrationAssumption
  <2> HIDE DEF K
  <2>2. Only(Domains, K) \in Seq(Workloads \cap K)
    BY <2>1, OnlySet
  <2>3. Only(Domains, K) \in Seq(Workloads)
    BY <2>2
  <2> QED  BY <2>3, EachIs DEF K
<1>6. CutoverSteps(first) = ((R \o T) \o C) \o D
  BY DEF CutoverSteps
<1> HIDE DEF h1, h2, h3, h4, h5, t1, t2, t3, S, PR, RD, EA, R, D
<1>7. /\ C \in Seq(S) /\ DOMAIN C = {1, 2, 3, 4, 5}
      /\ C[1] = h1 /\ C[2] = h2 /\ C[3] = h3 /\ C[4] = h4 /\ C[5] = h5
  BY <1>1
<1>8. T \in Seq(S) /\ ToSet(T) \subseteq {t1, t2, t3} /\ (first => {t1, t2} \subseteq ToSet(T))
  <2>1. <<t1, t2, t3>> \in Seq(S) /\ ToSet(<<t1, t2, t3>>) = {t1, t2, t3}
    BY <1>1, TripleIs
  <2>2. <<>> \in Seq(S) /\ ToSet(<<>>) = {}
    BY DEF ToSet
  <2>3. CASE first
    <3>1. T = <<t1, t2, t3>>
      BY <2>3
    <3> QED  BY <2>1, <3>1
  <2>4. CASE ~ first
    <3>1. T = <<>>
      BY <2>4
    <3> QED  BY <2>2, <2>4, <3>1
  <2> QED  BY <2>3, <2>4
<1> HIDE DEF C, T
<1>9. ToSet(C) = {h1, h2, h3, h4, h5}
  BY <1>7 DEF ToSet
<1>10. R \in Seq(S) /\ ToSet(R) \subseteq RD /\ D \in Seq(S) /\ ToSet(D) \subseteq PR
  BY <1>1, <1>4, <1>5, SeqIn, InSeq
<1> DEFINE A == R \o T
           E == C \o D
           Rest == S \ ({h5} \union PR)
           OfHost == S \ PR
<1>11. A \in Seq(S) /\ ToSet(A) = ToSet(R) \union ToSet(T)
  BY <1>8, <1>10, ConcatSet
<1>12. E \in Seq(S) /\ ToSet(E) = ToSet(C) \union ToSet(D)
  BY <1>7, <1>10, ConcatSet
<1>13. CutoverSteps(first) = A \o E
  <2>1. CutoverSteps(first) = (A \o C) \o D
    BY <1>6
  <2> HIDE DEF A
  <2>2. (A \o C) \o D = A \o (C \o D)
    BY <1>7, <1>10, <1>11, ConcatAssoc
  <2> QED  BY <2>1, <2>2
<1>14. /\ ToSet(A) \cap {h2} = {} /\ ToSet(A) \cap {h4} = {} /\ ToSet(A) \cap PR = {}
       /\ ToSet(A) \cap {h5} = {}
  BY <1>3, <1>8, <1>10, <1>11
<1>15. NoneAfter(C, {h2}, {h2}) /\ NoneAfter(C, {h4}, Rest) /\ NoneAfter(C, {h5}, OfHost)
       /\ NoneAfter(C, {h2}, EA)
  <2>1. ASSUME NEW i \in {1, 2, 3, 4, 5}, NEW j \in {1, 2, 3, 4, 5}, i < j, C[i] = h2
        PROVE  C[j] # h2 /\ C[j] \notin EA
    <3>1. i = 2
      BY <1>2, <1>7, <2>1
    <3> QED  BY <1>2, <1>3, <1>7, <2>1, <3>1
  <2>2. ASSUME NEW i \in {1, 2, 3, 4, 5}, NEW j \in {1, 2, 3, 4, 5}, i < j, C[i] = h4
        PROVE  C[j] = h5
    <3>1. i = 4
      BY <1>2, <1>7, <2>2
    <3> QED  BY <1>7, <2>2, <3>1
  <2>3. ASSUME NEW i \in {1, 2, 3, 4, 5}, NEW j \in {1, 2, 3, 4, 5}, i < j, C[i] = h5
        PROVE  FALSE
    <3>1. i = 5
      BY <1>2, <1>7, <2>3
    <3> QED  BY <2>3, <3>1
  <2> QED  BY <1>7, <2>1, <2>2, <2>3 DEF NoneAfter
<1>16. /\ ToSet(D) \cap {h2} = {} /\ ToSet(D) \cap Rest = {} /\ ToSet(D) \cap {h5} = {}
       /\ ToSet(D) \cap OfHost = {} /\ ToSet(D) \cap EA = {}
  BY <1>3, <1>10
<1>17. ToSet(C) \cap PR = {}
  BY <1>3, <1>9
<1> HIDE DEF Rest, OfHost
<1>18. /\ NoneAfter(D, {h2}, {h2}) /\ NoneAfter(D, {h4}, Rest) /\ NoneAfter(D, PR, {h5})
       /\ NoneAfter(C, PR, {h5}) /\ NoneAfter(D, {h5}, OfHost)
       /\ NoneAfter(D, {h2}, EA)
  BY <1>7, <1>10, <1>16, <1>17, ApartNone
<1>19. /\ NoneAfter(E, {h2}, {h2}) /\ NoneAfter(E, {h4}, Rest) /\ NoneAfter(E, PR, {h5})
       /\ NoneAfter(E, {h5}, OfHost) /\ NoneAfter(E, {h2}, EA)
  BY <1>7, <1>10, <1>15, <1>16, <1>17, <1>18, ConcatNone
<1> HIDE DEF A, E
<1>20. /\ NoneAfter(A, {h2}, {h2}) /\ NoneAfter(A, {h4}, Rest) /\ NoneAfter(A, PR, {h5})
       /\ NoneAfter(A, {h5}, OfHost) /\ NoneAfter(A, {h2}, EA)
  BY <1>11, <1>14, ApartNone
<1>21. /\ NoneAfter(A \o E, {h2}, {h2}) /\ NoneAfter(A \o E, {h4}, Rest)
       /\ NoneAfter(A \o E, PR, {h5}) /\ NoneAfter(A \o E, {h5}, OfHost)
       /\ NoneAfter(A \o E, {h2}, EA)
  BY <1>11, <1>12, <1>14, <1>19, <1>20, ConcatNone
<1>22. A \o E \in Seq(S) /\ ToSet(A \o E) = ToSet(A) \union ToSet(E)
  BY <1>11, <1>12, ConcatSet
<1>23. {h2, h5} \subseteq ToSet(A \o E) /\ (first => {t1, t2} \subseteq ToSet(A \o E))
  BY <1>8, <1>9, <1>11, <1>12, <1>22
<1> QED  BY <1>13, <1>21, <1>22, <1>23 DEF S, h2, h4, h5, t1, t2, PR, EA, Rest, OfHost

LEMMA ToDoIs ==
    ASSUME NEW S, S \subseteq Steps, NEW seq \in Seq(S)
    PROVE  /\ ToDo(seq) \in Seq(S)
           /\ ToSet(ToDo(seq)) = ToSet(seq) \ journal.done
<1> DEFINE Left == Steps \ journal.done  SL == S \cap Left
<1>1. ToDo(seq) = Only(seq, Left)
  BY DEF ToDo
<1>2. ToSet(seq) \subseteq S
  BY InSeq
<1>3. ToSet(seq) \cap Left = ToSet(seq) \ journal.done
  BY <1>2
<1> HIDE DEF Left, SL
<1>4. Only(seq, Left) \in Seq(S \cap Left) /\ ToSet(Only(seq, Left)) = ToSet(seq) \cap Left
  BY OnlySet
<1>5. Only(seq, Left) \in Seq(S)
  BY <1>4
<1> QED  BY <1>1, <1>3, <1>4, <1>5

LEMMA ToDoNone ==
    ASSUME NEW S, NEW seq \in Seq(S), NEW X, NEW Y, NoneAfter(seq, X, Y)
    PROVE  NoneAfter(ToDo(seq), X, Y)
  BY OnlyNone DEF ToDo

LEMMA UndoableIs ==
    ASSUME journal.live \in Seq(LiveStep), NEW g
    PROVE  /\ Undoable(g) \in Seq(LiveStep \cap StepsOf(g))
           /\ ToSet(Undoable(g)) = ToSet(journal.live) \cap StepsOf(g)
<1> DEFINE O == Only(journal.live, StepsOf(g))  SG == StepsOf(g)  LS == LiveStep \cap SG
<1>1. O \in Seq(LS) /\ ToSet(O) = ToSet(journal.live) \cap SG
  <2> HIDE DEF SG
  <2> QED  BY OnlySet DEF SG
<1>2. Undoable(g) = Reverse(O)
  BY DEF Undoable
<1> HIDE DEF O, SG, LS
<1>3. Reverse(O) \in Seq(LS) /\ ToSet(Reverse(O)) = ToSet(O)
  BY <1>1, ReverseSet
<1> QED  BY <1>1, <1>2, <1>3 DEF LS, SG

LEMMA UndoableNone ==
    ASSUME journal.live \in Seq(LiveStep), NEW g, NEW X, NEW Y, NoneAfter(journal.live, X, Y)
    PROVE  NoneAfter(Undoable(g), Y, X)
<1> DEFINE O == Only(journal.live, StepsOf(g))  SG == StepsOf(g)  LS == LiveStep \cap SG
<1>1. O \in Seq(LS) /\ NoneAfter(O, X, Y)
  <2> HIDE DEF SG
  <2> QED  BY OnlySet, OnlyNone DEF SG
<1>2. Undoable(g) = Reverse(O)
  BY DEF Undoable
<1> HIDE DEF O, LS
<1> QED  BY <1>1, <1>2, ReverseNone

LEMMA EdgeEntryIs ==
    ASSUME journal.live \in Seq(LiveStep)
    PROVE  EdgeEntry \in Seq({<<"edge", Host>>})
<1> DEFINE U == Undoable(Host)  E == {<<"edge", Host>>}  LS == LiveStep \cap StepsOf(Host)
<1>1. U \in Seq(LS)
  BY UndoableIs
<1> HIDE DEF U, E, LS
<1>2. Only(U, E) \in Seq(LS \cap E)
  BY <1>1, OnlySet
<1>3. Only(U, E) \in Seq(E)
  BY <1>2
<1> QED  BY <1>3 DEF U, E, EdgeEntry

LEMMA UnrecordedIs ==
    ASSUME journal \in JournalType, NEW s
    PROVE  /\ Unrecorded(s) \in JournalType
           /\ Unrecorded(s).done = journal.done \ {s}
           /\ ToSet(Unrecorded(s).live) = ToSet(journal.live) \ {s}
           /\ \A X, Y : NoneAfter(journal.live, X, Y) => NoneAfter(Unrecorded(s).live, X, Y)
<1> DEFINE K == Steps \ {s}  L == journal.live  O == Only(L, K)  LK == LiveStep \cap K
<1>1. L \in Seq(LiveStep) /\ journal.done \in SUBSET Steps
  BY DEF JournalType
<1>2. Unrecorded(s) = [done |-> journal.done \ {s}, live |-> O]
  BY DEF Unrecorded
<1>3. ToSet(L) \subseteq LiveStep
  BY <1>1, InSeq
<1>4. ToSet(L) \cap K = ToSet(L) \ {s}
  BY <1>3, StepsAre
<1> HIDE DEF L, K, LK
<1>5. O \in Seq(LiveStep \cap K) /\ ToSet(O) = ToSet(L) \cap K
  BY <1>1, OnlySet
<1>6. O \in Seq(LiveStep)
  BY <1>5
<1>7. \A X, Y : NoneAfter(L, X, Y) => NoneAfter(O, X, Y)
  BY <1>1, OnlyNone
<1> HIDE DEF O
<1> QED  BY <1>1, <1>2, <1>4, <1>5, <1>6, <1>7 DEF L, JournalType

-----------------------------------------------------------------------------
(* What each step does *)

\* A step is noted with an undo,
Undone(what, w) ==
    \/ what \in {"service", "start", "tcp", "domain", "publish", "fallback", "up"}
    \/ what = "stop" /\ old[w] = "up"
    \/ what = "trust" /\ ~ edge.trust
    \/ what = "console" /\ edge.console = "up"
    \/ what = "edge" /\ edge.at = "ports"

\* and leaves these as they are, or as it says.
EffectOnEdge(what) ==
    \/ edge' = CASE what = "trust" -> [edge EXCEPT !.trust = TRUE]
                 [] what = "fallback" -> [edge EXCEPT !.fallback = NotMovedDomains]
                 [] what = "console" -> [edge EXCEPT !.console = "down"]
                 [] what = "edge" ->
                       [edge EXCEPT !.at = IF job.first THEN "side" ELSE "down",
                                    !.ports = IF @ = "old" THEN "nobody" ELSE @]
                 [] what = "platform" -> [edge EXCEPT !.at = "gone", !.console = "gone"]
                 [] what = "clear" -> [edge EXCEPT !.fallback = {}]
                 [] OTHER -> edge
    \/ what = "caddy" /\ edge' = [edge EXCEPT !.ports = IF @ = "nobody" THEN "caddy" ELSE @]

Effect(what, w) ==
    /\ what \in Kinds /\ w \in Workloads \union {Host}
    /\ At(what, w)
    /\ Had(IF Undone(what, w) THEN "undo" ELSE "plain")
    /\ old' = CASE what = "stop" -> [old EXCEPT ![w] = IF @ = "up" THEN "down" ELSE @]
                [] what = "remove" -> [old EXCEPT ![w] = "gone"]
                [] OTHER -> old
    /\ data' = CASE what = "dump" -> [data EXCEPT ![w].dump = data[w].old]
                 [] what = "copy" -> [data EXCEPT ![w].new = data[w].old]
                 [] what = "restore" ->
                       [data EXCEPT ![w].new = data[w].dump, ![w].dump = Nothing]
                 [] OTHER -> data
    /\ new' = IF what \in {"start", "service"} THEN [new EXCEPT ![w] = TRUE] ELSE new
    /\ routes' = CASE what = "domain" -> [routes EXCEPT !.switched = @ \union {w}]
                   [] what = "publish" -> [routes EXCEPT !.published = @ \union {w}]
                   [] what = "tcp" -> [routes EXCEPT !.tcp = @ \union {w}]
                   [] OTHER -> routes
    /\ EffectOnEdge(what)
    /\ UNCHANGED <<movable, journal, was, past>>

\* The edge is told to move aside, and does not settle there.
Unsettled ==
    /\ At("edge", Host)
    /\ edge' = [edge EXCEPT !.at = "side", !.ports = IF @ = "old" THEN "nobody" ELSE @]
    /\ Spend("settle")
    /\ job' = Idle("failed")
    /\ past' = [past EXCEPT !.cut = @ \union {Host}]
    /\ UNCHANGED <<movable, journal, was, old, new, data, routes>>

LEMMA KindsOf ==
    /\ {"stop", "dump", "copy", "service", "start", "restore", "tcp", "domain", "publish", "remove",
        "ready", "healthy", "probe", "proxy", "gone", "trust", "fallback", "console", "edge",
        "caddy", "up", "platform", "clear", "agent", "complete", "outright"} \subseteq Kinds
    /\ {"service", "start", "tcp", "domain", "publish", "fallback", "up", "stop", "trust",
        "console", "edge", "dump", "copy", "restore", "remove", "platform", "agent",
        "complete"} \subseteq Journalled
    /\ Journalled \cap {"ready", "healthy", "probe", "proxy", "gone", "caddy", "outright", "clear"} = {}
    /\ Journalled \subseteq Kinds
  BY DEF Kinds, HostSteps, Journalled

LEMMA StepIs ==
    ASSUME Step
    PROVE  \/ \E what \in Kinds, w \in Workloads \union {Host} : Effect(what, w)
           \/ Unsettled
           \/ Note
<1>1. ASSUME NEW w \in Workloads,
             \/ StopOld(w) \/ Dump(w) \/ CopyFiles(w) \/ Restore(w) \/ StartNew(w)
             \/ PublishTCPRoute(w) \/ SwitchDomain(w) \/ PublishRoute(w) \/ RemoveOld(w)
      PROVE  \E what \in Kinds : Effect(what, w)
  <2>1. CASE StopOld(w)
    <3>1. Effect("stop", w)
      BY <2>1, KindsOf, Zenon DEF StopOld, Effect, EffectOnEdge, Undone
    <3> QED  BY <3>1, KindsOf
  <2>2. CASE Dump(w)
    <3>1. Effect("dump", w)
      BY <2>2, KindsOf DEF Dump, Effect, EffectOnEdge, Undone
    <3> QED  BY <3>1, KindsOf
  <2>3. CASE CopyFiles(w)
    <3>1. Effect("copy", w)
      BY <2>3, KindsOf DEF CopyFiles, Effect, EffectOnEdge, Undone
    <3> QED  BY <3>1, KindsOf
  <2>4. CASE Restore(w)
    <3>1. Effect("restore", w)
      BY <2>4, KindsOf DEF Restore, Effect, EffectOnEdge, Undone
    <3> QED  BY <3>1, KindsOf
  <2>5. CASE StartNew(w)
    <3>1. Effect("start", w) \/ Effect("service", w)
      BY <2>5, KindsOf DEF StartNew, Effect, EffectOnEdge, Undone
    <3> QED  BY <3>1, KindsOf
  <2>6. CASE PublishTCPRoute(w)
    <3>1. Effect("tcp", w)
      BY <2>6, KindsOf DEF PublishTCPRoute, Effect, EffectOnEdge, Undone
    <3> QED  BY <3>1, KindsOf
  <2>7. CASE SwitchDomain(w)
    <3>1. Effect("domain", w)
      BY <2>7, KindsOf DEF SwitchDomain, Effect, EffectOnEdge, Undone
    <3> QED  BY <3>1, KindsOf
  <2>8. CASE PublishRoute(w)
    <3>1. Effect("publish", w)
      BY <2>8, KindsOf DEF PublishRoute, Effect, EffectOnEdge, Undone
    <3> QED  BY <3>1, KindsOf
  <2>9. CASE RemoveOld(w)
    <3>1. Effect("remove", w)
      BY <2>9, KindsOf DEF RemoveOld, Effect, EffectOnEdge, Undone
    <3> QED  BY <3>1, KindsOf
  <2> QED  BY <1>1, <2>1, <2>2, <2>3, <2>4, <2>5, <2>6, <2>7, <2>8, <2>9
<1>2. ASSUME NEW what \in Kinds, NEW w \in Workloads \union {Host}, Check(what, w)
      PROVE  Effect(what, w)
  BY <1>2 DEF Check, Effect, EffectOnEdge, Undone
<1>3. ASSUME NEW what \in Kinds, FinishHost(what)
      PROVE  Effect(what, Host)
  BY <1>3 DEF FinishHost, Effect, EffectOnEdge, Undone
<1>4. ASSUME TrustForwardedHeaders  PROVE Effect("trust", Host)
  BY <1>4, KindsOf DEF TrustForwardedHeaders, Effect, EffectOnEdge, Undone
<1>5. ASSUME SetFallback  PROVE Effect("fallback", Host)
  BY <1>5, KindsOf DEF SetFallback, Effect, EffectOnEdge, Undone
<1>6. ASSUME StopControlPlane  PROVE Effect("console", Host)
  BY <1>6, KindsOf DEF StopControlPlane, Effect, EffectOnEdge, Undone
<1>7. ASSUME LetGoOfPorts  PROVE Effect("edge", Host) \/ Unsettled
  BY <1>7, KindsOf DEF LetGoOfPorts, Effect, EffectOnEdge, Undone, Unsettled
<1>8. ASSUME StartCaddy  PROVE Effect("caddy", Host)
  BY <1>8, KindsOf DEF StartCaddy, Effect, EffectOnEdge, Undone
<1>9. ASSUME EdgeIsUp  PROVE Effect("up", Host)
  BY <1>9, KindsOf DEF EdgeIsUp, Effect, EffectOnEdge, Undone
<1> HIDE DEF Effect
<1>10. \/ \E what \in Kinds : Effect(what, Host)
       \/ \E what \in Kinds, w \in Workloads : Effect(what, w)
       \/ \E what \in Kinds, w \in Workloads \union {Host} : Effect(what, w)
       \/ Unsettled \/ Note
  BY <1>1, <1>2, <1>3, <1>4, <1>5, <1>6, <1>7, <1>8, <1>9, KindsOf, Zenon DEF Step
<1> QED  BY <1>10

-----------------------------------------------------------------------------
(* The form of each stage is kept *)

LEMMA TailStage ==
    ASSUME NEW j \in JobType, Stage(j), j.todo # <<>>, NEW k \in JobType,
           k.kind = j.kind, k.group = j.group, k.todo = Tail(j.todo)
    PROVE  Stage(k)
<1>1. \A S : j.todo \in Seq(S) => k.todo \in Seq(S)
  OBVIOUS
<1>2. j.kind # "idle"
  BY DEF Stage
<1> QED  BY <1>1, <1>2 DEF Stage

LEMMA TailType ==
    ASSUME NEW j \in JobType, j.todo # <<>>
    PROVE  Tail(j.todo) \in Seq(Steps) /\ Head(j.todo) \in Steps
  BY DEF JobType

LEMMA TailForm ==
    ASSUME InForm, job.todo # <<>>, journal' \in JournalType,
           \/ job' = [job EXCEPT !.todo = Tail(@)]
           \/ job' = [job EXCEPT !.todo = Tail(@), !.noting = NotNoted]
           \/ job' = [job EXCEPT !.todo = Tail(@), !.failed = TRUE],
           job'.noting = NotNoted
    PROVE  InForm'
<1>1. job' \in JobType /\ job'.kind = job.kind /\ job'.group = job.group /\ job'.todo = Tail(job.todo)
  BY TailType DEF InForm, JobType
<1>2. Stage(job')
  BY <1>1, TailStage DEF InForm
<1>3. Hand(job')
  BY DEF Hand, NotNoted
<1> QED  BY <1>1, <1>2, <1>3 DEF InForm

LEMMA IdleForm ==
    ASSUME InForm, NEW e \in Ends, job' = Idle(e), journal' \in JournalType
    PROVE  InForm'
<1>1. job' \in JobType /\ job'.kind = "idle" /\ job'.todo = <<>> /\ job'.noting = NotNoted
  BY DEF InForm, JobType, Idle
<1>2. Stage(job')
  BY <1>1 DEF Stage
<1>3. Hand(job')
  BY <1>1 DEF Hand, NotNoted
<1> QED  BY <1>1, <1>2, <1>3 DEF InForm

LEMMA BeginForm ==
    ASSUME InForm, NEW j \in JobType, job' = j, j.noting = NotNoted, Stage(j),
           journal' \in JournalType
    PROVE  InForm'
  BY DEF InForm, Hand, NotNoted

LEMMA IdleNotNoting ==
    ASSUME InForm, job.kind \notin Runs \/ job.todo = <<>>
    PROVE  job.noting = NotNoted
  BY DEF InForm, Hand

LEMMA HeadIn ==
    ASSUME InForm, job.todo # <<>>, NEW S, job.todo \in Seq(S)
    PROVE  Head(job.todo) \in S
  OBVIOUS

\* The step at hand is one of its stage's.
LEMMA HeadIs ==
    ASSUME InForm, job.todo # <<>>, NEW s, Head(job.todo) = s
    PROVE  /\ s \in Steps
           /\ job.kind = "move" => job.group \in Groups /\ s \in MoveStep(job.group)
           /\ job.kind = "cutover" => s \in CutoverStep
           /\ job.kind = "finish" => s \in FinishStep
           /\ job.kind = "undo" => job.group \in Groups /\ s \in UndoStep(job.group)
           /\ job.kind = "rollback" => s \in LiveStep \cap StepsOf(job.group)
           /\ job.kind = "restore" => s = <<"edge", Host>>
<1>1. s \in Steps
  BY TailType DEF InForm
<1>2. \A S : job.todo \in Seq(S) => s \in S
  OBVIOUS
<1> QED  BY <1>1, <1>2 DEF InForm, Stage

LEMMA HostApart ==
    Host \notin Workloads /\ Host \notin Groups /\ \A g \in Groups : g # Host
  BY MigrationAssumption

LEMMA UndoneLive ==
    ASSUME InForm, NEW what, NEW w, At(what, w), Undone(what, w)
    PROVE  <<what, w>> \in LiveStep
<1> DEFINE s == <<what, w>>
<1>1. job.kind \in Runs /\ job.todo # <<>> /\ Head(job.todo) = s
  BY DEF At
<1>2. \/ job.kind = "move" /\ job.group \in Groups /\ s \in MoveStep(job.group)
      \/ job.kind = "cutover" /\ s \in CutoverStep
      \/ job.kind = "finish" /\ s \in FinishStep
  BY <1>1, HeadIs DEF Runs
<1>3. what \in {"service", "start", "tcp", "domain", "publish", "fallback", "up", "stop", "trust",
                "console", "edge"}
  BY DEF Undone
<1>4. ASSUME job.group \in Groups, s \in MoveStep(job.group)  PROVE s \in LiveStep
  <2>1. w \in Workloads /\ what \in MoveKinds
    BY <1>4, StepsAre DEF MoveStep
  <2> QED  BY <1>3, <2>1 DEF MoveKinds, LiveStep
<1>5. ASSUME s \in CutoverStep  PROVE s \in LiveStep
  BY <1>3, <1>5 DEF CutoverStep, LiveStep
<1>6. ASSUME s \in FinishStep  PROVE s \in LiveStep
  BY <1>3, <1>6 DEF FinishStep
<1> QED  BY <1>2, <1>4, <1>5, <1>6

LEMMA HadForm ==
    ASSUME InForm, NEW what, NEW w, Effect(what, w)
    PROVE  InForm'
<1>1. /\ job.kind \in Runs /\ job.todo # <<>> /\ Head(job.todo) = <<what, w>>
      /\ job.noting = NotNoted /\ journal' = journal /\ Head(job.todo)[1] = what
  BY DEF Effect, At
<1>2. Had(IF Undone(what, w) THEN "undo" ELSE "plain")
  BY DEF Effect
<1>3. CASE what \in Journalled
  <2> DEFINE n == IF Undone(what, w) THEN "undo" ELSE "plain"
  <2>1. n \in Noting
    BY DEF Noting
  <2>2. n = "undo" => <<what, w>> \in LiveStep
    BY UndoneLive DEF Effect
  <2>3. job' = [job EXCEPT !.noting = n]
    BY <1>1, <1>2, <1>3 DEF Had
  <2> HIDE DEF n
  <2>4. job' \in JobType /\ job'.noting = n /\ job'.kind = job.kind /\ job'.group = job.group
        /\ job'.todo = job.todo
    BY <2>1, <2>3 DEF InForm, JobType
  <2>5. Stage(job')
    BY <2>4 DEF InForm, Stage
  <2>6. Hand(job')
    BY <1>1, <1>3, <2>2, <2>4 DEF Hand
  <2> QED  BY <1>1, <2>4, <2>5, <2>6 DEF InForm
<1>4. CASE what \notin Journalled
  <2>1. job' = [job EXCEPT !.todo = Tail(@)]
    BY <1>1, <1>2, <1>4 DEF Had
  <2>2. job'.noting = NotNoted
    BY <1>1, <2>1 DEF InForm, JobType
  <2> QED  BY <1>1, <2>1, <2>2, TailForm DEF InForm
<1> QED  BY <1>3, <1>4

LEMMA NoteForm ==
    ASSUME InForm, Note
    PROVE  InForm'
<1>1. job.todo # <<>> /\ (job.noting = "undo" => Head(job.todo) \in LiveStep)
      /\ journal \in JournalType
  BY DEF Note, InForm, Hand
<1>2. Head(job.todo) \in Steps
  BY <1>1, TailType DEF InForm
<1>3. journal' \in JournalType
  BY <1>1, <1>2 DEF Note, JournalType
<1>4. job' = [job EXCEPT !.todo = Tail(@), !.noting = NotNoted] /\ job'.noting = NotNoted
  BY DEF Note, InForm, JobType
<1> QED  BY <1>1, <1>3, <1>4, TailForm

\* A stage that starts: what it is, and what it has to do.
Begun(kind, g, todo) ==
    /\ job'.kind = kind /\ job'.group = g /\ job'.todo = todo /\ job'.noting = NotNoted

LEMMA BegunForm ==
    ASSUME InForm, NEW kind \in Runs \union Replays, NEW g \in Groups \union {Host},
           NEW todo \in Seq(Steps), Begun(kind, g, todo),
           \/ Begin(kind, g, todo)
           \/ \E first \in BOOLEAN :
                 job' = [job EXCEPT !.kind = kind, !.group = g, !.first = first, !.todo = todo,
                                    !.ended = "none"],
           kind = "move" => g \in Groups /\ todo \in Seq(MoveStep(g)),
           kind = "cutover" => g = Host /\ todo \in Seq(CutoverStep),
           kind = "finish" => g = Host /\ todo \in Seq(FinishStep),
           kind = "undo" => g \in Groups /\ todo \in Seq(UndoStep(g)),
           kind = "rollback" => todo \in Seq(LiveStep \cap StepsOf(g)),
           kind = "restore" => g = Host /\ todo \in Seq({<<"edge", Host>>}),
           journal' \in JournalType
    PROVE  InForm'
<1>1. job \in JobType /\ "none" \in Ends
  BY DEF InForm, Ends
<1>2. job' \in JobType
  BY <1>1 DEF Begin, JobType
<1>3. Stage(job')
  BY KindsAre DEF Begun, Stage
<1> QED  BY <1>2, <1>3, BeginForm DEF Begun

\* What a move that failed undoes.
UndoList(g) == Undoable(g) \o Each("outright", Databases[g] \o Applications[g])

LEMMA UndoListIs ==
    ASSUME journal.live \in Seq(LiveStep), NEW g \in Groups
    PROVE  /\ UndoList(g) \in Seq(UndoStep(g))
           /\ ToSet(journal.live) \cap StepsOf(g) \subseteq ToSet(UndoList(g))
           /\ ToSet(UndoList(g)) \subseteq
                (ToSet(journal.live) \cap StepsOf(g)) \union ({"outright"} \X Members(g))
           /\ NoneAfter(UndoList(g), {"outright"} \X Workloads, LiveStep)
           /\ \A X, Y : (NoneAfter(journal.live, X, Y) /\ X \union Y \subseteq LiveStep)
                            => NoneAfter(UndoList(g), Y, X)
<1> DEFINE M == Members(g)
           S == UndoStep(g)
           LG == LiveStep \cap StepsOf(g)
           OM == {"outright"} \X M
           OW == {"outright"} \X Workloads
           da == Databases[g] \o Applications[g]
           U == Undoable(g)
           O == Each("outright", da)
           L == ToSet(journal.live) \cap StepsOf(g)
<1>1. U \in Seq(LG) /\ ToSet(U) = L
  BY UndoableIs
<1>2. O \in Seq(OM)
  <2>1. da \in Seq(M)
    BY ListsAre, ConcatSet
  <2> HIDE DEF da
  <2> QED  BY <2>1, EachIs
<1>3. LG \subseteq S /\ OM \subseteq S
  BY DEF UndoStep
<1>4. LiveStep \cap OW = {} /\ OM \subseteq OW
  BY StepsAre DEF LiveStep
<1>5. UndoList(g) = U \o O
  BY DEF UndoList
<1>6. \A X, Y : NoneAfter(journal.live, X, Y) => NoneAfter(U, Y, X)
  BY UndoableNone
<1>7. LG \subseteq LiveStep
  OBVIOUS
<1> HIDE DEF S, LG, OM, OW, U, O, L
<1>8. U \in Seq(S) /\ O \in Seq(S)
  BY <1>1, <1>2, <1>3, SeqIn
<1>9. ToSet(U) \subseteq LG /\ ToSet(O) \subseteq OM
  BY <1>1, <1>2, InSeq
<1>10. U \o O \in Seq(S) /\ ToSet(U \o O) = ToSet(U) \union ToSet(O)
  BY <1>8, ConcatSet
<1>11. NoneAfter(U \o O, OW, LiveStep)
  <2>1. ToSet(U) \cap OW = {} /\ ToSet(O) \cap LiveStep = {}
    BY <1>4, <1>7, <1>9
  <2>2. NoneAfter(U, OW, LiveStep) /\ NoneAfter(O, OW, LiveStep)
    BY <1>8, <2>1, ApartNone
  <2> QED  BY <1>8, <2>1, <2>2, ConcatNone
<1>12. ASSUME NEW X, NEW Y, NoneAfter(journal.live, X, Y), X \union Y \subseteq LiveStep
       PROVE  NoneAfter(U \o O, Y, X)
  <2>1. NoneAfter(U, Y, X)
    BY <1>6, <1>12
  <2>2. ToSet(O) \cap X = {}
    BY <1>4, <1>9, <1>12
  <2>3. NoneAfter(O, Y, X)
    BY <1>8, <2>2, ApartNone
  <2> QED  BY <1>8, <2>1, <2>2, <2>3, ConcatNone
<1>13. L \subseteq ToSet(U \o O) /\ ToSet(U \o O) \subseteq L \union OM
  BY <1>1, <1>9, <1>10
<1> QED  BY <1>5, <1>10, <1>11, <1>12, <1>13 DEF S, OW, OM, M, L

LEMMA BeginIs ==
    ASSUME InForm, NEW kind, NEW g, NEW todo, Begin(kind, g, todo), job.noting = NotNoted
    PROVE  Begun(kind, g, todo)
  BY DEF Begin, Begun, InForm, JobType

LEMMA StartMoveIs ==
    ASSUME InForm, NEW g \in Groups, StartMove(g)
    PROVE  Begun("move", g, ToDo(MoveSteps(g))) /\ InForm'
<1>1. ToDo(MoveSteps(g)) \in Seq(MoveStep(g)) /\ ToDo(MoveSteps(g)) \in Seq(Steps)
  BY MoveStepsAre, ToDoIs, StepsAre, SeqIn
<1>2. job.noting = NotNoted /\ journal' \in JournalType
  BY IdleNotNoting, KindsAre DEF StartMove, InForm
<1>3. Begin("move", g, ToDo(MoveSteps(g)))
  BY DEF StartMove
<1>4. Begun("move", g, ToDo(MoveSteps(g)))
  BY <1>2, <1>3, BeginIs
<1> QED  BY <1>1, <1>2, <1>3, <1>4, BegunForm, KindsAre

LEMMA StartCutoverIs ==
    ASSUME InForm, NEW first \in EdgeFirst, StartCutover(first)
    PROVE  Begun("cutover", Host, ToDo(CutoverSteps(first))) /\ InForm'
<1>1. ToDo(CutoverSteps(first)) \in Seq(CutoverStep) /\ ToDo(CutoverSteps(first)) \in Seq(Steps)
  BY CutoverStepsAre, ToDoIs, StepsAre, SeqIn
<1>2. job.noting = NotNoted /\ journal' \in JournalType /\ job \in JobType
  BY IdleNotNoting, KindsAre DEF StartCutover, InForm
<1>3. job' = [job EXCEPT !.kind = "cutover", !.group = Host, !.first = first,
                         !.todo = ToDo(CutoverSteps(first)), !.ended = "none"]
  BY DEF StartCutover
<1>4. Begun("cutover", Host, ToDo(CutoverSteps(first)))
  BY <1>2, <1>3 DEF Begun, JobType
<1>5. first \in BOOLEAN
  BY MigrationAssumption
<1> QED  BY <1>1, <1>2, <1>3, <1>4, <1>5, BegunForm, KindsAre

LEMMA StartFinishIs ==
    ASSUME InForm, StartFinish
    PROVE  Begun("finish", Host, ToDo(FinishSteps)) /\ InForm'
<1>1. ToDo(FinishSteps) \in Seq(FinishStep) /\ ToDo(FinishSteps) \in Seq(Steps)
  BY FinishStepsAre, ToDoIs, StepsAre, SeqIn
<1>2. job.noting = NotNoted /\ journal' \in JournalType
  BY IdleNotNoting, KindsAre DEF StartFinish, InForm
<1>3. Begin("finish", Host, ToDo(FinishSteps))
  BY DEF StartFinish
<1>4. Begun("finish", Host, ToDo(FinishSteps))
  BY <1>2, <1>3, BeginIs
<1> QED  BY <1>1, <1>2, <1>3, <1>4, BegunForm, KindsAre

LEMMA StartRollbackIs ==
    ASSUME InForm, NEW g \in Groups \union {Host}, StartRollback(g)
    PROVE  Begun("rollback", g, Undoable(g)) /\ InForm'
<1>1. Undoable(g) \in Seq(LiveStep \cap StepsOf(g))
  BY UndoableIs DEF InForm, JournalType
<1>2. Undoable(g) \in Seq(Steps)
  BY <1>1, StepsAre
<1>3. job.noting = NotNoted /\ journal' \in JournalType
  BY IdleNotNoting, KindsAre DEF StartRollback, InForm
<1>4. Begin("rollback", g, Undoable(g))
  BY DEF StartRollback
<1>5. Begun("rollback", g, Undoable(g))
  BY <1>3, <1>4, BeginIs
<1> QED  BY <1>1, <1>2, <1>3, <1>4, <1>5, BegunForm, KindsAre

LEMMA FailMoveIs ==
    ASSUME InForm, NEW s, FailMove(s)
    PROVE  /\ Begun("undo", job.group, UndoList(job.group)) /\ InForm'
           /\ job.group \in Groups /\ s \in MoveStep(job.group)
<1>1. job.group \in Groups /\ s \in MoveStep(job.group)
  BY HeadIs DEF FailMove, FailsWith
<1>2. UndoList(job.group) \in Seq(UndoStep(job.group))
  BY <1>1, UndoListIs DEF InForm, JournalType
<1>3. UndoList(job.group) \in Seq(Steps)
  BY <1>1, <1>2, StepsAre, SeqIn
<1>4. job.noting = NotNoted /\ journal' \in JournalType
  BY DEF FailMove, FailsWith, NotDone, InForm, JournalType
<1>5. Begin("undo", job.group, UndoList(job.group))
  BY DEF FailMove, UndoList
<1>6. Begun("undo", job.group, UndoList(job.group))
  BY <1>4, <1>5, BeginIs
<1> QED  BY <1>1, <1>2, <1>3, <1>4, <1>5, <1>6, BegunForm, KindsAre

LEMMA FailCutoverIs ==
    ASSUME InForm, NEW s, FailCutover(s)
    PROVE  /\ Begun("restore", Host, EdgeEntry) \/ job' = Idle("failed")
           /\ s \in CutoverStep /\ InForm'
<1>1. s \in CutoverStep
  BY HeadIs DEF FailCutover, FailsWith
<1>2. EdgeEntry \in Seq({<<"edge", Host>>})
  BY EdgeEntryIs DEF InForm, JournalType
<1>3. EdgeEntry \in Seq(Steps)
  BY <1>2, StepsAre DEF Steps, Kinds, HostSteps
<1>4. job.noting = NotNoted /\ journal' \in JournalType
  BY DEF FailCutover, FailsWith, NotDone, InForm, JournalType
<1>5. CASE Begin("restore", Host, EdgeEntry)
  <2>1. Begun("restore", Host, EdgeEntry)
    BY <1>4, <1>5, BeginIs
  <2>2. InForm'
    BY <1>2, <1>3, <1>4, <1>5, <2>1, BegunForm, KindsAre
  <2> QED  BY <1>1, <2>1, <2>2
<1>6. CASE job' = Idle("failed")
  <2>1. "failed" \in Ends
    BY DEF Ends
  <2> QED  BY <1>1, <1>4, <1>6, <2>1, IdleForm
<1> QED  BY <1>5, <1>6 DEF FailCutover

LEMMA FailFinishIs ==
    ASSUME InForm, NEW s, FailFinish(s)
    PROVE  s \in FinishStep /\ InForm'
<1>1. s \in FinishStep
  BY HeadIs DEF FailFinish, FailsWith
<1>2. job.noting = NotNoted /\ journal' \in JournalType /\ job.todo # <<>>
  BY DEF FailFinish, FailsWith, NotDone, InForm, JournalType
<1>3. job' = [job EXCEPT !.todo = Tail(@)] /\ job'.noting = NotNoted
  BY <1>2 DEF FailFinish, InForm, JobType
<1> QED  BY <1>1, <1>2, <1>3, TailForm

LEMMA UndoIs ==
    ASSUME InForm, NEW s, Undo(s)
    PROVE  /\ s \in LiveStep \union ({"outright"} \X Workloads) /\ InForm'
           /\ job.noting = NotNoted
<1>1. job.kind \in Replays /\ job.todo # <<>> /\ Head(job.todo) = s
  BY DEF Undo, UndoOf
<1>2. s \in LiveStep \union ({"outright"} \X Workloads)
  BY <1>1, HeadIs, StepsAre DEF Replays, UndoStep, LiveStep
<1>3. job.noting = NotNoted
  BY <1>1, IdleNotNoting, KindsAre
<1>4. journal' \in JournalType
  BY UnrecordedIs DEF Undo, InForm
<1>5. job' = [job EXCEPT !.todo = Tail(@)] /\ job'.noting = NotNoted
  BY <1>3 DEF Undo, UndoOf, InForm, JobType
<1> QED  BY <1>1, <1>2, <1>3, <1>4, <1>5, TailForm

LEMMA FailUndoIs ==
    ASSUME InForm, FailUndo
    PROVE  InForm' /\ job.noting = NotNoted
<1>1. job.noting = NotNoted /\ journal' \in JournalType
  BY IdleNotNoting, KindsAre DEF FailUndo, InForm
<1>2. job' = [job EXCEPT !.todo = Tail(@), !.failed = TRUE] /\ job'.noting = NotNoted
  BY <1>1 DEF FailUndo, InForm, JobType
<1> QED  BY <1>1, <1>2, TailForm DEF FailUndo

\* A stage that ends: by itself, cut short, or with an edge that did not settle.
Stops(e) ==
    /\ e \in Ends /\ job' = Idle(e)
    /\ UNCHANGED <<movable, journal, was, old, new, data, routes>>

LEMMA StopsIs ==
    ASSUME InForm, NEW e, Stops(e)
    PROVE  InForm'
  BY IdleForm DEF Stops, InForm

LEMMA EndsAre ==
    ASSUME InForm
    PROVE  /\ EndRun => (Stops("moved") \/ Stops("cut over") \/ Stops("finished")) /\ edge' = edge
           /\ EndReplay => /\ \E e \in {"undo failed", "undone", "put back", "restored"} : Stops(e)
                           /\ edge' = edge
           /\ Crash => Stops("cut short") /\ edge' = edge
           /\ Unsettled => Stops("failed")
<1>1. EndRun => (Stops("moved") \/ Stops("cut over") \/ Stops("finished")) /\ edge' = edge
  BY DEF EndRun, Stops, Ends, Runs
<1>2. EndReplay => /\ \E e \in {"undo failed", "undone", "put back", "restored"} : Stops(e)
                   /\ edge' = edge
  BY DEF EndReplay, Stops, Ends, Replays
<1>3. (Crash => Stops("cut short") /\ edge' = edge) /\ (Unsettled => Stops("failed"))
  BY DEF Crash, Unsettled, Stops, Ends
<1> QED  BY <1>1, <1>2, <1>3

LEMMA FormStep ==
    ASSUME InForm, [Next]_vars
    PROVE  InForm'
<1>1. CASE UNCHANGED vars
  BY <1>1 DEF vars, InForm
<1>2. CASE Next
  <2>1. ASSUME Step  PROVE InForm'
    BY <2>1, StepIs, HadForm, NoteForm, EndsAre, StopsIs
  <2>2. ASSUME EndRun \/ EndReplay \/ Crash  PROVE InForm'
    BY <2>2, EndsAre, StopsIs
  <2>3. ASSUME NEW w \in Workloads, Write(w)  PROVE InForm'
    BY <2>3 DEF Write, InForm
  <2>4. ASSUME NEW g \in Groups, StartMove(g)  PROVE InForm'
    BY <2>4, StartMoveIs
  <2>5. ASSUME NEW first \in EdgeFirst, StartCutover(first)  PROVE InForm'
    BY <2>5, StartCutoverIs
  <2>6. ASSUME StartFinish  PROVE InForm'
    BY <2>6, StartFinishIs
  <2>7. ASSUME NEW g \in Groups \union {Host}, StartRollback(g)  PROVE InForm'
    BY <2>7, StartRollbackIs
  <2>8. ASSUME NEW s \in Steps, FailMove(s) \/ FailCutover(s) \/ FailFinish(s) \/ Undo(s)
        PROVE  InForm'
    BY <2>8, FailMoveIs, FailCutoverIs, FailFinishIs, UndoIs
  <2>9. ASSUME FailUndo  PROVE InForm'
    BY <2>9, FailUndoIs
  <2> QED  BY <1>2, <2>1, <2>2, <2>3, <2>4, <2>5, <2>6, <2>7, <2>8, <2>9, Zenon DEF Next
<1> QED  BY <1>1, <1>2

LEMMA FormInit ==
    ASSUME Init
    PROVE  InForm
<1>1. job \in JobType /\ job.kind = "idle" /\ job.todo = <<>> /\ job.noting = NotNoted
  BY DEF Init, JobType, Ends
<1>2. Stage(job) /\ Hand(job)
  BY <1>1 DEF Stage, Hand, NotNoted
<1>3. journal \in JournalType
  BY DEF Init, JournalType
<1> QED  BY <1>1, <1>2, <1>3 DEF InForm

-----------------------------------------------------------------------------
(* Type correctness *)

BudgetType == budget \in [Expenses -> Nat]

LEMMA SpendIs ==
    ASSUME BudgetType, NEW what \in Expenses, Spend(what)
    PROVE  BudgetType' /\ \A e \in Expenses : budget[e] = 0 => budget'[e] = 0
<1>1. budget' = [budget EXCEPT ![what] = @ - 1] /\ budget[what] > 0
  BY DEF Spend
<1>2. \A e \in Expenses : budget[e] \in Nat /\ budget'[e] = IF e = what THEN budget[e] - 1 ELSE budget[e]
  BY <1>1 DEF BudgetType
<1>3. budget' \in [Expenses -> Nat]
  BY <1>1, <1>2 DEF BudgetType
<1> QED  BY <1>1, <1>2, <1>3 DEF BudgetType

LEMMA StepSpends ==
    ASSUME Step
    PROVE  budget' = budget \/ \E what \in Expenses : Spend(what)
<1>1. {"settle", "fail"} \subseteq Expenses
  BY DEF Expenses, Wrong
<1>2. ASSUME NEW w \in Workloads,
             \/ StopOld(w) \/ Dump(w) \/ CopyFiles(w) \/ Restore(w) \/ StartNew(w)
             \/ PublishTCPRoute(w) \/ SwitchDomain(w) \/ PublishRoute(w) \/ RemoveOld(w)
      PROVE  budget' = budget
  BY <1>2, Zenon DEF StopOld, Dump, CopyFiles, Restore, StartNew, PublishTCPRoute, SwitchDomain,
                     PublishRoute, RemoveOld
<1>3. ASSUME NEW what \in Kinds, NEW w \in Workloads \union {Host}, Check(what, w)
      PROVE  budget' = budget
  BY <1>3, Zenon DEF Check
<1>4. ASSUME NEW what \in Kinds, FinishHost(what)  PROVE budget' = budget
  BY <1>4, Zenon DEF FinishHost
<1>5. ASSUME TrustForwardedHeaders \/ SetFallback \/ StopControlPlane \/ EdgeIsUp \/ Note
      PROVE  budget' = budget
  BY <1>5, Zenon DEF TrustForwardedHeaders, SetFallback, StopControlPlane, EdgeIsUp, Note
<1>6. ASSUME LetGoOfPorts  PROVE budget' = budget \/ Spend("settle")
  BY <1>6, Zenon DEF LetGoOfPorts
<1>7. ASSUME StartCaddy  PROVE budget' = budget \/ Spend("fail")
  BY <1>7, Zenon DEF StartCaddy
<1> QED  BY <1>1, <1>2, <1>3, <1>4, <1>5, <1>6, <1>7 DEF Step

LEMMA Spends ==
    ASSUME Next
    PROVE  budget' = budget \/ \E what \in Expenses : Spend(what)
<1>1. /\ {"again", "recut", "rollback", "fail", "revoke", "partial", "undofail", "torn", "crash",
          "write"} \subseteq Expenses
  BY DEF Expenses, Wrong
<1>2. ASSUME NEW g \in Groups, StartMove(g)  PROVE budget' = budget \/ Spend("again")
  BY <1>2, Zenon DEF StartMove
<1>3. ASSUME NEW first \in EdgeFirst, StartCutover(first)
      PROVE  budget' = budget \/ Spend("recut")
  BY <1>3, Zenon DEF StartCutover
<1>4. ASSUME StartFinish  PROVE budget' = budget
  BY <1>4, Zenon DEF StartFinish
<1>5. ASSUME NEW g, StartRollback(g)  PROVE Spend("rollback")
  BY <1>5, Zenon DEF StartRollback
<1>6. ASSUME NEW s, FailsWith(s)
      PROVE  budget' = budget \/ Spend("fail") \/ Spend("revoke") \/ Spend("partial")
  BY <1>6 DEF FailsWith
<1>7. ASSUME NEW s, FailMove(s) \/ FailCutover(s) \/ FailFinish(s) \/ Undo(s)
      PROVE  budget' = budget \/ Spend("fail") \/ Spend("revoke") \/ Spend("partial")
  BY <1>6, <1>7, Zenon DEF FailMove, FailCutover, FailFinish, Undo, UndoOf
<1>8. ASSUME FailUndo  PROVE budget' = budget \/ Spend("undofail")
  BY <1>8, Zenon DEF FailUndo
<1>9. ASSUME EndRun \/ EndReplay  PROVE budget' = budget
  BY <1>9, Zenon DEF EndRun, EndReplay
<1>10. ASSUME Crash  PROVE Spend("torn") \/ Spend("crash")
  BY <1>10, Zenon DEF Crash
<1>11. ASSUME NEW w \in Workloads, Write(w)  PROVE Spend("write")
  BY <1>11, Zenon DEF Write
<1> QED  BY <1>1, <1>2, <1>3, <1>4, <1>5, <1>7, <1>8, <1>9, <1>10, <1>11, StepSpends DEF Next

\* What is spent stays spent.
LEMMA BudgetStep ==
    ASSUME BudgetType, [Next]_vars
    PROVE  BudgetType' /\ \A e \in Expenses : budget[e] = 0 => budget'[e] = 0
<1>1. CASE budget' = budget
  BY <1>1 DEF BudgetType
<1>2. CASE \E what \in Expenses : Spend(what)
  BY <1>2, SpendIs
<1> QED  BY <1>1, <1>2, Spends DEF vars

DataType == data \in [Carried -> [old : Nat, new : Nat, dump : Nat \union {Nothing}]]

LEMMA DataStep ==
    ASSUME DataType, [Next]_vars
    PROVE  DataType'
<1>1. ASSUME data' = data  PROVE DataType'
  BY <1>1 DEF DataType
<1>2. ASSUME NEW w \in Workloads, Dump(w)  PROVE DataType'
  BY <1>2 DEF Dump, DataType
<1>3. ASSUME NEW w \in Workloads, CopyFiles(w)  PROVE DataType'
  BY <1>3 DEF CopyFiles, DataType
<1>4. ASSUME NEW w \in Workloads, Restore(w)  PROVE DataType'
  <2>1. data[w].dump # Nothing
    BY <1>4 DEF Restore, At, Refused
  <2>2. data' = [data EXCEPT ![w].new = data[w].dump, ![w].dump = Nothing]
    BY <1>4 DEF Restore
  <2> QED  BY <2>1, <2>2 DEF DataType
<1>5. ASSUME NEW w \in Workloads, Write(w)  PROVE DataType'
  BY <1>5 DEF Write, DataType
<1>6. ASSUME NEW w \in Workloads, \/ StopOld(w) \/ StartNew(w) \/ PublishTCPRoute(w)
                                  \/ SwitchDomain(w) \/ PublishRoute(w) \/ RemoveOld(w)
      PROVE  data' = data
  BY <1>6, Zenon DEF StopOld, StartNew, PublishTCPRoute, SwitchDomain, PublishRoute, RemoveOld
<1>7. ASSUME NEW what \in Kinds, NEW w \in Workloads \union {Host}, Check(what, w)
      PROVE  data' = data
  BY <1>7, Zenon DEF Check
<1>8. ASSUME NEW what \in Kinds, FinishHost(what)  PROVE data' = data
  BY <1>8, Zenon DEF FinishHost
<1>9. ASSUME \/ TrustForwardedHeaders \/ SetFallback \/ StopControlPlane \/ LetGoOfPorts
             \/ StartCaddy \/ EdgeIsUp \/ Note
      PROVE  data' = data
  BY <1>9, Zenon DEF TrustForwardedHeaders, SetFallback, StopControlPlane, LetGoOfPorts,
                     StartCaddy, EdgeIsUp, Note
<1>10. ASSUME Step  PROVE DataType'
  BY <1>1, <1>2, <1>3, <1>4, <1>6, <1>7, <1>8, <1>9, <1>10, Zenon DEF Step
<1>11. ASSUME \/ \E g \in Groups : StartMove(g)
              \/ \E first \in EdgeFirst : StartCutover(first)
              \/ StartFinish
              \/ \E g \in Groups \union {Host} : StartRollback(g)
       PROVE  data' = data
  BY <1>11, Zenon DEF StartMove, StartCutover, StartFinish, StartRollback
<1>12. ASSUME NEW s \in Steps, FailMove(s) \/ FailCutover(s) \/ FailFinish(s) \/ Undo(s)
       PROVE  data' = data
  BY <1>12, Zenon DEF FailMove, FailCutover, FailFinish, FailsWith, Undo, UndoOf
<1>13. ASSUME FailUndo \/ EndRun \/ EndReplay \/ Crash  PROVE data' = data
  BY <1>13, Zenon DEF FailUndo, EndRun, EndReplay, Crash
<1>14. ASSUME UNCHANGED vars  PROVE data' = data
  BY <1>14, Zenon DEF vars
<1> QED  BY <1>1, <1>5, <1>10, <1>11, <1>12, <1>13, <1>14, Zenon DEF Next

PlacesType ==
    /\ movable \in Plans
    /\ was \in [Workloads -> {"up", "down"}]
    /\ old \in [Workloads -> {"up", "down", "gone"}]
    /\ new \in [Workloads -> BOOLEAN]
    /\ routes \in [switched : SUBSET ToSet(Domains), published : SUBSET ToSet(Domains),
                   tcp : SUBSET Ports]
    /\ edge \in [at : {"ports", "side", "down", "gone"}, ports : {"old", "caddy", "nobody"},
                 trust : BOOLEAN, console : {"up", "down", "gone"},
                 fallback : SUBSET ToSet(Domains)]

LEMMA EffectPlaces ==
    ASSUME InForm, PlacesType, NEW what, NEW w, Effect(what, w)
    PROVE  PlacesType'
<1>1. job.todo # <<>> /\ Head(job.todo) = <<what, w>> /\ job.kind \in Runs
  BY DEF Effect, At
<1>2. /\ what = "tcp" => w \in Ports
      /\ what \in {"domain", "publish"} => w \in ToSet(Domains)
  <2>1. CASE job.kind = "move"
    BY <1>1, <2>1, HeadIs DEF MoveStep
  <2>2. CASE job.kind = "cutover"
    BY <1>1, <2>2, HeadIs DEF CutoverStep
  <2>3. CASE job.kind = "finish"
    BY <1>1, <2>3, HeadIs DEF FinishStep
  <2> QED  BY <1>1, <2>1, <2>2, <2>3 DEF Runs
<1>3. movable' = movable /\ was' = was
  BY DEF Effect
<1>4. old' \in [Workloads -> {"up", "down", "gone"}]
  <2>1. \/ old' = [old EXCEPT ![w] = IF @ = "up" THEN "down" ELSE @]
        \/ old' = [old EXCEPT ![w] = "gone"] \/ old' = old
    BY DEF Effect
  <2> QED  BY <2>1 DEF PlacesType
<1>5. new' \in [Workloads -> BOOLEAN]
  <2>1. new' = [new EXCEPT ![w] = TRUE] \/ new' = new
    BY DEF Effect
  <2> QED  BY <2>1 DEF PlacesType
<1>6. routes' \in [switched : SUBSET ToSet(Domains), published : SUBSET ToSet(Domains),
                   tcp : SUBSET Ports]
  <2>1. \/ what = "domain" /\ routes' = [routes EXCEPT !.switched = @ \union {w}]
        \/ what = "publish" /\ routes' = [routes EXCEPT !.published = @ \union {w}]
        \/ what = "tcp" /\ routes' = [routes EXCEPT !.tcp = @ \union {w}]
        \/ routes' = routes
    BY DEF Effect
  <2> QED  BY <1>2, <2>1 DEF PlacesType
<1>7. edge' \in [at : {"ports", "side", "down", "gone"}, ports : {"old", "caddy", "nobody"},
                 trust : BOOLEAN, console : {"up", "down", "gone"},
                 fallback : SUBSET ToSet(Domains)]
  <2>1. NotMovedDomains \subseteq ToSet(Domains)
    BY DEF NotMovedDomains
  <2>2. EffectOnEdge(what)
    BY DEF Effect
  <2>3. \/ edge' = [edge EXCEPT !.trust = TRUE]
        \/ edge' = [edge EXCEPT !.fallback = NotMovedDomains]
        \/ edge' = [edge EXCEPT !.console = "down"]
        \/ edge' = [edge EXCEPT !.at = IF job.first THEN "side" ELSE "down",
                                !.ports = IF @ = "old" THEN "nobody" ELSE @]
        \/ edge' = [edge EXCEPT !.at = "gone", !.console = "gone"]
        \/ edge' = [edge EXCEPT !.fallback = {}]
        \/ edge' = [edge EXCEPT !.ports = IF @ = "nobody" THEN "caddy" ELSE @]
        \/ edge' = edge
    BY <2>2 DEF EffectOnEdge
  <2> QED  BY <2>1, <2>3 DEF PlacesType
<1> QED  BY <1>3, <1>4, <1>5, <1>6, <1>7 DEF PlacesType

LEMMA UndoPlaces ==
    ASSUME PlacesType, NEW s, UndoOf(s)
    PROVE  PlacesType'
<1>1. movable' = movable /\ was' = was
  BY DEF UndoOf
<1>2. old' \in [Workloads -> {"up", "down", "gone"}]
  BY DEF UndoOf, UndoesOld, PlacesType
<1>3. new' \in [Workloads -> BOOLEAN]
  BY DEF UndoOf, UndoesNew, PlacesType
<1>4. routes' \in [switched : SUBSET ToSet(Domains), published : SUBSET ToSet(Domains),
                   tcp : SUBSET Ports]
  <2>1. \/ routes' = [routes EXCEPT !.switched = @ \ {s[2]}]
        \/ routes' = [routes EXCEPT !.published = @ \ {s[2]}]
        \/ routes' = [routes EXCEPT !.tcp = @ \ {s[2]}]
        \/ routes' = routes
    BY DEF UndoOf, UndoesRoutes
  <2> QED  BY <2>1 DEF PlacesType
<1>5. edge' \in [at : {"ports", "side", "down", "gone"}, ports : {"old", "caddy", "nobody"},
                 trust : BOOLEAN, console : {"up", "down", "gone"},
                 fallback : SUBSET ToSet(Domains)]
  <2>1. \/ edge' = [edge EXCEPT !.trust = FALSE]
        \/ edge' = [edge EXCEPT !.fallback = {}]
        \/ edge' = [edge EXCEPT !.console = "up"]
        \/ edge' = [edge EXCEPT !.at = "ports", !.ports = IF @ = "nobody" THEN "old" ELSE @]
        \/ edge' = [edge EXCEPT !.ports = IF @ = "caddy" THEN "nobody" ELSE @]
        \/ edge' = edge
    BY DEF UndoOf, UndoesEdge
  <2> QED  BY <2>1 DEF PlacesType
<1> QED  BY <1>1, <1>2, <1>3, <1>4, <1>5 DEF PlacesType

LEMMA PlacesStep ==
    ASSUME InForm, PlacesType, [Next]_vars
    PROVE  PlacesType'
<1>1. ASSUME UNCHANGED <<movable, was, old, new, routes, edge>>  PROVE PlacesType'
  BY <1>1 DEF PlacesType
<1>2. ASSUME \/ \E g \in Groups : StartMove(g)
             \/ \E first \in EdgeFirst : StartCutover(first)
             \/ StartFinish
             \/ \E g \in Groups \union {Host} : StartRollback(g)
             \/ Note \/ FailUndo \/ EndRun \/ EndReplay \/ Crash
             \/ \E w \in Workloads : Write(w)
      PROVE  UNCHANGED <<movable, was, old, new, routes, edge>>
  BY <1>2, Zenon DEF StartMove, StartCutover, StartFinish, StartRollback, Note, FailUndo, EndRun,
                     EndReplay, Crash, Write
<1>3. ASSUME UNCHANGED vars  PROVE UNCHANGED <<movable, was, old, new, routes, edge>>
  BY <1>3, Zenon DEF vars
<1>4. ASSUME NEW s, FailsWith(s)  PROVE PlacesType'
  BY <1>4 DEF FailsWith, PlacesType
<1>5. ASSUME NEW s \in Steps, FailMove(s) \/ FailCutover(s) \/ FailFinish(s) \/ Undo(s)
      PROVE  PlacesType'
  BY <1>4, <1>5, UndoPlaces, Zenon DEF FailMove, FailCutover, FailFinish, Undo
<1>6. ASSUME Unsettled  PROVE PlacesType'
  BY <1>6 DEF Unsettled, PlacesType
<1>7. ASSUME Step  PROVE PlacesType'
  BY <1>1, <1>2, <1>6, <1>7, StepIs, EffectPlaces
<1> QED  BY <1>1, <1>2, <1>3, <1>5, <1>7, Zenon DEF Next

PastType ==
    past \in [cut : SUBSET (Groups \union {Host}), again : SUBSET Groups, returned : SUBSET Groups]

LEMMA PastStep ==
    ASSUME InForm, PastType, [Next]_vars
    PROVE  PastType'
<1>1. ASSUME past' = past  PROVE PastType'
  BY <1>1 DEF PastType
<1>2. Touched \subseteq Groups \union {Host} /\ Host \notin Groups
  BY HostApart DEF Touched, InForm, JobType
<1>3. ASSUME EndRun  PROVE PastType'
  BY <1>3 DEF EndRun, PastType
<1>4. ASSUME EndReplay  PROVE PastType'
  <2> DEFINE back == Touched \ {Host}
             read == {g \in back : WasRead(g)}
             left == {g \in back : PastCutover(g)}
  <2>1. past' = [cut |-> IF job.failed THEN past.cut \union Touched ELSE past.cut \ Touched,
                 again |-> past.again \union read,
                 returned |-> IF job.kind = "rollback" /\ job.group = Host THEN {}
                              ELSE past.returned \union left]
    BY <1>4 DEF EndReplay
  <2>2. read \subseteq Groups /\ left \subseteq Groups
    BY <1>2
  <2> HIDE DEF read, left
  <2> QED  BY <1>2, <2>1, <2>2 DEF PastType
<1>5. ASSUME Crash  PROVE PastType'
  <2> DEFINE read == {g \in Touched \ {Host} : job.kind \in Replays /\ WasRead(g)}
  <2>1. past' = [past EXCEPT !.cut = @ \union Touched, !.again = @ \union read]
    BY <1>5 DEF Crash
  <2>2. read \subseteq Groups
    BY <1>2
  <2> HIDE DEF read
  <2> QED  BY <1>2, <2>1, <2>2 DEF PastType
<1>6. ASSUME Unsettled  PROVE PastType'
  BY <1>6 DEF Unsettled, PastType
<1>7. ASSUME Step  PROVE PastType'
  <2>1. Note => past' = past
    BY Zenon DEF Note
  <2>2. \A what, w : Effect(what, w) => past' = past
    BY Zenon DEF Effect
  <2> QED  BY <1>1, <1>6, <1>7, <2>1, <2>2, StepIs, Zenon
<1>8. ASSUME \/ \E g \in Groups : StartMove(g)
             \/ \E first \in EdgeFirst : StartCutover(first)
             \/ StartFinish
             \/ \E g \in Groups \union {Host} : StartRollback(g)
             \/ FailUndo
             \/ \E w \in Workloads : Write(w)
      PROVE  past' = past
  BY <1>8, Zenon DEF StartMove, StartCutover, StartFinish, StartRollback, FailUndo, Write
<1>9. ASSUME NEW s \in Steps, FailMove(s) \/ FailCutover(s) \/ FailFinish(s) \/ Undo(s)
      PROVE  past' = past
  BY <1>9, Zenon DEF FailMove, FailCutover, FailFinish, Undo, UndoOf
<1>10. ASSUME UNCHANGED vars  PROVE past' = past
  BY <1>10, Zenon DEF vars
<1> QED  BY <1>1, <1>3, <1>4, <1>5, <1>7, <1>8, <1>9, <1>10, Zenon DEF Next

LEMMA RestIs ==
    RestOK <=> BudgetType /\ DataType /\ PlacesType /\ PastType
  BY Zenon DEF RestOK, BudgetType, DataType, PlacesType, PastType

LEMMA RestInit ==
    ASSUME Init
    PROVE  RestOK
<1>1. BudgetType
  BY MigrationAssumption DEF Init, BudgetType
<1>2. DataType
  BY DEF Init, DataType
<1>3. PlacesType
  BY DEF Init, PlacesType
<1>4. PastType
  BY DEF Init, PastType
<1> QED  BY <1>1, <1>2, <1>3, <1>4, RestIs

LEMMA RestStep ==
    ASSUME InForm, RestOK, [Next]_vars
    PROVE  RestOK'
<1>1. BudgetType' /\ DataType' /\ PlacesType' /\ PastType'
  BY RestIs, BudgetStep, DataStep, PlacesStep, PastStep
<1>2. (RestOK <=> BudgetType /\ DataType /\ PlacesType /\ PastType)'
  BY RestIs, PTL
<1> QED  BY <1>1, <1>2

\* Each stage has only steps of its own left, the journal undoes only what has
\* an undo, and everything has its type.
FormHolds == InForm /\ RestOK

LEMMA AlwaysInForm == Spec => []FormHolds
<1>1. Init => FormHolds
  BY FormInit, RestInit DEF FormHolds
<1>2. FormHolds /\ [Next]_vars => FormHolds'
  BY FormStep, RestStep DEF FormHolds
<1> QED  BY <1>1, <1>2, PTL DEF Spec

\* Type correctness: a step of a stage, an undo and a stage that is cut short
\* leave every variable in its type, the journal's entries included.
THEOREM TypeCorrect == Spec => []TypeOK
<1>1. FormHolds => TypeOK
  BY TypeIs DEF FormHolds
<1> QED  BY <1>1, AlwaysInForm, PTL

-----------------------------------------------------------------------------
(* The order of the steps, and of their undos *)

\* No start leaves behind what it started when it fails or its undo does, and no
\* step that had its effect goes unnoted: what migration_half_start and
\* migration_torn show is needed.
Clean ==
    /\ Budget["partial"] = 0 /\ Budget["torn"] = 0
    /\ UndoFails \cap {"start", "service"} = {}

Spared == budget["partial"] = 0 /\ budget["torn"] = 0

\* Of a group, X comes after Y: as the journal has it,
Recorded(jn, X, Y) ==
    /\ X \cap jn.done \subseteq ToSet(jn.live)
    /\ X \cap ToSet(jn.live) # {} => Y \subseteq jn.done
    /\ NoneAfter(jn.live, X, Y)

\* in what is left of its move, and the other way round in what is left to undo.
Staged(j, jn, g, X, Y) ==
    /\ (j.kind = "move" /\ j.group = g) =>
          /\ NoneAfter(j.todo, X, Y)
          /\ Y \subseteq jn.done \union ToSet(j.todo)
          /\ Y \cap ToSet(j.todo) # {} => X \cap ToSet(jn.live) = {}
    /\ j.kind \in Replays =>
          /\ NoneAfter(j.todo, Y, X)
          /\ Y \cap ToSet(j.todo) # {} => X \cap ToSet(jn.live) \subseteq ToSet(j.todo)

Ordered(g, X, Y) == Recorded(journal, X, Y) /\ Staged(job, journal, g, X, Y)

PlainNoted == job.noting = "plain" => Head(job.todo)[1] \notin {"start", "service"}

\* What is ordered: starts, after what a group does before them.
Pair(g, X, Y) ==
    /\ g \in Groups
    /\ X \subseteq {"start", "service"} \X Members(g)
    /\ Y \subseteq {"stop", "service"} \X Members(g)
    /\ X \cap Y = {}

LEMMA PairIn ==
    ASSUME NEW g, NEW X, NEW Y, Pair(g, X, Y)
    PROVE  /\ X \union Y \subseteq LiveStep /\ X \union Y \subseteq StepsOf(g)
           /\ \A s \in X \union Y : /\ s[1] \in {"start", "service", "stop"} /\ s[1] \in Journalled
                                    /\ s[1] # "outright" /\ s[2] \in Members(g)
                                    /\ s \notin CutoverStep \union FinishStep
                                    /\ s # <<"edge", Host>>
           /\ \A s \in X : s[1] \in {"start", "service"}
<1>1. Members(g) \subseteq Workloads /\ g # Host
  BY StepsAre, HostApart DEF Pair
<1>2. X \union Y \subseteq {"start", "service", "stop"} \X Members(g)
  BY DEF Pair
<1>3. {"start", "service", "stop"} \X Members(g) \subseteq LiveStep
  BY <1>1 DEF LiveStep
<1>4. {"start", "service", "stop"} \X Members(g) \subseteq StepsOf(g)
  BY <1>1, KindsOf DEF StepsOf
<1>5. ASSUME NEW s \in {"start", "service", "stop"} \X Members(g)
      PROVE  /\ s[1] \in {"start", "service", "stop"} /\ s[1] \in Journalled
             /\ s[1] # "outright" /\ s[2] \in Members(g)
             /\ s \notin CutoverStep \union FinishStep
             /\ s # <<"edge", Host>>
  BY KindsOf DEF CutoverStep, FinishStep
<1>6. \A s \in X : s[1] \in {"start", "service"}
  BY DEF Pair
<1> QED  BY <1>2, <1>3, <1>4, <1>5, <1>6

\* What is of the group and undone with it.
LEMMA PairTogether ==
    ASSUME NEW g, NEW X, NEW Y, Pair(g, X, Y), NEW h \in Groups \union {Host},
           NEW s \in X \union Y, s \in StepsOf(h)
    PROVE  X \union Y \subseteq StepsOf(h)
<1>1. s[2] \in Members(g) /\ g \in Groups /\ X \union Y \subseteq StepsOf(g)
  BY PairIn DEF Pair
<1>2. CASE h = Host
  BY <1>1, <1>2, StepsAre, HostApart DEF StepsOf
<1>3. CASE h # Host
  <2>1. s[2] \in Members(h)
    BY <1>3 DEF StepsOf
  <2>2. h = g
    BY <1>1, <1>3, <2>1, MigrationAssumption
  <2> QED  BY <1>1, <2>2
<1> QED  BY <1>2, <1>3

\* What is of the group and at hand is a step of its move.
LEMMA PairAtHand ==
    ASSUME NEW g, NEW X, NEW Y, Pair(g, X, Y), InForm, job.kind \in Runs, job.todo # <<>>,
           Head(job.todo) \in X \union Y
    PROVE  job.kind = "move" /\ job.group = g
<1> DEFINE s == Head(job.todo)
<1>1. s \notin CutoverStep \union FinishStep /\ s[2] \in Members(g) /\ g \in Groups
  <2>1. s \in X \union Y /\ g \in Groups
    BY DEF Pair
  <2> HIDE DEF s
  <2> QED  BY <2>1, PairIn
<1>2. job.kind = "move"
  BY <1>1, HeadIs DEF Runs
<1>3. job.group \in Groups /\ s[2] \in Members(job.group)
  BY <1>2, HeadIs DEF MoveStep
<1> QED  BY <1>1, <1>2, <1>3, MigrationAssumption

LEMMA TodoSeq ==
    ASSUME InForm
    PROVE  /\ job.todo \in Seq(Steps) /\ journal.live \in Seq(LiveStep)
           /\ journal.done \subseteq Steps
  BY DEF InForm, JobType, JournalType

\* Of the steps left, the one at hand and the others.
LEMMA TodoTail ==
    ASSUME InForm, job.todo # <<>>
    PROVE  /\ ToSet(job.todo) = {Head(job.todo)} \union ToSet(Tail(job.todo))
           /\ Tail(job.todo) \in Seq(Steps)
           /\ \A X, Y : NoneAfter(job.todo, X, Y) =>
                          /\ NoneAfter(Tail(job.todo), X, Y)
                          /\ Head(job.todo) \in X => ToSet(Tail(job.todo)) \cap Y = {}
  BY TodoSeq, TailSet, TailNone

LEMMA OrderedBegin ==
    ASSUME NEW g, NEW X, NEW Y, Pair(g, X, Y), InForm, Ordered(g, X, Y),
           NoneAfter(MoveSteps(g), X, Y), Y \subseteq ToSet(MoveSteps(g)),
           \/ \E h \in Groups : StartMove(h)
           \/ \E first \in EdgeFirst : StartCutover(first)
           \/ StartFinish
           \/ \E h \in Groups \union {Host} : StartRollback(h)
    PROVE  Ordered(g, X, Y)'
<1>1. journal' = journal
  BY Zenon DEF StartMove, StartCutover, StartFinish, StartRollback
<1>2. Recorded(journal', X, Y)
  BY <1>1 DEF Ordered
<1> DEFINE T == ToDo(MoveSteps(g))
<1>3. ASSUME NEW h \in Groups, StartMove(h)  PROVE Staged(job', journal', g, X, Y)
  <2>1. job'.kind = "move" /\ job'.group = h /\ job'.todo = ToDo(MoveSteps(h))
    BY <1>3, StartMoveIs DEF Begun
  <2>2. CASE h # g
    BY <2>1, <2>2, KindsAre DEF Staged
  <2>3. CASE h = g
    <3>1. MoveSteps(g) \in Seq(MoveStep(g)) /\ MoveStep(g) \subseteq Steps
      BY MoveStepsAre, StepsAre DEF Pair
    <3>2. NoneAfter(T, X, Y) /\ ToSet(T) = ToSet(MoveSteps(g)) \ journal.done
      BY <3>1, ToDoIs, ToDoNone
    <3>3. job'.todo = T
      BY <2>1, <2>3
    <3> HIDE DEF T
    <3>4. Y \subseteq journal.done \union ToSet(T)
      BY <3>2
    <3>5. Y \cap ToSet(T) # {} => X \cap ToSet(journal.live) = {}
      BY <3>2 DEF Ordered, Recorded
    <3> QED  BY <1>1, <2>1, <3>2, <3>3, <3>4, <3>5, KindsAre DEF Staged
  <2> QED  BY <2>2, <2>3
<1>4. ASSUME NEW first \in EdgeFirst, StartCutover(first)  PROVE job'.kind = "cutover"
  BY <1>4, StartCutoverIs DEF Begun
<1>5. ASSUME StartFinish  PROVE job'.kind = "finish"
  BY <1>5, StartFinishIs DEF Begun
<1>6. ASSUME job'.kind \in {"cutover", "finish"}  PROVE Staged(job', journal', g, X, Y)
  BY <1>6 DEF Staged, Replays
<1>7. ASSUME NEW h \in Groups \union {Host}, StartRollback(h)
      PROVE  Staged(job', journal', g, X, Y)
  <2> DEFINE U == Undoable(h)
  <2>1. job'.kind = "rollback" /\ job'.todo = U
    BY <1>7, StartRollbackIs DEF Begun
  <2>2. NoneAfter(U, Y, X) /\ ToSet(U) = ToSet(journal.live) \cap StepsOf(h)
    BY UndoableIs, UndoableNone, TodoSeq DEF Ordered, Recorded
  <2> HIDE DEF U
  <2>3. Y \cap ToSet(U) # {} => X \cap ToSet(journal.live) \subseteq ToSet(U)
    <3> SUFFICES ASSUME NEW y \in Y, y \in StepsOf(h)
                 PROVE  X \cap ToSet(journal.live) \subseteq ToSet(U)
      BY <2>2
    <3>1. X \subseteq StepsOf(h)
      BY PairTogether
    <3> QED  BY <2>2, <3>1
  <2> QED  BY <1>1, <2>1, <2>2, <2>3 DEF Staged
<1> QED  BY <1>2, <1>3, <1>4, <1>5, <1>6, <1>7 DEF Ordered

LEMMA OrderedEffect ==
    ASSUME NEW g, NEW X, NEW Y, Pair(g, X, Y), InForm, Ordered(g, X, Y),
           NEW what, NEW w, Effect(what, w)
    PROVE  Ordered(g, X, Y)'
<1>1. /\ journal' = journal /\ job.kind \in Runs /\ job.todo # <<>>
      /\ Head(job.todo) = <<what, w>>
  BY DEF Effect, At
<1>2. Had(IF Undone(what, w) THEN "undo" ELSE "plain")
  BY DEF Effect
<1>3. CASE what \in Journalled
  <2>1. job'.kind = job.kind /\ job'.group = job.group /\ job'.todo = job.todo
    BY <1>1, <1>2, <1>3 DEF Had, InForm, JobType
  <2> QED  BY <1>1, <2>1 DEF Ordered, Staged
<1>4. CASE what \notin Journalled
  <2>1. job'.kind = job.kind /\ job'.group = job.group /\ job'.todo = Tail(job.todo)
    BY <1>1, <1>2, <1>4 DEF Had, InForm, JobType
  <2>2. Head(job.todo) \notin Y
    BY <1>1, <1>4, PairIn
  <2>3. NoneAfter(job.todo, X, Y) => NoneAfter(Tail(job.todo), X, Y)
    BY <1>1, TodoTail
  <2>4. ToSet(job.todo) = {Head(job.todo)} \union ToSet(Tail(job.todo))
    BY <1>1, TodoTail
  <2>5. job.kind \notin Replays
    BY <1>1, KindsAre
  <2> QED  BY <1>1, <2>1, <2>2, <2>3, <2>4, <2>5 DEF Ordered, Staged
<1> QED  BY <1>3, <1>4

LEMMA OrderedNote ==
    ASSUME NEW g, NEW X, NEW Y, Pair(g, X, Y), InForm, Ordered(g, X, Y), PlainNoted, Note
    PROVE  Ordered(g, X, Y)'
<1> DEFINE h == Head(job.todo)
           t == Tail(job.todo)
           L == ToSet(journal.live)
           Lp == ToSet(journal'.live)
<1>1. job.noting # NotNoted /\ job.todo # <<>> /\ job.kind \in Runs
  BY DEF Note, InForm, Hand
<1>2. /\ journal'.done = journal.done \union {h}
      /\ journal'.live = IF job.noting = "undo" THEN Append(journal.live, h) ELSE journal.live
      /\ job'.kind = job.kind /\ job'.group = job.group /\ job'.todo = t
  BY DEF Note, InForm, JobType
<1>3. job.noting = "undo" => h \in LiveStep
  BY DEF InForm, Hand
<1>4. Lp = IF job.noting = "undo" THEN L \union {h} ELSE L
  <2>1. journal.live \in Seq(LiveStep)
    BY TodoSeq
  <2>2. CASE job.noting = "undo"
    <3> HIDE DEF h
    <3>1. ToSet(Append(journal.live, h)) = ToSet(journal.live) \union {h}
      BY <1>3, <2>1, <2>2, AppendSet
    <3> QED  BY <1>2, <2>2, <3>1
  <2> QED  BY <1>2, <2>2
<1>5. h \in X => job.noting = "undo"
  BY <1>1, PairIn DEF PlainNoted, InForm, JobType, Noting
<1>6. h \in X \union Y => job.kind = "move" /\ job.group = g
  BY <1>1, PairAtHand
<1>7. ToSet(job.todo) = {h} \union ToSet(t)
  BY <1>1, TodoTail
<1>8. NoneAfter(job.todo, X, Y) => NoneAfter(t, X, Y) /\ (h \in X => ToSet(t) \cap Y = {})
  BY <1>1, TodoTail
<1>9. X \cap Y = {} /\ job.kind \notin Replays
  BY <1>1, KindsAre DEF Pair
<1>10. h \in X => Y \cap ToSet(job.todo) = {} /\ Y \subseteq journal.done
  BY <1>6, <1>7, <1>8, <1>9 DEF Ordered, Staged
<1>11. h \in Y => X \cap L = {}
  BY <1>6, <1>7 DEF Ordered, Staged
<1>12. NoneAfter(journal'.live, X, Y)
  <2>1. CASE job.noting = "undo"
    <3>1. NoneAfter(journal.live, X, Y) /\ journal.live \in Seq(LiveStep)
      BY TodoSeq DEF Ordered, Recorded
    <3>2. L \cap X = {} \/ h \notin Y
      BY <1>11
    <3> HIDE DEF h
    <3>3. NoneAfter(Append(journal.live, h), X, Y)
      BY <1>3, <2>1, <3>1, <3>2, AppendNone
    <3> QED  BY <1>2, <2>1, <3>3
  <2>2. CASE job.noting # "undo"
    BY <1>2, <2>2 DEF Ordered, Recorded
  <2> QED  BY <2>1, <2>2
<1>13. X \cap journal'.done \subseteq Lp /\ (X \cap Lp # {} => Y \subseteq journal'.done)
  BY <1>2, <1>4, <1>5, <1>10 DEF Ordered, Recorded
<1>14. Staged(job', journal', g, X, Y)
  <2> SUFFICES ASSUME job.kind = "move", job.group = g
               PROVE  /\ NoneAfter(t, X, Y)
                      /\ Y \subseteq journal'.done \union ToSet(t)
                      /\ Y \cap ToSet(t) # {} => X \cap Lp = {}
    BY <1>2, <1>9 DEF Staged
  <2>1. NoneAfter(t, X, Y)
    BY <1>8 DEF Ordered, Staged
  <2>2. Y \subseteq journal'.done \union ToSet(t)
    BY <1>2, <1>7 DEF Ordered, Staged
  <2>3. Y \cap ToSet(t) # {} => X \cap Lp = {}
    BY <1>4, <1>7, <1>10 DEF Ordered, Staged
  <2> QED  BY <2>1, <2>2, <2>3
<1> QED  BY <1>12, <1>13, <1>14 DEF Ordered, Recorded

LEMMA OrderedFail ==
    ASSUME NEW g, NEW X, NEW Y, Pair(g, X, Y), InForm, Ordered(g, X, Y),
           NEW s, FailMove(s) \/ FailCutover(s) \/ FailFinish(s)
    PROVE  Ordered(g, X, Y)'
<1>1. /\ job.todo # <<>> /\ Head(job.todo) = s
      /\ journal'.done = journal.done \ {s} /\ journal'.live = journal.live
  BY TodoSeq DEF FailMove, FailCutover, FailFinish, FailsWith, NotDone, InForm, JournalType
<1>2. job.kind \in Runs
  BY DEF FailMove, FailCutover, FailFinish, Runs
<1>3. s \in Y => X \cap ToSet(journal.live) = {}
  <2> SUFFICES ASSUME s \in Y  PROVE X \cap ToSet(journal.live) = {}
    OBVIOUS
  <2>1. job.kind = "move" /\ job.group = g
    BY <1>1, <1>2, PairAtHand
  <2>2. Y \cap ToSet(job.todo) # {}
    BY <1>1, TodoTail
  <2> QED  BY <2>1, <2>2 DEF Ordered, Staged
<1>4. Recorded(journal', X, Y)
  BY <1>1, <1>3 DEF Ordered, Recorded
<1>5. CASE FailMove(s)
  <2> DEFINE h == job.group
             U == UndoList(h)
             L == ToSet(journal.live)
  <2>1. job'.kind = "undo" /\ job'.todo = U /\ h \in Groups
    BY <1>5, FailMoveIs DEF Begun
  <2>2. L \cap StepsOf(h) \subseteq ToSet(U)
        /\ ToSet(U) \subseteq (L \cap StepsOf(h)) \union ({"outright"} \X Members(h))
    BY <2>1, TodoSeq, UndoListIs
  <2>3. NoneAfter(U, Y, X)
    <3>1. X \union Y \subseteq LiveStep /\ NoneAfter(journal.live, X, Y)
      BY PairIn DEF Ordered, Recorded
    <3> HIDE DEF U, h
    <3> QED  BY <2>1, <3>1, TodoSeq, UndoListIs DEF U
  <2> HIDE DEF U
  <2>4. Y \cap ToSet(U) # {} => X \cap L \subseteq ToSet(U)
    <3> SUFFICES ASSUME NEW y \in Y, y \in ToSet(U)  PROVE X \cap L \subseteq ToSet(U)
      OBVIOUS
    <3>1. y[1] # "outright"
      BY PairIn
    <3>2. y \in StepsOf(h)
      BY <2>2, <3>1
    <3>3. X \subseteq StepsOf(h)
      BY <2>1, <3>2, PairTogether
    <3> QED  BY <2>2, <3>3
  <2>5. Staged(job', journal', g, X, Y)
    BY <1>1, <2>1, <2>3, <2>4 DEF Staged
  <2> QED  BY <1>4, <2>5 DEF Ordered
<1>6. CASE FailCutover(s)
  <2>1. CASE job' = Idle("failed")
    BY <1>4, <2>1 DEF Ordered, Staged, Idle, Replays
  <2>2. CASE Begun("restore", Host, EdgeEntry)
    <3>1. job'.kind = "restore" /\ job'.todo = EdgeEntry
      BY <2>2 DEF Begun
    <3>2. EdgeEntry \in Seq({<<"edge", Host>>})
      BY TodoSeq, EdgeEntryIs
    <3>3. ToSet(EdgeEntry) \subseteq {<<"edge", Host>>}
      <4> DEFINE E == {<<"edge", Host>>}
      <4> HIDE DEF E
      <4>1. ToSet(EdgeEntry) \subseteq E
        BY <3>2, InSeq DEF E
      <4> QED  BY <4>1 DEF E
    <3>4. ToSet(EdgeEntry) \cap Y = {}
      BY <3>3, PairIn
    <3>5. NoneAfter(EdgeEntry, Y, X)
      BY <3>2, <3>4, ApartNone
    <3> QED  BY <1>4, <3>1, <3>4, <3>5 DEF Ordered, Staged
  <2> QED  BY <1>6, <2>1, <2>2, FailCutoverIs
<1>7. CASE FailFinish(s)
  <2>1. job'.kind = "finish"
    BY <1>7 DEF FailFinish, InForm, JobType
  <2> QED  BY <1>4, <2>1 DEF Ordered, Staged, Replays
<1> QED  BY <1>5, <1>6, <1>7

LEMMA OrderedUndo ==
    ASSUME NEW g, NEW X, NEW Y, Pair(g, X, Y), InForm, Ordered(g, X, Y), NEW s, Undo(s)
    PROVE  Ordered(g, X, Y)'
<1> DEFINE t == Tail(job.todo)
           L == ToSet(journal.live)
<1>1. job.kind \in Replays /\ job.todo # <<>> /\ Head(job.todo) = s
  BY DEF Undo, UndoOf
<1>2. journal' = Unrecorded(s) /\ job'.kind = job.kind /\ job'.todo = t
  BY DEF Undo, UndoOf, InForm, JobType
<1>3. /\ journal'.done = journal.done \ {s}
      /\ ToSet(journal'.live) = L \ {s}
      /\ NoneAfter(journal.live, X, Y) => NoneAfter(journal'.live, X, Y)
  BY <1>2, UnrecordedIs DEF InForm
<1>4. ToSet(job.todo) = {s} \union ToSet(t)
  BY <1>1, TodoTail
<1>5. NoneAfter(job.todo, Y, X) => NoneAfter(t, Y, X) /\ (s \in Y => ToSet(t) \cap X = {})
  BY <1>1, TodoTail
<1>6. job.kind # "move" /\ X \cap Y = {}
  BY <1>1 DEF Replays, Pair
<1>7. s \in Y => X \cap L = {}
  BY <1>1, <1>4, <1>5, <1>6 DEF Ordered, Staged
<1>8. Recorded(journal', X, Y)
  BY <1>3, <1>7 DEF Ordered, Recorded
<1>9. Staged(job', journal', g, X, Y)
  BY <1>1, <1>2, <1>3, <1>4, <1>5, <1>6 DEF Ordered, Staged
<1> QED  BY <1>8, <1>9 DEF Ordered

LEMMA OrderedFailUndo ==
    ASSUME NEW g, NEW X, NEW Y, Pair(g, X, Y), Clean, InForm, Ordered(g, X, Y), FailUndo
    PROVE  Ordered(g, X, Y)'
<1> DEFINE t == Tail(job.todo)
           s == Head(job.todo)
<1>1. job.kind \in Replays /\ job.todo # <<>> /\ journal' = journal
  BY DEF FailUndo
<1>2. job'.kind = job.kind /\ job'.todo = t
  BY DEF FailUndo, InForm, JobType
<1>3. s \notin X
  <2>1. CanUndo(s) => s[1] \in UndoFails
    BY DEF FailUndo
  <2>2. s[1] \in {"start", "service"} => CanUndo(s)
    BY DEF CanUndo
  <2> QED  BY <2>1, <2>2, PairIn DEF Clean
<1>4. ToSet(job.todo) = {s} \union ToSet(t)
  BY <1>1, TodoTail
<1>5. NoneAfter(job.todo, Y, X) => NoneAfter(t, Y, X)
  BY <1>1, TodoTail
<1>6. job.kind # "move"
  BY <1>1 DEF Replays
<1> QED  BY <1>1, <1>2, <1>3, <1>4, <1>5, <1>6 DEF Ordered, Staged

\* An order that the steps of the group's move have is kept.
LEMMA OrderedStep ==
    ASSUME NEW g, NEW X, NEW Y, Pair(g, X, Y), Clean, InForm, PlainNoted, Ordered(g, X, Y),
           NoneAfter(MoveSteps(g), X, Y), Y \subseteq ToSet(MoveSteps(g)), [Next]_vars
    PROVE  Ordered(g, X, Y)'
<1>1. ASSUME NEW e, Stops(e)  PROVE Ordered(g, X, Y)'
  <2>1. job'.kind = "idle" /\ journal' = journal
    BY <1>1 DEF Stops, Idle
  <2> QED  BY <2>1 DEF Ordered, Staged, Replays
<1>2. ASSUME UNCHANGED vars \/ \E w \in Workloads : Write(w)  PROVE Ordered(g, X, Y)'
  <2>1. job' = job /\ journal' = journal
    BY <1>2, Zenon DEF vars, Write
  <2> QED  BY <2>1 DEF Ordered
<1>3. ASSUME Step  PROVE Ordered(g, X, Y)'
  BY <1>1, <1>3, StepIs, OrderedEffect, OrderedNote, EndsAre
<1>4. ASSUME EndRun \/ EndReplay \/ Crash  PROVE Ordered(g, X, Y)'
  BY <1>1, <1>4, EndsAre
<1>5. ASSUME NEW s \in Steps, FailMove(s) \/ FailCutover(s) \/ FailFinish(s) \/ Undo(s)
      PROVE  Ordered(g, X, Y)'
  BY <1>5, OrderedFail, OrderedUndo
<1>6. ASSUME FailUndo  PROVE Ordered(g, X, Y)'
  BY <1>6, OrderedFailUndo
<1>7. ASSUME \/ \E h \in Groups : StartMove(h)
             \/ \E first \in EdgeFirst : StartCutover(first)
             \/ StartFinish
             \/ \E h \in Groups \union {Host} : StartRollback(h)
      PROVE  Ordered(g, X, Y)'
  BY <1>7, OrderedBegin
<1> QED  BY <1>2, <1>3, <1>4, <1>5, <1>6, <1>7, Zenon DEF Next

-----------------------------------------------------------------------------
(* A group is on one side at a time *)

\* A stage begins, ends or gives up an undo: nothing but the job changes.
Quiet ==
    /\ UNCHANGED <<movable, journal, was, old, new, data, routes>>
    /\ edge' = edge \/ Unsettled
    /\ job.noting = NotNoted /\ job'.noting = NotNoted

\* The step at hand fails, and leaves nothing.
Failed(s) ==
    /\ FailMove(s) \/ FailCutover(s) \/ FailFinish(s)
    /\ job.kind \in Runs /\ job.todo # <<>> /\ Head(job.todo) = s
    /\ FailsWith(s) /\ journal' = NotDone(s)
    /\ UNCHANGED <<movable, was, old, new, data, routes, edge>>
    /\ job.noting = NotNoted /\ job'.noting = NotNoted

Still ==
    /\ UNCHANGED <<movable, journal, was, old, new, routes, edge, job>>
    /\ data' = data \/ \E w \in Workloads : Write(w)

\* A step of a stage's that fails has failed outright: it started nothing.
LEMMA FailsAre ==
    ASSUME InForm, Spared, NEW s \in Steps, FailMove(s) \/ FailCutover(s) \/ FailFinish(s)
    PROVE  Failed(s)
<1>1. FailsWith(s) /\ journal' = NotDone(s) /\ job.kind \in Runs
  BY Zenon DEF FailMove, FailCutover, FailFinish, Runs
<1>2. new' = new
  BY <1>1 DEF FailsWith, Spend, Spared
<1>3. /\ UNCHANGED <<movable, was, old, data, routes, edge>> /\ job.noting = NotNoted
      /\ job.todo # <<>> /\ Head(job.todo) = s
  BY <1>1 DEF FailsWith
<1>4. job'.noting = NotNoted
  <2>1. CASE FailMove(s)
    BY <2>1, FailMoveIs DEF Begun
  <2>2. CASE FailCutover(s)
    BY <2>2, FailCutoverIs DEF Begun, Idle
  <2>3. CASE FailFinish(s)
    BY <1>3, <2>3 DEF FailFinish, InForm, JobType
  <2> QED  BY <2>1, <2>2, <2>3
<1> QED  BY <1>1, <1>2, <1>3, <1>4, Zenon DEF Failed

LEMMA StepKinds ==
    ASSUME InForm, Spared, [Next]_vars
    PROVE  \/ Quiet
           \/ \E what \in Kinds, w \in Workloads \union {Host} : Effect(what, w)
           \/ Note
           \/ \E s \in Steps : Failed(s) \/ Undo(s)
           \/ Still
<1>1. ASSUME \/ \E g \in Groups : StartMove(g)
             \/ \E first \in EdgeFirst : StartCutover(first)
             \/ StartFinish
             \/ \E g \in Groups \union {Host} : StartRollback(g)
      PROVE  Quiet
  <2>1. job.kind = "idle" /\ UNCHANGED <<movable, journal, was, old, new, data, routes, edge>>
    BY <1>1, Zenon DEF StartMove, StartCutover, StartFinish, StartRollback
  <2>2. job.noting = NotNoted
    BY <2>1, IdleNotNoting, KindsAre
  <2>3. job'.noting = NotNoted
    BY <1>1, StartMoveIs, StartCutoverIs, StartFinishIs, StartRollbackIs DEF Begun
  <2> QED  BY <2>1, <2>2, <2>3 DEF Quiet
<1>2. ASSUME EndRun \/ EndReplay \/ Crash \/ Unsettled  PROVE Quiet
  <2>1. job.noting = NotNoted
    <3>1. CASE EndRun \/ EndReplay
      BY <3>1, IdleNotNoting DEF EndRun, EndReplay
    <3>2. CASE Crash
      <4>1. Spend(IF Torn THEN "torn" ELSE "crash")
        BY <3>2 DEF Crash
      <4>2. ~ Spend("torn")
        BY DEF Spend, Spared
      <4>3. ~ Torn
        BY <4>1, <4>2, Zenon
      <4> QED  BY <4>3, Zenon DEF Torn
    <3>3. CASE Unsettled
      BY <3>3 DEF Unsettled, At
    <3> QED  BY <1>2, <3>1, <3>2, <3>3
  <2>2. PICK e : Stops(e)
    BY <1>2, EndsAre
  <2>3. edge' = edge \/ Unsettled
    BY <1>2, EndsAre
  <2> QED  BY <2>1, <2>2, <2>3 DEF Quiet, Stops, Idle
<1>3. ASSUME FailUndo  PROVE Quiet
  <2>1. job.noting = NotNoted
    BY <1>3, FailUndoIs
  <2> QED  BY <1>3, <2>1 DEF Quiet, FailUndo, InForm, JobType
<1>4. ASSUME NEW s \in Steps, FailMove(s) \/ FailCutover(s) \/ FailFinish(s)  PROVE Failed(s)
  BY <1>4, FailsAre
<1>5. ASSUME UNCHANGED vars \/ \E w \in Workloads : Write(w)  PROVE Still
  BY <1>5, Zenon DEF vars, Write, Still
<1>6. ASSUME Step
      PROVE  \/ Quiet \/ Note
             \/ \E what \in Kinds, w \in Workloads \union {Host} : Effect(what, w)
  BY <1>2, <1>6, StepIs, Zenon
<1>7. CASE Next
  <2>1. ASSUME \E s \in Steps : FailMove(s) \/ FailCutover(s) \/ FailFinish(s) \/ Undo(s)
        PROVE  \E s \in Steps : Failed(s) \/ Undo(s)
    BY <1>4, <2>1, Zenon
  <2> QED  BY <1>1, <1>2, <1>3, <1>5, <1>6, <1>7, <2>1, Zenon DEF Next
<1> QED  BY <1>5, <1>7, Zenon

AtHand(s) == job.noting # NotNoted /\ Head(job.todo) = s

\* It is in the journal with an undo, or will be.
ToUndo(s) == s \in ToSet(journal.live) \/ (job.noting = "undo" /\ Head(job.todo) = s)

\* What the journal says stopped is down, and it says what started.
Sides ==
    /\ \A w \in Workloads : (Done("stop", w) \/ AtHand(<<"stop", w>>)) => old[w] # "up"
    /\ \A w \in Workloads : new[w] => ToUndo(<<"start", w>>) \/ ToUndo(<<"service", w>>)

\* What an effect leaves to be noted.
LEMMA EffectHands ==
    ASSUME InForm, NEW what, NEW w, Effect(what, w)
    PROVE  /\ job.noting = NotNoted /\ job.kind \in Runs /\ journal' = journal
           /\ job.todo # <<>> /\ Head(job.todo) = <<what, w>>
           /\ job'.kind = job.kind /\ job'.group = job.group
           /\ IF what \in Journalled
              THEN /\ job'.noting = IF Undone(what, w) THEN "undo" ELSE "plain"
                   /\ job'.todo = job.todo
              ELSE job'.noting = NotNoted /\ job'.todo = Tail(job.todo)
<1>1. /\ job.kind \in Runs /\ job.todo # <<>> /\ Head(job.todo) = <<what, w>>
      /\ job.noting = NotNoted /\ journal' = journal /\ Head(job.todo)[1] = what
  BY DEF Effect, At
<1>2. Had(IF Undone(what, w) THEN "undo" ELSE "plain")
  BY DEF Effect
<1> QED  BY <1>1, <1>2 DEF Had, InForm, JobType

\* What is written, and what is left.
LEMMA NoteIs ==
    ASSUME InForm, Note
    PROVE  /\ job.noting \in Noting /\ job.kind \in Runs /\ job.todo # <<>>
           /\ journal'.done = journal.done \union {Head(job.todo)}
           /\ ToSet(journal'.live) = IF job.noting = "undo"
                                     THEN ToSet(journal.live) \union {Head(job.todo)}
                                     ELSE ToSet(journal.live)
           /\ job'.kind = job.kind /\ job'.group = job.group /\ job'.todo = Tail(job.todo)
           /\ job'.noting = NotNoted
           /\ UNCHANGED <<movable, was, old, new, data, routes, edge>>
<1> DEFINE h == Head(job.todo)
<1>1. job.noting # NotNoted /\ job.todo # <<>> /\ job.kind \in Runs
  BY DEF Note, InForm, Hand
<1>2. /\ journal'.done = journal.done \union {h}
      /\ journal'.live = IF job.noting = "undo" THEN Append(journal.live, h) ELSE journal.live
      /\ job'.kind = job.kind /\ job'.group = job.group /\ job'.todo = Tail(job.todo)
      /\ job'.noting = NotNoted /\ UNCHANGED <<movable, was, old, new, data, routes, edge>>
  BY DEF Note, InForm, JobType
<1>3. job.noting \in Noting
  BY <1>1 DEF InForm, JobType
<1>4. ToSet(journal'.live) = IF job.noting = "undo" THEN ToSet(journal.live) \union {h}
                             ELSE ToSet(journal.live)
  <2>1. journal.live \in Seq(LiveStep) /\ (job.noting = "undo" => h \in LiveStep)
    BY TodoSeq DEF InForm, Hand
  <2>2. CASE job.noting = "undo"
    <3> HIDE DEF h
    <3>1. ToSet(Append(journal.live, h)) = ToSet(journal.live) \union {h}
      BY <2>1, <2>2, AppendSet
    <3> QED  BY <1>2, <2>2, <3>1
  <2> QED  BY <1>2, <2>2
<1> QED  BY <1>1, <1>2, <1>3, <1>4

LEMMA UndoDoes ==
    ASSUME InForm, NEW s, Undo(s)
    PROVE  /\ job.noting = NotNoted /\ job'.noting = NotNoted
           /\ job.kind \in Replays /\ job.todo # <<>> /\ Head(job.todo) = s /\ CanUndo(s)
           /\ job'.kind = job.kind /\ job'.group = job.group /\ job'.todo = Tail(job.todo)
           /\ job'.failed = job.failed
           /\ journal'.done = journal.done \ {s}
           /\ ToSet(journal'.live) = ToSet(journal.live) \ {s}
           /\ movable' = movable /\ was' = was /\ data' = data
           /\ UndoesOld(s) /\ UndoesNew(s) /\ UndoesRoutes(s) /\ UndoesEdge(s)
<1>1. job.noting = NotNoted
  BY UndoIs
<1>2. journal' = Unrecorded(s)
  BY DEF Undo
<1>3. /\ journal'.done = journal.done \ {s}
      /\ ToSet(journal'.live) = ToSet(journal.live) \ {s}
  BY <1>2, UnrecordedIs DEF InForm
<1>4. job' = [job EXCEPT !.todo = Tail(@)]
  BY DEF Undo, UndoOf
<1>5. /\ job'.kind = job.kind /\ job'.group = job.group /\ job'.todo = Tail(job.todo)
      /\ job'.noting = NotNoted /\ job'.failed = job.failed
  BY <1>1, <1>4 DEF InForm, JobType
<1>6. /\ job.kind \in Replays /\ job.todo # <<>> /\ Head(job.todo) = s /\ CanUndo(s)
      /\ movable' = movable /\ was' = was /\ data' = data
      /\ UndoesOld(s) /\ UndoesNew(s) /\ UndoesRoutes(s) /\ UndoesEdge(s)
  BY DEF Undo, UndoOf
<1> QED  BY <1>1, <1>3, <1>5, <1>6

LEMMA FailedIs ==
    ASSUME InForm, NEW s, Failed(s)
    PROVE  journal'.done = journal.done \ {s} /\ journal'.live = journal.live
  BY DEF Failed, NotDone, InForm, JournalType

LEMMA SidesStep ==
    ASSUME InForm, PlacesType, Spared, Sides, [Next]_vars
    PROVE  Sides'
<1> DEFINE L == ToSet(journal.live)
<1>1. ASSUME Quiet \/ Still  PROVE Sides'
  <2>1. CASE Quiet
    BY <2>1 DEF Quiet, Sides, AtHand, ToUndo, Done, NotNoted
  <2>2. CASE Still
    BY <2>2 DEF Still, Sides, AtHand, ToUndo, Done
  <2> QED  BY <1>1, <2>1, <2>2
<1>2. ASSUME NEW what \in Kinds, NEW w \in Workloads \union {Host}, Effect(what, w)
      PROVE  Sides'
  <2>1. /\ job.noting = NotNoted /\ journal' = journal /\ Head(job.todo) = <<what, w>>
        /\ IF what \in Journalled
           THEN /\ job'.noting = IF Undone(what, w) THEN "undo" ELSE "plain"
                /\ job'.todo = job.todo
           ELSE job'.noting = NotNoted
    BY <1>2, EffectHands
  <2>2. ASSUME NEW x \in Workloads, (Done("stop", x) \/ AtHand(<<"stop", x>>))'
        PROVE  old'[x] # "up"
    <3>1. \/ old' = [old EXCEPT ![w] = IF @ = "up" THEN "down" ELSE @] /\ what = "stop"
          \/ old' = [old EXCEPT ![w] = "gone"] \/ (old' = old /\ what # "stop")
      BY <1>2 DEF Effect
    <3>2. Done("stop", x) \/ <<what, w>> = <<"stop", x>>
      BY <2>1, <2>2 DEF AtHand, Done
    <3>3. Done("stop", x) => old[x] # "up"
      BY DEF Sides
    <3> QED  BY <3>1, <3>2, <3>3 DEF PlacesType
  <2>3. ASSUME NEW x \in Workloads, new'[x]
        PROVE  (ToUndo(<<"start", x>>) \/ ToUndo(<<"service", x>>))'
    <3>1. new' = IF what \in {"start", "service"} THEN [new EXCEPT ![w] = TRUE] ELSE new
      BY <1>2 DEF Effect
    <3>2. CASE new[x]
      <4>1. <<"start", x>> \in L \/ <<"service", x>> \in L
        BY <2>1, <3>2 DEF Sides, ToUndo, NotNoted
      <4> QED  BY <2>1, <4>1 DEF ToUndo
    <3>3. CASE ~ new[x]
      <4>1. what \in {"start", "service"} /\ w = x
        BY <2>3, <3>1, <3>3 DEF PlacesType
      <4>2. Undone(what, w) /\ what \in Journalled
        BY <4>1, KindsOf DEF Undone
      <4> QED  BY <2>1, <4>1, <4>2 DEF ToUndo
    <3> QED  BY <3>2, <3>3
  <2> QED  BY <2>2, <2>3 DEF Sides
<1>3. ASSUME Note  PROVE Sides'
  <2> DEFINE h == Head(job.todo)
             Lp == ToSet(journal'.live)
  <2>1. /\ journal'.done = journal.done \union {h} /\ job.noting \in Noting
        /\ Lp = IF job.noting = "undo" THEN L \union {h} ELSE L
        /\ job'.noting = NotNoted /\ old' = old /\ new' = new
    BY <1>3, NoteIs
  <2>2. \A s : ToUndo(s) => s \in Lp
    BY <2>1 DEF ToUndo
  <2>3. \A s : s \in journal'.done => s \in journal.done \/ AtHand(s)
    BY <2>1 DEF AtHand, NotNoted, Noting
  <2> HIDE DEF h
  <2>4. ASSUME NEW x \in Workloads, (Done("stop", x) \/ AtHand(<<"stop", x>>))'
        PROVE  old'[x] # "up"
    BY <2>1, <2>3, <2>4 DEF Sides, Done, AtHand
  <2>5. ASSUME NEW x \in Workloads, new'[x]
        PROVE  (ToUndo(<<"start", x>>) \/ ToUndo(<<"service", x>>))'
    BY <2>1, <2>2, <2>5 DEF Sides, ToUndo
  <2> QED  BY <2>4, <2>5 DEF Sides
<1>4. ASSUME NEW s \in Steps, Failed(s)  PROVE Sides'
  <2>1. journal'.done = journal.done \ {s} /\ journal'.live = journal.live
    BY <1>4, FailedIs
  <2> QED  BY <1>4, <2>1 DEF Failed, Sides, AtHand, ToUndo, Done, NotNoted
<1>5. ASSUME NEW s \in Steps, Undo(s)  PROVE Sides'
  <2>1. /\ job.noting = NotNoted /\ job'.noting = NotNoted
        /\ journal'.done = journal.done \ {s} /\ ToSet(journal'.live) = L \ {s}
        /\ UndoesOld(s) /\ UndoesNew(s)
    BY <1>5, UndoDoes
  <2>2. ASSUME NEW x \in Workloads, (Done("stop", x) \/ AtHand(<<"stop", x>>))'
        PROVE  old'[x] # "up"
    <3>1. Done("stop", x) /\ <<"stop", x>> # s
      BY <2>1, <2>2 DEF Done, AtHand
    <3>2. old[x] # "up"
      BY <3>1 DEF Sides
    <3>3. s[1] = "stop" => s[2] # x
      BY <3>1 DEF Steps
    <3> QED  BY <2>1, <3>2, <3>3 DEF UndoesOld, PlacesType
  <2>3. ASSUME NEW x \in Workloads, new'[x]
        PROVE  (ToUndo(<<"start", x>>) \/ ToUndo(<<"service", x>>))'
    <3>1. new[x] /\ ~ (s[1] \in {"start", "service"} /\ s[2] = x)
      BY <2>1, <2>3 DEF UndoesNew, PlacesType
    <3>2. <<"start", x>> \in L \/ <<"service", x>> \in L
      BY <2>1, <3>1 DEF Sides, ToUndo, NotNoted
    <3>3. <<"start", x>> # s /\ <<"service", x>> # s
      BY <3>1
    <3> QED  BY <2>1, <3>2, <3>3 DEF ToUndo
  <2> QED  BY <2>2, <2>3 DEF Sides
<1> QED  BY <1>1, <1>2, <1>3, <1>4, <1>5, StepKinds, Zenon

LEMMA PlainStep ==
    ASSUME InForm, Spared, PlainNoted, [Next]_vars
    PROVE  PlainNoted'
<1>1. ASSUME Quiet \/ Note \/ \E s \in Steps : Failed(s) \/ Undo(s)  PROVE PlainNoted'
  <2>1. job'.noting = NotNoted
    BY <1>1, NoteIs, UndoDoes DEF Quiet, Failed
  <2> QED  BY <2>1 DEF PlainNoted, NotNoted
<1>2. ASSUME NEW what \in Kinds, NEW w \in Workloads \union {Host}, Effect(what, w)
      PROVE  PlainNoted'
  BY <1>2, EffectHands DEF PlainNoted, Undone, NotNoted
<1>3. ASSUME Still  PROVE PlainNoted'
  BY <1>3 DEF Still, PlainNoted
<1> QED  BY <1>1, <1>2, <1>3, StepKinds, Zenon

\* Nothing of a group starts before all of it is down, nor comes up again where
\* it was before what started has stopped.
OnSides ==
    /\ FormHolds /\ Clean /\ Spared /\ PlainNoted /\ Sides
    /\ \A g \in Groups : Ordered(g, StartsOf(g), StopsOf(g))

LEMMA SidesPair ==
    ASSUME NEW g \in Groups
    PROVE  Pair(g, StartsOf(g), StopsOf(g))
  BY DEF Pair, StartsOf, StopsOf

LEMMA EmptyOrdered ==
    ASSUME Init, NEW g, NEW X, NEW Y
    PROVE  Ordered(g, X, Y)
  BY DEF Init, Ordered, Recorded, Staged, NoneAfter, ToSet, Replays

LEMMA SidesInit ==
    ASSUME Init, Clean
    PROVE  OnSides
<1>1. FormHolds
  BY FormInit, RestInit DEF FormHolds
<1>2. Spared
  BY DEF Init, Clean, Spared
<1>3. PlainNoted
  BY DEF Init, PlainNoted, NotNoted
<1>4. Sides
  BY DEF Init, Sides, Done, AtHand, ToUndo, NotNoted
<1> QED  BY <1>1, <1>2, <1>3, <1>4, EmptyOrdered DEF OnSides

LEMMA SparedStep ==
    ASSUME FormHolds, Spared, [Next]_vars
    PROVE  Spared'
<1>1. BudgetType /\ {"partial", "torn"} \subseteq Expenses
  BY RestIs DEF FormHolds, Expenses, Wrong
<1> QED  BY <1>1, BudgetStep DEF Spared

LEMMA OnSidesStep ==
    ASSUME OnSides, [Next]_vars
    PROVE  OnSides'
<1>1. InForm /\ RestOK /\ PlacesType
  BY RestIs DEF OnSides, FormHolds
<1>2. FormHolds'
  BY <1>1, FormStep, RestStep DEF FormHolds
<1>3. Clean' /\ Spared'
  BY SparedStep DEF OnSides, Clean
<1>4. PlainNoted' /\ Sides'
  BY <1>1, PlainStep, SidesStep DEF OnSides
<1>5. ASSUME NEW g \in Groups  PROVE Ordered(g, StartsOf(g), StopsOf(g))'
  <2> DEFINE X == StartsOf(g)  Y == StopsOf(g)
  <2>1. /\ Pair(g, X, Y) /\ Clean /\ InForm /\ PlainNoted /\ Ordered(g, X, Y)
        /\ NoneAfter(MoveSteps(g), X, Y) /\ Y \subseteq ToSet(MoveSteps(g))
    BY <1>1, SidesPair, MoveStepsAre DEF OnSides
  <2>2. X' = X /\ Y' = Y
    BY DEF StartsOf, StopsOf, Members
  <2> HIDE DEF X, Y
  <2>3. Ordered(g, X, Y)'
    BY <2>1, <2>2, OrderedStep
  <2> QED  BY <2>3 DEF X, Y
<1> QED  BY <1>2, <1>3, <1>4, <1>5 DEF OnSides

\* Of a group that runs on Meshploy, all is stopped on Dokploy.
LEMMA UpMeansDown ==
    ASSUME OnSides, NEW g \in Groups, NEW w \in Members(g), new[w]
    PROVE  \A x \in Members(g) : old[x] # "up"
<1> DEFINE X == StartsOf(g)  Y == StopsOf(g)
<1>1. w \in Workloads /\ Members(g) \subseteq Workloads
  BY StepsAre
<1>2. PICK s \in X : ToUndo(s)
  <2>1. ToUndo(<<"start", w>>) \/ ToUndo(<<"service", w>>)
    BY <1>1 DEF OnSides, Sides
  <2>2. <<"start", w>> \in X /\ <<"service", w>> \in X
    BY DEF StartsOf
  <2> QED  BY <2>1, <2>2
<1>3. Ordered(g, X, Y) /\ Pair(g, X, Y) /\ InForm
  BY SidesPair DEF OnSides, FormHolds
<1>4. Y \subseteq journal.done
  <2>1. CASE s \in ToSet(journal.live)
    BY <1>3, <2>1 DEF Ordered, Recorded
  <2>2. CASE job.noting = "undo" /\ Head(job.todo) = s
    <3>1. job.kind \in Runs /\ job.todo # <<>>
      BY <1>3, <2>2 DEF InForm, Hand, NotNoted
    <3> HIDE DEF X, Y
    <3>2. job.kind = "move" /\ job.group = g
      BY <1>3, <2>2, <3>1, PairAtHand
    <3>3. NoneAfter(job.todo, X, Y) /\ Y \subseteq journal.done \union ToSet(job.todo)
      BY <1>3, <3>2 DEF Ordered, Staged
    <3>4. ToSet(job.todo) = {s} \union ToSet(Tail(job.todo)) /\ ToSet(Tail(job.todo)) \cap Y = {}
      BY <1>3, <2>2, <3>1, <3>3, TodoTail
    <3>5. s \notin Y
      BY <1>3 DEF Pair
    <3> QED  BY <3>3, <3>4, <3>5
  <2> QED  BY <1>2, <2>1, <2>2 DEF ToUndo
<1>5. ASSUME NEW x \in Members(g)  PROVE old[x] # "up"
  <2>1. <<"stop", x>> \in journal.done /\ x \in Workloads
    BY <1>1, <1>4 DEF StopsOf
  <2> QED  BY <2>1 DEF OnSides, Sides, Done
<1> QED  BY <1>5

LEMMA AlwaysOnSides == Spec /\ Clean => []OnSides
<1>1. Init /\ Clean => OnSides
  BY SidesInit
<1>2. OnSides /\ [Next]_vars => OnSides'
  BY OnSidesStep
<1> QED  BY <1>1, <1>2, PTL DEF Spec

\* A half-moved group never serves from both sides: through failures, undos that
\* fail, crashes between steps, rollbacks and moves that are resumed, nothing of
\* it runs on Dokploy while anything of it runs on Meshploy.
THEOREM GroupsOnOneSide == Spec /\ Clean => []OneSide
<1>1. OnSides => OneSide
  BY UpMeansDown DEF OneSide
<1> QED  BY <1>1, AlwaysOnSides, PTL

-----------------------------------------------------------------------------
(* The stages implement Handover *)

RunsNew(g) == \E w \in Members(g) : new[w]
OldRuns(g) == \E w \in Members(g) : old[w] = "up"

LEMMA SideIs ==
    /\ Side = [g \in Groups |-> IF RunsNew(g) THEN "new" ELSE IF OldRuns(g) THEN "old" ELSE "neither"]
    /\ \A g \in Groups : Side[g] \in {"new", "old", "neither"}
  BY DEF Side, RunsNew, OldRuns

\* A step changes one workload, on one side.
LEMMA OneChanges ==
    ASSUME InForm, PlacesType, Spared, [Next]_vars
    PROVE  \E v : /\ \A x \in Workloads : x # v => old'[x] = old[x] /\ new'[x] = new[x]
                  /\ old' = old \/ new' = new
<1>1. ASSUME Quiet \/ Still \/ Note \/ \E s \in Steps : Failed(s)
      PROVE  old' = old /\ new' = new
  BY <1>1, NoteIs, Zenon DEF Quiet, Still, Failed
<1>2. ASSUME NEW what \in Kinds, NEW w \in Workloads \union {Host}, Effect(what, w)
      PROVE  /\ \A x \in Workloads : x # w => old'[x] = old[x] /\ new'[x] = new[x]
             /\ old' = old \/ new' = new
  <2>1. \/ old' = [old EXCEPT ![w] = IF @ = "up" THEN "down" ELSE @] /\ what = "stop"
        \/ old' = [old EXCEPT ![w] = "gone"] /\ what = "remove"
        \/ old' = old
    BY <1>2 DEF Effect
  <2>2. new' = IF what \in {"start", "service"} THEN [new EXCEPT ![w] = TRUE] ELSE new
    BY <1>2 DEF Effect
  <2> QED  BY <2>1, <2>2 DEF PlacesType
<1>3. ASSUME NEW s \in Steps, Undo(s)
      PROVE  /\ \A x \in Workloads : x # s[2] => old'[x] = old[x] /\ new'[x] = new[x]
             /\ old' = old \/ new' = new
  <2>1. UndoesOld(s) /\ UndoesNew(s)
    BY <1>3, UndoDoes
  <2> QED  BY <2>1 DEF UndoesOld, UndoesNew, PlacesType
<1>4. ASSUME old' = old /\ new' = new
      PROVE  /\ \A x \in Workloads : x # Host => old'[x] = old[x] /\ new'[x] = new[x]
             /\ old' = old \/ new' = new
  BY <1>4
<1> QED  BY <1>1, <1>2, <1>3, <1>4, StepKinds, Zenon

LEMMA NeverBoth == OnSides => \A g \in Groups : ~ (RunsNew(g) /\ OldRuns(g))
  BY UpMeansDown DEF RunsNew, OldRuns

LEMMA NeverBothNext == (OnSides => \A g \in Groups : ~ (RunsNew(g) /\ OldRuns(g)))'
  BY NeverBoth, PTL

LEMMA SideStep ==
    ASSUME OnSides, OnSides', [Next]_vars
    PROVE  [Promise!Next]_Side
<1>1. InForm /\ PlacesType /\ Spared /\ PlacesType'
  <2>1. InForm /\ RestOK /\ PlacesType /\ Spared
    BY RestIs DEF OnSides, FormHolds
  <2>2. PlacesType'
    BY <2>1, PlacesStep
  <2> QED  BY <2>1, <2>2
<1>2. PICK v : /\ \A x \in Workloads : x # v => old'[x] = old[x] /\ new'[x] = new[x]
               /\ old' = old \/ new' = new
  BY <1>1, OneChanges
<1>3. ASSUME NEW g \in Groups, v \notin Members(g)
      PROVE  RunsNew(g)' = RunsNew(g) /\ OldRuns(g)' = OldRuns(g)
  <2>1. \A x \in Members(g) : old'[x] = old[x] /\ new'[x] = new[x]
    BY <1>2, <1>3, StepsAre
  <2>2. RunsNew(g)' <=> RunsNew(g)
    BY <2>1, Zenon DEF RunsNew, Members
  <2>3. OldRuns(g)' <=> OldRuns(g)
    BY <2>1, Zenon DEF OldRuns, Members
  <2>4. RunsNew(g) \in BOOLEAN /\ RunsNew(g)' \in BOOLEAN
        /\ OldRuns(g) \in BOOLEAN /\ OldRuns(g)' \in BOOLEAN
    BY DEF RunsNew, OldRuns
  <2> QED  BY <2>2, <2>3, <2>4
<1>4. Side = [g \in Groups |-> IF RunsNew(g) THEN "new" ELSE IF OldRuns(g) THEN "old" ELSE "neither"]
  BY SideIs
<1>5. Side' = [g \in Groups |->
                 IF RunsNew(g)' THEN "new" ELSE IF OldRuns(g)' THEN "old" ELSE "neither"]
  BY DEF Side, RunsNew, OldRuns
<1>6. \A g \in Groups : v \notin Members(g) => Side'[g] = Side[g]
  BY <1>3, <1>4, <1>5
<1>7. CASE \A g \in Groups : v \notin Members(g)
  <2>1. Side' = Side
    BY <1>4, <1>5, <1>6, <1>7
  <2> QED  BY <2>1
<1>8. ASSUME NEW g \in Groups, v \in Members(g)
      PROVE  [Promise!Next]_Side
  <2>1. \A h \in Groups : h # g => Side'[h] = Side[h]
    BY <1>6, <1>8, MigrationAssumption
  <2>2. Side' = [Side EXCEPT ![g] = Side'[g]]
    BY <1>4, <1>5, <2>1
  <2>3. Side[g] \in {"new", "old", "neither"} /\ Side'[g] \in {"new", "old", "neither"}
    BY <1>4, <1>5
  <2>4. \/ Side'[g] = Side[g] \/ Side[g] = "neither" \/ Side'[g] = "neither"
    <3>1. CASE new' = new
      <4>1. RunsNew(g)' <=> RunsNew(g)
        BY <3>1, Zenon DEF RunsNew, Members
      <4> QED  BY <1>4, <1>5, <2>3, <4>1
    <3>2. CASE old' = old
      <4>1. OldRuns(g)' <=> OldRuns(g)
        BY <3>2, Zenon DEF OldRuns, Members
      <4>2. ~ (RunsNew(g) /\ OldRuns(g)) /\ ~ (RunsNew(g)' /\ OldRuns(g)')
        BY NeverBoth, NeverBothNext
      <4> QED  BY <1>4, <1>5, <4>1, <4>2
    <3> QED  BY <1>2, <3>1, <3>2
  <2>5. CASE Side'[g] = Side[g]
    BY <1>4, <1>5, <2>1, <2>5
  <2>6. CASE Side[g] # "neither" /\ Side'[g] = "neither"
    BY <2>2, <2>6 DEF Promise!Next, Promise!Leave
  <2>7. CASE Side[g] = "neither" /\ Side'[g] # "neither"
    BY <2>2, <2>3, <2>7 DEF Promise!Next, Promise!Arrive
  <2> QED  BY <2>4, <2>5, <2>6, <2>7
<1> QED  BY <1>7, <1>8

LEMMA SideInit ==
    ASSUME Init
    PROVE  Promise!Init
<1>1. \A g \in Groups : ~ RunsNew(g)
  BY StepsAre DEF Init, RunsNew
<1> QED  BY <1>1, SideIs DEF Promise!Init

\* The stages implement Handover: a group leaves the side it is on before it is
\* brought up on the other, there and back, whatever fails on the way.
THEOREM StagesImplementHandover == Spec /\ Clean => ImplementsHandover
<1>1. Init => Promise!Init
  BY SideInit
<1>2. OnSides /\ OnSides' /\ [Next]_vars => [Promise!Next]_Side
  BY SideStep
<1> QED  BY <1>1, <1>2, AlwaysOnSides, PTL DEF Spec, Promise!Spec, ImplementsHandover

-----------------------------------------------------------------------------
(* What the journal says *)

\* A stage that runs has just begun, or had its steps before.
LEMMA RunFrom ==
    ASSUME InForm, Spared, [Next]_vars, job'.kind \in Runs
    PROVE  \/ \E h \in Groups : StartMove(h)
           \/ \E first \in EdgeFirst : StartCutover(first)
           \/ StartFinish
           \/ Still
           \/ \E what \in Kinds, w \in Workloads \union {Host} : Effect(what, w)
           \/ Note
           \/ \E s \in Steps : FailFinish(s)
<1>1. ASSUME NEW e, Stops(e)  PROVE FALSE
  BY <1>1, KindsAre DEF Stops, Idle
<1>2. ASSUME EndRun \/ EndReplay \/ Crash \/ Unsettled  PROVE FALSE
  BY <1>1, <1>2, EndsAre
<1>3. ASSUME NEW g \in Groups \union {Host}, StartRollback(g)  PROVE FALSE
  BY <1>3, StartRollbackIs, KindsAre DEF Begun
<1>4. ASSUME NEW s \in Steps, FailMove(s)  PROVE FALSE
  BY <1>4, FailMoveIs, KindsAre DEF Begun
<1>5. ASSUME NEW s \in Steps, FailCutover(s)  PROVE FALSE
  BY <1>5, FailCutoverIs, KindsAre DEF Begun, Idle
<1>6. ASSUME NEW s \in Steps, Undo(s)  PROVE FALSE
  BY <1>6, UndoDoes, KindsAre
<1>7. ASSUME FailUndo  PROVE FALSE
  BY <1>7, KindsAre DEF FailUndo, InForm, JobType
<1>8. ASSUME UNCHANGED vars \/ \E w \in Workloads : Write(w)  PROVE Still
  BY <1>8, Zenon DEF vars, Write, Still
<1>9. ASSUME Step
      PROVE  Note \/ \E what \in Kinds, w \in Workloads \union {Host} : Effect(what, w)
  BY <1>2, <1>9, StepIs, Zenon
<1> QED  BY <1>2, <1>3, <1>4, <1>5, <1>6, <1>7, <1>8, <1>9, Zenon DEF Next

\* A replay has just begun, or had this to undo before.
LEMMA ReplayBy ==
    ASSUME InForm, Spared, [Next]_vars, job'.kind \in Replays
    PROVE  \/ \E g \in Groups \union {Host} : StartRollback(g)
           \/ \E s \in Steps : FailMove(s) \/ FailCutover(s) \/ Undo(s)
           \/ FailUndo
           \/ Still
<1>1. ASSUME NEW e, Stops(e)  PROVE FALSE
  BY <1>1, KindsAre DEF Stops, Idle
<1>2. ASSUME EndRun \/ EndReplay \/ Crash \/ Unsettled  PROVE FALSE
  BY <1>1, <1>2, EndsAre
<1>3. ASSUME Step  PROVE FALSE
  <2>1. \A what, w : Effect(what, w) => job'.kind \in Runs
    BY EffectHands
  <2>2. Note => job'.kind \in Runs
    BY NoteIs
  <2> QED  BY <1>2, <1>3, <2>1, <2>2, StepIs, KindsAre
<1>4. ASSUME NEW s \in Steps, FailFinish(s)  PROVE FALSE
  BY <1>4, KindsAre DEF FailFinish, InForm, JobType
<1>5. ASSUME \/ \E h \in Groups : StartMove(h)
             \/ \E first \in EdgeFirst : StartCutover(first)
             \/ StartFinish
      PROVE  FALSE
  BY <1>5, StartMoveIs, StartCutoverIs, StartFinishIs, KindsAre DEF Begun
<1>6. ASSUME UNCHANGED vars \/ \E w \in Workloads : Write(w)  PROVE Still
  BY <1>6, Zenon DEF vars, Write, Still
<1> QED  BY <1>2, <1>3, <1>4, <1>5, <1>6, Zenon DEF Next

\* What it undoes is in the journal.
LEMMA ReplayFrom ==
    ASSUME InForm, Spared, [Next]_vars, job'.kind \in Replays
    PROVE  IF job.kind \in Replays THEN ToSet(job'.todo) \subseteq ToSet(job.todo)
           ELSE /\ job.noting = NotNoted
                /\ ToSet(job'.todo) \subseteq ToSet(journal.live) \union ({"outright"} \X Workloads)
<1> DEFINE OW == {"outright"} \X Workloads
<1>1. ASSUME NEW g \in Groups \union {Host}, StartRollback(g)
      PROVE  /\ job.kind \notin Replays /\ job.noting = NotNoted
             /\ ToSet(job'.todo) \subseteq ToSet(journal.live)
  <2>1. job.kind = "idle" /\ job'.todo = Undoable(g)
    BY <1>1, StartRollbackIs DEF Begun, StartRollback
  <2>2. ToSet(Undoable(g)) \subseteq ToSet(journal.live)
    BY UndoableIs, TodoSeq
  <2> QED  BY <2>1, <2>2, KindsAre, IdleNotNoting
<1>2. ASSUME NEW s \in Steps, FailMove(s)
      PROVE  /\ job.kind \notin Replays /\ job.noting = NotNoted
             /\ ToSet(job'.todo) \subseteq ToSet(journal.live) \union OW
  <2>1. job.kind = "move" /\ job'.todo = UndoList(job.group) /\ job.group \in Groups
        /\ job.noting = NotNoted
    BY <1>2, FailMoveIs DEF Begun, FailMove, FailsWith
  <2>2. ToSet(UndoList(job.group)) \subseteq ToSet(journal.live) \union OW
    BY <2>1, UndoListIs, TodoSeq, StepsAre
  <2> QED  BY <2>1, <2>2, KindsAre
<1>3. ASSUME NEW s \in Steps, FailCutover(s)
      PROVE  /\ job.kind \notin Replays /\ job.noting = NotNoted
             /\ ToSet(job'.todo) \subseteq ToSet(journal.live)
  <2>1. job.kind = "cutover" /\ job.noting = NotNoted
    BY <1>3 DEF FailCutover, FailsWith
  <2>2. job'.todo = EdgeEntry
    BY <1>3, FailCutoverIs, KindsAre DEF Begun, Idle
  <2>3. ToSet(EdgeEntry) \subseteq ToSet(journal.live)
    <3> DEFINE U == Undoable(Host)  E == {<<"edge", Host>>}  LS == LiveStep \cap StepsOf(Host)
    <3>1. U \in Seq(LS) /\ ToSet(U) \subseteq ToSet(journal.live)
      BY UndoableIs, TodoSeq
    <3> HIDE DEF U, E, LS
    <3>2. ToSet(Only(U, E)) = ToSet(U) \cap E
      BY <3>1, OnlySet
    <3>3. EdgeEntry = Only(U, E)
      BY DEF EdgeEntry, U, E
    <3> QED  BY <3>1, <3>2, <3>3
  <2> QED  BY <2>1, <2>2, <2>3, KindsAre
<1>4. ASSUME NEW s \in Steps, Undo(s)
      PROVE  job.kind \in Replays /\ ToSet(job'.todo) \subseteq ToSet(job.todo)
  BY <1>4, UndoDoes, TodoTail
<1>5. ASSUME FailUndo
      PROVE  job.kind \in Replays /\ ToSet(job'.todo) \subseteq ToSet(job.todo)
  <2>1. job.kind \in Replays /\ job.todo # <<>> /\ job'.todo = Tail(job.todo)
    BY <1>5 DEF FailUndo, InForm, JobType
  <2> QED  BY <2>1, TodoTail
<1>6. ASSUME Still
      PROVE  job.kind \in Replays /\ ToSet(job'.todo) \subseteq ToSet(job.todo)
  BY <1>6 DEF Still
<1> QED  BY <1>1, <1>2, <1>3, <1>4, <1>5, <1>6, ReplayBy

\* What is removed of Dokploy's had started in Meshploy.
RemovesMoved ==
    job.kind = "finish" => \A w \in Workloads :
        <<"remove", w>> \in ToSet(job.todo) => Done("start", w)

\* What finish does leaves the other entries.
FinishKeeps ==
    /\ ToSet(job'.todo) \subseteq ToSet(job.todo)
    /\ journal.done \ FinishStep \subseteq journal'.done

LEMMA FinishFrom ==
    ASSUME InForm, Spared, [Next]_vars, job'.kind = "finish"
    PROVE  StartFinish \/ (job.kind = "finish" /\ FinishKeeps)
<1>1. ASSUME NEW h \in Groups, StartMove(h)  PROVE FALSE
  BY <1>1, StartMoveIs DEF Begun
<1>2. ASSUME NEW first \in EdgeFirst, StartCutover(first)  PROVE FALSE
  BY <1>2, StartCutoverIs DEF Begun
<1>3. ASSUME Still  PROVE job.kind = "finish" /\ FinishKeeps
  BY <1>3 DEF Still, FinishKeeps
<1>4. ASSUME NEW what \in Kinds, NEW w \in Workloads \union {Host}, Effect(what, w)
      PROVE  job.kind = "finish" /\ FinishKeeps
  BY <1>4, EffectHands, TodoTail DEF FinishKeeps
<1>5. ASSUME Note  PROVE job.kind = "finish" /\ FinishKeeps
  BY <1>5, NoteIs, TodoTail DEF FinishKeeps
<1>6. ASSUME NEW s \in Steps, FailFinish(s)  PROVE job.kind = "finish" /\ FinishKeeps
  <2>1. s \in FinishStep
    BY <1>6, FailFinishIs
  <2>2. job.kind = "finish" /\ job.todo # <<>> /\ job'.todo = Tail(job.todo)
        /\ journal'.done = journal.done \ {s}
    BY <1>6 DEF FailFinish, FailsWith, NotDone, InForm, JobType, JournalType
  <2> QED  BY <2>1, <2>2, TodoTail DEF FinishKeeps
<1> QED  BY <1>1, <1>2, <1>3, <1>4, <1>5, <1>6, RunFrom DEF Runs

LEMMA RemovesStep ==
    ASSUME InForm, Spared, RemovesMoved, [Next]_vars
    PROVE  RemovesMoved'
<1> SUFFICES ASSUME job'.kind = "finish", NEW w \in Workloads,
                    <<"remove", w>> \in ToSet(job'.todo)
             PROVE  <<"start", w>> \in journal'.done
  BY DEF RemovesMoved, Done, Workloads, Members
<1>1. CASE StartFinish
  <2>1. job'.todo = ToDo(FinishSteps) /\ journal' = journal
    BY <1>1, StartFinishIs DEF Begun, StartFinish
  <2>2. <<"remove", w>> \in ToSet(FinishSteps)
    BY <2>1, FinishStepsAre, ToDoIs, StepsAre
  <2> QED  BY <2>1, <2>2, FinishStepsAre DEF Done
<1>2. CASE job.kind = "finish" /\ FinishKeeps
  <2>1. <<"start", w>> \notin FinishStep
    BY DEF FinishStep
  <2> QED  BY <1>2, <2>1 DEF FinishKeeps, RemovesMoved, Done
<1> QED  BY <1>1, <1>2, FinishFrom

\* A copy is to be started again exactly when the migration stopped it;
TellsStops ==
    /\ \A w \in Workloads : ToUndo(<<"stop", w>>) <=> (was[w] = "up" /\ old[w] # "up")
    /\ \A w \in Workloads : old[w] = "up" => was[w] = "up"
    /\ \A w \in Workloads :
          (job.kind \in Replays /\ <<"stop", w>> \in ToSet(job.todo)) => was[w] = "up"

\* What has moved is down where it was.
LEMMA MovedIsDown ==
    ASSUME OnSides, NEW w \in Workloads, Done("start", w)
    PROVE  old[w] # "up"
<1>1. PICK g \in Groups : w \in Members(g)
  BY DEF Workloads
<1>2. <<"start", w>> \in StartsOf(g) /\ <<"stop", w>> \in StopsOf(g)
  BY <1>1 DEF StartsOf, StopsOf
<1>3. Recorded(journal, StartsOf(g), StopsOf(g))
  BY DEF OnSides, Ordered
<1>4. Done("stop", w)
  BY <1>2, <1>3 DEF Recorded, Done
<1> QED  BY <1>4 DEF OnSides, Sides

LEMMA TellsStopsStep ==
    ASSUME OnSides, RemovesMoved, TellsStops, [Next]_vars
    PROVE  TellsStops'
<1> DEFINE L == ToSet(journal.live)
           Lp == ToSet(journal'.live)
<1>1. InForm /\ PlacesType /\ Spared
  BY RestIs DEF OnSides, FormHolds
<1>2. ASSUME UNCHANGED <<was, old>>,
             \A w \in Workloads : ToUndo(<<"stop", w>>)' <=> ToUndo(<<"stop", w>>)
      PROVE  TellsStops'
  <2>1. ASSUME NEW w \in Workloads, job'.kind \in Replays, <<"stop", w>> \in ToSet(job'.todo)
        PROVE  was[w] = "up"
    <3>1. CASE job.kind \in Replays
      BY <1>1, <2>1, <3>1, ReplayFrom DEF TellsStops
    <3>2. CASE job.kind \notin Replays
      <4>1. <<"stop", w>> \in L
        BY <1>1, <2>1, <3>2, ReplayFrom
      <4> QED  BY <4>1 DEF TellsStops, ToUndo
    <3> QED  BY <3>1, <3>2
  <2> QED  BY <1>2, <2>1 DEF TellsStops
<1>3. ASSUME Quiet  PROVE TellsStops'
  BY <1>2, <1>3 DEF Quiet, ToUndo, NotNoted
<1>4. ASSUME Still  PROVE TellsStops'
  BY <1>2, <1>4 DEF Still, ToUndo
<1>5. ASSUME Note  PROVE TellsStops'
  BY <1>1, <1>2, <1>5, NoteIs DEF ToUndo, NotNoted
<1>6. ASSUME NEW s \in Steps, Failed(s)  PROVE TellsStops'
  BY <1>1, <1>2, <1>6, FailedIs DEF Failed, ToUndo, NotNoted
<1>7. ASSUME NEW s \in Steps, Undo(s)  PROVE TellsStops'
  <2>1. /\ job.noting = NotNoted /\ job'.noting = NotNoted /\ job.kind \in Replays
        /\ job.todo # <<>> /\ Head(job.todo) = s /\ job'.todo = Tail(job.todo)
        /\ Lp = L \ {s} /\ was' = was /\ UndoesOld(s)
    BY <1>1, <1>7, UndoDoes
  <2>2. ToSet(job.todo) = {s} \union ToSet(job'.todo)
    BY <1>1, <2>1, TodoTail
  <2>3. \A w \in Workloads : <<"stop", w>> = s <=> s[1] = "stop" /\ s[2] = w
    BY DEF Steps
  <2>4. \A w \in Workloads : <<"stop", w>> = s => was[w] = "up"
    BY <2>1, <2>2 DEF TellsStops
  <2>5. \A w \in Workloads : old'[w] = IF <<"stop", w>> = s THEN "up" ELSE old[w]
    <3>1. CASE s[1] = "stop"
      <4>1. old' = [old EXCEPT ![s[2]] = "up"]
        BY <2>1, <3>1 DEF UndoesOld
      <4> QED  BY <1>1, <2>3, <3>1, <4>1 DEF PlacesType
    <3>2. CASE s[1] # "stop"
      BY <2>1, <2>3, <3>2 DEF UndoesOld
    <3> QED  BY <3>1, <3>2
  <2>6. ASSUME NEW w \in Workloads
        PROVE  /\ ToUndo(<<"stop", w>>) <=> <<"stop", w>> \in L
               /\ ToUndo(<<"stop", w>>)' <=> (<<"stop", w>> \in L /\ <<"stop", w>> # s)
    BY <2>1 DEF ToUndo, NotNoted
  <2>7. \A w \in Workloads : ToUndo(<<"stop", w>>)' <=> (was'[w] = "up" /\ old'[w] # "up")
    BY <2>1, <2>4, <2>5, <2>6 DEF TellsStops
  <2>8. \A w \in Workloads : old'[w] = "up" => was'[w] = "up"
    BY <2>1, <2>4, <2>5 DEF TellsStops
  <2>9. \A w \in Workloads : <<"stop", w>> \in ToSet(job'.todo) => was'[w] = "up"
    BY <2>1, <2>2 DEF TellsStops
  <2> QED  BY <2>7, <2>8, <2>9 DEF TellsStops
<1>8. ASSUME NEW what \in Kinds, NEW w \in Workloads \union {Host}, Effect(what, w)
      PROVE  TellsStops'
  <2>1. /\ job.noting = NotNoted /\ journal' = journal /\ Head(job.todo) = <<what, w>>
        /\ job.todo # <<>> /\ job.kind \in Runs /\ job'.kind = job.kind
        /\ IF what \in Journalled
           THEN /\ job'.noting = IF Undone(what, w) THEN "undo" ELSE "plain"
                /\ job'.todo = job.todo
           ELSE job'.noting = NotNoted
    BY <1>1, <1>8, EffectHands
  <2>2. was' = was /\ job'.kind \notin Replays
    BY <1>8, <2>1, KindsAre DEF Effect
  <2>3. \A x \in Workloads : ToUndo(<<"stop", x>>) <=> <<"stop", x>> \in L
    BY <2>1 DEF ToUndo, NotNoted
  <2>4. CASE what \notin {"stop", "remove"}
    <3>1. old' = old
      BY <1>8, <2>4 DEF Effect
    <3>2. \A x \in Workloads : ToUndo(<<"stop", x>>)' <=> <<"stop", x>> \in L
      BY <2>1, <2>4 DEF ToUndo, NotNoted
    <3> QED  BY <2>2, <2>3, <3>1, <3>2 DEF TellsStops
  <2>5. CASE what = "stop"
    <3>1. old' = [old EXCEPT ![w] = IF @ = "up" THEN "down" ELSE @]
      BY <1>8, <2>5 DEF Effect
    <3>2. \A x \in Workloads :
            ToUndo(<<"stop", x>>)' <=> (<<"stop", x>> \in L \/ (x = w /\ old[w] = "up"))
      <4>1. Undone(what, w) <=> old[w] = "up"
        BY <2>5 DEF Undone
      <4>2. job'.noting = (IF Undone(what, w) THEN "undo" ELSE "plain") /\ job'.todo = job.todo
        BY <2>1, <2>5, KindsOf
      <4> QED  BY <2>1, <2>5, <4>1, <4>2 DEF ToUndo
    <3>3. \A x \in Workloads :
            old'[x] = IF x = w THEN IF old[w] = "up" THEN "down" ELSE old[w] ELSE old[x]
      BY <1>1, <3>1 DEF PlacesType
    <3> QED  BY <2>2, <2>3, <3>2, <3>3 DEF TellsStops
  <2>6. CASE what = "remove"
    <3>1. old' = [old EXCEPT ![w] = "gone"]
      BY <1>8, <2>6 DEF Effect
    <3>2. \A x \in Workloads : ToUndo(<<"stop", x>>)' <=> <<"stop", x>> \in L
      BY <2>1, <2>6 DEF ToUndo, NotNoted
    <3>3. w \in Workloads => old[w] # "up"
      <4> SUFFICES ASSUME w \in Workloads  PROVE Done("start", w)
        BY MovedIsDown
      <4>1. <<"remove", w>> \in ToSet(job.todo)
        BY <1>1, <2>1, <2>6, TodoTail
      <4>2. job.kind = "finish"
        BY <1>1, <2>1, <2>6, HeadIs DEF MoveStep, MoveKinds, CutoverStep, Runs
      <4> QED  BY <4>1, <4>2 DEF RemovesMoved
    <3>4. \A x \in Workloads : old'[x] = IF x = w THEN "gone" ELSE old[x]
      BY <1>1, <3>1 DEF PlacesType
    <3> QED  BY <2>2, <2>3, <3>2, <3>3, <3>4 DEF TellsStops
  <2> QED  BY <2>4, <2>5, <2>6
<1> QED  BY <1>1, <1>3, <1>4, <1>5, <1>6, <1>7, <1>8, StepKinds, Zenon

\* The ports are handed over exactly when the old edge is off them.  It is told to
\* go once in a cutover, when it has not been; finish keeps the entry.
TheEdge == <<"edge", Host>>

TellsEdge ==
    /\ (TheEdge \in journal.done \/ AtHand(TheEdge)) <=> edge.at # "ports"
    /\ job.kind = "cutover" =>
          /\ NoneAfter(job.todo, {TheEdge}, {TheEdge})
          /\ TheEdge \in ToSet(job.todo) => TheEdge \notin journal.done
    /\ job.kind = "finish" => TheEdge \in journal.done

Settled == budget["settle"] = 0

\* Which stages have it at hand.
LEMMA EdgeAtHand ==
    ASSUME InForm, job.todo # <<>>, NEW s \in Steps, Head(job.todo) = s
    PROVE  /\ s[1] = "edge" => s = TheEdge
           /\ (s = TheEdge /\ job.kind \in Runs) => job.kind = "cutover"
           /\ (s[1] = "platform" /\ job.kind \in Runs) => job.kind = "finish"
<1>1. s = <<s[1], s[2]>>
  BY DEF Steps
<1>2. CASE job.kind \in Runs
  <2>1. \/ job.kind = "move" /\ s[1] \in MoveKinds
        \/ job.kind = "cutover" /\ s \in CutoverStep
        \/ job.kind = "finish" /\ s \in FinishStep
    BY <1>2, HeadIs DEF MoveStep, Runs
  <2> QED  BY <1>1, <2>1 DEF MoveKinds, CutoverStep, FinishStep, TheEdge
<1>3. CASE job.kind \in Replays
  <2>1. s \in LiveStep \/ s[1] = "outright" \/ s = TheEdge
    BY <1>3, HeadIs DEF UndoStep, Replays, TheEdge
  <2> QED  BY <1>1, <1>3, <2>1, KindsAre DEF LiveStep, TheEdge
<1>4. job.kind \in Runs \union Replays
  BY DEF InForm, JobType, Stage
<1> QED  BY <1>2, <1>3, <1>4, KindsAre

LEMMA CutoverKeeps ==
    ASSUME InForm, Spared, TellsEdge, [Next]_vars, job'.kind = "cutover"
    PROVE  /\ NoneAfter(job'.todo, {TheEdge}, {TheEdge})
           /\ TheEdge \in ToSet(job'.todo) => TheEdge \notin journal'.done
<1>1. ASSUME NEW h \in Groups, StartMove(h)  PROVE FALSE
  BY <1>1, StartMoveIs DEF Begun
<1>2. ASSUME NEW first \in EdgeFirst, StartCutover(first)
      PROVE  /\ NoneAfter(job'.todo, {TheEdge}, {TheEdge})
             /\ TheEdge \in ToSet(job'.todo) => TheEdge \notin journal'.done
  <2> DEFINE C == CutoverSteps(first)
  <2>1. C \in Seq(CutoverStep) /\ NoneAfter(C, {TheEdge}, {TheEdge})
    BY CutoverStepsAre DEF TheEdge
  <2>2. job'.todo = ToDo(C) /\ journal' = journal
    BY <1>2, StartCutoverIs DEF Begun, StartCutover
  <2> HIDE DEF C
  <2>3. NoneAfter(ToDo(C), {TheEdge}, {TheEdge})
    BY <2>1, ToDoNone
  <2>4. ToSet(ToDo(C)) = ToSet(C) \ journal.done
    BY <2>1, ToDoIs, StepsAre
  <2> QED  BY <2>2, <2>3, <2>4
<1>3. ASSUME StartFinish  PROVE FALSE
  BY <1>3, StartFinishIs DEF Begun
<1>4. ASSUME Still
      PROVE  /\ NoneAfter(job'.todo, {TheEdge}, {TheEdge})
             /\ TheEdge \in ToSet(job'.todo) => TheEdge \notin journal'.done
  BY <1>4 DEF Still, TellsEdge
<1>5. ASSUME NEW what \in Kinds, NEW w \in Workloads \union {Host}, Effect(what, w)
      PROVE  /\ NoneAfter(job'.todo, {TheEdge}, {TheEdge})
             /\ TheEdge \in ToSet(job'.todo) => TheEdge \notin journal'.done
  <2>1. /\ job.kind = "cutover" /\ journal' = journal /\ job.todo # <<>>
        /\ job'.todo = job.todo \/ job'.todo = Tail(job.todo)
    BY <1>5, EffectHands
  <2> QED  BY <2>1, TodoTail DEF TellsEdge
<1>6. ASSUME Note
      PROVE  /\ NoneAfter(job'.todo, {TheEdge}, {TheEdge})
             /\ TheEdge \in ToSet(job'.todo) => TheEdge \notin journal'.done
  <2>1. /\ job.kind = "cutover" /\ job.todo # <<>> /\ job'.todo = Tail(job.todo)
        /\ journal'.done = journal.done \union {Head(job.todo)}
    BY <1>6, NoteIs
  <2>2. Head(job.todo) = TheEdge => TheEdge \notin ToSet(Tail(job.todo))
    BY <2>1, TodoTail DEF TellsEdge
  <2> QED  BY <2>1, <2>2, TodoTail DEF TellsEdge
<1>7. ASSUME NEW s \in Steps, FailFinish(s)  PROVE FALSE
  BY <1>7 DEF FailFinish, InForm, JobType
<1> QED  BY <1>1, <1>2, <1>3, <1>4, <1>5, <1>6, <1>7, RunFrom DEF Runs

LEMMA FinishKeepsEdge ==
    ASSUME InForm, Spared, TellsEdge, [Next]_vars, job'.kind = "finish"
    PROVE  TheEdge \in journal'.done
<1>1. CASE StartFinish
  BY <1>1 DEF StartFinish, Done, TheEdge
<1>2. CASE job.kind = "finish" /\ FinishKeeps
  <2>1. TheEdge \notin FinishStep
    BY DEF FinishStep, TheEdge
  <2> QED  BY <1>2, <2>1 DEF FinishKeeps, TellsEdge
<1> QED  BY <1>1, <1>2, FinishFrom

\* The edge is off the ports exactly from when it is told to go, or removed, until
\* its entry is undone.
LEMMA TellsEdgeStep ==
    ASSUME InForm, PlacesType, BudgetType, Spared, Settled, TellsEdge, [Next]_vars
    PROVE  TellsEdge'
<1> DEFINE Noted == TheEdge \in journal.done \/ AtHand(TheEdge)
           Gone == edge.at # "ports"
<1>1. /\ job'.kind = "cutover" =>
            /\ NoneAfter(job'.todo, {TheEdge}, {TheEdge})
            /\ TheEdge \in ToSet(job'.todo) => TheEdge \notin journal'.done
      /\ job'.kind = "finish" => TheEdge \in journal'.done
  BY CutoverKeeps, FinishKeepsEdge
<1>2. Noted <=> Gone
  BY DEF TellsEdge
<1>3. ASSUME Quiet  PROVE Noted' <=> Gone'
  <2>1. ~ Unsettled
    BY DEF Unsettled, Spend, Settled, BudgetType
  <2> QED  BY <1>2, <1>3, <2>1 DEF Quiet, AtHand, NotNoted
<1>4. ASSUME Still  PROVE Noted' <=> Gone'
  BY <1>2, <1>4 DEF Still, AtHand
<1>5. ASSUME Note  PROVE Noted' <=> Gone'
  <2>1. /\ job.noting # NotNoted /\ job'.noting = NotNoted /\ edge' = edge
        /\ journal'.done = journal.done \union {Head(job.todo)}
    BY <1>5, NoteIs DEF Note
  <2> QED  BY <1>2, <2>1 DEF AtHand
<1>6. ASSUME NEW s \in Steps, Failed(s)  PROVE Noted' <=> Gone'
  <2>1. /\ job.kind \in Runs /\ job.todo # <<>> /\ Head(job.todo) = s /\ edge' = edge
        /\ job.noting = NotNoted /\ job'.noting = NotNoted
        /\ journal'.done = journal.done \ {s}
    BY <1>6, FailedIs DEF Failed
  <2>2. s = TheEdge => TheEdge \notin journal.done
    BY <2>1, EdgeAtHand, TodoTail DEF TellsEdge
  <2> QED  BY <1>2, <2>1, <2>2 DEF AtHand
<1>7. ASSUME NEW s \in Steps, Undo(s)  PROVE Noted' <=> Gone'
  <2>1. /\ job.todo # <<>> /\ Head(job.todo) = s
        /\ job.noting = NotNoted /\ job'.noting = NotNoted
        /\ journal'.done = journal.done \ {s} /\ UndoesEdge(s)
    BY <1>7, UndoDoes
  <2>2. s[1] = "edge" <=> s = TheEdge
    BY <2>1, EdgeAtHand DEF TheEdge
  <2>3. edge'.at = IF s[1] = "edge" THEN "ports" ELSE edge.at
    BY <2>1 DEF UndoesEdge, PlacesType
  <2> QED  BY <1>2, <2>1, <2>2, <2>3 DEF AtHand
<1>8. ASSUME NEW what \in Kinds, NEW w \in Workloads \union {Host}, Effect(what, w)
      PROVE  Noted' <=> Gone'
  <2>1. /\ job.noting = NotNoted /\ job.kind \in Runs /\ journal' = journal
        /\ job.todo # <<>> /\ Head(job.todo) = <<what, w>>
        /\ what \in Journalled => job'.noting # NotNoted /\ job'.todo = job.todo
        /\ what \notin Journalled => job'.noting = NotNoted
    BY <1>8, EffectHands DEF NotNoted
  <2>2. <<what, w>> \in Steps
    BY DEF Steps
  <2>3. /\ what = "edge" => w = Host
        /\ what = "platform" => job.kind = "finish"
    BY <2>1, <2>2, EdgeAtHand DEF TheEdge
  <2>4. AtHand(TheEdge)' <=> what = "edge"
    <3>1. what = "edge" => what \in Journalled
      BY KindsOf
    <3> QED  BY <2>1, <2>3, <3>1 DEF AtHand, TheEdge
  <2>5. edge'.at = IF what = "edge" THEN (IF job.first THEN "side" ELSE "down")
                   ELSE IF what = "platform" THEN "gone" ELSE edge.at
    BY <1>8 DEF Effect, EffectOnEdge, PlacesType
  <2>6. what = "platform" => TheEdge \in journal.done
    BY <2>3 DEF TellsEdge
  <2> QED  BY <1>2, <2>1, <2>4, <2>5, <2>6 DEF AtHand
<1>9. Noted' <=> Gone'
  BY <1>3, <1>4, <1>5, <1>6, <1>7, <1>8, StepKinds, Zenon
<1> QED  BY <1>1, <1>9 DEF TellsEdge, NoneAfter, ToSet, TheEdge

-----------------------------------------------------------------------------
(* The journal is true *)

Told ==
    OnSides /\ Settled /\ RemovesMoved /\ TellsStops /\ TellsEdge

LEMMA ToldInit ==
    ASSUME Init, Clean, Budget["settle"] = 0
    PROVE  Told
<1>1. RemovesMoved /\ Settled
  BY DEF Init, RemovesMoved, Settled
<1>2. TellsStops
  BY KindsAre DEF Init, TellsStops, ToUndo, NotNoted, ToSet
<1>3. TellsEdge
  BY DEF Init, TellsEdge, AtHand, NotNoted
<1> QED  BY <1>1, <1>2, <1>3, SidesInit DEF Told

LEMMA ToldStep ==
    ASSUME Told, [Next]_vars
    PROVE  Told'
<1>1. InForm /\ PlacesType /\ BudgetType /\ Spared
  BY RestIs DEF Told, OnSides, FormHolds
<1>2. Settled'
  <2>1. "settle" \in Expenses
    BY DEF Expenses, Wrong
  <2> QED  BY <1>1, <2>1, BudgetStep DEF Told, Settled
<1>3. OnSides' /\ RemovesMoved'
  BY <1>1, OnSidesStep, RemovesStep DEF Told
<1>4. TellsStops' /\ TellsEdge'
  BY <1>1, TellsStopsStep, TellsEdgeStep DEF Told
<1> QED  BY <1>2, <1>3, <1>4 DEF Told

LEMMA AlwaysTold == Spec /\ Clean /\ Budget["settle"] = 0 => []Told
<1>1. Init /\ Clean /\ Budget["settle"] = 0 => Told
  BY ToldInit
<1>2. Told /\ [Next]_vars => Told'
  BY ToldStep
<1> QED  BY <1>1, <1>2, PTL DEF Spec

\* Between two steps, whatever was tried, undone, cut short and resumed, the
\* journal has that the ports were handed over exactly when the old edge is off
\* them, and a stop to undo exactly for what the migration stopped.
THEOREM JournalIsTrue == Spec /\ Clean /\ Budget["settle"] = 0 => []JournalTells
<1>1. Told => JournalTells
  BY DEF Told, JournalTells, TellsStops, TellsEdge, ToUndo, AtHand, Done, TheEdge, NotNoted
<1> QED  BY <1>1, AlwaysTold, PTL

-----------------------------------------------------------------------------
(* A stack is started once its services are up *)

LEMMA JoinedNone ==
    ASSUME NEW S, NEW seqs \in Seq(Seq(S)), NEW X, NEW Y,
           \A i \in DOMAIN seqs : NoneAfter(seqs[i], X, Y),
           \A i, j \in DOMAIN seqs :
                i < j => ToSet(seqs[i]) \cap X = {} \/ ToSet(seqs[j]) \cap Y = {}
    PROVE  NoneAfter(FlattenSeq(seqs), X, Y)
<1>1. CASE seqs = <<>>
  BY <1>1 DEF FlattenSeq, NoneAfter
<1>2. CASE seqs # <<>>
  <2>1. PICK k \in [1 .. Len(seqs) -> Seq(S)] :
          JoinOf(seqs, Len(seqs), k) /\ FlattenSeq(seqs) = k[Len(seqs)]
    BY <1>2, FlattenIs
  <2>2. /\ Len(seqs) \in Nat /\ Len(seqs) >= 1 /\ DOMAIN seqs = 1 .. Len(seqs)
        /\ \A i \in 1 .. Len(seqs) : seqs[i] \in Seq(S)
    BY <1>2
  <2>3. \A i \in 1 .. Len(seqs) : k[i] \in Seq(S)
    OBVIOUS
  <2> DEFINE None(n) == (\A i \in 1 .. n : ToSet(seqs[i]) \cap X = {}) => ToSet(k[n]) \cap X = {}
             Fine(n) == NoneAfter(k[n], X, Y) /\ None(n)
             Bad == {n \in Nat : 1 <= n /\ n <= Len(seqs) /\ ~ Fine(n)}
  <2>4. Fine(1)
    BY <2>1, <2>2 DEF JoinOf
  <2>5. ASSUME NEW n \in 2 .. Len(seqs), Fine(n - 1)  PROVE Fine(n)
    <3>1. n - 1 \in 1 .. Len(seqs) /\ n \in 1 .. Len(seqs) /\ \A i \in 1 .. n - 1 : i \in 1 .. n /\ i < n
      BY <2>2
    <3> DEFINE before == k[n - 1]
               added == seqs[n]
    <3>2. before \in Seq(S) /\ added \in Seq(S) /\ NoneAfter(before, X, Y) /\ NoneAfter(added, X, Y)
      BY <2>2, <2>3, <2>5, <3>1
    <3>3. ToSet(before) \cap X = {} \/ ToSet(added) \cap Y = {}
      <4>1. SUFFICES ASSUME ToSet(added) \cap Y # {}  PROVE ToSet(before) \cap X = {}
        OBVIOUS
      <4>2. ASSUME NEW i \in 1 .. n - 1  PROVE ToSet(seqs[i]) \cap X = {}
        <5>1. i \in DOMAIN seqs /\ n \in DOMAIN seqs /\ i < n
          BY <2>2, <3>1
        <5>2. ToSet(seqs[i]) \cap X = {} \/ ToSet(seqs[n]) \cap Y = {}
          BY <5>1
        <5> QED  BY <4>1, <5>2
      <4>3. None(n - 1)
        BY <2>5
      <4> QED  BY <4>2, <4>3
    <3>4. k[n] = before \o added
      BY <2>1 DEF JoinOf
    <3>5. (\A i \in 1 .. n : ToSet(seqs[i]) \cap X = {})
              => ToSet(before) \cap X = {} /\ ToSet(added) \cap X = {}
      BY <2>2, <2>5, <3>1
    <3> HIDE DEF before, added
    <3>6. NoneAfter(before \o added, X, Y)
      BY <3>2, <3>3, ConcatNone
    <3>7. ToSet(before \o added) = ToSet(before) \union ToSet(added)
      BY <3>2, ConcatSet
    <3> QED  BY <3>4, <3>5, <3>6, <3>7
  <2> HIDE DEF Fine
  <2>6. Bad = {}
    <3> SUFFICES ASSUME Bad # {}  PROVE FALSE
      OBVIOUS
    <3>1. PICK n \in Bad : \A m \in Bad : n <= m
      BY LeastNatural
    <3>2. n \in Nat /\ 1 <= n /\ n <= Len(seqs) /\ ~ Fine(n)
      BY <3>1
    <3>3. n # 1
      BY <2>4, <3>2
    <3>4. n \in 2 .. Len(seqs) /\ n - 1 \in Nat /\ 1 <= n - 1 /\ n - 1 <= Len(seqs) /\ n - 1 \notin Bad
      BY <2>2, <3>1, <3>2, <3>3
    <3>5. Fine(n - 1)
      BY <3>4
    <3> QED  BY <2>5, <3>2, <3>4, <3>5
  <2>7. Fine(Len(seqs))
    <3>1. Len(seqs) \notin Bad
      BY <2>6
    <3> QED  BY <2>2, <3>1
  <2> QED  BY <2>1, <2>7 DEF Fine
<1> QED  BY <1>1, <1>2

LEMMA StartNone ==
    ASSUME NEW v, NEW w \in Stacks
    PROVE  NoneAfter(Start(v), {<<"start", w>>}, {<<"service", w>>})
<1>1. CASE v = w
  <2> DEFINE a == <<"service", w>>  b == <<"healthy", w>>  c == <<"start", w>>  q == <<a, b, c>>
  <2>1. Start(w) = q
    BY DEF Start
  <2>2. a # c /\ b # c
    OBVIOUS
  <2> HIDE DEF a, b, c
  <2>3. DOMAIN q = {1, 2, 3} /\ q[1] = a /\ q[2] = b /\ q[3] = c
    OBVIOUS
  <2> HIDE DEF q
  <2>4. NoneAfter(q, {c}, {a})
    <3> SUFFICES ASSUME NEW i \in {1, 2, 3}, NEW j \in {1, 2, 3}, i < j, q[i] = c  PROVE FALSE
      BY <2>3 DEF NoneAfter
    <3>1. i = 3
      BY <2>2, <2>3
    <3> QED  BY <3>1
  <2> QED  BY <1>1, <2>1, <2>4 DEF a, c
<1>2. CASE v # w
  <2> DEFINE S == {"service", "healthy", "start"} \X {v}
  <2>1. Start(v) \in Seq(S)
    BY StartIs
  <2>2. <<"start", w>> \notin S
    BY <1>2
  <2> HIDE DEF S
  <2>3. ToSet(Start(v)) \cap {<<"start", w>>} = {}
    BY <2>1, <2>2, InSeq
  <2> QED  BY <2>1, <2>3, ApartNone
<1> QED  BY <1>1, <1>2

LEMMA StartAllNone ==
    ASSUME NEW S, NEW ws \in Seq(S), IsInjective(ws), NEW w \in Stacks
    PROVE  NoneAfter(StartAll(ws), {<<"start", w>>}, {<<"service", w>>})
<1> DEFINE P == {"service", "healthy", "start"} \X S
           X == {<<"start", w>>}
           Y == {<<"service", w>>}
           f == [i \in DOMAIN ws |-> Start(ws[i])]
<1>1. Len(ws) \in Nat /\ DOMAIN ws = 1 .. Len(ws) /\ \A i \in 1 .. Len(ws) : ws[i] \in S
  OBVIOUS
<1>2. ASSUME NEW i \in 1 .. Len(ws)  PROVE Start(ws[i]) \in Seq(P)
  <2> DEFINE v == ws[i]
             Q == {"service", "healthy", "start"} \X {v}
  <2>1. Start(v) \in Seq(Q)
    BY StartIs
  <2>2. Q \subseteq P
    BY <1>1
  <2> HIDE DEF Q, P
  <2>3. Start(v) \in Seq(P)
    BY <2>1, <2>2, SeqIn
  <2> QED  BY <2>3
<1>3. ASSUME NEW i \in 1 .. Len(ws), ws[i] # w
      PROVE  ToSet(Start(ws[i])) \cap X = {} /\ ToSet(Start(ws[i])) \cap Y = {}
  <2> DEFINE v == ws[i]
             Q == {"service", "healthy", "start"} \X {v}
  <2>1. Start(v) \in Seq(Q)
    BY StartIs
  <2>2. X \cap Q = {} /\ Y \cap Q = {}
    BY <1>3
  <2> HIDE DEF Q, X, Y
  <2>3. ToSet(Start(v)) \subseteq Q
    BY <2>1, InSeq
  <2> QED  BY <2>2, <2>3
<1>4. \A i \in 1 .. Len(ws) : NoneAfter(Start(ws[i]), X, Y)
  BY StartNone
<1>5. \A i, j \in 1 .. Len(ws) : i < j => ws[i] # w \/ ws[j] # w
  BY <1>1 DEF IsInjective
<1> HIDE DEF P, X, Y
<1>6. f \in [1 .. Len(ws) -> Seq(P)]
  BY <1>1, <1>2
<1>7. f \in Seq(Seq(P)) /\ DOMAIN f = 1 .. Len(ws) /\ \A i \in 1 .. Len(ws) : f[i] = Start(ws[i])
  BY <1>1, <1>6
<1>8. StartAll(ws) = FlattenSeq(f)
  BY DEF StartAll
<1> HIDE DEF f
<1>9. \A i \in DOMAIN f : NoneAfter(f[i], X, Y)
  BY <1>4, <1>7
<1>10. \A i, j \in DOMAIN f : i < j => ToSet(f[i]) \cap X = {} \/ ToSet(f[j]) \cap Y = {}
  BY <1>3, <1>5, <1>7
<1>11. NoneAfter(FlattenSeq(f), X, Y)
  BY <1>7, <1>9, <1>10, JoinedNone
<1> QED  BY <1>8, <1>11 DEF X, Y

\* Services are deployed of stacks, and before these count as started.
LEMMA BringUpStacks ==
    ASSUME NEW g \in Groups
    PROVE  /\ \A w \in Members(g) : <<"service", w>> \in ToSet(BringUp(g)) <=> w \in Stacks
           /\ \A w \in Members(g) \cap Stacks :
                NoneAfter(BringUp(g), {<<"start", w>>}, {<<"service", w>>})
<1> DEFINE M == Members(g)
           dbs == Databases[g]
           apps == Applications[g]
           PB == {"service", "healthy", "start"} \X ToSet(dbs)
           PD == {"service", "healthy", "start"} \X M
           PO == {"copy", "restore"} \X M
           P == {"copy", "restore", "service", "healthy", "start"} \X M
           A == Each("copy", Only(dbs \o apps, Copied))
           B == StartAll(dbs)
           C == Each("restore", Only(dbs, Dumped))
           D == StartAll(apps)
<1>1. apps \in Seq(M) /\ dbs \in Seq(M) /\ dbs \in Seq(ToSet(dbs))
  BY ListsAre, SeqWithin
<1>2. Only(dbs, Dumped) \in Seq(M)
  <2>1. Only(dbs, Dumped) \in Seq(M \cap Dumped)
    BY <1>1, OnlySet
  <2> QED  BY <2>1
<1>3. Only(dbs \o apps, Copied) \in Seq(M)
  <2> DEFINE all == dbs \o apps
  <2>1. all \in Seq(M)
    BY <1>1, ConcatSet
  <2> HIDE DEF all
  <2>2. Only(all, Copied) \in Seq(M \cap Copied)
    BY <2>1, OnlySet
  <2> QED  BY <2>2 DEF all
<1>4. /\ A \in Seq({"copy"} \X M) /\ C \in Seq({"restore"} \X M)
      /\ B \in Seq(PB) /\ ToSet(B) = UNION {ToSet(Start(w)) : w \in ToSet(dbs)}
      /\ D \in Seq(PD) /\ ToSet(D) = UNION {ToSet(Start(w)) : w \in ToSet(apps)}
  BY <1>1, <1>2, <1>3, EachIs, StartAllIs
<1>5. /\ {"copy"} \X M \subseteq PO /\ {"restore"} \X M \subseteq PO
      /\ PO \subseteq P /\ PB \subseteq P /\ PD \subseteq P
  BY DEF Members
<1>6. BringUp(g) = ((A \o B) \o C) \o D
  BY DEF BringUp
<1>7. \A w : <<"service", w>> \notin PO /\ <<"start", w>> \notin PO
  OBVIOUS
<1>8. \A w \in M \cap Stacks : w \in ToSet(apps) /\ w \notin ToSet(dbs)
  <2> TAKE w \in M \cap Stacks
  <2>1. PICK h \in Groups : w \in ToSet(Applications[h])
    BY MigrationAssumption
  <2>2. w \in Members(h)
    BY <2>1 DEF Members
  <2>3. h = g
    BY <2>2, MigrationAssumption
  <2> QED  BY <2>1, <2>3, MigrationAssumption
<1>9. \A w : <<"start", w>> \in PB => w \in ToSet(dbs)
  OBVIOUS
<1>10. \A v, w : <<"service", w>> \in ToSet(Start(v)) <=> v = w /\ v \in Stacks
  <2> SUFFICES ASSUME NEW v, NEW w
               PROVE  <<"service", w>> \in ToSet(Start(v)) <=> v = w /\ v \in Stacks
    OBVIOUS
  <2> DEFINE T == ToSet(Start(v))
  <2>1. T = IF v \in Stacks THEN {<<"service", v>>, <<"healthy", v>>, <<"start", v>>}
            ELSE {<<"start", v>>, <<"healthy", v>>}
    BY StartIs
  <2> HIDE DEF T
  <2>2. <<"service", w>> \in T <=> v = w /\ v \in Stacks
    BY <2>1
  <2> QED  BY <2>2 DEF T
<1>11. \A w \in M : w \in ToSet(dbs) \/ w \in ToSet(apps)
  BY DEF Members
<1>12. IsInjective(apps)
  BY MigrationAssumption
<1>13. \A w \in M \cap Stacks : NoneAfter(D, {<<"start", w>>}, {<<"service", w>>})
  BY <1>1, <1>12, StartAllNone
<1> HIDE DEF A, B, C, D, P, PB, PD, PO, dbs, apps, M
<1>14. /\ A \in Seq(PO) /\ C \in Seq(PO)
       /\ ToSet(A) \subseteq PO /\ ToSet(B) \subseteq PB /\ ToSet(C) \subseteq PO
  BY <1>4, <1>5, SeqIn, InSeq
<1>15. A \in Seq(P) /\ B \in Seq(P) /\ C \in Seq(P) /\ D \in Seq(P)
  BY <1>4, <1>5, <1>14, SeqIn
<1> DEFINE AB == A \o B
<1>16. AB \in Seq(P) /\ ToSet(AB) = ToSet(A) \union ToSet(B)
  BY <1>15, ConcatSet
<1>17. BringUp(g) = (AB \o C) \o D
  BY <1>6
<1> HIDE DEF AB
<1> DEFINE ABC == AB \o C
<1>18. ABC \in Seq(P) /\ ToSet(ABC) = ToSet(AB) \union ToSet(C)
  BY <1>15, <1>16, ConcatSet
<1>19. BringUp(g) = ABC \o D
  BY <1>17
<1> HIDE DEF ABC
<1>20. ToSet(ABC \o D) = ToSet(ABC) \union ToSet(D)
  BY <1>15, <1>18, ConcatSet
<1>21. ASSUME NEW w \in M
       PROVE  <<"service", w>> \in ToSet(BringUp(g)) <=> w \in Stacks
  <2> DEFINE y == <<"service", w>>
  <2>1. y \notin ToSet(A) /\ y \notin ToSet(C)
    BY <1>7, <1>14
  <2>2. y \in ToSet(BringUp(g)) <=> y \in ToSet(B) \/ y \in ToSet(D)
    BY <1>16, <1>18, <1>19, <1>20, <2>1
  <2>3. y \in ToSet(B) <=> w \in ToSet(dbs) /\ w \in Stacks
    BY <1>4, <1>10
  <2>4. y \in ToSet(D) <=> w \in ToSet(apps) /\ w \in Stacks
    BY <1>4, <1>10
  <2> QED  BY <1>11, <2>2, <2>3, <2>4
<1>22. ASSUME NEW w \in M \cap Stacks
       PROVE  NoneAfter(BringUp(g), {<<"start", w>>}, {<<"service", w>>})
  <2> DEFINE x == <<"start", w>>  y == <<"service", w>>
  <2>1. x \notin ToSet(ABC)
    BY <1>7, <1>8, <1>9, <1>14, <1>16, <1>18
  <2>2. NoneAfter(D, {x}, {y})
    BY <1>13
  <2> HIDE DEF x, y
  <2>3. NoneAfter(ABC, {x}, {y})
    BY <1>18, <2>1, ApartNone
  <2>4. NoneAfter(ABC \o D, {x}, {y})
    BY <1>15, <1>18, <2>1, <2>2, <2>3, ConcatNone
  <2> QED  BY <1>19, <2>4 DEF x, y
<1> QED  BY <1>21, <1>22 DEF M

LEMMA MoveStacks ==
    ASSUME NEW g \in Groups
    PROVE  /\ \A w : <<"service", w>> \in ToSet(MoveSteps(g)) <=> w \in Members(g) \cap Stacks
           /\ \A w \in Members(g) \cap Stacks :
                NoneAfter(MoveSteps(g), {<<"start", w>>}, {<<"service", w>>})
<1> DEFINE S == MoveStep(g)  C == BringUp(g)
<1>1. PICK a \in Seq(S), d \in Seq(S) :
              /\ MoveSteps(g) = a \o (C \o d) /\ C \in Seq(S)
              /\ ToSet(a) \subseteq {"ready", "stop", "dump"} \X Members(g)
              /\ ToSet(d) \subseteq {"tcp", "domain", "publish", "probe"} \X Members(g)
  BY MoveIs
<1>2. /\ \A w : <<"start", w>> \notin ToSet(a) /\ <<"service", w>> \notin ToSet(a)
      /\ \A w : <<"start", w>> \notin ToSet(d) /\ <<"service", w>> \notin ToSet(d)
  BY <1>1
<1>3. \A w : <<"service", w>> \in S => w \in Members(g)
  BY DEF MoveStep
<1> DEFINE r == C \o d
<1> HIDE DEF S, C
<1>4. r \in Seq(S) /\ ToSet(r) = ToSet(C) \union ToSet(d) /\ ToSet(C) \subseteq S
  BY <1>1, ConcatSet, InSeq
<1> HIDE DEF r
<1>5. ToSet(a \o r) = ToSet(a) \union ToSet(r) /\ MoveSteps(g) = a \o r
  <2>1. ToSet(a \o r) = ToSet(a) \union ToSet(r)
    BY <1>1, <1>4, ConcatSet
  <2>2. MoveSteps(g) = a \o r
    BY <1>1 DEF r
  <2> QED  BY <2>1, <2>2
<1>6. \A w : <<"service", w>> \in ToSet(MoveSteps(g)) <=> w \in Members(g) \cap Stacks
  BY <1>2, <1>3, <1>4, <1>5, BringUpStacks DEF C
<1>7. ASSUME NEW w \in Members(g) \cap Stacks
      PROVE  NoneAfter(MoveSteps(g), {<<"start", w>>}, {<<"service", w>>})
  <2> DEFINE x == <<"start", w>>  y == <<"service", w>>
  <2>1. x \notin ToSet(a) /\ x \notin ToSet(d) /\ y \notin ToSet(d)
    BY <1>2
  <2>2. NoneAfter(C, {x}, {y})
    BY BringUpStacks DEF C
  <2> HIDE DEF x, y
  <2>3. NoneAfter(a, {x}, {y}) /\ NoneAfter(d, {x}, {y})
    BY <1>1, <2>1, ApartNone
  <2>4. NoneAfter(C \o d, {x}, {y})
    BY <1>1, <2>1, <2>2, <2>3, ConcatNone
  <2>5. NoneAfter(a \o r, {x}, {y})
    BY <1>1, <1>4, <2>1, <2>3, <2>4, ConcatNone DEF r
  <2> QED  BY <1>5, <2>5 DEF x, y
<1> QED  BY <1>6, <1>7

-----------------------------------------------------------------------------
(* What started runs *)

\* A service of a stack is the only one that is deployed;
ServiceOfStack ==
    \A s \in ToSet(job.todo) \union ToSet(journal.live) : s[1] = "service" => s[2] \in Stacks

LEMMA TodoFrom ==
    ASSUME InForm, Spared, ServiceOfStack, [Next]_vars, NEW s \in ToSet(job'.todo), s[1] = "service"
    PROVE  s[2] \in Stacks
<1>1. InForm'
  BY FormStep
<1>2. ASSUME NEW S, job'.todo \in Seq(S)  PROVE s \in S
  BY <1>2, InSeq
<1>3. CASE job'.kind = "idle"
  BY <1>1, <1>3 DEF InForm, Stage, ToSet
<1>4. CASE job'.kind \in Runs
  <2>1. ASSUME NEW h \in Groups, StartMove(h)  PROVE s[2] \in Stacks
    <3>1. job'.todo = ToDo(MoveSteps(h))
      BY <2>1, StartMoveIs DEF Begun
    <3>2. MoveSteps(h) \in Seq(MoveStep(h)) /\ MoveStep(h) \subseteq Steps
      BY MoveStepsAre, StepsAre
    <3>3. s \in ToSet(MoveSteps(h)) /\ s \in MoveStep(h)
      BY <1>2, <3>1, <3>2, ToDoIs
    <3>4. s = <<"service", s[2]>>
      BY <3>3 DEF MoveStep
    <3> QED  BY <3>3, <3>4, MoveStacks
  <2>2. ASSUME job'.kind \in {"cutover", "finish"}  PROVE FALSE
    <3>1. s \in CutoverStep \union FinishStep
      BY <1>1, <1>2, <2>2 DEF InForm, Stage
    <3> QED  BY <3>1 DEF CutoverStep, FinishStep
  <2>3. ASSUME NEW first \in EdgeFirst, StartCutover(first)  PROVE FALSE
    BY <2>2, <2>3, StartCutoverIs DEF Begun
  <2>4. ASSUME StartFinish  PROVE FALSE
    BY <2>2, <2>4, StartFinishIs DEF Begun
  <2>5. ASSUME NEW what \in Kinds, NEW w \in Workloads \union {Host}, Effect(what, w)
        PROVE  s[2] \in Stacks
    <3>1. job.todo # <<>> /\ (job'.todo = job.todo \/ job'.todo = Tail(job.todo))
      BY <2>5, EffectHands
    <3> QED  BY <3>1, TodoTail DEF ServiceOfStack
  <2>6. ASSUME Note  PROVE s[2] \in Stacks
    BY <2>6, NoteIs, TodoTail DEF ServiceOfStack
  <2>7. ASSUME NEW f \in Steps, FailFinish(f)  PROVE s[2] \in Stacks
    <3>1. job.todo # <<>> /\ job'.todo = Tail(job.todo)
      BY <2>7 DEF FailFinish, FailsWith, InForm, JobType
    <3> QED  BY <3>1, TodoTail DEF ServiceOfStack
  <2>8. ASSUME Still  PROVE s[2] \in Stacks
    BY <2>8 DEF Still, ServiceOfStack
  <2> QED  BY <1>4, <2>1, <2>3, <2>4, <2>5, <2>6, <2>7, <2>8, RunFrom
<1>5. CASE job'.kind \in Replays
  <2>1. s \in ToSet(job.todo) \union ToSet(journal.live) \union ({"outright"} \X Workloads)
    BY <1>5, ReplayFrom
  <2> QED  BY <2>1 DEF ServiceOfStack
<1> QED  BY <1>1, <1>3, <1>4, <1>5 DEF InForm, JobType

LEMMA ServiceStep ==
    ASSUME InForm, Spared, ServiceOfStack, [Next]_vars
    PROVE  ServiceOfStack'
<1> SUFFICES ASSUME NEW s \in ToSet(journal'.live), s[1] = "service"  PROVE s[2] \in Stacks
  BY TodoFrom DEF ServiceOfStack
<1>1. CASE s \in ToSet(journal.live)
  BY <1>1 DEF ServiceOfStack
<1>2. CASE s \notin ToSet(journal.live)
  <2>1. ASSUME Quiet \/ Still  PROVE FALSE
    BY <1>2, <2>1 DEF Quiet, Still
  <2>2. ASSUME NEW what \in Kinds, NEW w \in Workloads \union {Host}, Effect(what, w)  PROVE FALSE
    BY <1>2, <2>2, EffectHands
  <2>3. ASSUME NEW f \in Steps, Failed(f) \/ Undo(f)  PROVE FALSE
    BY <1>2, <2>3, FailedIs, UndoDoes
  <2>4. CASE Note
    <3>1. job.todo # <<>> /\ s = Head(job.todo)
      BY <1>2, <2>4, NoteIs
    <3>2. s \in ToSet(job.todo)
      BY <3>1, TodoTail
    <3> QED  BY <3>2 DEF ServiceOfStack
  <2> QED  BY <2>1, <2>2, <2>3, <2>4, StepKinds
<1> QED  BY <1>1, <1>2

\* it is stopped after the stack no longer counts as started,
StackOrder(w) == Ordered(GroupOf(w), {<<"start", w>>}, {<<"service", w>>})

LEMMA GroupOfIs ==
    ASSUME NEW w \in Workloads
    PROVE  GroupOf(w) \in Groups /\ w \in Members(GroupOf(w))
  BY DEF GroupOf, Workloads

LEMMA StackPair ==
    ASSUME NEW w \in Workloads
    PROVE  Pair(GroupOf(w), {<<"start", w>>}, {<<"service", w>>})
  BY GroupOfIs DEF Pair

LEMMA StackOrderStep ==
    ASSUME NEW w \in Workloads \cap Stacks, Clean, InForm, PlainNoted, StackOrder(w), [Next]_vars
    PROVE  StackOrder(w)'
<1> DEFINE g == GroupOf(w)  X == {<<"start", w>>}  Y == {<<"service", w>>}
<1>1. /\ g \in Groups /\ w \in Members(g) \cap Stacks /\ Pair(g, X, Y) /\ Ordered(g, X, Y)
  BY GroupOfIs, StackPair DEF StackOrder
<1>2. NoneAfter(MoveSteps(g), X, Y) /\ Y \subseteq ToSet(MoveSteps(g))
  BY <1>1, MoveStacks
<1> HIDE DEF g, X, Y
<1>3. Ordered(g, X, Y)'
  BY <1>1, <1>2, OrderedStep
<1> QED  BY <1>3 DEF StackOrder, g, X, Y, GroupOf, Members

\* and in the undo of a move every copy is stopped outright after what the
\* journal has of the group is undone.
OutrightLast ==
    job.kind = "undo" =>
        /\ NoneAfter(job.todo, {"outright"} \X Workloads, StartsOf(job.group))
        /\ StartsOf(job.group) \cap ToSet(journal.live) \subseteq ToSet(job.todo)

LEMMA OutrightStep ==
    ASSUME InForm, Spared, Clean, OutrightLast, [Next]_vars
    PROVE  OutrightLast'
<1> DEFINE OW == {"outright"} \X Workloads
           Fine(todo, g, live) == /\ NoneAfter(todo, OW, StartsOf(g))
                                  /\ StartsOf(g) \cap ToSet(live) \subseteq ToSet(todo)
<1>1. SUFFICES ASSUME job'.kind = "undo"  PROVE Fine(job'.todo, job'.group, journal'.live)
  BY DEF OutrightLast, StartsOf, NoneAfter, ToSet, Members, Workloads
<1>2. job.kind = "undo" => Fine(job.todo, job.group, journal.live)
  BY DEF OutrightLast
<1>3. ASSUME NEW s \in Steps, FailMove(s)  PROVE Fine(job'.todo, job'.group, journal'.live)
  <2> DEFINE g == job.group
  <2>1. g \in Groups /\ job'.todo = UndoList(g) /\ job'.group = g
    BY <1>3, FailMoveIs DEF Begun
  <2>2. journal'.live = journal.live
    BY <1>3 DEF FailMove, NotDone, InForm, JournalType
  <2>3. StartsOf(g) \subseteq LiveStep /\ StartsOf(g) \subseteq StepsOf(g)
    BY <2>1, SidesPair, PairIn
  <2> HIDE DEF g
  <2>4. /\ ToSet(journal.live) \cap StepsOf(g) \subseteq ToSet(UndoList(g))
        /\ NoneAfter(UndoList(g), OW, LiveStep)
    BY <2>1, TodoSeq, UndoListIs
  <2>5. NoneAfter(UndoList(g), OW, StartsOf(g))
    BY <2>3, <2>4 DEF NoneAfter
  <2> QED  BY <2>1, <2>2, <2>3, <2>4, <2>5
<1>4. ASSUME NEW s \in Steps, Undo(s)  PROVE Fine(job'.todo, job'.group, journal'.live)
  <2>1. /\ job.kind = "undo" /\ job'.group = job.group /\ job'.todo = Tail(job.todo)
        /\ job.todo # <<>> /\ Head(job.todo) = s
        /\ ToSet(journal'.live) = ToSet(journal.live) \ {s}
    BY <1>1, <1>4, UndoDoes
  <2> QED  BY <1>2, <2>1, TodoTail
<1>5. ASSUME FailUndo  PROVE Fine(job'.todo, job'.group, journal'.live)
  <2> DEFINE s == Head(job.todo)
  <2>1. /\ job.kind = "undo" /\ job'.group = job.group /\ job'.todo = Tail(job.todo)
        /\ job.todo # <<>> /\ journal' = journal
    BY <1>1, <1>5 DEF FailUndo, InForm, JobType
  <2>2. CanUndo(s) => s[1] \in UndoFails
    BY <1>5 DEF FailUndo
  <2>3. s \notin StartsOf(job.group)
    BY <2>2 DEF CanUndo, Clean, StartsOf
  <2> QED  BY <1>2, <2>1, <2>3, TodoTail
<1>6. ASSUME Still  PROVE Fine(job'.todo, job'.group, journal'.live)
  BY <1>1, <1>2, <1>6 DEF Still
<1>7. ASSUME NEW g \in Groups \union {Host}, StartRollback(g)  PROVE FALSE
  BY <1>1, <1>7, StartRollbackIs DEF Begun
<1>8. ASSUME NEW s \in Steps, FailCutover(s)  PROVE FALSE
  BY <1>1, <1>8, FailCutoverIs DEF Begun, Idle
<1> QED  BY <1>1, <1>3, <1>4, <1>5, <1>6, <1>7, <1>8, ReplayBy, KindsAre

\* What the journal says started runs.
StartedRuns == \A w \in Workloads : (Done("start", w) \/ AtHand(<<"start", w>>)) => new[w]

LEMMA StartedRunsStep ==
    ASSUME OnSides, ServiceOfStack, \A w \in Workloads \cap Stacks : StackOrder(w), OutrightLast,
           StartedRuns, [Next]_vars
    PROVE  StartedRuns'
<1>1. InForm /\ PlacesType /\ Spared
  BY RestIs DEF OnSides, FormHolds
<1> SUFFICES ASSUME NEW w \in Workloads, (Done("start", w) \/ AtHand(<<"start", w>>))'
             PROVE  new'[w]
  BY DEF StartedRuns, Workloads, Members
<1> DEFINE st == <<"start", w>>
<1>2. st \in journal'.done \/ (job'.noting # NotNoted /\ Head(job'.todo) = st)
  BY DEF Done, AtHand
<1>3. st \in journal.done \/ (job.noting # NotNoted /\ Head(job.todo) = st) => new[w]
  BY DEF StartedRuns, Done, AtHand
<1>4. CASE Quiet \/ Still
  BY <1>2, <1>3, <1>4 DEF Quiet, Still
<1>5. CASE Note
  BY <1>1, <1>2, <1>3, <1>5, NoteIs DEF Noting, NotNoted
<1>6. ASSUME NEW s \in Steps, Failed(s)  PROVE new'[w]
  BY <1>1, <1>2, <1>3, <1>6, FailedIs DEF Failed
<1>7. ASSUME NEW what \in Kinds, NEW v \in Workloads \union {Host}, Effect(what, v)  PROVE new'[w]
  <2>1. /\ job.noting = NotNoted /\ journal' = journal /\ Head(job.todo) = <<what, v>>
        /\ what \in Journalled => job'.todo = job.todo
        /\ what \notin Journalled => job'.noting = NotNoted
    BY <1>1, <1>7, EffectHands
  <2>2. new' = IF what \in {"start", "service"} THEN [new EXCEPT ![v] = TRUE] ELSE new
    BY <1>7 DEF Effect
  <2>3. new[w] \/ (what = "start" /\ v = w)
    BY <1>2, <1>3, <2>1
  <2> QED  BY <1>1, <2>2, <2>3 DEF PlacesType
<1>8. ASSUME NEW s \in Steps, Undo(s)  PROVE new'[w]
  <2>1. /\ job.noting = NotNoted /\ job'.noting = NotNoted /\ job.kind \in Replays
        /\ job.todo # <<>> /\ Head(job.todo) = s /\ journal'.done = journal.done \ {s}
        /\ UndoesNew(s)
    BY <1>1, <1>8, UndoDoes
  <2>2. st \in journal.done /\ st # s /\ new[w]
    BY <1>2, <1>3, <2>1
  <2>3. s \in ToSet(job.todo) /\ s = <<s[1], s[2]>>
    BY <1>1, <2>1, TodoTail DEF Steps
  <2>4. ASSUME s = <<"service", w>>  PROVE FALSE
    <3> DEFINE X == {st}  Y == {<<"service", w>>}
    <3>1. w \in Stacks
      BY <2>3, <2>4 DEF ServiceOfStack
    <3>2. /\ X \cap journal.done \subseteq ToSet(journal.live)
          /\ NoneAfter(job.todo, Y, X)
          /\ Y \cap ToSet(job.todo) # {} => X \cap ToSet(journal.live) \subseteq ToSet(job.todo)
      BY <2>1, <3>1 DEF StackOrder, Ordered, Recorded, Staged
    <3>3. s \in Y /\ s \notin X
      BY <2>4
    <3> HIDE DEF X, Y
    <3>4. X \cap ToSet(Tail(job.todo)) = {}
      BY <1>1, <2>1, <3>2, <3>3, TodoTail
    <3>5. X \cap ToSet(job.todo) = {}
      BY <1>1, <2>1, <3>3, <3>4, TodoTail
    <3>6. X \cap journal.done = {}
      BY <2>3, <3>2, <3>3, <3>5
    <3> QED  BY <2>2, <3>6 DEF X
  <2>5. ASSUME s = <<"outright", w>>  PROVE FALSE
    <3> DEFINE g == job.group
    <3>1. job.kind = "undo" /\ g \in Groups /\ s \in UndoStep(g)
      <4>1. s \notin LiveStep /\ s # <<"edge", Host>>
        BY <2>5 DEF LiveStep
      <4> QED  BY <1>1, <2>1, <4>1, HeadIs DEF Replays
    <3>2. w \in Members(g)
      BY <2>5, <3>1 DEF UndoStep, LiveStep
    <3>3. st \in StartsOf(g) /\ s \notin StartsOf(g) /\ s \in {"outright"} \X Workloads
      BY <2>5, <3>2 DEF StartsOf
    <3>4. /\ NoneAfter(job.todo, {"outright"} \X Workloads, StartsOf(g))
          /\ StartsOf(g) \cap ToSet(journal.live) \subseteq ToSet(job.todo)
      BY <3>1 DEF OutrightLast
    <3>5. StartsOf(g) \cap journal.done \subseteq ToSet(journal.live)
      BY <3>1 DEF OnSides, Ordered, Recorded
    <3> HIDE DEF g
    <3>6. ToSet(Tail(job.todo)) \cap StartsOf(g) = {}
      BY <1>1, <2>1, <3>3, <3>4, TodoTail
    <3>7. ToSet(job.todo) \cap StartsOf(g) = {}
      BY <1>1, <2>1, <3>3, <3>6, TodoTail
    <3> QED  BY <2>2, <3>3, <3>4, <3>5, <3>7
  <2>6. s[1] \in {"start", "service", "outright"} => s[2] # w
    BY <2>2, <2>3, <2>4, <2>5
  <2> QED  BY <1>1, <2>1, <2>2, <2>6 DEF UndoesNew, PlacesType
<1> QED  BY <1>1, <1>4, <1>5, <1>6, <1>7, <1>8, StepKinds

-----------------------------------------------------------------------------
(* What is removed runs *)

TheAgent == <<"agent", Host>>
TheEnd == <<"complete", Host>>

\* The credential is revoked before finish is complete, and nothing but finish
\* and its end follows.
Ending ==
    /\ TheEnd \in journal.done => TheAgent \in journal.done /\ job.kind \in {"idle", "finish"}
    /\ job.kind = "finish" =>
          /\ {TheAgent, TheEnd} \subseteq journal.done \union ToSet(job.todo)
          /\ NoneAfter(job.todo, {TheEnd}, {TheAgent})

Revoked == budget["revoke"] = 0

\* The credential is revoked at the first attempt.
LEMMA RevokeHolds ==
    ASSUME BudgetType, Revoked, NEW s, FailsWith(s)
    PROVE  s # TheAgent
<1> SUFFICES ASSUME s = TheAgent  PROVE FALSE
  OBVIOUS
<1>1. s[1] = "agent"
  BY DEF TheAgent
<1>2. ~ Spend("revoke") /\ ~ Refused(s)
  BY <1>1 DEF Spend, Revoked, BudgetType, Refused
<1> QED  BY <1>1, <1>2 DEF FailsWith

\* What may fail of finish.
LEMMA FailedEnd ==
    ASSUME InForm, BudgetType, Revoked, NEW s \in Steps, Failed(s)
    PROVE  /\ s # TheAgent
           /\ job.kind = "finish" => s \in FinishStep
           /\ s = TheEnd => job.kind = "finish"
<1>1. s # TheAgent
  BY RevokeHolds DEF Failed
<1>2. job.kind = "finish" => s \in FinishStep
  BY HeadIs DEF Failed
<1>3. s = TheEnd => job.kind = "finish"
  <2>1. TheEnd \notin CutoverStep /\ \A g : TheEnd \notin MoveStep(g)
    BY DEF TheEnd, CutoverStep, MoveStep, MoveKinds
  <2> QED  BY <2>1, HeadIs DEF Failed, Runs
<1> QED  BY <1>1, <1>2, <1>3

\* Finish goes on until it is complete.
LEMMA FinishOnly ==
    ASSUME InForm, Spared, Ending, job.kind = "finish", [Next]_vars
    PROVE  \/ job'.kind = "finish"
           \/ job'.kind = "idle" /\ journal' = journal /\ TheEnd \in journal.done
<1>1. ASSUME \/ \E g \in Groups : StartMove(g)
             \/ \E first \in EdgeFirst : StartCutover(first)
             \/ StartFinish
             \/ \E g \in Groups \union {Host} : StartRollback(g)
             \/ \E s \in Steps : FailMove(s) \/ FailCutover(s) \/ Undo(s)
             \/ FailUndo \/ EndReplay
      PROVE  FALSE
  <2>1. job.kind \in {"idle", "move", "cutover"} \union Replays
    BY <1>1, Zenon DEF StartMove, StartCutover, StartFinish, StartRollback, FailMove,
         FailCutover, Undo, UndoOf, FailUndo, EndReplay
  <2> QED  BY <2>1 DEF Replays
<1>2. ASSUME Crash  PROVE FALSE
  <2>1. Torn
    BY DEF Torn
  <2>2. Spend("torn")
    BY <1>2, <2>1 DEF Crash
  <2> QED  BY <2>2 DEF Spend, Spared
<1>3. CASE EndRun
  <2>1. job.todo = <<>> /\ journal' = journal /\ job'.kind = "idle"
    BY <1>3, EndsAre DEF EndRun, Stops, Idle
  <2>2. ToSet(job.todo) = {}
    BY <2>1 DEF ToSet
  <2> QED  BY <2>1, <2>2 DEF Ending
<1>4. CASE Step
  <2>1. ~ Unsettled
    <3> SUFFICES ASSUME Unsettled  PROVE FALSE
      OBVIOUS
    <3>1. job.todo # <<>> /\ Head(job.todo) = TheEdge
      BY DEF Unsettled, At, TheEdge
    <3>2. TheEdge \notin FinishStep
      BY DEF TheEdge, FinishStep
    <3> QED  BY <3>1, <3>2, HeadIs
  <2> QED  BY <1>4, <2>1, StepIs, EffectHands, NoteIs
<1>5. ASSUME NEW s \in Steps, FailFinish(s)  PROVE job'.kind = "finish"
  BY <1>5 DEF FailFinish, InForm, JobType
<1>6. ASSUME UNCHANGED vars \/ \E w \in Workloads : Write(w)  PROVE job' = job
  BY <1>6, Zenon DEF vars, Write
<1> QED  BY <1>1, <1>2, <1>3, <1>4, <1>5, <1>6 DEF Next

\* Once it is complete, nothing starts.
LEMMA NothingStarts ==
    ASSUME InForm, Spared, Ending, job.kind = "idle", TheEnd \in journal.done, [Next]_vars
    PROVE  job'.kind = "idle" /\ journal' = journal
<1>1. TheAgent \in journal.done
  BY DEF Ending
<1>2. ASSUME \/ \E g \in Groups : StartMove(g)
             \/ \E first \in EdgeFirst : StartCutover(first)
             \/ StartFinish
             \/ \E g \in Groups \union {Host} : StartRollback(g)
      PROVE  FALSE
  BY <1>1, <1>2, Zenon
     DEF StartMove, StartCutover, StartFinish, StartRollback, Finished, Done, TheAgent, TheEnd
<1>3. ASSUME \/ \E s \in Steps : FailMove(s) \/ FailCutover(s) \/ FailFinish(s) \/ Undo(s)
             \/ FailUndo \/ EndRun \/ EndReplay \/ Crash
      PROVE  FALSE
  <2>1. job.kind # "idle" \/ job.kind \in Runs \union Replays
    BY <1>3, Zenon DEF FailMove, FailCutover, FailFinish, Undo, UndoOf, FailUndo, EndRun, EndReplay,
         Crash
  <2> QED  BY <2>1, KindsAre
<1>4. ~ Step
  <2>1. ~ Unsettled
    BY KindsAre DEF Unsettled, At
  <2> QED  BY <2>1, StepIs, EffectHands, NoteIs, KindsAre
<1>5. ASSUME UNCHANGED vars \/ \E w \in Workloads : Write(w)  PROVE job' = job /\ journal' = journal
  BY <1>5, Zenon DEF vars, Write
<1> QED  BY <1>2, <1>3, <1>4, <1>5, Zenon DEF Next

LEMMA FinishLeft ==
    ASSUME InForm, BudgetType, Spared, Revoked, Ending, [Next]_vars, job'.kind = "finish"
    PROVE  /\ {TheAgent, TheEnd} \subseteq journal'.done \union ToSet(job'.todo)
           /\ NoneAfter(job'.todo, {TheEnd}, {TheAgent})
<1>1. ASSUME NEW h \in Groups, StartMove(h)  PROVE FALSE
  BY <1>1, StartMoveIs DEF Begun
<1>2. ASSUME NEW first \in EdgeFirst, StartCutover(first)  PROVE FALSE
  BY <1>2, StartCutoverIs DEF Begun
<1> DEFINE Left == /\ {TheAgent, TheEnd} \subseteq journal'.done \union ToSet(job'.todo)
                   /\ NoneAfter(job'.todo, {TheEnd}, {TheAgent})
<1>3. ASSUME StartFinish  PROVE Left
  <2> DEFINE F == FinishSteps
  <2>1. /\ F \in Seq(FinishStep) /\ {TheAgent, TheEnd} \subseteq ToSet(F)
        /\ NoneAfter(F, {TheEnd}, {TheAgent})
    BY FinishStepsAre DEF TheAgent, TheEnd
  <2>2. job'.todo = ToDo(F) /\ journal' = journal
    BY <1>3, StartFinishIs DEF Begun, StartFinish
  <2> HIDE DEF F
  <2>3. NoneAfter(ToDo(F), {TheEnd}, {TheAgent})
    BY <2>1, ToDoNone
  <2>4. ToSet(ToDo(F)) = ToSet(F) \ journal.done
    BY <2>1, ToDoIs, StepsAre
  <2> QED  BY <2>1, <2>2, <2>3, <2>4
<1>4. ASSUME Still  PROVE Left
  BY <1>4 DEF Still, Ending
<1>5. ASSUME NEW what \in Kinds, NEW w \in Workloads \union {Host}, Effect(what, w)  PROVE Left
  <2>1. /\ job.kind = "finish" /\ journal' = journal /\ job.todo # <<>>
        /\ Head(job.todo) = <<what, w>>
        /\ job'.todo = IF what \in Journalled THEN job.todo ELSE Tail(job.todo)
    BY <1>5, EffectHands
  <2>2. what \notin Journalled => <<what, w>> \notin {TheAgent, TheEnd}
    BY KindsOf DEF TheAgent, TheEnd
  <2>3. CASE what \in Journalled
    BY <2>1, <2>3 DEF Ending
  <2>4. CASE what \notin Journalled
    <3>1. NoneAfter(job.todo, {TheEnd}, {TheAgent})
      BY <2>1 DEF Ending
    <3>2. /\ ToSet(job.todo) = {Head(job.todo)} \union ToSet(Tail(job.todo))
          /\ NoneAfter(Tail(job.todo), {TheEnd}, {TheAgent})
      BY <2>1, <3>1, TodoTail
    <3>3. job'.todo = Tail(job.todo)
      BY <2>1, <2>4
    <3> QED  BY <2>1, <2>2, <2>4, <3>2, <3>3 DEF Ending
  <2> QED  BY <2>3, <2>4
<1>6. ASSUME Note  PROVE Left
  <2>1. /\ job.kind = "finish" /\ job.todo # <<>> /\ job'.todo = Tail(job.todo)
        /\ journal'.done = journal.done \union {Head(job.todo)}
    BY <1>6, NoteIs
  <2> QED  BY <2>1, TodoTail DEF Ending
<1>7. ASSUME NEW s \in Steps, FailFinish(s)  PROVE Left
  <2>1. /\ job.kind = "finish" /\ job.todo # <<>> /\ Head(job.todo) = s /\ s[1] # "complete"
        /\ job'.todo = Tail(job.todo) /\ journal'.done = journal.done \ {s}
    BY <1>7 DEF FailFinish, FailsWith, NotDone, InForm, JobType, JournalType
  <2>2. s # TheAgent
    BY <1>7, RevokeHolds DEF FailFinish
  <2>3. s # TheEnd
    BY <2>1 DEF TheEnd
  <2> QED  BY <2>1, <2>2, <2>3, TodoTail DEF Ending
<1> QED  BY <1>1, <1>2, <1>3, <1>4, <1>5, <1>6, <1>7, RunFrom DEF Runs


LEMMA EndingStep ==
    ASSUME InForm, BudgetType, Spared, Revoked, Ending, [Next]_vars
    PROVE  Ending'
<1>1. ASSUME TheEnd \in journal'.done, TheEnd \notin journal.done
      PROVE  TheAgent \in journal'.done /\ job'.kind = "finish"
  <2>1. CASE Note
    <3>1. /\ job.kind \in Runs /\ job.todo # <<>> /\ job'.kind = job.kind
          /\ journal'.done = journal.done \union {Head(job.todo)} /\ Head(job.todo) = TheEnd
      BY <1>1, <2>1, NoteIs
    <3>2. job.kind = "finish"
      <4>1. TheEnd \notin CutoverStep /\ \A g : TheEnd \notin MoveStep(g)
        BY DEF TheEnd, CutoverStep, MoveStep, MoveKinds
      <4> QED  BY <3>1, <4>1, HeadIs DEF Runs
    <3>3. TheAgent # TheEnd
      BY DEF TheAgent, TheEnd
    <3>4. TheAgent \notin ToSet(job.todo)
      BY <3>1, <3>2, <3>3, TodoTail DEF Ending
    <3> QED  BY <3>1, <3>2, <3>4 DEF Ending
  <2>2. ASSUME Quiet \/ Still  PROVE FALSE
    BY <1>1, <2>2 DEF Quiet, Still
  <2>3. ASSUME NEW what \in Kinds, NEW w \in Workloads \union {Host}, Effect(what, w)  PROVE FALSE
    BY <1>1, <2>3, EffectHands
  <2>4. ASSUME NEW s \in Steps, Failed(s) \/ Undo(s)  PROVE FALSE
    BY <1>1, <2>4, FailedIs, UndoDoes
  <2> QED  BY <2>1, <2>2, <2>3, <2>4, StepKinds
<1>2. ASSUME TheEnd \in journal'.done, TheEnd \in journal.done
      PROVE  TheAgent \in journal'.done /\ job'.kind \in {"idle", "finish"}
  <2>1. TheAgent \in journal.done /\ job.kind \in {"idle", "finish"}
    BY <1>2 DEF Ending
  <2>2. job'.kind \in {"idle", "finish"}
    BY <1>2, <2>1, FinishOnly, NothingStarts
  <2>3. TheAgent \in journal'.done
    <3>1. ASSUME Quiet \/ Still  PROVE TheAgent \in journal'.done
      BY <2>1, <3>1 DEF Quiet, Still
    <3>2. ASSUME NEW what \in Kinds, NEW w \in Workloads \union {Host}, Effect(what, w)
          PROVE  TheAgent \in journal'.done
      BY <2>1, <3>2, EffectHands
    <3>3. ASSUME Note  PROVE TheAgent \in journal'.done
      BY <2>1, <3>3, NoteIs
    <3>4. ASSUME NEW s \in Steps, Failed(s)  PROVE TheAgent \in journal'.done
      BY <2>1, <3>4, FailedIs, FailedEnd
    <3>5. ASSUME NEW s \in Steps, Undo(s)  PROVE FALSE
      BY <2>1, <3>5, UndoDoes, KindsAre DEF Replays
    <3> QED  BY <3>1, <3>2, <3>3, <3>4, <3>5, StepKinds
  <2> QED  BY <2>2, <2>3
<1>3. TheEnd \in journal'.done => TheAgent \in journal'.done /\ job'.kind \in {"idle", "finish"}
  BY <1>1, <1>2
<1>4. job'.kind = "finish" =>
        /\ {TheAgent, TheEnd} \subseteq journal'.done \union ToSet(job'.todo)
        /\ NoneAfter(job'.todo, {TheEnd}, {TheAgent})
  BY FinishLeft
<1> QED  BY <1>3, <1>4 DEF Ending, TheAgent, TheEnd, NoneAfter, ToSet

\* What is gone of Dokploy's has started in Meshploy, and cannot be undone: finish
\* runs, or is complete.
GoneStarted ==
    \A w \in Workloads : old[w] = "gone" =>
        Done("start", w) /\ (job.kind = "finish" \/ TheEnd \in journal.done)

LEMMA GoneStartedStep ==
    ASSUME InForm, PlacesType, BudgetType, Spared, Revoked, RemovesMoved, Ending, GoneStarted,
           [Next]_vars
    PROVE  GoneStarted'
<1> SUFFICES ASSUME NEW w \in Workloads, old'[w] = "gone"
             PROVE  /\ <<"start", w>> \in journal'.done
                    /\ job'.kind = "finish" \/ TheEnd \in journal'.done
  BY DEF GoneStarted, Done, Workloads, Members, TheEnd
<1> DEFINE st == <<"start", w>>
<1>1. CASE old[w] = "gone"
  <2>1. st \in journal.done /\ job.kind \in {"idle", "finish"}
    BY <1>1 DEF GoneStarted, Done, Ending
  <2>2. job'.kind = "finish" \/ TheEnd \in journal'.done
    BY <1>1, <2>1, FinishOnly, NothingStarts DEF GoneStarted
  <2>3. st \in journal'.done
    <3>1. ASSUME Quiet \/ Still  PROVE st \in journal'.done
      BY <2>1, <3>1 DEF Quiet, Still
    <3>2. ASSUME NEW what \in Kinds, NEW v \in Workloads \union {Host}, Effect(what, v)
          PROVE  st \in journal'.done
      BY <2>1, <3>2, EffectHands
    <3>3. ASSUME Note  PROVE st \in journal'.done
      BY <2>1, <3>3, NoteIs
    <3>4. ASSUME NEW s \in Steps, Failed(s)  PROVE st \in journal'.done
      <4>1. job.kind = "finish"
        BY <2>1, <3>4, KindsAre DEF Failed
      <4>2. s \in FinishStep
        BY <3>4, <4>1, FailedEnd
      <4>3. st \notin FinishStep
        BY DEF FinishStep
      <4> QED  BY <2>1, <3>4, <4>2, <4>3, FailedIs
    <3>5. ASSUME NEW s \in Steps, Undo(s)  PROVE FALSE
      BY <2>1, <3>5, UndoDoes, KindsAre DEF Replays
    <3> QED  BY <3>1, <3>2, <3>3, <3>4, <3>5, StepKinds
  <2> QED  BY <2>2, <2>3
<1>2. CASE old[w] # "gone"
  <2>1. ASSUME Quiet \/ Still \/ Note  PROVE FALSE
    BY <1>2, <2>1, NoteIs DEF Quiet, Still
  <2>2. ASSUME NEW s \in Steps, Failed(s)  PROVE FALSE
    BY <1>2, <2>2 DEF Failed
  <2>3. ASSUME NEW s \in Steps, Undo(s)  PROVE FALSE
    <3>1. UndoesOld(s)
      BY <2>3, UndoDoes
    <3> QED  BY <1>2, <3>1 DEF UndoesOld, PlacesType
  <2>4. ASSUME NEW what \in Kinds, NEW v \in Workloads \union {Host}, Effect(what, v)
        PROVE  st \in journal'.done /\ job'.kind = "finish"
    <3>1. /\ job.kind \in Runs /\ job'.kind = job.kind /\ journal' = journal
          /\ job.todo # <<>> /\ Head(job.todo) = <<what, v>>
      BY <2>4, EffectHands
    <3>2. what = "remove" /\ v = w
      BY <1>2, <2>4 DEF Effect, PlacesType
    <3>3. job.kind = "finish"
      BY <3>1, <3>2, HeadIs DEF MoveStep, MoveKinds, CutoverStep, Runs
    <3>4. <<"remove", w>> \in ToSet(job.todo)
      BY <3>1, <3>2, TodoTail
    <3> QED  BY <3>1, <3>3, <3>4 DEF RemovesMoved, Done
  <2> QED  BY <2>1, <2>2, <2>3, <2>4, StepKinds
<1> QED  BY <1>1, <1>2

Removing ==
    /\ OnSides /\ Revoked /\ RemovesMoved /\ Ending /\ GoneStarted
    /\ ServiceOfStack /\ OutrightLast /\ StartedRuns
    /\ \A w \in Workloads \cap Stacks : StackOrder(w)

LEMMA RemovingInit ==
    ASSUME Init, Clean, Budget["revoke"] = 0
    PROVE  Removing
<1>1. OnSides /\ Revoked
  BY SidesInit DEF Init, Revoked
<1>2. RemovesMoved /\ Ending /\ OutrightLast
  BY DEF Init, RemovesMoved, Ending, OutrightLast
<1>3. GoneStarted
  BY DEF Init, GoneStarted
<1>4. ServiceOfStack /\ StartedRuns
  BY DEF Init, ServiceOfStack, StartedRuns, Done, AtHand, ToSet, NotNoted
<1>5. \A w \in Workloads \cap Stacks : StackOrder(w)
  BY EmptyOrdered DEF StackOrder
<1> QED  BY <1>1, <1>2, <1>3, <1>4, <1>5 DEF Removing

LEMMA RemovingStep ==
    ASSUME Removing, [Next]_vars
    PROVE  Removing'
<1>1. InForm /\ PlacesType /\ BudgetType /\ Spared /\ Clean /\ PlainNoted
  BY RestIs DEF Removing, OnSides, FormHolds
<1>2. Revoked'
  <2>1. "revoke" \in Expenses
    BY DEF Expenses, Wrong
  <2> QED  BY <1>1, <2>1, BudgetStep DEF Removing, Revoked
<1>3. OnSides' /\ RemovesMoved'
  BY <1>1, OnSidesStep, RemovesStep DEF Removing
<1>4. Ending' /\ GoneStarted'
  BY <1>1, EndingStep, GoneStartedStep DEF Removing
<1>5. ServiceOfStack' /\ OutrightLast' /\ StartedRuns'
  BY <1>1, ServiceStep, OutrightStep, StartedRunsStep DEF Removing
<1>6. ASSUME NEW w \in Workloads \cap Stacks  PROVE StackOrder(w)'
  BY <1>1, StackOrderStep DEF Removing
<1>7. (\A w \in Workloads \cap Stacks : StackOrder(w))'
  BY <1>6 DEF Workloads, Members
<1> QED  BY <1>2, <1>3, <1>4, <1>5, <1>7 DEF Removing

LEMMA AlwaysRemoving == Spec /\ Clean /\ Budget["revoke"] = 0 => []Removing
<1>1. Init /\ Clean /\ Budget["revoke"] = 0 => Removing
  BY RemovingInit
<1>2. Removing /\ [Next]_vars => Removing'
  BY RemovingStep
<1> QED  BY <1>1, <1>2, PTL DEF Spec

\* Dokploy's copy of a workload is removed only while Meshploy's runs: whatever
\* order the groups were moved, put back and moved again in, what the journal says
\* started has not been stopped, and nothing is put back once finish has begun.
THEOREM RemovedAlwaysRuns == Spec /\ Clean /\ Budget["revoke"] = 0 => []RemovedRuns
<1>1. Removing => RemovedRuns
  BY DEF Removing, RemovedRuns, GoneStarted, StartedRuns
<1> QED  BY <1>1, AlwaysRemoving, PTL

-----------------------------------------------------------------------------
(* Who holds the ports *)

TheUp == <<"up", Host>>
Caddy == <<"caddy", Host>>
Probes == {"probe"} \X Workloads
HostStep == CutoverStep \ Probes

\* The ports change hands once (migration_recut shows what a second cutover does),
\* and Meshploy's edge can be stopped.
ChangesOnce == budget["recut"] = 0 /\ "up" \notin UndoFails

\* What is left of a cutover: Meshploy's edge is started, at once found to be up,
\* and nothing but probes follows.
CutoverLeft ==
    job.kind = "cutover" =>
        /\ NoneAfter(job.todo, {Caddy}, HostStep \ {TheUp})
        /\ NoneAfter(job.todo, Probes, {TheUp})
        /\ NoneAfter(job.todo, {TheUp}, HostStep)
        /\ HostStep \cap ToSet(job.todo) # {} => TheUp \in ToSet(job.todo)
        /\ TheUp \in ToSet(job.todo) => TheUp \notin journal.done

\* The old edge has the ports unless it was told to go, and Meshploy's has them
\* exactly when the journal has that it is up, or is about to have it.
UpNext == job.kind = "cutover" /\ job.todo # <<>> /\ Head(job.todo) = TheUp

PortsTold ==
    /\ edge.at = "ports" => edge.ports = "old"
    /\ (TheUp \in journal.done \/ AtHand(TheUp)) => edge.ports = "caddy"
    /\ edge.ports = "caddy" => TheUp \in journal.done \/ UpNext

\* Both entries have an undo, the old edge's first.
EdgesLive ==
    /\ TheUp \in journal.done <=> TheUp \in ToSet(journal.live)
    /\ TheEdge \in journal.done => TheEdge \in ToSet(journal.live)
    /\ AtHand(TheUp) \/ AtHand(TheEdge) => job.noting = "undo"
    /\ NoneAfter(journal.live, {TheUp}, {TheEdge})

\* and it is undone last.
EdgeUndoneLast ==
    (job.kind \in Replays /\ TheEdge \in ToSet(job.todo)) =>
        /\ NoneAfter(job.todo, {TheEdge}, {TheUp})
        /\ TheUp \in ToSet(journal.live) => TheUp \in ToSet(job.todo)

EdgesInOrder == CutoverLeft /\ PortsTold /\ EdgesLive /\ EdgeUndoneLast

LEMMA HostSteps3 ==
    /\ TheUp \in HostStep /\ TheEdge \in HostStep /\ Caddy \in HostStep
    /\ <<"gone", Host>> \in HostStep
    /\ TheUp # TheEdge /\ TheUp # Caddy /\ HostStep \subseteq CutoverStep
    /\ CutoverStep = HostStep \union Probes
  BY DEF TheUp, TheEdge, Caddy, HostStep, Probes, CutoverStep

LEMMA CutoverLeftStep ==
    ASSUME InForm, BudgetType, Spared, ChangesOnce, CutoverLeft, PortsTold, [Next]_vars,
           job'.kind = "cutover"
    PROVE  /\ NoneAfter(job'.todo, {Caddy}, HostStep \ {TheUp})
           /\ NoneAfter(job'.todo, Probes, {TheUp})
           /\ NoneAfter(job'.todo, {TheUp}, HostStep)
           /\ HostStep \cap ToSet(job'.todo) # {} => TheUp \in ToSet(job'.todo)
           /\ TheUp \in ToSet(job'.todo) => TheUp \notin journal'.done
<1> DEFINE Fine(todo, done) ==
              /\ NoneAfter(todo, {Caddy}, HostStep \ {TheUp})
              /\ NoneAfter(todo, Probes, {TheUp})
              /\ NoneAfter(todo, {TheUp}, HostStep)
              /\ HostStep \cap ToSet(todo) # {} => TheUp \in ToSet(todo)
              /\ TheUp \in ToSet(todo) => TheUp \notin done
<1>1. ASSUME NEW h \in Groups, StartMove(h)  PROVE FALSE
  BY <1>1, StartMoveIs DEF Begun
<1>2. ASSUME NEW first \in EdgeFirst, StartCutover(first)  PROVE Fine(job'.todo, journal'.done)
  <2> DEFINE C == CutoverSteps(first)  left == ToDo(C)
  <2>1. /\ C \in Seq(CutoverStep) /\ TheUp \in ToSet(C)
        /\ NoneAfter(C, {Caddy}, HostStep \ {TheUp})
        /\ NoneAfter(C, Probes, {TheUp})
        /\ NoneAfter(C, {TheUp}, HostStep)
    <3>1. HostStep \ {TheUp} = CutoverStep \ ({TheUp} \union Probes)
      BY DEF HostStep
    <3> QED  BY <3>1, CutoverStepsAre DEF TheUp, Caddy, Probes, HostStep
  <2>2. job'.todo = left /\ journal' = journal
    BY <1>2, StartCutoverIs DEF Begun, StartCutover
  <2>3. TheUp \notin journal.done
    <3>1. edge.ports # "caddy"
      BY <1>2 DEF StartCutover, Spend, ChangesOnce, BudgetType
    <3> QED  BY <3>1 DEF PortsTold
  <2> HIDE DEF C
  <2>4. /\ NoneAfter(left, {Caddy}, HostStep \ {TheUp})
        /\ NoneAfter(left, Probes, {TheUp})
        /\ NoneAfter(left, {TheUp}, HostStep)
    BY <2>1, ToDoNone
  <2>5. ToSet(left) = ToSet(C) \ journal.done
    BY <2>1, ToDoIs, StepsAre
  <2> HIDE DEF left
  <2> QED  BY <2>1, <2>2, <2>3, <2>4, <2>5
<1>3. ASSUME StartFinish  PROVE FALSE
  BY <1>3, StartFinishIs DEF Begun
<1>4. job.kind = "cutover" => Fine(job.todo, journal.done)
  BY DEF CutoverLeft
<1>5. ASSUME Still  PROVE Fine(job'.todo, journal'.done)
  BY <1>4, <1>5 DEF Still
\* All but the head is left.
<1>6. ASSUME job.kind = "cutover", job.todo # <<>>, job'.todo = Tail(job.todo),
             Head(job.todo) = TheUp \/ journal'.done \subseteq journal.done \union {Head(job.todo)}
      PROVE  Fine(job'.todo, journal'.done)
  <2> DEFINE h == Head(job.todo)  t == Tail(job.todo)
  <2>1. Fine(job.todo, journal.done)
    BY <1>4, <1>6
  <2>2. ToSet(job.todo) = {h} \union ToSet(t)
    BY <1>6, TodoTail
  <2>3. /\ NoneAfter(t, {Caddy}, HostStep \ {TheUp}) /\ NoneAfter(t, Probes, {TheUp})
        /\ NoneAfter(t, {TheUp}, HostStep) /\ (h = TheUp => ToSet(t) \cap HostStep = {})
    BY <1>6, <2>1, TodoTail
  <2> HIDE DEF t
  <2>4. CASE h = TheUp
    BY <1>6, <2>3, <2>4, HostSteps3 DEF t
  <2>5. CASE h # TheUp
    BY <1>6, <2>1, <2>2, <2>3, <2>5 DEF t
  <2> QED  BY <2>4, <2>5
<1>7. ASSUME NEW what \in Kinds, NEW w \in Workloads \union {Host}, Effect(what, w)
      PROVE  Fine(job'.todo, journal'.done)
  <2>1. /\ job.kind = "cutover" /\ journal' = journal /\ job.todo # <<>>
        /\ job'.todo = job.todo \/ job'.todo = Tail(job.todo)
    BY <1>7, EffectHands
  <2>2. CASE job'.todo = job.todo
    BY <1>4, <2>1, <2>2
  <2>3. CASE job'.todo = Tail(job.todo)
    BY <1>6, <2>1, <2>3
  <2> QED  BY <2>1, <2>2, <2>3
<1>8. ASSUME Note  PROVE Fine(job'.todo, journal'.done)
  <2>1. /\ job.kind = "cutover" /\ job.todo # <<>> /\ job'.todo = Tail(job.todo)
        /\ journal'.done = journal.done \union {Head(job.todo)}
    BY <1>8, NoteIs
  <2> QED  BY <1>6, <2>1
<1>9. ASSUME NEW s \in Steps, FailFinish(s)  PROVE FALSE
  BY <1>9 DEF FailFinish, InForm, JobType
<1>10. Fine(job'.todo, journal'.done)
  BY <1>1, <1>2, <1>3, <1>5, <1>7, <1>8, <1>9, RunFrom DEF Runs
<1> QED  BY <1>10

\* Meshploy's edge has the ports, and is found to be up before anything else.
LEMMA UpStays ==
    ASSUME InForm, Spared, UpNext, edge.ports = "caddy", [Next]_vars
    PROVE  \/ Note
           \/ job'.kind = job.kind /\ job'.todo = job.todo /\ journal' = journal
<1>1. /\ job.kind = "cutover" /\ job.todo # <<>> /\ Head(job.todo) = TheUp
      /\ Head(job.todo)[1] = "up" /\ TheUp # TheEdge
  BY DEF UpNext, TheUp, TheEdge
<1>2. ASSUME \/ \E g \in Groups : StartMove(g)
             \/ \E first \in EdgeFirst : StartCutover(first)
             \/ StartFinish
             \/ \E g \in Groups \union {Host} : StartRollback(g)
             \/ \E s \in Steps : FailMove(s) \/ FailFinish(s) \/ Undo(s)
             \/ FailUndo \/ EndReplay
      PROVE  FALSE
  <2>1. job.kind \in {"idle", "move", "finish"} \union Replays
    BY <1>2, Zenon DEF StartMove, StartCutover, StartFinish, StartRollback, FailMove,
         FailFinish, Undo, UndoOf, FailUndo, EndReplay
  <2> QED  BY <1>1, <2>1 DEF Replays
<1>3. ASSUME NEW s \in Steps, FailCutover(s)  PROVE FALSE
  <2>1. FailsWith(s) /\ s = TheUp
    BY <1>1, <1>3 DEF FailCutover, FailsWith
  <2>2. s[1] = "up" /\ ~ Refused(s)
    BY <2>1 DEF TheUp, Refused
  <2> QED  BY <2>1, <2>2 DEF FailsWith
<1>4. ASSUME EndRun  PROVE FALSE
  BY <1>1, <1>4 DEF EndRun
<1>5. ASSUME Crash  PROVE FALSE
  <2>1. Torn
    BY <1>1 DEF Torn
  <2>2. Spend("torn")
    BY <1>5, <2>1 DEF Crash
  <2> QED  BY <2>2 DEF Spend, Spared
<1>6. ASSUME UNCHANGED vars \/ \E w \in Workloads : Write(w)
      PROVE  job' = job /\ journal' = journal
  BY <1>6, Zenon DEF vars, Write
<1>7. ASSUME NEW what \in Kinds, NEW w \in Workloads \union {Host}, Effect(what, w)
      PROVE  job'.kind = job.kind /\ job'.todo = job.todo /\ journal' = journal
  <2>1. what = "up"
    BY <1>1, <1>7, EffectHands DEF TheUp
  <2> QED  BY <1>7, <2>1, EffectHands, KindsOf
<1>8. ~ Unsettled
  BY <1>1 DEF Unsettled, At, TheEdge
<1> QED  BY <1>2, <1>3, <1>4, <1>5, <1>6, <1>7, <1>8, StepIs, Zenon DEF Next

LEMMA NextIsUp ==
    ASSUME NEW seq \in Seq(CutoverStep), TheUp \in ToSet(seq),
           ToSet(seq) \cap (HostStep \ {TheUp}) = {}, NoneAfter(seq, Probes, {TheUp})
    PROVE  seq # <<>> /\ Head(seq) = TheUp
<1>1. seq # <<>>
  BY DEF ToSet
<1>2. /\ Head(seq) \in CutoverStep /\ ToSet(seq) = {Head(seq)} \union ToSet(Tail(seq))
      /\ Head(seq) \in Probes => ToSet(Tail(seq)) \cap {TheUp} = {}
  BY <1>1, TailSet, TailNone
<1> QED  BY <1>1, <1>2, HostSteps3

\* Of the steps of the edges, which stage has them at hand, and what they are.
LEMMA UpAtHand ==
    ASSUME InForm, job.todo # <<>>, NEW s \in Steps, Head(job.todo) = s
    PROVE  /\ s[1] = "up" => s = TheUp
           /\ (s[1] \in {"up", "caddy", "gone"} /\ job.kind \in Runs) => job.kind = "cutover"
           /\ (s[1] = "caddy" /\ job.kind \in Runs) => s = Caddy
<1>1. s = <<s[1], s[2]>>
  BY DEF Steps
<1>2. CASE job.kind \in Runs
  <2>1. \/ job.kind = "move" /\ s[1] \in MoveKinds
        \/ job.kind = "cutover" /\ s \in CutoverStep
        \/ job.kind = "finish" /\ s \in FinishStep
    BY <1>2, HeadIs DEF MoveStep, Runs
  <2> QED  BY <1>1, <2>1 DEF MoveKinds, CutoverStep, FinishStep, TheUp, Caddy
<1>3. CASE job.kind \in Replays
  <2>1. s \in LiveStep \/ s[1] = "outright" \/ s = TheEdge
    BY <1>3, HeadIs DEF UndoStep, Replays, TheEdge
  <2> QED  BY <1>1, <1>3, <2>1, KindsAre DEF LiveStep, TheEdge, TheUp
<1>4. job.kind \in Runs \union Replays
  BY DEF InForm, JobType, Stage
<1> QED  BY <1>2, <1>3, <1>4, KindsAre

\* What fails of a cutover is not in the journal.
LEMMA FailedEdges ==
    ASSUME InForm, TellsEdge, CutoverLeft, NEW s \in Steps, Failed(s)
    PROVE  (s = TheUp => TheUp \notin journal.done) /\ (s = TheEdge => TheEdge \notin journal.done)
<1>1. /\ job.kind \in Runs /\ job.todo # <<>> /\ Head(job.todo) = s /\ s \in ToSet(job.todo)
  BY TodoTail DEF Failed
<1>2. ASSUME s = TheUp  PROVE TheUp \notin journal.done
  <2>1. job.kind = "cutover"
    BY <1>1, <1>2, UpAtHand DEF TheUp
  <2> QED  BY <1>1, <1>2, <2>1 DEF CutoverLeft
<1>3. ASSUME s = TheEdge  PROVE TheEdge \notin journal.done
  <2>1. job.kind = "cutover"
    BY <1>1, <1>3, EdgeAtHand
  <2> QED  BY <1>1, <1>3, <2>1 DEF TellsEdge
<1> QED  BY <1>2, <1>3

\* What an effect does to the edges.
LEMMA EffectEdges ==
    ASSUME InForm, PlacesType, NEW what \in Kinds, NEW w \in Workloads \union {Host},
           Effect(what, w)
    PROVE  /\ edge'.at = IF what = "edge" THEN (IF job.first THEN "side" ELSE "down")
                         ELSE IF what = "platform" THEN "gone" ELSE edge.at
           /\ \/ edge'.ports = IF what = "edge" /\ edge.ports = "old" THEN "nobody" ELSE edge.ports
              \/ what = "caddy" /\ edge.ports = "nobody" /\ edge'.ports = "caddy"
           /\ what = "edge" => w = Host
           /\ what = "up" => edge.ports = "caddy"
<1>1. edge'.at = IF what = "edge" THEN (IF job.first THEN "side" ELSE "down")
                 ELSE IF what = "platform" THEN "gone" ELSE edge.at
  BY DEF Effect, EffectOnEdge, PlacesType
<1>2. \/ edge'.ports = IF what = "edge" /\ edge.ports = "old" THEN "nobody" ELSE edge.ports
      \/ what = "caddy" /\ edge.ports = "nobody" /\ edge'.ports = "caddy"
  BY DEF Effect, EffectOnEdge, PlacesType
<1>3. what = "edge" => w = Host
  <2>1. <<what, w>> \in Steps
    BY DEF Steps
  <2> QED  BY <2>1, EffectHands, EdgeAtHand DEF TheEdge
<1>4. what = "up" => edge.ports = "caddy"
  BY DEF Effect, At, Refused
<1> QED  BY <1>1, <1>2, <1>3, <1>4

LEMMA UndoEdges ==
    ASSUME InForm, PlacesType, NEW s \in Steps, Undo(s)
    PROVE  /\ edge'.at = IF s = TheEdge THEN "ports" ELSE edge.at
           /\ edge'.ports = IF s = TheEdge /\ edge.ports = "nobody" THEN "old"
                            ELSE IF s = TheUp /\ edge.ports = "caddy" THEN "nobody"
                            ELSE edge.ports
<1>1. UndoesEdge(s) /\ job.todo # <<>> /\ Head(job.todo) = s
  BY UndoDoes
<1>2. (s[1] = "edge" <=> s = TheEdge) /\ (s[1] = "up" <=> s = TheUp)
  BY <1>1, EdgeAtHand, UpAtHand DEF TheEdge, TheUp
<1>3. CASE s[1] = "edge"
  <2>1. edge' = [edge EXCEPT !.at = "ports", !.ports = IF @ = "nobody" THEN "old" ELSE @]
    BY <1>1, <1>3 DEF UndoesEdge
  <2>2. s # TheUp
    BY <1>3 DEF TheUp
  <2> QED  BY <1>2, <1>3, <2>1, <2>2 DEF PlacesType
<1>4. CASE s[1] = "up"
  <2>1. edge' = [edge EXCEPT !.ports = IF @ = "caddy" THEN "nobody" ELSE @]
    BY <1>1, <1>4 DEF UndoesEdge
  <2>2. s # TheEdge
    BY <1>4 DEF TheEdge
  <2> QED  BY <1>2, <1>4, <2>1, <2>2 DEF PlacesType
<1>5. CASE s[1] \notin {"edge", "up"}
  <2>1. edge'.at = edge.at /\ edge'.ports = edge.ports
    BY <1>1, <1>5 DEF UndoesEdge, PlacesType
  <2> QED  BY <1>2, <1>5, <2>1
<1> QED  BY <1>3, <1>4, <1>5

\* The old edge gets the ports back only once Meshploy's is stopped.
LEMMA PortsFree ==
    ASSUME InForm, PortsTold, EdgesLive, EdgeUndoneLast, Undo(TheEdge)
    PROVE  edge.ports # "caddy" /\ TheUp \notin journal.done
<1>1. job.kind \in Replays /\ job.todo # <<>> /\ Head(job.todo) = TheEdge
  BY UndoDoes
<1>2. TheEdge \in ToSet(job.todo) /\ ToSet(job.todo) = {TheEdge} \union ToSet(Tail(job.todo))
  BY <1>1, TodoTail
<1>3. ToSet(Tail(job.todo)) \cap {TheUp} = {}
  BY <1>1, <1>2, TodoTail DEF EdgeUndoneLast
<1>4. TheUp \notin ToSet(job.todo)
  BY <1>2, <1>3, HostSteps3
<1>5. TheUp \notin journal.done
  BY <1>1, <1>2, <1>4 DEF EdgeUndoneLast, EdgesLive
<1> QED  BY <1>1, <1>5, KindsAre DEF PortsTold, UpNext

LEMMA PortsToldStep ==
    ASSUME InForm, PlacesType, BudgetType, Spared, Settled, TellsEdge, EdgesInOrder, [Next]_vars
    PROVE  PortsTold'
<1> DEFINE A == edge.at = "ports" => edge.ports = "old"
           B == (TheUp \in journal.done \/ AtHand(TheUp)) => edge.ports = "caddy"
           D == edge.ports = "caddy" => TheUp \in journal.done \/ UpNext
<1>1. CutoverLeft /\ PortsTold /\ EdgesLive /\ EdgeUndoneLast /\ A /\ B /\ D
  BY DEF EdgesInOrder, PortsTold
<1>2. ASSUME edge.ports = "caddy", TheUp \notin journal.done  PROVE D'
  <2>1. UpNext
    BY <1>1, <1>2
  <2>2. CASE Note
    <3>1. TheUp \in journal'.done
      BY <2>1, <2>2, NoteIs DEF UpNext
    <3> QED  BY <3>1 DEF TheUp
  <2>3. CASE job'.kind = job.kind /\ job'.todo = job.todo /\ journal' = journal
    BY <2>1, <2>3 DEF UpNext, TheUp
  <2> QED  BY <1>2, <2>1, <2>2, <2>3, UpStays
<1>3. ASSUME edge'.ports = edge.ports, edge.ports = "caddy" => TheUp \in journal'.done
      PROVE  D'
  BY <1>3 DEF TheUp
<1>4. ASSUME Quiet \/ Still  PROVE A' /\ B' /\ D'
  <2>1. edge' = edge /\ journal' = journal
    <3>1. ~ Unsettled
      BY DEF Unsettled, Spend, Settled, BudgetType
    <3> QED  BY <1>4, <3>1 DEF Quiet, Still
  <2>2. AtHand(TheUp)' => AtHand(TheUp)
    BY <1>4 DEF Quiet, Still, AtHand, TheUp
  <2> QED  BY <1>1, <1>2, <1>3, <2>1, <2>2 DEF TheUp
<1>5. ASSUME Note  PROVE A' /\ B' /\ D'
  <2>1. /\ job.noting # NotNoted /\ job'.noting = NotNoted /\ edge' = edge
        /\ journal'.done = journal.done \union {Head(job.todo)}
    BY <1>5, NoteIs DEF Note
  <2>2. B'
    BY <1>1, <2>1 DEF AtHand, TheUp
  <2> QED  BY <1>1, <1>2, <1>3, <2>1, <2>2
<1>6. ASSUME NEW s \in Steps, Failed(s)  PROVE A' /\ B' /\ D'
  <2>1. /\ edge' = edge /\ job'.noting = NotNoted /\ journal'.done = journal.done \ {s}
    BY <1>6, FailedIs DEF Failed
  <2>2. TheUp \in journal.done => s # TheUp
    BY <1>1, <1>6, FailedEdges
  <2>3. B'
    BY <1>1, <2>1 DEF AtHand, TheUp
  <2> QED  BY <1>1, <1>2, <1>3, <2>1, <2>2, <2>3
<1>7. ASSUME NEW s \in Steps, Undo(s)  PROVE A' /\ B' /\ D'
  <2>1. /\ job.kind \in Replays /\ job'.noting = NotNoted /\ journal'.done = journal.done \ {s}
    BY <1>7, UndoDoes
  <2>2. edge.ports = "caddy" <=> TheUp \in journal.done
    BY <1>1, <2>1, KindsAre DEF UpNext
  <2>3. edge.ports \in {"old", "caddy", "nobody"}
    BY DEF PlacesType
  <2>4. s = TheEdge => edge.ports # "caddy" /\ TheUp \notin journal.done
    BY <1>1, <1>7, PortsFree
  <2>5. /\ edge'.at = IF s = TheEdge THEN "ports" ELSE edge.at
        /\ edge'.ports = IF s = TheEdge /\ edge.ports = "nobody" THEN "old"
                         ELSE IF s = TheUp /\ edge.ports = "caddy" THEN "nobody"
                         ELSE edge.ports
    BY <1>7, UndoEdges
  <2>6. edge'.ports = "caddy" <=> TheUp \in journal'.done
    BY <2>1, <2>2, <2>3, <2>4, <2>5
  <2>7. A'
    BY <1>1, <2>3, <2>4, <2>5, HostSteps3
  <2>8. B' /\ D'
    BY <2>1, <2>6 DEF AtHand, TheUp
  <2> QED  BY <2>7, <2>8
<1>8. ASSUME NEW what \in Kinds, NEW w \in Workloads \union {Host}, Effect(what, w)
      PROVE  A' /\ B' /\ D'
  <2>1. /\ job.noting = NotNoted /\ job.kind \in Runs /\ journal' = journal
        /\ job.todo # <<>> /\ Head(job.todo) = <<what, w>> /\ job'.kind = job.kind
        /\ what \in Journalled => job'.todo = job.todo
        /\ what \notin Journalled => job'.noting = NotNoted /\ job'.todo = Tail(job.todo)
    BY <1>8, EffectHands
  <2>2. /\ edge'.at = IF what = "edge" THEN (IF job.first THEN "side" ELSE "down")
                      ELSE IF what = "platform" THEN "gone" ELSE edge.at
        /\ \/ edge'.ports = IF what = "edge" /\ edge.ports = "old" THEN "nobody" ELSE edge.ports
           \/ what = "caddy" /\ edge.ports = "nobody" /\ edge'.ports = "caddy"
        /\ what = "up" => edge.ports = "caddy"
    BY <1>8, EffectEdges
  <2>3. A'
    BY <1>1, <2>2
  <2>4. B'
    <3>1. AtHand(TheUp)' => what = "up"
      BY <2>1 DEF AtHand, TheUp
    <3>2. edge.ports = "caddy" => edge'.ports = "caddy"
      BY <2>2
    <3> QED  BY <1>1, <2>1, <2>2, <3>1, <3>2 DEF TheUp
  <2>5. CASE edge.ports = "caddy"
    <3>1. edge'.ports = edge.ports
      BY <2>2, <2>5
    <3> QED  BY <1>2, <1>3, <2>1, <2>3, <2>4, <2>5, <3>1
  <2>6. CASE edge.ports # "caddy"
    <3>1. ASSUME edge'.ports = "caddy"  PROVE UpNext'
      <4>1. what = "caddy"
        BY <2>2, <2>6, <3>1
      <4>2. job.kind = "cutover" /\ Head(job.todo) = Caddy /\ job'.todo = Tail(job.todo)
        <5>1. <<what, w>> \in Steps
          BY DEF Steps
        <5> QED  BY <2>1, <4>1, <5>1, UpAtHand, KindsOf
      <4> DEFINE t == Tail(job.todo)
      <4>3. job.todo \in Seq(CutoverStep)
        BY <4>2 DEF InForm, Stage
      <4>4. /\ t \in Seq(CutoverStep) /\ ToSet(job.todo) = {Caddy} \union ToSet(t)
        BY <2>1, <4>2, <4>3, TailSet
      <4>5. TheUp \in ToSet(t)
        BY <1>1, <4>2, <4>4, HostSteps3 DEF CutoverLeft
      <4>6. /\ ToSet(t) \cap (HostStep \ {TheUp}) = {} /\ NoneAfter(t, Probes, {TheUp})
        BY <1>1, <2>1, <4>2, TodoTail DEF CutoverLeft
      <4> HIDE DEF t
      <4>7. t # <<>> /\ Head(t) = TheUp
        BY <4>4, <4>5, <4>6, NextIsUp
      <4> QED  BY <2>1, <4>2, <4>7 DEF UpNext, TheUp, t
    <3> QED  BY <2>3, <2>4, <3>1
  <2> QED  BY <2>5, <2>6
<1>9. A' /\ B' /\ D'
  BY <1>4, <1>5, <1>6, <1>7, <1>8, StepKinds, Zenon
<1> QED  BY <1>9 DEF PortsTold


\* The edge's entry comes first: Meshploy's is not up when the old one is told to go.
LEMMA EdgeBeforeUp ==
    ASSUME InForm, CutoverLeft, EdgesLive, job.kind \in Runs, job.todo # <<>>,
           Head(job.todo) = TheEdge
    PROVE  TheUp \notin ToSet(journal.live)
<1>1. job.kind = "cutover"
  BY TodoSeq, HeadIs, EdgeAtHand
<1>2. TheEdge \in ToSet(job.todo)
  BY TodoTail
<1>3. HostStep \cap ToSet(job.todo) # {}
  BY <1>2, HostSteps3
<1> QED  BY <1>1, <1>3 DEF CutoverLeft, EdgesLive

LEMMA EdgesLiveStep ==
    ASSUME InForm, PlacesType, BudgetType, Spared, TellsEdge, CutoverLeft, EdgesLive, [Next]_vars
    PROVE  EdgesLive'
<1> DEFINE Both(jn) == /\ TheUp \in jn.done <=> TheUp \in ToSet(jn.live)
                       /\ TheEdge \in jn.done => TheEdge \in ToSet(jn.live)
                       /\ NoneAfter(jn.live, {TheUp}, {TheEdge})
           Hands == AtHand(TheUp) \/ AtHand(TheEdge) => job.noting = "undo"
<1>1. Both(journal) /\ Hands
  BY DEF EdgesLive
<1>2. ASSUME Quiet \/ Still  PROVE Both(journal') /\ Hands'
  <2>1. journal' = journal
    BY <1>2 DEF Quiet, Still
  <2>2. Hands'
    BY <1>1, <1>2 DEF Quiet, Still, AtHand, TheUp, TheEdge
  <2> QED  BY <1>1, <2>1, <2>2
<1>3. ASSUME Note  PROVE Both(journal') /\ Hands'
  <2> DEFINE h == Head(job.todo)
  <2>1. /\ job.noting \in Noting /\ job.kind \in Runs /\ job.todo # <<>> /\ job'.noting = NotNoted
        /\ journal'.done = journal.done \union {h}
        /\ ToSet(journal'.live) = IF job.noting = "undo" THEN ToSet(journal.live) \union {h}
                                  ELSE ToSet(journal.live)
    BY <1>3, NoteIs
  <2>2. (h = TheUp \/ h = TheEdge) => job.noting = "undo"
    BY <1>1, <1>3 DEF AtHand, Note
  <2>3. Hands'
    BY <2>1 DEF AtHand
  <2>4. NoneAfter(journal'.live, {TheUp}, {TheEdge})
    <3>1. CASE job.noting = "undo"
      <4>1. journal'.live = Append(journal.live, h) /\ h \in LiveStep
        BY <1>3, <3>1 DEF Note, InForm, Hand
      <4>2. ToSet(journal.live) \cap {TheUp} = {} \/ h \notin {TheEdge}
        BY <2>1, EdgeBeforeUp
      <4>3. journal.live \in Seq(LiveStep)
        BY TodoSeq
      <4> HIDE DEF h
      <4>4. NoneAfter(Append(journal.live, h), {TheUp}, {TheEdge})
        BY <1>1, <4>1, <4>2, <4>3, AppendNone
      <4> QED  BY <4>1, <4>4
    <3>2. CASE job.noting # "undo"
      <4>1. journal'.live = journal.live
        BY <1>3, <3>2 DEF Note
      <4> QED  BY <1>1, <4>1
    <3> QED  BY <3>1, <3>2
  <2> QED  BY <1>1, <2>1, <2>2, <2>3, <2>4
<1>4. ASSUME NEW s \in Steps, Failed(s)  PROVE Both(journal') /\ Hands'
  <2>1. /\ job'.noting = NotNoted /\ journal'.done = journal.done \ {s}
        /\ journal'.live = journal.live
    BY <1>4, FailedIs DEF Failed
  <2>2. s = TheUp => TheUp \notin journal.done
    BY <1>4, FailedEdges
  <2>3. Hands'
    BY <2>1 DEF AtHand
  <2> QED  BY <1>1, <2>1, <2>2, <2>3
<1>5. ASSUME NEW s \in Steps, Undo(s)  PROVE Both(journal') /\ Hands'
  <2>1. /\ job'.noting = NotNoted /\ journal'.done = journal.done \ {s}
        /\ ToSet(journal'.live) = ToSet(journal.live) \ {s}
    BY <1>5, UndoDoes
  <2>2. Hands'
    BY <2>1 DEF AtHand
  <2>3. NoneAfter(journal'.live, {TheUp}, {TheEdge})
    <3>1. journal' = Unrecorded(s) /\ journal \in JournalType
      BY <1>5 DEF Undo, InForm
    <3>2. NoneAfter(Unrecorded(s).live, {TheUp}, {TheEdge})
      BY <1>1, <3>1, UnrecordedIs
    <3> QED  BY <3>1, <3>2
  <2> QED  BY <1>1, <2>1, <2>2, <2>3
<1>6. ASSUME NEW what \in Kinds, NEW w \in Workloads \union {Host}, Effect(what, w)
      PROVE  Both(journal') /\ Hands'
  <2>1. /\ job.noting = NotNoted /\ job.kind \in Runs /\ journal' = journal
        /\ job.todo # <<>> /\ Head(job.todo) = <<what, w>>
        /\ what \in Journalled => /\ job'.noting = IF Undone(what, w) THEN "undo" ELSE "plain"
                                  /\ job'.todo = job.todo
        /\ what \notin Journalled => job'.noting = NotNoted
    BY <1>6, EffectHands
  <2>2. CASE <<what, w>> = TheUp
    <3>1. Undone(what, w) /\ what \in Journalled
      BY <2>2, KindsOf DEF TheUp, Undone
    <3> QED  BY <1>1, <2>1, <3>1
  <2>3. CASE <<what, w>> = TheEdge
    <3>1. job.kind = "cutover"
      BY <2>1, <2>3, TodoSeq, HeadIs, EdgeAtHand
    <3>2. TheEdge \notin journal.done
      BY <2>1, <2>3, <3>1, TodoTail DEF TellsEdge
    <3>3. edge.at = "ports"
      BY <2>1, <3>2 DEF TellsEdge, AtHand
    <3>4. Undone(what, w) /\ what \in Journalled
      BY <2>3, <3>3, KindsOf DEF TheEdge, Undone
    <3> QED  BY <1>1, <2>1, <3>4
  <2>4. CASE <<what, w>> # TheUp /\ <<what, w>> # TheEdge
    <3>1. Hands'
      BY <2>1, <2>4 DEF AtHand, TheUp, TheEdge
    <3> QED  BY <1>1, <2>1, <3>1
  <2> QED  BY <2>2, <2>3, <2>4
<1>7. Both(journal') /\ Hands'
  <2> HIDE DEF Both, Hands
  <2> QED  BY <1>2, <1>3, <1>4, <1>5, <1>6, StepKinds
<1> QED  BY <1>7 DEF EdgesLive, TheUp, TheEdge, NoneAfter, ToSet

\* What a rollback or a restore replays of the two edges.
LEMMA EdgeUndoneLastStep ==
    ASSUME InForm, BudgetType, Spared, ChangesOnce, CutoverLeft, EdgesLive, EdgeUndoneLast,
           [Next]_vars
    PROVE  EdgeUndoneLast'
<1> DEFINE EdgeLast(todo, live) == TheEdge \in ToSet(todo) =>
                                   /\ NoneAfter(todo, {TheEdge}, {TheUp})
                                   /\ TheUp \in ToSet(live) => TheUp \in ToSet(todo)
<1> SUFFICES ASSUME job'.kind \in Replays  PROVE EdgeLast(job'.todo, journal'.live)
  BY DEF EdgeUndoneLast, TheUp, TheEdge, NoneAfter, ToSet, Replays
<1>1. job.kind \in Replays => EdgeLast(job.todo, journal.live)
  BY DEF EdgeUndoneLast
<1>2. journal.live \in Seq(LiveStep)
  BY TodoSeq
<1>3. ASSUME NEW g \in Groups \union {Host}, StartRollback(g)  PROVE EdgeLast(job'.todo, journal'.live)
  <2> DEFINE u == Undoable(g)
  <2>1. job'.todo = u /\ journal' = journal
    BY <1>3, StartRollbackIs DEF Begun, StartRollback
  <2>2. ToSet(u) = ToSet(journal.live) \cap StepsOf(g)
    BY <1>2, UndoableIs
  <2>3. NoneAfter(u, {TheEdge}, {TheUp})
    BY <1>2, UndoableNone DEF EdgesLive
  <2>4. TheEdge \in StepsOf(g) => TheUp \in StepsOf(g)
    BY KindsOf DEF StepsOf, TheEdge, TheUp
  <2> HIDE DEF u
  <2> QED  BY <2>1, <2>2, <2>3, <2>4
<1>4. ASSUME NEW s \in Steps, FailMove(s)  PROVE EdgeLast(job'.todo, journal'.live)
  <2> DEFINE g == job.group
  <2>1. g \in Groups /\ job'.todo = UndoList(g)
    BY <1>4, FailMoveIs DEF Begun
  <2> HIDE DEF g
  <2>2. UndoList(g) \in Seq(UndoStep(g))
    BY <1>2, <2>1, UndoListIs
  <2>3. TheEdge \notin UndoStep(g)
    BY <2>1, HostApart, StepsAre DEF UndoStep, StepsOf, TheEdge
  <2>4. TheEdge \notin ToSet(UndoList(g))
    BY <2>2, <2>3, InSeq
  <2> QED  BY <2>1, <2>4
<1>5. ASSUME NEW s \in Steps, FailCutover(s)  PROVE EdgeLast(job'.todo, journal'.live)
  <2>1. /\ job'.todo = EdgeEntry /\ s[1] \in {"gone", "caddy", "up"}
        /\ journal'.live = journal.live
    <3>1. Begun("restore", Host, EdgeEntry)
      BY <1>5, FailCutoverIs, KindsAre DEF Idle
    <3>2. job' # Idle("failed")
      BY KindsAre DEF Idle
    <3> QED  BY <1>5, <3>1, <3>2 DEF Begun, FailCutover, NotDone, InForm, JournalType
  <2>2. EdgeEntry \in Seq({TheEdge})
    BY <1>2, EdgeEntryIs DEF TheEdge
  <2>3. ToSet(EdgeEntry) \cap {TheUp} = {}
    BY <2>2, InSeq, HostSteps3
  <2>4. NoneAfter(EdgeEntry, {TheEdge}, {TheUp})
    BY <2>2, <2>3, ApartNone
  <2>5. TheUp \notin ToSet(journal.live)
    <3>1. job.kind = "cutover" /\ job.todo # <<>> /\ Head(job.todo) = s
      BY <1>5 DEF FailCutover, FailsWith
    <3>2. s \in CutoverStep /\ s \in ToSet(job.todo)
      BY <3>1, HeadIs, TodoTail
    <3>3. s \in HostStep
      BY <2>1, <3>2 DEF HostStep, Probes
    <3> QED  BY <3>1, <3>2, <3>3 DEF CutoverLeft, EdgesLive
  <2> QED  BY <2>1, <2>4, <2>5
<1>6. ASSUME NEW s \in Steps, Undo(s)  PROVE EdgeLast(job'.todo, journal'.live)
  <2>1. /\ job.kind \in Replays /\ job'.todo = Tail(job.todo)
        /\ job.todo # <<>> /\ Head(job.todo) = s
        /\ ToSet(journal'.live) = ToSet(journal.live) \ {s}
    BY <1>6, UndoDoes
  <2> QED  BY <1>1, <2>1, TodoTail
<1>7. ASSUME FailUndo  PROVE EdgeLast(job'.todo, journal'.live)
  <2>1. /\ job.kind \in Replays /\ job'.todo = Tail(job.todo)
        /\ job.todo # <<>> /\ journal' = journal
    BY <1>7 DEF FailUndo, InForm, JobType
  <2>2. Head(job.todo) # TheUp
    BY <1>7 DEF FailUndo, CanUndo, ChangesOnce, TheUp
  <2> QED  BY <1>1, <2>1, <2>2, TodoTail
<1>8. ASSUME Still  PROVE EdgeLast(job'.todo, journal'.live)
  BY <1>1, <1>8 DEF Still
<1>9. EdgeLast(job'.todo, journal'.live)
  <2> HIDE DEF EdgeLast
  <2> QED  BY <1>3, <1>4, <1>5, <1>6, <1>7, <1>8, ReplayBy
<1> QED  BY <1>9

LEMMA EdgesStep ==
    ASSUME InForm, PlacesType, BudgetType, Spared, Settled, ChangesOnce, TellsEdge, EdgesInOrder,
           [Next]_vars
    PROVE  EdgesInOrder' /\ ChangesOnce'
<1>1. CutoverLeft /\ PortsTold /\ EdgesLive /\ EdgeUndoneLast
  BY DEF EdgesInOrder
<1>2. CutoverLeft'
  BY <1>1, CutoverLeftStep
     DEF CutoverLeft, NoneAfter, ToSet, TheUp, Caddy, HostStep, CutoverStep, Probes, Workloads, Members
<1>3. PortsTold' /\ EdgesLive' /\ EdgeUndoneLast'
  BY <1>1, PortsToldStep, EdgesLiveStep, EdgeUndoneLastStep
<1>4. ChangesOnce'
  <2>1. "recut" \in Expenses
    BY DEF Expenses
  <2> QED  BY <2>1, BudgetStep DEF ChangesOnce
<1> QED  BY <1>2, <1>3, <1>4 DEF EdgesInOrder


-----------------------------------------------------------------------------
(* What a stage changes can be undone *)

\* What is to be undone is still to be undone.
Kept(s) == s \in ToSet(journal'.live) \/ (job'.noting = "undo" /\ Head(job'.todo) = s)

\* No undo runs.
Forward ==
    \/ Quiet \/ Still \/ Note
    \/ \E what \in Kinds, w \in Workloads \union {Host} : Effect(what, w)
    \/ \E s \in Steps : Failed(s)

LEMMA ForwardOrBack ==
    ASSUME InForm, Spared, [Next]_vars
    PROVE  Forward \/ \E s \in Steps : Undo(s)
  BY StepKinds DEF Forward

LEMMA ForwardKeeps ==
    ASSUME InForm, Forward, NEW s, ToUndo(s)
    PROVE  Kept(s)
<1>1. job.noting = NotNoted => s \in ToSet(journal.live)
  BY DEF ToUndo, NotNoted
<1>2. ASSUME Quiet  PROVE Kept(s)
  BY <1>1, <1>2 DEF Quiet, Kept
<1>3. ASSUME Still  PROVE Kept(s)
  BY <1>3 DEF Still, ToUndo, Kept
<1>4. ASSUME NEW what \in Kinds, NEW w \in Workloads \union {Host}, Effect(what, w)
      PROVE  Kept(s)
  BY <1>1, <1>4, EffectHands DEF Kept
<1>5. ASSUME Note  PROVE Kept(s)
  BY <1>5, NoteIs DEF ToUndo, Kept
<1>6. ASSUME NEW t \in Steps, Failed(t)  PROVE Kept(s)
  BY <1>1, <1>6, FailedIs DEF Failed, Kept
<1> QED  BY <1>2, <1>3, <1>4, <1>5, <1>6 DEF Forward

LEMMA UndoKeeps ==
    ASSUME InForm, NEW t \in Steps, Undo(t), NEW s, ToUndo(s), s # t
    PROVE  Kept(s)
<1>1. job.noting = NotNoted /\ ToSet(journal'.live) = ToSet(journal.live) \ {t}
  BY UndoDoes
<1> QED  BY <1>1 DEF ToUndo, Kept, NotNoted

\* An effect that the journal undoes is noted so.
LEMMA EffectUndone ==
    ASSUME InForm, NEW what \in Kinds, NEW w \in Workloads \union {Host}, Effect(what, w),
           Undone(what, w), what \in Journalled
    PROVE  Kept(<<what, w>>)
<1>1. job'.noting = "undo" /\ job'.todo = job.todo /\ Head(job.todo) = <<what, w>>
  BY EffectHands
<1> QED  BY <1>1 DEF Kept

\* Every route is in the journal with an undo, and so is what the edge was told;
Routed ==
    /\ \A w \in routes.switched : ToUndo(<<"domain", w>>)
    /\ \A w \in routes.published : ToUndo(<<"publish", w>>)
    /\ \A w \in routes.tcp : ToUndo(<<"tcp", w>>)

LEMMA RoutedStep ==
    ASSUME InForm, PlacesType, Spared, Routed, [Next]_vars
    PROVE  Routed'
<1> DEFINE Sw == routes.switched
           Pub == routes.published
           Tcp == routes.tcp
           All == /\ \A w \in routes'.switched : Kept(<<"domain", w>>)
                  /\ \A w \in routes'.published : Kept(<<"publish", w>>)
                  /\ \A w \in routes'.tcp : Kept(<<"tcp", w>>)
<1>1. /\ \A w \in Sw : ToUndo(<<"domain", w>>)
      /\ \A w \in Pub : ToUndo(<<"publish", w>>)
      /\ \A w \in Tcp : ToUndo(<<"tcp", w>>)
  BY DEF Routed
<1>2. ASSUME Forward, routes' = routes  PROVE All
  BY <1>1, <1>2, ForwardKeeps
<1>3. ASSUME Quiet \/ Still \/ Note \/ \E s \in Steps : Failed(s)  PROVE All
  <2>1. routes' = routes
    BY <1>3, NoteIs DEF Quiet, Still, Failed
  <2> QED  BY <1>2, <1>3, <2>1 DEF Forward
<1>4. ASSUME NEW t \in Steps, Undo(t)  PROVE All
  <2>1. UndoesRoutes(t) /\ t = <<t[1], t[2]>>
    BY <1>4, UndoDoes DEF Steps
  <2>2. \A s : ToUndo(s) => s = t \/ Kept(s)
    BY <1>4, UndoKeeps
  <2>3. /\ routes'.switched = IF t[1] = "domain" THEN Sw \ {t[2]} ELSE Sw
        /\ routes'.published = IF t[1] = "publish" THEN Pub \ {t[2]} ELSE Pub
        /\ routes'.tcp = IF t[1] = "tcp" THEN Tcp \ {t[2]} ELSE Tcp
    BY <2>1 DEF UndoesRoutes, PlacesType
  <2> HIDE DEF Sw, Pub, Tcp
  <2>4. \A w : /\ <<"domain", w>> = t => t[1] = "domain" /\ t[2] = w
               /\ <<"publish", w>> = t => t[1] = "publish" /\ t[2] = w
               /\ <<"tcp", w>> = t => t[1] = "tcp" /\ t[2] = w
    OBVIOUS
  <2> QED  BY <1>1, <2>2, <2>3, <2>4
<1>5. ASSUME NEW what \in Kinds, NEW v \in Workloads \union {Host}, Effect(what, v)  PROVE All
  <2>1. /\ routes'.switched = IF what = "domain" THEN Sw \union {v} ELSE Sw
        /\ routes'.published = IF what = "publish" THEN Pub \union {v} ELSE Pub
        /\ routes'.tcp = IF what = "tcp" THEN Tcp \union {v} ELSE Tcp
    BY <1>5 DEF Effect, PlacesType
  <2>2. \A s : ToUndo(s) => Kept(s)
    BY <1>5, ForwardKeeps DEF Forward
  <2>3. what \in {"domain", "publish", "tcp"} => Kept(<<what, v>>)
    BY <1>5, EffectUndone, KindsOf DEF Undone
  <2> HIDE DEF Sw, Pub, Tcp
  <2> QED  BY <1>1, <2>1, <2>2, <2>3
<1>6. All
  <2> HIDE DEF All
  <2> QED  BY <1>3, <1>4, <1>5, ForwardOrBack DEF Forward
<1> QED  BY <1>6 DEF Routed, Kept, ToUndo

\* the console is stopped with an undo, and removed only once nothing is undone.
EdgeTold ==
    /\ edge.trust => ToUndo(<<"trust", Host>>)
    /\ edge.fallback # {} => ToUndo(<<"fallback", Host>>)
    /\ edge.console = "down" => ToUndo(<<"console", Host>>)
    /\ edge.console = "gone" => job.kind = "finish" \/ TheEnd \in journal.done

\* What a stage at work does to the edge is of the host, and in its own stage.
LEMMA HostAtHand ==
    ASSUME InForm, job.todo # <<>>, job.kind \in Runs, NEW what, NEW w,
           Head(job.todo) = <<what, w>>
    PROVE  /\ what \in {"trust", "fallback", "console"} => w = Host /\ job.kind = "cutover"
           /\ what = "platform" => job.kind = "finish"
<1>1. \/ job.kind = "move" /\ <<what, w>> \in MoveStep(job.group)
      \/ job.kind = "cutover" /\ <<what, w>> \in CutoverStep
      \/ job.kind = "finish" /\ <<what, w>> \in FinishStep
  BY HeadIs DEF Runs
<1> QED  BY <1>1 DEF MoveStep, MoveKinds, CutoverStep, FinishStep

LEMMA EdgeToldStep ==
    ASSUME InForm, PlacesType, BudgetType, Spared, Settled, Ending, EdgeTold, [Next]_vars
    PROVE  EdgeTold'
<1> DEFINE Later == job'.kind = "finish" \/ TheEnd \in journal'.done
           All == /\ edge'.trust => Kept(<<"trust", Host>>)
                  /\ edge'.fallback # {} => Kept(<<"fallback", Host>>)
                  /\ edge'.console = "down" => Kept(<<"console", Host>>)
                  /\ edge'.console = "gone" => Later
<1>1. /\ edge.trust => ToUndo(<<"trust", Host>>)
      /\ edge.fallback # {} => ToUndo(<<"fallback", Host>>)
      /\ edge.console = "down" => ToUndo(<<"console", Host>>)
  BY DEF EdgeTold
<1>2. edge.console = "gone" => Later
  BY FinishOnly, NothingStarts DEF EdgeTold, Ending
<1>3. ASSUME Quiet \/ Still \/ Note \/ \E s \in Steps : Failed(s)  PROVE All
  <2>1. ~ Unsettled
    BY DEF Unsettled, Spend, Settled, BudgetType
  <2>2. edge' = edge
    BY <1>3, <2>1, NoteIs DEF Quiet, Still, Failed
  <2>3. \A s : ToUndo(s) => Kept(s)
    BY <1>3, ForwardKeeps DEF Forward
  <2> QED  BY <1>1, <1>2, <2>2, <2>3
<1>4. ASSUME NEW t \in Steps, Undo(t)  PROVE All
  <2>1. UndoesEdge(t)
    BY <1>4, UndoDoes
  <2>2. \A s : ToUndo(s) => s = t \/ Kept(s)
    BY <1>4, UndoKeeps
  <2>3. /\ edge'.trust = IF t[1] = "trust" THEN FALSE ELSE edge.trust
        /\ edge'.fallback = IF t[1] = "fallback" THEN {} ELSE edge.fallback
        /\ edge'.console = IF t[1] = "console" THEN "up" ELSE edge.console
    BY <2>1 DEF UndoesEdge, PlacesType
  <2>4. /\ <<"trust", Host>> = t => t[1] = "trust"
        /\ <<"fallback", Host>> = t => t[1] = "fallback"
        /\ <<"console", Host>> = t => t[1] = "console"
    OBVIOUS
  <2> HIDE DEF Later
  <2>5. edge'.trust => Kept(<<"trust", Host>>)
    BY <1>1, <2>2, <2>3, <2>4
  <2>6. edge'.fallback # {} => Kept(<<"fallback", Host>>)
    BY <1>1, <2>2, <2>3, <2>4
  <2>7. edge'.console = "down" => Kept(<<"console", Host>>)
    BY <1>1, <2>2, <2>3, <2>4
  <2>8. edge'.console = "gone" => Later
    BY <1>2, <2>3
  <2> QED  BY <2>5, <2>6, <2>7, <2>8
<1>5. ASSUME NEW what \in Kinds, NEW v \in Workloads \union {Host}, Effect(what, v)  PROVE All
  <2>1. /\ job.kind \in Runs /\ job.todo # <<>> /\ Head(job.todo) = <<what, v>>
        /\ job'.kind = job.kind
    BY <1>5, EffectHands
  <2>2. /\ what \in {"trust", "fallback", "console"} => v = Host /\ job.kind = "cutover"
        /\ what = "platform" => job.kind = "finish"
    BY <2>1, HostAtHand
  <2>3. \A s : ToUndo(s) => Kept(s)
    BY <1>5, ForwardKeeps DEF Forward
  <2>4. /\ edge'.trust = IF what = "trust" THEN TRUE ELSE edge.trust
        /\ edge'.fallback # {} => what = "fallback" \/ edge.fallback # {}
        /\ edge'.console = IF what = "console" THEN "down"
                           ELSE IF what = "platform" THEN "gone" ELSE edge.console
    BY <1>5 DEF Effect, EffectOnEdge, PlacesType
  <2>5. what \in Journalled /\ Undone(what, v) => Kept(<<what, v>>)
    BY <1>5, EffectUndone
  <2> HIDE DEF Later
  <2>6. edge'.trust => Kept(<<"trust", Host>>)
    <3>1. what = "trust" => what \in Journalled /\ (edge.trust \/ Undone(what, v))
      BY KindsOf DEF Undone
    <3> QED  BY <1>1, <2>2, <2>3, <2>4, <2>5, <3>1
  <2>7. edge'.fallback # {} => Kept(<<"fallback", Host>>)
    <3>1. what = "fallback" => what \in Journalled /\ Undone(what, v)
      BY KindsOf DEF Undone
    <3> QED  BY <1>1, <2>2, <2>3, <2>4, <2>5, <3>1
  <2>8. edge'.console = "down" => Kept(<<"console", Host>>)
    <3>1. what = "console" => what \in Journalled /\ (edge.console # "up" \/ Undone(what, v))
      BY KindsOf DEF Undone
    <3>2. what = "console" => edge.console # "gone"
      BY <2>2 DEF EdgeTold, Ending
    <3>3. edge.console \in {"up", "down", "gone"}
      BY DEF PlacesType
    <3> QED  BY <1>1, <2>2, <2>3, <2>4, <2>5, <3>1, <3>2, <3>3
  <2>9. edge'.console = "gone" => Later
    BY <1>2, <2>1, <2>2, <2>4 DEF Later
  <2> QED  BY <2>6, <2>7, <2>8, <2>9
<1>6. All
  <2> HIDE DEF All
  <2> QED  BY <1>3, <1>4, <1>5, ForwardOrBack DEF Forward
<1> QED  BY <1>6 DEF EdgeTold, Kept, ToUndo, TheEnd


-----------------------------------------------------------------------------
(* What a replay leaves *)

\* How a stage ends that put back all it was to put back, and what that is: of a
\* restored edge, its own entry.
Back == {"undone", "put back", "restored"}

Covered(j) ==
    IF j.kind = "restore" \/ j.ended = "restored" THEN {TheEdge} ELSE StepsOf(j.group)

\* What is left of it in the journal is still to be undone, and in the end nothing.
Outcome ==
    /\ job.kind # "idle" => job.ended = "none"
    /\ job.ended \in Back => TheEnd \notin journal.done
    /\ (job.kind \in Replays /\ ~ job.failed) =>
          ToSet(journal.live) \cap Covered(job) \subseteq ToSet(job.todo)
    /\ (job.kind = "idle" /\ job.ended \in Back) => ToSet(journal.live) \cap Covered(job) = {}

LEMMA BegunEnds ==
    ASSUME InForm, NEW kind, NEW g, NEW todo, Begin(kind, g, todo)
    PROVE  job'.ended = "none" /\ job'.kind = kind /\ job'.group = g /\ job'.todo = todo
  BY DEF Begin, InForm, JobType

\* A stage that goes on has not ended.
LEMMA BusyEnds ==
    ASSUME InForm, Spared, Outcome, [Next]_vars, job'.kind # "idle"
    PROVE  job'.ended = "none"
<1>1. InForm'
  BY FormStep
<1>2. job'.kind \in Runs \union Replays
  BY <1>1 DEF InForm, JobType
<1>3. job.kind # "idle" => job.ended = "none"
  BY DEF Outcome
<1>4. ASSUME \/ \E g \in Groups : StartMove(g)
             \/ StartFinish
             \/ \E g \in Groups \union {Host} : StartRollback(g)
             \/ \E s \in Steps : FailMove(s)
      PROVE  job'.ended = "none"
  <2>1. \E kind, g, todo : Begin(kind, g, todo)
    BY <1>4, Zenon DEF StartMove, StartFinish, StartRollback, FailMove
  <2> QED  BY <2>1, BegunEnds
<1>5. ASSUME NEW first \in EdgeFirst, StartCutover(first)  PROVE job'.ended = "none"
  BY <1>5 DEF StartCutover, InForm, JobType
<1>6. ASSUME NEW s \in Steps, FailCutover(s)  PROVE job'.ended = "none"
  <2>1. job' # Idle("failed")
    BY KindsAre DEF Idle
  <2>2. Begin("restore", Host, EdgeEntry)
    BY <1>6, <2>1 DEF FailCutover
  <2> QED  BY <2>2, BegunEnds
<1>7. ASSUME NEW s \in Steps, FailFinish(s) \/ Undo(s)  PROVE job'.ended = "none"
  <2>1. job.kind # "idle" /\ job' = [job EXCEPT !.todo = Tail(@)]
    BY <1>7, KindsAre DEF FailFinish, Undo, UndoOf
  <2> QED  BY <1>3, <2>1 DEF InForm, JobType
<1>8. ASSUME FailUndo  PROVE job'.ended = "none"
  <2>1. job.kind # "idle" /\ job' = [job EXCEPT !.todo = Tail(@), !.failed = TRUE]
    BY <1>8, KindsAre DEF FailUndo
  <2> QED  BY <1>3, <2>1 DEF InForm, JobType
<1>9. ASSUME Still  PROVE job'.ended = "none"
  BY <1>3, <1>9 DEF Still
<1>10. ASSUME NEW what \in Kinds, NEW w \in Workloads \union {Host}, Effect(what, w)
       PROVE  job'.ended = "none"
  <2>1. job.kind # "idle"
    BY <1>10, EffectHands, KindsAre
  <2>2. job'.ended = job.ended
    BY <1>10 DEF Effect, Had, InForm, JobType
  <2> QED  BY <1>3, <2>1, <2>2
<1>11. ASSUME Note  PROVE job'.ended = "none"
  <2>1. job.kind # "idle"
    BY <1>11, NoteIs, KindsAre
  <2>2. job'.ended = job.ended
    BY <1>11 DEF Note, InForm, JobType
  <2> QED  BY <1>3, <2>1, <2>2
<1>12. CASE job'.kind \in Runs
  BY <1>4, <1>5, <1>7, <1>9, <1>10, <1>11, <1>12, RunFrom
<1>13. CASE job'.kind \in Replays
  BY <1>4, <1>6, <1>7, <1>8, <1>9, <1>13, ReplayBy
<1> QED  BY <1>2, <1>12, <1>13

\* Only the end of a replay says that all was put back.
LEMMA BackFrom ==
    ASSUME InForm, Spared, Outcome, [Next]_vars, job'.kind = "idle", job'.ended \in Back
    PROVE  Still \/ EndReplay
<1>1. ASSUME \/ \E g \in Groups : StartMove(g)
             \/ StartFinish
             \/ \E g \in Groups \union {Host} : StartRollback(g)
             \/ \E s \in Steps : FailMove(s)
      PROVE  FALSE
  <2>1. \E kind, g, todo : Begin(kind, g, todo)
    BY <1>1, Zenon DEF StartMove, StartFinish, StartRollback, FailMove
  <2> QED  BY <2>1, BegunEnds DEF Back
<1>2. ASSUME NEW first \in EdgeFirst, StartCutover(first)  PROVE FALSE
  BY <1>2, StartCutoverIs DEF Begun
<1>3. ASSUME NEW s \in Steps, FailCutover(s)  PROVE FALSE
  <2>1. Begin("restore", Host, EdgeEntry) \/ job'.ended = "failed"
    BY <1>3 DEF FailCutover, Idle
  <2> QED  BY <2>1, BegunEnds DEF Back
<1>4. ASSUME NEW s \in Steps, FailFinish(s) \/ Undo(s)  PROVE FALSE
  <2>1. job.kind # "idle" /\ job' = [job EXCEPT !.todo = Tail(@)]
    BY <1>4, KindsAre DEF FailFinish, Undo, UndoOf
  <2> QED  BY <2>1 DEF InForm, JobType
<1>5. ASSUME FailUndo  PROVE FALSE
  <2>1. job.kind # "idle" /\ job' = [job EXCEPT !.todo = Tail(@), !.failed = TRUE]
    BY <1>5, KindsAre DEF FailUndo
  <2> QED  BY <2>1 DEF InForm, JobType
<1>6. ~ Step
  <2>1. ~ Unsettled
    <3>1. Unsettled => job' = Idle("failed")
      BY DEF Unsettled
    <3>2. Idle("failed").ended = "failed"
      BY DEF Idle
    <3> QED  BY <3>1, <3>2 DEF Back
  <2> QED  BY <2>1, StepIs, EffectHands, NoteIs, KindsAre
<1>7. ~ EndRun /\ ~ Crash
  <2>1. \A e : Idle(e).ended = e
    BY DEF Idle
  <2>2. EndRun \/ Crash => \E e \in {"moved", "cut over", "finished", "cut short"} : job' = Idle(e)
    BY EndsAre DEF Stops
  <2> QED  BY <2>1, <2>2 DEF Back
<1>8. ASSUME UNCHANGED vars \/ \E w \in Workloads : Write(w)  PROVE Still
  BY <1>8, Zenon DEF vars, Write, Still
<1> QED  BY <1>1, <1>2, <1>3, <1>4, <1>5, <1>6, <1>7, <1>8, Zenon DEF Next

LEMMA EdgeEntryHas ==
    ASSUME journal.live \in Seq(LiveStep)
    PROVE  ToSet(journal.live) \cap {TheEdge} \subseteq ToSet(EdgeEntry)
<1> DEFINE U == Undoable(Host)  E == {TheEdge}  LS == LiveStep \cap StepsOf(Host)
<1>1. U \in Seq(LS) /\ ToSet(U) = ToSet(journal.live) \cap StepsOf(Host)
  BY UndoableIs
<1>2. TheEdge \in StepsOf(Host)
  BY KindsOf DEF TheEdge, StepsOf
<1> HIDE DEF U, LS
<1>3. ToSet(Only(U, E)) = ToSet(U) \cap E
  BY <1>1, OnlySet
<1> QED  BY <1>1, <1>2, <1>3 DEF U, EdgeEntry, TheEdge

LEMMA CoveredLeft ==
    ASSUME InForm, Spared, Outcome, [Next]_vars, job'.kind \in Replays, ~ job'.failed
    PROVE  ToSet(journal'.live) \cap Covered(job') \subseteq ToSet(job'.todo)
<1> DEFINE Left == ToSet(journal'.live) \cap Covered(job') \subseteq ToSet(job'.todo)
<1>1. job'.ended = "none"
  BY BusyEnds, KindsAre
<1>2. journal.live \in Seq(LiveStep)
  BY TodoSeq
<1>3. ASSUME NEW g \in Groups \union {Host}, StartRollback(g)  PROVE Left
  <2>1. /\ job'.kind = "rollback" /\ job'.group = g /\ job'.todo = Undoable(g)
        /\ journal' = journal
    BY <1>3, StartRollbackIs DEF Begun, StartRollback
  <2>2. Covered(job') = StepsOf(g)
    BY <1>1, <2>1 DEF Covered
  <2>3. ToSet(Undoable(g)) = ToSet(journal.live) \cap StepsOf(g)
    BY <1>2, UndoableIs
  <2> QED  BY <2>1, <2>2, <2>3
<1>4. ASSUME NEW s \in Steps, FailMove(s)  PROVE Left
  <2> DEFINE g == job.group
  <2>1. g \in Groups /\ job'.todo = UndoList(g) /\ job'.kind = "undo" /\ job'.group = g
    BY <1>4, FailMoveIs DEF Begun
  <2>2. journal'.live = journal.live
    BY <1>4 DEF FailMove, NotDone, InForm, JournalType
  <2> HIDE DEF g
  <2>3. ToSet(journal.live) \cap StepsOf(g) \subseteq ToSet(UndoList(g))
    BY <1>2, <2>1, UndoListIs
  <2>4. Covered(job') = StepsOf(g)
    BY <1>1, <2>1 DEF Covered
  <2> QED  BY <2>1, <2>2, <2>3, <2>4
<1>5. ASSUME NEW s \in Steps, FailCutover(s)  PROVE Left
  <2>1. Begun("restore", Host, EdgeEntry)
    BY <1>5, FailCutoverIs, KindsAre DEF Idle
  <2>2. journal'.live = journal.live
    BY <1>5 DEF FailCutover, NotDone, InForm, JournalType
  <2>3. Covered(job') = {TheEdge} /\ job'.todo = EdgeEntry
    BY <2>1 DEF Covered, Begun
  <2> QED  BY <1>2, <2>2, <2>3, EdgeEntryHas
<1>6. ASSUME NEW s \in Steps, Undo(s)  PROVE Left
  <2>1. /\ job.kind \in Replays /\ job'.todo = Tail(job.todo)
        /\ job'.kind = job.kind /\ job'.group = job.group /\ job'.failed = job.failed
        /\ job.todo # <<>> /\ Head(job.todo) = s
        /\ ToSet(journal'.live) = ToSet(journal.live) \ {s}
    BY <1>6, UndoDoes
  <2>2. job.ended = "none"
    BY <2>1, KindsAre DEF Outcome
  <2>3. Covered(job') = Covered(job)
    BY <1>1, <2>1, <2>2 DEF Covered
  <2>4. ToSet(journal.live) \cap Covered(job) \subseteq ToSet(job.todo)
    BY <2>1 DEF Outcome
  <2> QED  BY <2>1, <2>3, <2>4, TodoTail
<1>7. ~ FailUndo
  BY DEF FailUndo, InForm, JobType
<1>8. ASSUME Still  PROVE Left
  <2>1. job' = job /\ journal' = journal
    BY <1>8 DEF Still
  <2>2. ToSet(journal.live) \cap Covered(job) \subseteq ToSet(job.todo)
    BY <2>1 DEF Outcome
  <2> QED  BY <2>1, <2>2
<1> HIDE DEF Left
<1>9. Left
  BY <1>3, <1>4, <1>5, <1>6, <1>7, <1>8, ReplayBy
<1> QED  BY <1>9 DEF Left

\* What a replay that has ended covered.
LEMMA CoveredGone ==
    ASSUME InForm, Spared, Outcome, [Next]_vars, job'.kind = "idle", job'.ended \in Back
    PROVE  ToSet(journal'.live) \cap Covered(job') = {}
<1>1. CASE Still
  <2>1. job' = job /\ journal' = journal
    BY <1>1 DEF Still
  <2> QED  BY <2>1 DEF Outcome
<1>2. CASE EndReplay
  <2> DEFINE e == IF job.failed THEN "undo failed"
                  ELSE CASE job.kind = "undo" -> "undone"
                         [] job.kind = "rollback" -> "put back"
                         [] job.kind = "restore" -> "restored"
  <2>1. job.kind \in Replays /\ job.todo = <<>> /\ journal' = journal
    BY <1>2 DEF EndReplay
  <2>2. ~ job.failed /\ job'.group = job.group /\ (job'.ended = "restored" <=> job.kind = "restore")
    <3>1. job' = Idle(e)
      BY <1>2 DEF EndReplay
    <3> HIDE DEF e
    <3>2. job'.ended = e /\ job'.group = job.group
      BY <3>1 DEF Idle
    <3>3. e \in Back
      BY <3>2
    <3>4. ~ job.failed
      BY <3>3 DEF e, Back
    <3>5. e = "restored" <=> job.kind = "restore"
      BY <2>1, <3>4 DEF e, Replays
    <3> QED  BY <3>2, <3>4, <3>5
  <2>3. job.ended = "none"
    BY <2>1, KindsAre DEF Outcome
  <2>4. Covered(job') = Covered(job)
    BY <2>2, <2>3 DEF Covered
  <2>5. ToSet(journal.live) \cap Covered(job) \subseteq ToSet(job.todo)
    BY <2>1, <2>2 DEF Outcome
  <2>6. ToSet(job.todo) = {}
    BY <2>1 DEF ToSet
  <2> QED  BY <2>1, <2>4, <2>5, <2>6
<1> QED  BY <1>1, <1>2, BackFrom

LEMMA OutcomeStep ==
    ASSUME InForm, Spared, Ending, Outcome, [Next]_vars
    PROVE  Outcome'
<1>1. job'.kind # "idle" => job'.ended = "none"
  BY BusyEnds
<1>2. ASSUME job'.ended \in Back  PROVE TheEnd \notin journal'.done
  <2>1. job'.kind = "idle"
    BY <1>1, <1>2 DEF Back
  <2>2. CASE Still
    <3>1. job' = job /\ journal' = journal
      BY <2>2 DEF Still
    <3> QED  BY <1>2, <3>1 DEF Outcome
  <2>3. CASE EndReplay
    <3>1. job.kind \in Replays /\ journal' = journal
      BY <2>3 DEF EndReplay
    <3> QED  BY <3>1, KindsAre DEF Ending, Replays
  <2> QED  BY <1>2, <2>1, <2>2, <2>3, BackFrom
<1>3. (job'.kind \in Replays /\ ~ job'.failed) =>
          ToSet(journal'.live) \cap Covered(job') \subseteq ToSet(job'.todo)
  BY CoveredLeft
<1>4. (job'.kind = "idle" /\ job'.ended \in Back) => ToSet(journal'.live) \cap Covered(job') = {}
  BY CoveredGone
<1> QED  BY <1>1, <1>2, <1>3, <1>4
         DEF Outcome, Covered, StepsOf, TheEdge, TheEnd, Back, Replays, ToSet, Workloads, Members


-----------------------------------------------------------------------------
(* What is put back is as it was found *)

Undoing ==
    /\ Removing /\ Settled /\ ChangesOnce /\ TellsStops /\ TellsEdge /\ EdgesInOrder
    /\ Routed /\ EdgeTold /\ Outcome

\* Finish's credential is revoked at the first attempt, an edge that moves aside
\* settles there, the ports change hands once, and Meshploy's edge can be stopped.
Orderly ==
    /\ Budget["revoke"] = 0 /\ Budget["settle"] = 0 /\ Budget["recut"] = 0
    /\ "up" \notin UndoFails

LEMMA EdgesInit ==
    ASSUME Init
    PROVE  EdgesInOrder
<1>1. /\ job.kind = "idle" /\ job.noting = NotNoted /\ edge.at = "ports" /\ edge.ports = "old"
      /\ journal.done = {} /\ journal.live = <<>>
  BY DEF Init
<1>2. ToSet(journal.live) = {} /\ DOMAIN journal.live = {}
  BY <1>1 DEF ToSet
<1>3. CutoverLeft /\ EdgeUndoneLast
  BY <1>1, KindsAre DEF CutoverLeft, EdgeUndoneLast
<1>4. PortsTold
  BY <1>1 DEF PortsTold, AtHand
<1>5. EdgesLive
  BY <1>1, <1>2 DEF EdgesLive, AtHand, NoneAfter
<1> QED  BY <1>3, <1>4, <1>5 DEF EdgesInOrder

LEMMA UndoingInit ==
    ASSUME Init, Clean, Orderly
    PROVE  Undoing
<1>1. Removing
  BY RemovingInit DEF Orderly
<1>2. Settled /\ ChangesOnce /\ TellsStops /\ TellsEdge
  BY ToldInit DEF Orderly, Told, ChangesOnce, Init
<1>3. Routed /\ EdgeTold
  BY DEF Init, Routed, EdgeTold
<1>4. Outcome
  BY KindsAre DEF Init, Outcome, Back
<1> QED  BY <1>1, <1>2, <1>3, <1>4, EdgesInit DEF Undoing

LEMMA UndoingStep ==
    ASSUME Undoing, [Next]_vars
    PROVE  Undoing'
<1>1. /\ InForm /\ PlacesType /\ BudgetType /\ Spared /\ OnSides /\ Revoked /\ RemovesMoved
      /\ Ending
  BY RestIs DEF Undoing, Removing, OnSides, FormHolds
<1>2. Removing'
  BY RemovingStep DEF Undoing
<1>3. Settled'
  <2>1. "settle" \in Expenses
    BY DEF Expenses, Wrong
  <2> QED  BY <1>1, <2>1, BudgetStep DEF Undoing, Settled
<1>4. TellsStops' /\ TellsEdge'
  BY <1>1, TellsStopsStep, TellsEdgeStep DEF Undoing
<1>5. EdgesInOrder' /\ ChangesOnce'
  BY <1>1, EdgesStep DEF Undoing
<1>6. Routed' /\ EdgeTold'
  BY <1>1, RoutedStep, EdgeToldStep DEF Undoing
<1>7. Outcome'
  BY <1>1, OutcomeStep DEF Undoing
<1> QED  BY <1>2, <1>3, <1>4, <1>5, <1>6, <1>7 DEF Undoing

LEMMA AlwaysUndoing == Spec /\ Clean /\ Orderly => []Undoing
<1>1. Init /\ Clean /\ Orderly => Undoing
  BY UndoingInit
<1>2. Undoing /\ [Next]_vars => Undoing'
  BY UndoingStep
<1> QED  BY <1>1, <1>2, PTL DEF Spec

\* Where the journal has nothing to undo of a group, and finish is not complete,
\* the group is as it was found.
LEMMA NothingLeft ==
    ASSUME Undoing, NEW g \in Groups, job.kind = "idle", TheEnd \notin journal.done,
           ToSet(journal.live) \cap StepsOf(g) = {}
    PROVE  PutBackGroup(g)
<1>1. job.noting = NotNoted
  BY IdleNotNoting, KindsAre DEF Undoing, Removing, OnSides, FormHolds
<1>2. ASSUME NEW w \in Members(g), NEW what \in Kinds  PROVE ~ ToUndo(<<what, w>>)
  <2>1. <<what, w>> \in StepsOf(g)
    BY HostApart DEF StepsOf
  <2> QED  BY <1>1, <2>1 DEF ToUndo, NotNoted
<1>3. ASSUME NEW w \in Members(g)
      PROVE  /\ old[w] = was[w] /\ ~ new[w]
             /\ w \notin routes.switched \union routes.published \union routes.tcp
  <2>1. w \in Workloads
    BY DEF Workloads
  <2>2. \A what \in {"stop", "start", "service", "domain", "publish", "tcp"} : ~ ToUndo(<<what, w>>)
    BY <1>2, <1>3, KindsOf
  <2>3. old[w] # "gone"
    BY <2>1 DEF Undoing, Removing, GoneStarted
  <2>4. old[w] \in {"up", "down", "gone"} /\ was[w] \in {"up", "down"}
    BY <2>1, RestIs DEF Undoing, Removing, OnSides, FormHolds, PlacesType
  <2>5. ~ (was[w] = "up" /\ old[w] # "up") /\ (old[w] = "up" => was[w] = "up")
    BY <2>1, <2>2 DEF Undoing, TellsStops
  <2>6. old[w] = was[w]
    BY <2>3, <2>4, <2>5
  <2>7. ~ new[w]
    BY <2>1, <2>2 DEF Undoing, Removing, OnSides, Sides
  <2>8. w \notin routes.switched \union routes.published \union routes.tcp
    BY <2>2 DEF Undoing, Routed
  <2> QED  BY <2>6, <2>7, <2>8
<1> QED  BY <1>3 DEF PutBackGroup

\* Where it has not the old edge's entry, that edge has the ports.
LEMMA EdgeLeft ==
    ASSUME Undoing, job.kind = "idle", TheEdge \notin ToSet(journal.live)
    PROVE  PutBackEdge
<1>1. job.noting = NotNoted
  BY IdleNotNoting, KindsAre DEF Undoing, Removing, OnSides, FormHolds
<1>2. TheEdge \notin journal.done
  BY DEF Undoing, EdgesInOrder, EdgesLive
<1>3. edge.at = "ports"
  BY <1>1, <1>2 DEF Undoing, TellsEdge, AtHand
<1>4. edge.ports = "old"
  BY <1>3 DEF Undoing, EdgesInOrder, PortsTold
<1> QED  BY <1>3, <1>4 DEF PutBackEdge

LEMMA UndoingPutsBack == Undoing => PutBack
<1> SUFFICES ASSUME Undoing, job.ended \in Back
             PROVE  PutBack
  BY DEF PutBack, Back
<1>1. job.kind = "idle" /\ TheEnd \notin journal.done
  BY DEF Undoing, Outcome, Back
<1>2. ToSet(journal.live) \cap Covered(job) = {}
  BY <1>1 DEF Undoing, Outcome
<1>3. job.group \in Groups \union {Host} /\ journal.live \in Seq(LiveStep)
  BY DEF Undoing, Removing, OnSides, FormHolds, InForm, JobType, JournalType
<1>4. CASE job.ended = "restored"
  <2>1. TheEdge \notin ToSet(journal.live)
    BY <1>2, <1>4 DEF Covered
  <2> QED  BY <1>1, <1>4, <2>1, EdgeLeft DEF PutBack
<1>5. CASE job.ended # "restored" /\ job.group # Host
  <2>1. Covered(job) = StepsOf(job.group) /\ job.group \in Groups
    BY <1>1, <1>3, <1>5 DEF Covered
  <2>2. PutBackGroup(job.group)
    BY <1>1, <1>2, <2>1, NothingLeft
  <2> QED  BY <1>5, <2>2 DEF PutBack
<1>6. CASE job.ended # "restored" /\ job.group = Host
  <2>1. Covered(job) = StepsOf(Host)
    BY <1>1, <1>6 DEF Covered
  <2>2. StepsOf(Host) = Steps
    BY DEF StepsOf, Steps
  <2>3. ToSet(journal.live) = {}
    <3>1. ToSet(journal.live) \subseteq Steps
      BY <1>3, InSeq, StepsAre
    <3> QED  BY <1>2, <2>1, <2>2, <3>1
  <2>4. \A g \in Groups : PutBackGroup(g)
    BY <1>1, <2>3, NothingLeft
  <2>5. PutBackEdge
    BY <1>1, <2>3, EdgeLeft
  <2>6. edge.console = "up" /\ edge.fallback = {} /\ ~ edge.trust
    <3>1. job.noting = NotNoted
      BY <1>1, IdleNotNoting, KindsAre DEF Undoing, Removing, OnSides, FormHolds
    <3>2. \A s : ~ ToUndo(s)
      BY <2>3, <3>1 DEF ToUndo, NotNoted
    <3>3. edge.console \in {"up", "down", "gone"} /\ edge.trust \in BOOLEAN
      BY RestIs DEF Undoing, Removing, OnSides, FormHolds, PlacesType
    <3>4. edge.console # "gone"
      BY <1>1 DEF Undoing, EdgeTold
    <3> QED  BY <3>2, <3>3, <3>4 DEF Undoing, EdgeTold
  <2> QED  BY <1>6, <2>4, <2>5, <2>6 DEF PutBack
<1> QED  BY <1>4, <1>5, <1>6

\* What is reported as put back is: the group of a failed move or of a rollback is
\* as the migration found it, whatever was tried, cut short and resumed before;
\* and so are the ports, the console and the edge when everything was rolled back,
\* and the ports when a cutover restored the edge.
THEOREM PutBackIsAsFound == Spec /\ Clean /\ Orderly => []PutBack
  BY UndoingPutsBack, AlwaysUndoing, PTL


-----------------------------------------------------------------------------
(* What is read, and what starts *)

\* What reads a group's data, the steps that carry it across, and the starts of
\* what uses it.
Reading(g) == {"dump", "copy"} \X Members(g)
Carrying(g) ==
    ({"dump", "restore"} \X (Members(g) \cap Dumped)) \union ({"copy"} \X (Members(g) \cap Copied))
AppStarts(g) == {"start", "service"} \X ToSet(Applications[g])

\* All data is across before an application starts.
LEMMA BringUpCarries ==
    ASSUME NEW g \in Groups
    PROVE  /\ ({"copy"} \X (Members(g) \cap Copied)) \subseteq ToSet(BringUp(g))
           /\ ({"restore"} \X (Members(g) \cap Dumped)) \subseteq ToSet(BringUp(g))
           /\ NoneAfter(BringUp(g), AppStarts(g), {"copy", "restore"} \X Members(g))
           /\ \A w : <<"restore", w>> \in ToSet(BringUp(g)) => w \in Dumped
<1> DEFINE M == Members(g)
           dbs == Databases[g]
           apps == Applications[g]
           PB == {"service", "healthy", "start"} \X ToSet(dbs)
           PD == {"service", "healthy", "start"} \X ToSet(apps)
           PO == {"copy", "restore"} \X M
           P == {"copy", "restore", "service", "healthy", "start"} \X M
           X == AppStarts(g)
           A == Each("copy", Only(dbs \o apps, Copied))
           B == StartAll(dbs)
           C == Each("restore", Only(dbs, Dumped))
           D == StartAll(apps)
<1>1. /\ apps \in Seq(M) /\ dbs \in Seq(M) /\ dbs \in Seq(ToSet(dbs))
      /\ apps \in Seq(ToSet(apps))
  BY ListsAre, SeqWithin
<1>2. Only(dbs, Dumped) \in Seq(M) /\ ToSet(Only(dbs, Dumped)) = ToSet(dbs) \cap Dumped
  <2>1. Only(dbs, Dumped) \in Seq(M \cap Dumped)
    BY <1>1, OnlySet
  <2> QED  BY <1>1, <2>1, OnlySet
<1>3. Only(dbs \o apps, Copied) \in Seq(M) /\ ToSet(Only(dbs \o apps, Copied)) = M \cap Copied
  <2> DEFINE all == dbs \o apps
  <2>1. all \in Seq(M) /\ ToSet(all) = ToSet(dbs) \union ToSet(apps)
    BY <1>1, ConcatSet
  <2>2. ToSet(all) = M
    BY <2>1 DEF Members
  <2> HIDE DEF all
  <2>3. Only(all, Copied) \in Seq(M \cap Copied) /\ ToSet(Only(all, Copied)) = M \cap Copied
    BY <2>1, <2>2, OnlySet
  <2> QED  BY <2>3 DEF all
<1>4. /\ A \in Seq({"copy"} \X M) /\ ToSet(A) = {<<"copy", w>> : w \in M \cap Copied}
      /\ C \in Seq({"restore"} \X M) /\ ToSet(C) = {<<"restore", w>> : w \in ToSet(dbs) \cap Dumped}
      /\ B \in Seq(PB) /\ D \in Seq(PD)
  <2> DEFINE dumps == Only(dbs, Dumped)  copies == Only(dbs \o apps, Copied)
  <2>1. dumps \in Seq(M) /\ ToSet(dumps) = ToSet(dbs) \cap Dumped
    BY <1>2
  <2>2. copies \in Seq(M) /\ ToSet(copies) = M \cap Copied
    BY <1>3
  <2>3. A = Each("copy", copies) /\ C = Each("restore", dumps)
    OBVIOUS
  <2>4. B \in Seq(PB) /\ D \in Seq(PD)
    BY <1>1, StartAllIs
  <2> HIDE DEF dumps, copies, A, B, C, D, M, PB, PD
  <2>5. A \in Seq({"copy"} \X M) /\ ToSet(A) = {<<"copy", w>> : w \in ToSet(copies)}
    BY <2>2, <2>3, EachIs
  <2>6. C \in Seq({"restore"} \X M) /\ ToSet(C) = {<<"restore", w>> : w \in ToSet(dumps)}
    BY <2>1, <2>3, EachIs
  <2> QED  BY <2>1, <2>2, <2>4, <2>5, <2>6
<1>5. /\ {"copy"} \X M \subseteq PO /\ {"restore"} \X M \subseteq PO
      /\ PO \subseteq P /\ PB \subseteq P /\ PD \subseteq P
  BY DEF Members
<1>6. BringUp(g) = ((A \o B) \o C) \o D
  BY DEF BringUp
<1>7. PO \cap X = {} /\ PB \cap X = {} /\ PD \cap PO = {}
  <2>1. ToSet(apps) \cap ToSet(dbs) = {}
    BY MigrationAssumption
  <2> QED  BY <2>1 DEF AppStarts
<1>8. /\ {"copy"} \X (M \cap Copied) \subseteq ToSet(A)
      /\ {"restore"} \X (M \cap Dumped) \subseteq ToSet(C)
  BY <1>4, DumpedIn
<1>9. \A w : /\ <<"restore", w>> \in ToSet(C) => w \in Dumped
            /\ <<"restore", w>> \notin ToSet(A) \union PB \union PD
  BY <1>4
<1> HIDE DEF A, B, C, D, P, PB, PD, PO, X, dbs, apps
<1>14. /\ A \in Seq(PO) /\ C \in Seq(PO)
       /\ ToSet(A) \subseteq PO /\ ToSet(B) \subseteq PB /\ ToSet(C) \subseteq PO
       /\ ToSet(D) \subseteq PD
  BY <1>4, <1>5, SeqIn, InSeq
<1>15. A \in Seq(P) /\ B \in Seq(P) /\ C \in Seq(P) /\ D \in Seq(P)
  BY <1>4, <1>5, <1>14, SeqIn
<1> DEFINE AB == A \o B
<1>16. AB \in Seq(P) /\ ToSet(AB) = ToSet(A) \union ToSet(B)
  BY <1>15, ConcatSet
<1>17. BringUp(g) = (AB \o C) \o D
  BY <1>6
<1> HIDE DEF AB
<1> DEFINE ABC == AB \o C
<1>18. ABC \in Seq(P) /\ ToSet(ABC) = ToSet(AB) \union ToSet(C)
  BY <1>15, <1>16, ConcatSet
<1>19. BringUp(g) = ABC \o D
  BY <1>17
<1> HIDE DEF ABC
<1>20. ToSet(ABC \o D) = ToSet(ABC) \union ToSet(D)
  BY <1>15, <1>18, ConcatSet
<1>21. ToSet(ABC) \cap X = {} /\ ToSet(D) \cap PO = {}
  BY <1>7, <1>14, <1>16, <1>18
<1>22. NoneAfter(ABC, X, PO) /\ NoneAfter(D, X, PO)
  BY <1>15, <1>18, <1>21, ApartNone
<1>23. NoneAfter(ABC \o D, X, PO)
  BY <1>15, <1>18, <1>21, <1>22, ConcatNone
<1>24. NoneAfter(BringUp(g), AppStarts(g), {"copy", "restore"} \X M)
  BY <1>19, <1>23 DEF X, PO
<1> DEFINE rs(w) == <<"restore", w>>
<1>25. \A w : rs(w) \in ToSet(BringUp(g)) => w \in Dumped
  <2>1. \A w : (rs(w) \in ToSet(C) => w \in Dumped) /\ rs(w) \notin ToSet(A) \union PB \union PD
    BY <1>9
  <2> HIDE DEF rs
  <2> QED  BY <2>1, <1>14, <1>16, <1>18, <1>19, <1>20
<1> QED  BY <1>8, <1>16, <1>18, <1>19, <1>20, <1>24, <1>25

\* In a move, data is read with the applications down, restored from what was
\* dumped, and across before they start.
LEMMA MoveCarries ==
    ASSUME NEW g \in Groups
    PROVE  /\ Carrying(g) \subseteq ToSet(MoveSteps(g))
           /\ AppStops(g) \subseteq ToSet(MoveSteps(g))
           /\ NoneAfter(MoveSteps(g), AppStarts(g), Carrying(g))
           /\ NoneAfter(MoveSteps(g), Reading(g), AppStops(g))
           /\ \A w : NoneAfter(MoveSteps(g), {<<"restore", w>>}, {<<"dump", w>>})
           /\ \A w : <<"restore", w>> \in ToSet(MoveSteps(g)) => w \in Dumped
<1> DEFINE S == MoveStep(g)
           C == BringUp(g)
           M == Members(g)
           X == AppStarts(g)
           Y == Carrying(g)
           R == Reading(g)
           T == AppStops(g)
<1>1. PICK a \in Seq(S), d \in Seq(S) :
              /\ MoveSteps(g) = a \o (C \o d) /\ C \in Seq(S)
              /\ StopsOf(g) \subseteq ToSet(a) /\ DumpsOf(g) \subseteq ToSet(a)
              /\ NoneAfter(a, {"dump"} \X M, T)
              /\ ToSet(a) \subseteq {"ready", "stop", "dump"} \X M
              /\ ToSet(d) \subseteq {"tcp", "domain", "publish", "probe"} \X M
  BY MoveIs
<1>2. ToSet(C) \subseteq {"copy", "restore", "service", "healthy", "start"} \X M
  <2> DEFINE PC == {"copy", "restore", "service", "healthy", "start"} \X M
  <2>1. C \in Seq(PC)
    BY BringUpIs
  <2> HIDE DEF PC, C
  <2>2. ToSet(C) \subseteq PC
    BY <2>1, InSeq
  <2> QED  BY <2>2 DEF PC
<1>3. /\ ({"copy"} \X (M \cap Copied)) \subseteq ToSet(C)
      /\ ({"restore"} \X (M \cap Dumped)) \subseteq ToSet(C)
      /\ NoneAfter(C, X, {"copy", "restore"} \X M)
      /\ \A w : <<"restore", w>> \in ToSet(C) => w \in Dumped
  BY BringUpCarries
<1>4. /\ ToSet(a) \cap X = {} /\ ToSet(d) \cap X = {} /\ ToSet(d) \cap Y = {}
      /\ ToSet(C) \cap T = {} /\ ToSet(d) \cap T = {}
      /\ \A w : /\ <<"restore", w>> \notin ToSet(a)
                /\ <<"dump", w>> \notin ToSet(C) /\ <<"dump", w>> \notin ToSet(d)
                /\ <<"restore", w>> \notin ToSet(d)
  BY <1>1, <1>2 DEF AppStarts, Carrying, AppStops
<1>5. NoneAfter(C, X, Y)
  <2>1. \A s \in ToSet(C) : s \in Y => s \in {"copy", "restore"} \X M
    BY <1>2 DEF Carrying
  <2>2. \A i \in DOMAIN C : C[i] \in ToSet(C)
    BY DEF ToSet
  <2> HIDE DEF C, X, Y
  <2> QED  BY <1>3, <2>1, <2>2 DEF NoneAfter
<1>6. NoneAfter(a, R, T)
  <2>1. \A s \in ToSet(a) : s \in R => s \in {"dump"} \X M
    BY <1>1 DEF Reading
  <2>2. \A i \in DOMAIN a : a[i] \in ToSet(a)
    BY DEF ToSet
  <2> HIDE DEF C, R, T
  <2> QED  BY <1>1, <2>1, <2>2 DEF NoneAfter
<1>7. AppStops(g) \subseteq StopsOf(g)
  BY DEF AppStops, StopsOf, Members
<1>8. Y \subseteq DumpsOf(g) \union ({"copy"} \X (M \cap Copied)) \union ({"restore"} \X (M \cap Dumped))
  BY DEF Carrying, DumpsOf
<1> DEFINE r == C \o d
<1> HIDE DEF S, C, M, X, Y, R, T
<1>9. r \in Seq(S) /\ ToSet(r) = ToSet(C) \union ToSet(d)
  BY <1>1, ConcatSet
<1>10. NoneAfter(r, X, Y)
  <2>1. NoneAfter(d, X, Y)
    BY <1>1, <1>4, ApartNone
  <2> QED  BY <1>1, <1>4, <1>5, <2>1, ConcatNone
<1> HIDE DEF r
<1>11. ToSet(a \o r) = ToSet(a) \union ToSet(r)
  BY <1>1, <1>9, ConcatSet
<1>12. MoveSteps(g) = a \o r
  BY <1>1 DEF r
<1>13. NoneAfter(a \o r, X, Y)
  <2>1. NoneAfter(a, X, Y)
    BY <1>1, <1>4, ApartNone
  <2> QED  BY <1>1, <1>4, <1>9, <1>10, <2>1, ConcatNone
<1>14. NoneAfter(a \o r, R, T)
  <2>1. ToSet(r) \cap T = {}
    BY <1>4, <1>9
  <2>2. NoneAfter(r, R, T)
    BY <1>9, <2>1, ApartNone
  <2> QED  BY <1>1, <1>6, <1>9, <2>1, <2>2, ConcatNone
<1>15. ASSUME NEW w  PROVE NoneAfter(a \o r, {<<"restore", w>>}, {<<"dump", w>>})
  <2> DEFINE x == <<"restore", w>>  y == <<"dump", w>>
  <2>1. x \notin ToSet(a) /\ y \notin ToSet(r)
    BY <1>4, <1>9
  <2> HIDE DEF x, y
  <2>2. NoneAfter(a, {x}, {y}) /\ NoneAfter(r, {x}, {y})
    BY <1>1, <1>9, <2>1, ApartNone
  <2>3. NoneAfter(a \o r, {x}, {y})
    BY <1>1, <1>9, <2>1, <2>2, ConcatNone
  <2> QED  BY <2>3 DEF x, y
<1>16. Y \subseteq ToSet(a \o r)
  BY <1>1, <1>3, <1>8, <1>9, <1>11
<1>17. AppStops(g) \subseteq ToSet(a \o r)
  BY <1>1, <1>7, <1>11
<1>18. \A w : <<"restore", w>> \in ToSet(a \o r) => w \in Dumped
  <2> DEFINE rs(w) == <<"restore", w>>
  <2>1. \A w : (rs(w) \in ToSet(C) => w \in Dumped) /\ rs(w) \notin ToSet(a) \union ToSet(d)
    BY <1>3, <1>4
  <2> HIDE DEF rs
  <2>2. \A w : rs(w) \in ToSet(a \o r) => w \in Dumped
    BY <2>1, <1>9, <1>11
  <2> QED  BY <2>2 DEF rs
<1> QED  BY <1>12, <1>13, <1>14, <1>15, <1>16, <1>17, <1>18 DEF X, Y, R, T


\* X comes after Y, of which the steps need no undo: once the journal has any of
\* X it has all of Y, and so it is with what is left of the group's move.
MoveOf(g) == job.kind = "move" /\ job.group = g
HasAny(X) == X \cap (journal.done \union ToSet(journal.live)) # {}

Follows(g, X, Y) ==
    /\ HasAny(X) => Y \subseteq journal.done
    /\ MoveOf(g) =>
          /\ NoneAfter(job.todo, X, Y)
          /\ Y \subseteq journal.done \union ToSet(job.todo)
          /\ Y \cap ToSet(job.todo) # {} => ~ HasAny(X)

GroupStep(g) == {"stop", "dump", "copy", "restore", "service", "start"} \X Members(g)

Line(g, X, Y) ==
    /\ g \in Groups
    /\ X \union Y \subseteq GroupStep(g) /\ X \cap Y = {}
    /\ NoneAfter(MoveSteps(g), X, Y) /\ Y \subseteq ToSet(MoveSteps(g))

LEMMA GroupStepIs ==
    ASSUME NEW g \in Groups, NEW s \in GroupStep(g)
    PROVE  /\ s[1] \in Journalled /\ s[2] \in Members(g) /\ s = <<s[1], s[2]>>
           /\ s \notin CutoverStep \union FinishStep
  BY KindsOf DEF GroupStep, CutoverStep, FinishStep

LEMMA GroupAtHand ==
    ASSUME NEW g \in Groups, InForm, job.kind \in Runs, job.todo # <<>>,
           Head(job.todo) \in GroupStep(g)
    PROVE  MoveOf(g)
<1> DEFINE s == Head(job.todo)
<1>1. s \notin CutoverStep \union FinishStep /\ s[2] \in Members(g)
  <2> HIDE DEF s
  <2> QED  BY GroupStepIs DEF s
<1>2. job.kind = "move"
  BY <1>1, HeadIs DEF Runs
<1>3. job.group \in Groups /\ s[2] \in Members(job.group)
  BY <1>2, HeadIs DEF MoveStep
<1> QED  BY <1>1, <1>2, <1>3, MigrationAssumption DEF MoveOf

\* What is at hand comes after what is not left.
LEMMA FollowsAtHand ==
    ASSUME NEW g, NEW X, NEW Y, Line(g, X, Y), Follows(g, X, Y), InForm, job.kind \in Runs,
           job.todo # <<>>, Head(job.todo) \in X
    PROVE  MoveOf(g) /\ Y \subseteq journal.done
<1> DEFINE s == Head(job.todo)
<1>1. g \in Groups /\ s \in GroupStep(g) /\ s \in X /\ s \notin Y
  BY DEF Line
<1>2. MoveOf(g)
  BY <1>1, GroupAtHand
<1>3. ToSet(job.todo) = {s} \union ToSet(Tail(job.todo))
  BY TodoTail
<1>4. NoneAfter(job.todo, X, Y) /\ Y \subseteq journal.done \union ToSet(job.todo)
  BY <1>2 DEF Follows
<1>5. ToSet(Tail(job.todo)) \cap Y = {}
  BY <1>1, <1>4, TodoTail
<1> QED  BY <1>1, <1>2, <1>3, <1>4, <1>5

\* What is not left is not at hand.
LEMMA NotAtHand ==
    ASSUME NEW g, NEW X, NEW Y, Line(g, X, Y), Follows(g, X, Y), InForm, job.kind \in Runs,
           job.todo # <<>>, Head(job.todo) \in Y
    PROVE  MoveOf(g) /\ ~ HasAny(X)
<1> DEFINE s == Head(job.todo)
<1>1. g \in Groups /\ s \in GroupStep(g) /\ s \in Y
  BY DEF Line
<1>2. MoveOf(g)
  BY <1>1, GroupAtHand
<1>3. s \in ToSet(job.todo)
  BY TodoTail
<1> QED  BY <1>1, <1>2, <1>3 DEF Follows

LEMMA FollowsJournal ==
    ASSUME NEW g, NEW X, NEW Y, Line(g, X, Y), Follows(g, X, Y), InForm, Spared, [Next]_vars,
           \A s \in Y : ~ Undo(s)
    PROVE  (HasAny(X) => Y \subseteq journal.done)'
<1> DEFINE D == journal.done  L == ToSet(journal.live)
           Dp == journal'.done  Lp == ToSet(journal'.live)
           h == Head(job.todo)
<1> SUFFICES ASSUME X \cap (Dp \union Lp) # {}  PROVE Y \subseteq Dp
  <2>1. X' = X /\ Y' = Y
    OBVIOUS
  <2> QED  BY DEF HasAny
<1>1. X \cap (D \union L) # {} => Y \subseteq D
  BY DEF Follows, HasAny
<1>2. CASE Quiet \/ Still
  BY <1>1, <1>2 DEF Quiet, Still
<1>3. ASSUME NEW what \in Kinds, NEW w \in Workloads \union {Host}, Effect(what, w)
      PROVE  Y \subseteq Dp
  BY <1>1, <1>3, EffectHands
<1>4. CASE Note
  <2>1. /\ job.kind \in Runs /\ job.todo # <<>> /\ Dp = D \union {h}
        /\ Lp \subseteq L \union {h}
    BY <1>4, NoteIs
  <2>2. h \in X => Y \subseteq D
    BY <2>1, FollowsAtHand
  <2> QED  BY <1>1, <2>1, <2>2
<1>5. ASSUME NEW s \in Steps, Failed(s)  PROVE Y \subseteq Dp
  <2>1. /\ job.kind \in Runs /\ job.todo # <<>> /\ h = s /\ Dp = D \ {s} /\ Lp = L
    BY <1>5, FailedIs DEF Failed
  <2>2. X \cap (D \union L) # {}
    BY <2>1
  <2>3. s \notin Y
    BY <2>1, <2>2, NotAtHand DEF HasAny
  <2> QED  BY <1>1, <2>1, <2>2, <2>3
<1>6. ASSUME NEW s \in Steps, Undo(s)  PROVE Y \subseteq Dp
  <2>1. Dp = D \ {s} /\ Lp = L \ {s}
    BY <1>6, UndoDoes
  <2>2. s \notin Y
    BY <1>6
  <2> QED  BY <1>1, <2>1, <2>2
<1> QED  BY <1>2, <1>3, <1>4, <1>5, <1>6, StepKinds

LEMMA FollowsMove ==
    ASSUME NEW g, NEW X, NEW Y, Line(g, X, Y), Follows(g, X, Y), InForm, Spared, [Next]_vars,
           job'.kind = "move", job'.group = g
    PROVE  /\ NoneAfter(job'.todo, X, Y)
           /\ Y \subseteq journal'.done \union ToSet(job'.todo)
           /\ Y \cap ToSet(job'.todo) # {} =>
                    X \cap (journal'.done \union ToSet(journal'.live)) = {}
<1> DEFINE D == journal.done  L == ToSet(journal.live)
           Dp == journal'.done  Lp == ToSet(journal'.live)
           h == Head(job.todo)  t == Tail(job.todo)
           Goal == /\ NoneAfter(job'.todo, X, Y)
                   /\ Y \subseteq Dp \union ToSet(job'.todo)
                   /\ Y \cap ToSet(job'.todo) # {} => X \cap (Dp \union Lp) = {}
<1>1. MoveOf(g) => /\ NoneAfter(job.todo, X, Y) /\ Y \subseteq D \union ToSet(job.todo)
                   /\ Y \cap ToSet(job.todo) # {} => X \cap (D \union L) = {}
  BY DEF Follows, HasAny
<1>2. ASSUME NEW k \in Groups, StartMove(k)  PROVE Goal
  <2> DEFINE T == ToDo(MoveSteps(g))
  <2>1. k = g /\ job'.todo = ToDo(MoveSteps(k)) /\ journal' = journal
    BY <1>2, StartMoveIs DEF Begun, StartMove
  <2>2. MoveSteps(g) \in Seq(MoveStep(g)) /\ MoveStep(g) \subseteq Steps
    BY MoveStepsAre, StepsAre DEF Line
  <2>3. NoneAfter(T, X, Y) /\ ToSet(T) = ToSet(MoveSteps(g)) \ D
    BY <2>2, ToDoIs, ToDoNone DEF Line
  <2>4. job'.todo = T
    BY <2>1
  <2> HIDE DEF T
  <2>5. Y \subseteq D \union ToSet(T)
    BY <2>3 DEF Line
  <2>6. Y \cap ToSet(T) # {} => X \cap (D \union L) = {}
    BY <2>3 DEF Follows, HasAny
  <2> QED  BY <2>1, <2>3, <2>4, <2>5, <2>6
<1>3. ASSUME NEW first \in EdgeFirst, StartCutover(first)  PROVE FALSE
  BY <1>3, StartCutoverIs DEF Begun
<1>4. ASSUME StartFinish  PROVE FALSE
  BY <1>4, StartFinishIs DEF Begun
<1>5. CASE Still
  <2>1. MoveOf(g) /\ job' = job /\ journal' = journal
    BY <1>5 DEF Still, MoveOf
  <2> QED  BY <1>1, <2>1
<1>6. ASSUME NEW what \in Kinds, NEW w \in Workloads \union {Host}, Effect(what, w)  PROVE Goal
  <2>1. /\ journal' = journal /\ MoveOf(g) /\ job.todo # <<>> /\ h = <<what, w>>
        /\ what \in Journalled => job'.todo = job.todo
        /\ what \notin Journalled => job'.todo = t
    BY <1>6, EffectHands DEF MoveOf
  <2>2. what \notin Journalled => h \notin Y
    BY <2>1, GroupStepIs DEF Line
  <2>3. ToSet(job.todo) = {h} \union ToSet(t) /\ (NoneAfter(job.todo, X, Y) => NoneAfter(t, X, Y))
    BY <2>1, TodoTail
  <2> QED  BY <1>1, <2>1, <2>2, <2>3
<1>7. CASE Note
  <2>1. /\ job.kind \in Runs /\ job.todo # <<>> /\ Dp = D \union {h} /\ Lp \subseteq L \union {h}
        /\ job'.todo = t /\ MoveOf(g)
    BY <1>7, NoteIs DEF MoveOf
  <2>2. /\ ToSet(job.todo) = {h} \union ToSet(t)
        /\ NoneAfter(job.todo, X, Y) => NoneAfter(t, X, Y) /\ (h \in X => ToSet(t) \cap Y = {})
    BY <2>1, TodoTail
  <2> HIDE DEF h, t
  <2> QED  BY <1>1, <2>1, <2>2
<1>8. ASSUME NEW s \in Steps, FailFinish(s)  PROVE FALSE
  BY <1>8 DEF FailFinish, InForm, JobType
<1>9. Goal
  BY <1>2, <1>3, <1>4, <1>5, <1>6, <1>7, <1>8, RunFrom DEF Runs
<1> QED  BY <1>9

LEMMA FollowsStep ==
    ASSUME NEW g, NEW X, NEW Y, Line(g, X, Y), Follows(g, X, Y), InForm, Spared, [Next]_vars,
           \A s \in Y : ~ Undo(s)
    PROVE  Follows(g, X, Y)'
<1>1. (HasAny(X) => Y \subseteq journal.done)'
  BY FollowsJournal
<1> QED  BY <1>1, FollowsMove DEF Follows, MoveOf, HasAny

LEMMA FollowsInit ==
    ASSUME Init, NEW g, NEW X, NEW Y
    PROVE  Follows(g, X, Y)
<1>1. journal.done = {} /\ ToSet(journal.live) = {} /\ job.kind = "idle"
  BY DEF Init, ToSet
<1> QED  BY <1>1 DEF Follows, HasAny, MoveOf


\* Only what is dumped is restored.
RestoresDumped ==
    job.kind = "move" => \A w : <<"restore", w>> \in ToSet(job.todo) => w \in Dumped

LEMMA RestoresStep ==
    ASSUME InForm, Spared, RestoresDumped, [Next]_vars
    PROVE  RestoresDumped'
<1> SUFFICES ASSUME job'.kind = "move", NEW w, <<"restore", w>> \in ToSet(job'.todo)
             PROVE  w \in Dumped
  BY DEF RestoresDumped
<1> DEFINE s == <<"restore", w>>
<1> HIDE DEF s
<1>1. job.kind = "move" /\ s \in ToSet(job.todo) => w \in Dumped
  BY DEF RestoresDumped, s
<1>2. s \in ToSet(job'.todo)
  BY DEF s
<1>3. ASSUME NEW h \in Groups, StartMove(h)  PROVE w \in Dumped
  <2>1. job'.todo = ToDo(MoveSteps(h))
    BY <1>3, StartMoveIs DEF Begun
  <2>2. MoveSteps(h) \in Seq(MoveStep(h)) /\ MoveStep(h) \subseteq Steps
    BY MoveStepsAre, StepsAre
  <2>3. s \in ToSet(MoveSteps(h))
    BY <1>2, <2>1, <2>2, ToDoIs
  <2> QED  BY <2>3, MoveCarries DEF s
<1>4. ASSUME NEW first \in EdgeFirst, StartCutover(first)  PROVE FALSE
  BY <1>4, StartCutoverIs DEF Begun
<1>5. ASSUME StartFinish  PROVE FALSE
  BY <1>5, StartFinishIs DEF Begun
<1>6. CASE Still
  BY <1>1, <1>2, <1>6 DEF Still
<1>7. ASSUME NEW what \in Kinds, NEW v \in Workloads \union {Host}, Effect(what, v)
      PROVE  w \in Dumped
  <2>1. /\ job.kind = "move" /\ job.todo # <<>>
        /\ job'.todo = job.todo \/ job'.todo = Tail(job.todo)
    BY <1>7, EffectHands
  <2> QED  BY <1>1, <1>2, <2>1, TodoTail
<1>8. CASE Note
  BY <1>1, <1>2, <1>8, NoteIs, TodoTail
<1>9. ASSUME NEW f \in Steps, FailFinish(f)  PROVE FALSE
  BY <1>9 DEF FailFinish, InForm, JobType
<1> QED  BY <1>3, <1>4, <1>5, <1>6, <1>7, <1>8, <1>9, RunFrom DEF Runs

\* A group is being put back.
Covering(g) == job.kind \in {"undo", "rollback"} /\ job.group \in {g, Host}

\* It was not put back after its data was read, nor is it being put back.
FirstTime(g) == g \notin past.again /\ ~ Covering(g)

LEMMA AgainStays ==
    ASSUME InForm, PastType, [Next]_vars
    PROVE  past.again \subseteq past'.again
<1>1. ASSUME EndRun \/ Unsettled  PROVE past'.again = past.again
  BY <1>1 DEF EndRun, Unsettled, PastType
<1>2. ASSUME EndReplay  PROVE past.again \subseteq past'.again
  BY <1>2 DEF EndReplay
<1>3. ASSUME Crash  PROVE past.again \subseteq past'.again
  BY <1>3 DEF Crash, PastType
<1>4. ASSUME Step  PROVE past'.again = past.again
  <2>1. Note => past' = past
    BY Zenon DEF Note
  <2>2. \A what, w : Effect(what, w) => past' = past
    BY Zenon DEF Effect
  <2> QED  BY <1>1, <1>4, <2>1, <2>2, StepIs, Zenon
<1>5. ASSUME \/ \E g \in Groups : StartMove(g)
             \/ \E first \in EdgeFirst : StartCutover(first)
             \/ StartFinish
             \/ \E g \in Groups \union {Host} : StartRollback(g)
             \/ FailUndo
             \/ \E w \in Workloads : Write(w)
      PROVE  past' = past
  BY <1>5, Zenon DEF StartMove, StartCutover, StartFinish, StartRollback, FailUndo, Write
<1>6. ASSUME NEW s \in Steps, FailMove(s) \/ FailCutover(s) \/ FailFinish(s) \/ Undo(s)
      PROVE  past' = past
  BY <1>6, Zenon DEF FailMove, FailCutover, FailFinish, Undo, UndoOf
<1>7. ASSUME UNCHANGED vars  PROVE past' = past
  BY <1>7, Zenon DEF vars
<1> QED  BY <1>1, <1>2, <1>3, <1>4, <1>5, <1>6, <1>7, Zenon DEF Next

\* A replay goes on, or it ends and what it put back is noted.
LEMMA CoveringEnds ==
    ASSUME InForm, Spared, PastType, [Next]_vars, NEW g \in Groups, Covering(g)
    PROVE  \/ job'.kind = job.kind /\ job'.group = job.group
           \/ /\ journal' = journal /\ job'.kind = "idle" /\ job'.noting = NotNoted
              /\ g \in past'.again \/ ~ WasRead(g)
<1>1. job.kind \in Replays /\ job.kind \notin Runs /\ job.kind # "idle" /\ job.noting = NotNoted
  BY IdleNotNoting, KindsAre DEF Covering
<1>2. g \in Touched \ {Host}
  <2>1. job.kind = "undo" => job.group \in Groups
    BY DEF InForm, Stage
  <2> QED  BY <2>1, HostApart DEF Covering, Touched
<1>3. ASSUME \/ \E h \in Groups : StartMove(h)
             \/ \E first \in EdgeFirst : StartCutover(first)
             \/ StartFinish
             \/ \E h \in Groups \union {Host} : StartRollback(h)
      PROVE  FALSE
  BY <1>1, <1>3, Zenon DEF StartMove, StartCutover, StartFinish, StartRollback
<1>4. ASSUME Step  PROVE FALSE
  <2>1. \A what, w : ~ Effect(what, w)
    BY <1>1, EffectHands
  <2>2. ~ Note
    BY <1>1, NoteIs
  <2>3. ~ Unsettled
    BY <1>1 DEF Unsettled, At
  <2> QED  BY <1>4, <2>1, <2>2, <2>3, StepIs
<1>5. ASSUME NEW s \in Steps, FailMove(s) \/ FailCutover(s) \/ FailFinish(s)  PROVE FALSE
  BY <1>1, <1>5, KindsAre DEF FailMove, FailCutover, FailFinish
<1>6. ASSUME NEW s \in Steps, Undo(s)  PROVE job'.kind = job.kind /\ job'.group = job.group
  BY <1>6, UndoDoes
<1>7. ASSUME FailUndo  PROVE job'.kind = job.kind /\ job'.group = job.group
  BY <1>7 DEF FailUndo, InForm, JobType
<1>8. ASSUME EndRun  PROVE FALSE
  BY <1>1, <1>8 DEF EndRun
<1>9. ASSUME EndReplay
      PROVE  /\ journal' = journal /\ job'.kind = "idle" /\ job'.noting = NotNoted
             /\ g \in past'.again \/ ~ WasRead(g)
  <2>1. journal' = journal /\ \E e : job' = Idle(e)
    BY <1>9 DEF EndReplay
  <2>2. past'.again = past.again \union {h \in Touched \ {Host} : WasRead(h)}
    BY <1>9 DEF EndReplay
  <2> QED  BY <1>2, <2>1, <2>2 DEF Idle
<1>10. ASSUME Crash
       PROVE  /\ journal' = journal /\ job'.kind = "idle" /\ job'.noting = NotNoted
              /\ g \in past'.again \/ ~ WasRead(g)
  <2> DEFINE read == {h \in Touched \ {Host} : job.kind \in Replays /\ WasRead(h)}
  <2>1. journal' = journal /\ job' = Idle("cut short")
    BY <1>10 DEF Crash
  <2>2. past' = [past EXCEPT !.cut = @ \union Touched, !.again = @ \union read]
    BY <1>10 DEF Crash
  <2>3. WasRead(g) => g \in read
    BY <1>1, <1>2
  <2> HIDE DEF read
  <2>4. past'.again = past.again \union read
    BY <2>2 DEF PastType
  <2> QED  BY <2>1, <2>3, <2>4 DEF Idle
<1>11. ASSUME UNCHANGED vars \/ \E w \in Workloads : Write(w)
       PROVE  job'.kind = job.kind /\ job'.group = job.group
  BY <1>11, Zenon DEF vars, Write
<1> QED  BY <1>3, <1>4, <1>5, <1>6, <1>7, <1>8, <1>9, <1>10, <1>11, Zenon DEF Next

\* What is moved for the first time was so, or has had nothing read.
LEMMA FirstTimeFrom ==
    ASSUME InForm, Spared, PastType, [Next]_vars, NEW g \in Groups, g \notin past'.again,
           ~ (job'.kind \in {"undo", "rollback"} /\ job'.group \in {g, Host})
    PROVE  \/ FirstTime(g)
           \/ /\ journal' = journal /\ job'.kind = "idle" /\ job'.noting = NotNoted
              /\ ~ WasRead(g)
<1>1. g \notin past.again
  BY AgainStays
<1>2. CASE ~ Covering(g)
  BY <1>1, <1>2 DEF FirstTime
<1>3. CASE Covering(g)
  BY <1>3, CoveringEnds DEF Covering
<1> QED  BY <1>2, <1>3


-----------------------------------------------------------------------------
(* What is written is carried across *)

LEMMA DataLines ==
    ASSUME NEW g \in Groups
    PROVE  /\ Line(g, AppStarts(g), Carrying(g)) /\ Line(g, Reading(g), AppStops(g))
           /\ \A w \in Members(g) \cap Dumped : Line(g, {<<"restore", w>>}, {<<"dump", w>>})
<1>1. ToSet(Applications[g]) \subseteq Members(g)
  BY DEF Members
<1>2. /\ AppStarts(g) \union Carrying(g) \subseteq GroupStep(g)
      /\ AppStarts(g) \cap Carrying(g) = {}
      /\ Reading(g) \union AppStops(g) \subseteq GroupStep(g)
      /\ Reading(g) \cap AppStops(g) = {}
  BY <1>1 DEF AppStarts, Carrying, Reading, AppStops, GroupStep
<1>3. Line(g, AppStarts(g), Carrying(g)) /\ Line(g, Reading(g), AppStops(g))
  BY <1>2, MoveCarries DEF Line
<1>4. ASSUME NEW w \in Members(g) \cap Dumped
      PROVE  Line(g, {<<"restore", w>>}, {<<"dump", w>>})
  <2> DEFINE X == {<<"restore", w>>}  Y == {<<"dump", w>>}
  <2>1. X \union Y \subseteq GroupStep(g) /\ X \cap Y = {}
    BY DEF GroupStep
  <2>2. Y \subseteq Carrying(g)
    BY DEF Carrying
  <2>3. NoneAfter(MoveSteps(g), X, Y) /\ Y \subseteq ToSet(MoveSteps(g))
    BY <2>2, MoveCarries
  <2> HIDE DEF X, Y
  <2>4. Line(g, X, Y)
    BY <2>1, <2>3 DEF Line
  <2> QED  BY <2>4 DEF X, Y
<1> QED  BY <1>3, <1>4

\* It has had its effect.
Performed(what, w) == Done(what, w) \/ AtHand(<<what, w>>)

InLine(g) ==
    /\ Follows(g, AppStarts(g), Carrying(g))
    /\ \A w \in Members(g) \cap Dumped : Follows(g, {<<"restore", w>>}, {<<"dump", w>>})

\* How far the data has got, by what was done to it.
Across(g) ==
    \A w \in Members(g) :
        /\ (w \in Dumped /\ Performed("dump", w) /\ ~ Performed("restore", w))
                => data[w].dump = data[w].old
        /\ (w \in Dumped /\ Performed("restore", w))
                => data[w].new = data[w].old /\ data[w].dump = Nothing
        /\ (w \in Copied /\ Performed("copy", w)) => data[w].new = data[w].old

DataSteps(g) == {"dump", "copy", "restore"} \X Members(g)

LEMMA InLineStep ==
    ASSUME InForm, Spared, [Next]_vars, NEW g \in Groups, InLine(g)
    PROVE  InLine(g)'
<1>1. ASSUME NEW s \in DataSteps(g)  PROVE ~ Undo(s)
  <2>1. s \notin LiveStep \union ({"outright"} \X Workloads)
    BY DEF DataSteps, LiveStep
  <2> QED  BY <2>1, UndoIs
<1>2. Follows(g, AppStarts(g), Carrying(g))'
  <2> DEFINE X == AppStarts(g)  Y == Carrying(g)
  <2>1. Y \subseteq DataSteps(g)
    BY DEF Carrying, DataSteps
  <2>2. Line(g, X, Y) /\ Follows(g, X, Y) /\ \A s \in Y : ~ Undo(s)
    BY <1>1, <2>1, DataLines DEF InLine
  <2>3. X' = X /\ Y' = Y
    BY DEF AppStarts, Carrying, Members
  <2> HIDE DEF X, Y
  <2>4. Follows(g, X, Y)'
    BY <2>2, <2>3, FollowsStep
  <2> QED  BY <2>4 DEF X, Y
<1>3. ASSUME NEW w \in Members(g) \cap Dumped
      PROVE  Follows(g, {<<"restore", w>>}, {<<"dump", w>>})'
  <2> DEFINE X == {<<"restore", w>>}  Y == {<<"dump", w>>}
  <2>1. Y \subseteq DataSteps(g)
    BY DEF DataSteps
  <2>2. Line(g, X, Y) /\ Follows(g, X, Y) /\ \A s \in Y : ~ Undo(s)
    BY <1>1, <2>1, DataLines DEF InLine
  <2> HIDE DEF X, Y
  <2>3. Follows(g, X, Y)'
    BY <2>2, FollowsStep
  <2> QED  BY <2>3 DEF X, Y
<1>4. Members(g)' = Members(g)
  BY DEF Members
<1> QED  BY <1>2, <1>3, <1>4 DEF InLine

\* Where a group is moved for the first time, what reads it has all of its
\* applications stopped,
ReadDown(g) == Follows(g, Reading(g), AppStops(g))

LEMMA ReadDownStep ==
    ASSUME InForm, Spared, PastType, [Next]_vars, NEW g \in Groups,
           FirstTime(g) => ReadDown(g), FirstTime(g)'
    PROVE  ReadDown(g)'
<1> DEFINE X == Reading(g)  Y == AppStops(g)
<1>1. X' = X /\ Y' = Y
  BY DEF Reading, AppStops, Members
<1>2. g \notin past'.again /\ ~ (job'.kind \in {"undo", "rollback"} /\ job'.group \in {g, Host})
  BY DEF FirstTime, Covering
<1>3. CASE FirstTime(g)
  <2>1. ASSUME NEW s \in Y, Undo(s)  PROVE FALSE
    <3>1. s[1] = "stop" /\ s[2] \in Members(g) /\ s # <<"edge", Host>>
      BY DEF AppStops, Members
    <3>2. /\ job.kind \in Replays /\ job.todo # <<>> /\ Head(job.todo) = s
          /\ job'.kind = job.kind /\ job'.group = job.group
      BY <2>1, UndoDoes
    <3>3. job.kind \in {"undo", "rollback"} /\ s \in StepsOf(job.group)
      BY <3>1, <3>2, HeadIs DEF Replays, UndoStep, LiveStep
    <3>4. job.group \in {g, Host}
      <4>1. job.group \in Groups \union {Host}
        BY DEF InForm, JobType
      <4>2. job.group # Host => s[2] \in Members(job.group)
        BY <3>3 DEF StepsOf
      <4> QED  BY <3>1, <4>1, <4>2, MigrationAssumption
    <3> QED  BY <1>2, <3>2, <3>3, <3>4
  <2>2. Line(g, X, Y) /\ Follows(g, X, Y)
    BY <1>3, DataLines DEF ReadDown
  <2> HIDE DEF X, Y
  <2>3. Follows(g, X, Y)'
    BY <1>1, <2>1, <2>2, FollowsStep
  <2> QED  BY <2>3 DEF ReadDown, X, Y
<1>4. CASE ~ FirstTime(g)
  <2>1. journal' = journal /\ job'.kind = "idle" /\ ~ WasRead(g)
    BY <1>2, <1>4, FirstTimeFrom
  <2>2. X \cap (journal.done \union ToSet(journal.live)) = {}
    <3>1. X \cap LiveStep = {} /\ ToSet(journal.live) \subseteq LiveStep
      BY TodoSeq, InSeq DEF Reading, LiveStep
    <3>2. X \cap journal.done = {}
      BY <2>1 DEF WasRead, Done, Reading
    <3> QED  BY <3>1, <3>2
  <2> HIDE DEF X, Y
  <2>3. Follows(g, X, Y)'
    BY <1>1, <2>1, <2>2 DEF Follows, HasAny, MoveOf
  <2> QED  BY <2>3 DEF ReadDown, X, Y
<1> QED  BY <1>3, <1>4


\* What was performed was performed before, or is the step at hand.
LEMMA PerformedFrom ==
    ASSUME InForm, Spared, [Next]_vars, NEW g \in Groups, NEW s \in DataSteps(g),
           ~ (job'.kind \in {"undo", "rollback"} /\ job'.group \in {g, Host})
    PROVE  LET before == s \in journal.done \/ (job.noting # NotNoted /\ Head(job.todo) = s)
               after == s \in journal'.done \/ (job'.noting # NotNoted /\ Head(job'.todo) = s)
           IN  \/ after <=> before
               \/ /\ Effect(s[1], s[2]) /\ after
                  /\ job.kind \in Runs /\ job.todo # <<>> /\ Head(job.todo) = s
                  /\ job.noting = NotNoted
<1> DEFINE before == s \in journal.done \/ (job.noting # NotNoted /\ Head(job.todo) = s)
           after == s \in journal'.done \/ (job'.noting # NotNoted /\ Head(job'.todo) = s)
<1>1. s \in GroupStep(g) /\ s \notin LiveStep \union ({"outright"} \X Workloads)
  BY DEF DataSteps, GroupStep, LiveStep
<1>2. /\ s[1] \in Journalled /\ s = <<s[1], s[2]>> /\ s \notin CutoverStep \union FinishStep
      /\ s[2] \in Members(g)
  BY <1>1, GroupStepIs
<1>3. CASE Quiet \/ Still
  <2>1. after <=> before
    BY <1>3 DEF Quiet, Still
  <2> QED  BY <2>1
<1>4. CASE Note
  <2>1. after <=> before
    BY <1>4, NoteIs DEF Noting, NotNoted
  <2> QED  BY <2>1
<1>5. ASSUME NEW what \in Kinds, NEW w \in Workloads \union {Host}, Effect(what, w)
      PROVE  \/ after <=> before
             \/ /\ Effect(s[1], s[2]) /\ after
                /\ job.kind \in Runs /\ job.todo # <<>> /\ Head(job.todo) = s
                /\ job.noting = NotNoted
  <2>1. /\ job.noting = NotNoted /\ journal' = journal /\ Head(job.todo) = <<what, w>>
        /\ job.kind \in Runs /\ job.todo # <<>>
        /\ what \in Journalled => job'.todo = job.todo /\ job'.noting \in {"undo", "plain"}
        /\ what \notin Journalled => job'.noting = NotNoted
    BY <1>5, EffectHands
  <2>2. CASE s = <<what, w>>
    <3>1. what = s[1] /\ w = s[2] /\ what \in Journalled
      BY <1>2, <2>2
    <3>2. after
      BY <2>1, <2>2, <3>1 DEF NotNoted
    <3> QED  BY <1>5, <2>1, <2>2, <3>1, <3>2
  <2>3. CASE s # <<what, w>>
    <3>1. after <=> before
      BY <2>1, <2>3
    <3> QED  BY <3>1
  <2> QED  BY <2>2, <2>3
<1>6. ASSUME NEW f \in Steps, Failed(f)  PROVE after <=> before
  <2>1. journal'.done = journal.done \ {f} /\ job.noting = NotNoted /\ job'.noting = NotNoted
    BY <1>6, FailedIs DEF Failed
  <2>2. f # s
    <3> SUFFICES ASSUME f = s  PROVE FALSE
      OBVIOUS
    <3>1. ~ FailCutover(s) /\ ~ FailFinish(s)
      BY <1>2, FailCutoverIs, FailFinishIs
    <3>2. FailMove(s)
      BY <1>6, <3>1 DEF Failed
    <3>3. /\ job'.kind = "undo" /\ job'.group = job.group /\ job.group \in Groups
          /\ s \in MoveStep(job.group)
      BY <3>2, FailMoveIs DEF Begun
    <3>4. job.group = g
      BY <1>2, <3>3, MigrationAssumption DEF MoveStep
    <3> QED  BY <3>3, <3>4
  <2> QED  BY <2>1, <2>2
<1>7. ASSUME NEW u \in Steps, Undo(u)  PROVE after <=> before
  <2>1. /\ job.noting = NotNoted /\ job'.noting = NotNoted /\ journal'.done = journal.done \ {u}
        /\ u # s
    BY <1>1, <1>7, UndoDoes, UndoIs
  <2> QED  BY <2>1
<1> QED  BY <1>3, <1>4, <1>5, <1>6, <1>7, StepKinds

\* the applications being down,
LEMMA ReadMeansDown ==
    ASSUME InForm, Sides, NEW g \in Groups, ReadDown(g), InLine(g), NEW w \in Members(g),
           \/ Performed("dump", w) \/ Performed("copy", w)
           \/ w \in Dumped /\ Performed("restore", w)
    PROVE  \A a \in ToSet(Applications[g]) : old[a] # "up"
<1> DEFINE X == Reading(g)  Y == AppStops(g)
<1>1. <<"dump", w>> \in X /\ <<"copy", w>> \in X
  BY DEF Reading
<1>2. Line(g, X, Y) /\ Follows(g, X, Y)
  BY DataLines DEF ReadDown
<1>3. job.noting # NotNoted => job.kind \in Runs /\ job.todo # <<>>
  BY DEF InForm, Hand
<1>4. w \in Dumped /\ Performed("restore", w) => <<"dump", w>> \in journal.done
  <2> SUFFICES ASSUME w \in Dumped, Performed("restore", w)  PROVE <<"dump", w>> \in journal.done
    OBVIOUS
  <2> DEFINE r == <<"restore", w>>  d == <<"dump", w>>  R == {r}  D == {d}
  <2>1. Line(g, R, D) /\ Follows(g, R, D)
    BY DataLines DEF InLine
  <2>2. r \in journal.done \/ (job.noting # NotNoted /\ Head(job.todo) = r)
    BY DEF Performed, Done, AtHand
  <2> HIDE DEF r, d
  <2>3. D \subseteq journal.done
    <3>1. CASE r \in journal.done
      BY <2>1, <3>1 DEF Follows, HasAny
    <3>2. CASE job.noting # NotNoted /\ Head(job.todo) = r
      <4>1. Head(job.todo) \in R
        BY <3>2
      <4> HIDE DEF R, D
      <4> QED  BY <1>3, <2>1, <3>2, <4>1, FollowsAtHand
    <3> QED  BY <2>2, <3>1, <3>2
  <2> QED  BY <2>3 DEF d
<1>5. \E s \in X : s \in journal.done \/ (job.noting # NotNoted /\ Head(job.todo) = s)
  BY <1>1, <1>4 DEF Performed, Done, AtHand
<1> HIDE DEF X, Y
<1>6. Y \subseteq journal.done
  <2>1. PICK s \in X : s \in journal.done \/ (job.noting # NotNoted /\ Head(job.todo) = s)
    BY <1>5
  <2>2. CASE s \in journal.done
    BY <1>2, <2>2 DEF Follows, HasAny
  <2>3. CASE job.noting # NotNoted /\ Head(job.todo) = s
    BY <1>2, <1>3, <2>3, FollowsAtHand
  <2> QED  BY <2>1, <2>2, <2>3
<1>7. ASSUME NEW a \in ToSet(Applications[g])  PROVE old[a] # "up"
  <2>1. <<"stop", a>> \in journal.done
    BY <1>6 DEF Y, AppStops
  <2>2. a \in Workloads
    BY StepsAre DEF Members
  <2> QED  BY <2>1, <2>2 DEF Sides, Done
<1> QED  BY <1>7

LEMMA WriteNeedsUp ==
    ASSUME NEW g \in Groups, NEW w \in Members(g), Write(w)
    PROVE  old[w] = "up" /\ \E a \in ToSet(Applications[g]) : old[a] = "up"
<1>1. w \in Workloads /\ GroupOf(w) = g
  <2>1. w \in Workloads
    BY StepsAre
  <2> QED  BY <2>1, GroupOfIs, MigrationAssumption
<1>2. w \in ToSet(Applications[g]) \/ w \in ToSet(Databases[g])
  BY DEF Members
<1> QED  BY <1>1, <1>2 DEF Write


\* and what was read or written has got across;
LEMMA AcrossStep ==
    ASSUME InForm, DataType, PastType, Spared, Sides, RestoresDumped, [Next]_vars,
           NEW g \in Groups, InLine(g), FirstTime(g) => ReadDown(g) /\ Across(g), FirstTime(g)'
    PROVE  Across(g)'
<1> DEFINE Before(what, w) == Performed(what, w)
           After(what, w) == \/ <<what, w>> \in journal'.done
                             \/ job'.noting # NotNoted /\ Head(job'.todo) = <<what, w>>
           Goal(w) ==
               /\ (w \in Dumped /\ After("dump", w) /\ ~ After("restore", w))
                        => data'[w].dump = data'[w].old
               /\ (w \in Dumped /\ After("restore", w))
                        => data'[w].new = data'[w].old /\ data'[w].dump = Nothing
               /\ (w \in Copied /\ After("copy", w)) => data'[w].new = data'[w].old
<1>1. SUFFICES ASSUME NEW w \in Members(g)  PROVE Goal(w)
  BY DEF Across, Performed, Done, AtHand, Members
<1>2. g \notin past'.again /\ ~ (job'.kind \in {"undo", "rollback"} /\ job'.group \in {g, Host})
  BY DEF FirstTime, Covering
<1>3. w \in Workloads
  BY StepsAre
<1>4. \A what \in {"dump", "copy", "restore"} : Before(what, w) <=>
            \/ <<what, w>> \in journal.done
            \/ job.noting # NotNoted /\ Head(job.todo) = <<what, w>>
  BY DEF Performed, Done, AtHand
<1>5. CASE ~ FirstTime(g)
  <2>1. journal' = journal /\ job'.noting = NotNoted /\ ~ WasRead(g)
    BY <1>2, <1>5, FirstTimeFrom
  <2>2. ~ After("dump", w) /\ ~ After("copy", w)
    BY <2>1 DEF WasRead, Done
  <2>3. ASSUME w \in Dumped, After("restore", w)  PROVE FALSE
    <3> DEFINE X == {<<"restore", w>>}  Y == {<<"dump", w>>}
    <3>1. Follows(g, X, Y)
      BY <2>3 DEF InLine
    <3>2. X \cap journal.done # {}
      BY <2>1, <2>3
    <3>3. Y \subseteq journal.done
      BY <3>1, <3>2 DEF Follows, HasAny
    <3> QED  BY <2>1, <3>3 DEF WasRead, Done
  <2> QED  BY <2>2, <2>3
<1>6. CASE FirstTime(g)
  <2>1. /\ (w \in Dumped /\ Before("dump", w) /\ ~ Before("restore", w))
                => data[w].dump = data[w].old
        /\ (w \in Dumped /\ Before("restore", w))
                => data[w].new = data[w].old /\ data[w].dump = Nothing
        /\ (w \in Copied /\ Before("copy", w)) => data[w].new = data[w].old
    BY <1>6 DEF Across
  <2>2. ASSUME NEW what \in {"dump", "copy", "restore"}
        PROVE  \/ After(what, w) <=> Before(what, w)
               \/ /\ Effect(what, w) /\ After(what, w) /\ job.kind \in Runs /\ job.todo # <<>>
                  /\ Head(job.todo) = <<what, w>> /\ job.noting = NotNoted
    <3> DEFINE s == <<what, w>>
    <3>1. s \in DataSteps(g) /\ s[1] = what /\ s[2] = w
      BY DEF DataSteps
    <3> HIDE DEF s
    <3>2. LET before == s \in journal.done \/ (job.noting # NotNoted /\ Head(job.todo) = s)
              after == s \in journal'.done \/ (job'.noting # NotNoted /\ Head(job'.todo) = s)
          IN  \/ after <=> before
              \/ /\ Effect(s[1], s[2]) /\ after
                 /\ job.kind \in Runs /\ job.todo # <<>> /\ Head(job.todo) = s
                 /\ job.noting = NotNoted
      BY <1>2, <3>1, PerformedFrom
    <3> QED  BY <1>4, <3>1, <3>2 DEF s
  <2>3. \A x \in Carried : data[x] \in [old : Nat, new : Nat, dump : Nat \union {Nothing}]
    BY DEF DataType
  <2>4. w \in Dumped \union Copied => w \in Carried
    BY DEF Carried
  <2>5. w \notin Dumped \/ w \notin Copied
    BY MigrationAssumption
  <2>6. ASSUME NEW v \in Workloads, Write(v)  PROVE Goal(w)
    <3>1. data' = [data EXCEPT ![v].old = @ + 1] /\ job' = job /\ journal' = journal
      BY <2>6 DEF Write
    <3>2. \A what \in {"dump", "copy", "restore"} : After(what, w) <=> Before(what, w)
      BY <1>4, <3>1
    <3>3. CASE v = w
      <4>1. \E a \in ToSet(Applications[g]) : old[a] = "up"
        BY <2>6, <3>3, WriteNeedsUp
      <4>2. /\ ~ Before("dump", w) /\ ~ Before("copy", w)
            /\ ~ (w \in Dumped /\ Before("restore", w))
        BY <1>6, <4>1, ReadMeansDown
      <4> QED  BY <3>2, <4>2
    <3>4. CASE v # w
      <4>1. w \in Dumped \union Copied => data'[w] = data[w]
        BY <2>4, <3>1, <3>4 DEF DataType
      <4> QED  BY <2>1, <3>2, <4>1
    <3> QED  BY <3>3, <3>4
  <2>7. CASE data' = data
             /\ \A what \in {"dump", "copy", "restore"} : After(what, w) <=> Before(what, w)
    BY <2>1, <2>7
  <2>8. ASSUME NEW v \in Workloads \union {Host}, Effect("dump", v)  PROVE Goal(w)
    <3>1. /\ data' = [data EXCEPT ![v].dump = data[v].old] /\ job.noting = NotNoted
          /\ journal' = journal /\ job.kind \in Runs /\ job.todo # <<>>
          /\ Head(job.todo) = <<"dump", v>> /\ Head(job'.todo) = <<"dump", v>>
      BY <2>8, KindsOf, EffectHands DEF Effect
    <3>2. /\ After("copy", w) <=> Before("copy", w)
          /\ After("restore", w) <=> Before("restore", w)
      BY <2>2, <3>1
    <3>3. CASE v # w
      <4>1. After("dump", w) <=> Before("dump", w)
        BY <2>2, <3>1, <3>3
      <4>2. w \in Dumped \union Copied => data'[w] = data[w]
        BY <2>4, <3>1, <3>3 DEF DataType
      <4> QED  BY <2>1, <3>2, <4>1, <4>2
    <3>4. CASE v = w
      <4>1. w \in Dumped \union Copied =>
                /\ data'[w].old = data[w].old /\ data'[w].new = data[w].new
                /\ data'[w].dump = data[w].old
        BY <2>3, <2>4, <3>1, <3>4 DEF DataType
      <4>2. ASSUME w \in Dumped, Before("restore", w)  PROVE FALSE
        <5> DEFINE X == {<<"restore", w>>}  Y == {<<"dump", w>>}
        <5>1. Line(g, X, Y) /\ Follows(g, X, Y)
          BY <4>2, DataLines DEF InLine
        <5>2. Head(job.todo) \in Y
          BY <3>1, <3>4
        <5>3. X \cap journal.done # {}
          BY <1>4, <3>1, <4>2
        <5> HIDE DEF X, Y
        <5> QED  BY <3>1, <5>1, <5>2, <5>3, NotAtHand DEF HasAny
      <4> QED  BY <2>1, <3>2, <4>1, <4>2
    <3> QED  BY <3>3, <3>4
  <2>9. ASSUME NEW v \in Workloads \union {Host}, Effect("copy", v)  PROVE Goal(w)
    <3>1. /\ data' = [data EXCEPT ![v].new = data[v].old] /\ job.noting = NotNoted
          /\ Head(job.todo) = <<"copy", v>>
      BY <2>9, KindsOf, EffectHands DEF Effect
    <3>2. /\ After("dump", w) <=> Before("dump", w)
          /\ After("restore", w) <=> Before("restore", w)
      BY <2>2, <3>1
    <3>3. CASE v # w
      <4>1. After("copy", w) <=> Before("copy", w)
        BY <2>2, <3>1, <3>3
      <4>2. w \in Dumped \union Copied => data'[w] = data[w]
        BY <2>4, <3>1, <3>3 DEF DataType
      <4> QED  BY <2>1, <3>2, <4>1, <4>2
    <3>4. CASE v = w
      <4>1. w \in Dumped \union Copied =>
                /\ data'[w].old = data[w].old /\ data'[w].new = data[w].old
                /\ data'[w].dump = data[w].dump
        BY <2>3, <2>4, <3>1, <3>4 DEF DataType
      <4> QED  BY <2>1, <3>2, <4>1
    <3> QED  BY <3>3, <3>4
  <2>10. ASSUME NEW v \in Workloads \union {Host}, Effect("restore", v)  PROVE Goal(w)
    <3>1. /\ data' = [data EXCEPT ![v].new = data[v].dump, ![v].dump = Nothing]
          /\ job.noting = NotNoted /\ job.kind \in Runs /\ job.todo # <<>>
          /\ Head(job.todo) = <<"restore", v>> /\ Head(job'.todo) = <<"restore", v>>
          /\ job'.noting # NotNoted
      BY <2>10, KindsOf, EffectHands DEF Effect, NotNoted
    <3>2. /\ After("dump", w) <=> Before("dump", w)
          /\ After("copy", w) <=> Before("copy", w)
      BY <2>2, <3>1
    <3>3. CASE v # w
      <4>1. After("restore", w) <=> Before("restore", w)
        BY <2>2, <3>1, <3>3
      <4>2. w \in Dumped \union Copied => data'[w] = data[w]
        BY <2>4, <3>1, <3>3 DEF DataType
      <4> QED  BY <2>1, <3>2, <4>1, <4>2
    <3>4. CASE v = w
      <4>1. MoveOf(g)
        <5>1. <<"restore", w>> \in GroupStep(g)
          BY DEF GroupStep
        <5>2. Head(job.todo) \in GroupStep(g)
          BY <3>1, <3>4, <5>1
        <5> QED  BY <3>1, <5>2, GroupAtHand
      <4>2. w \in Dumped
        <5>1. <<"restore", w>> \in ToSet(job.todo)
          BY <3>1, <3>4, TodoTail
        <5> QED  BY <4>1, <5>1 DEF RestoresDumped, MoveOf
      <4>3. Before("dump", w)
        <5> DEFINE X == {<<"restore", w>>}  Y == {<<"dump", w>>}
        <5>1. Line(g, X, Y) /\ Follows(g, X, Y)
          BY <4>2, DataLines DEF InLine
        <5>2. Head(job.todo) \in X
          BY <3>1, <3>4
        <5> HIDE DEF X, Y
        <5>3. Y \subseteq journal.done
          BY <3>1, <5>1, <5>2, FollowsAtHand
        <5> QED  BY <1>4, <5>3 DEF Y
      <4>4. data[w].dump # Nothing
        BY <2>10, <3>4 DEF Effect, At, Refused
      <4>5. data[w].dump = data[w].old
        BY <2>1, <4>2, <4>3, <4>4
      <4>6. /\ data'[w].old = data[w].old /\ data'[w].new = data[w].dump
            /\ data'[w].dump = Nothing
        BY <2>3, <2>4, <3>1, <3>4, <4>2 DEF DataType
      <4>7. After("restore", w)
        BY <3>1, <3>4
      <4> QED  BY <2>5, <4>2, <4>5, <4>6, <4>7
    <3> QED  BY <3>3, <3>4
  <2>11. ASSUME NEW what \in Kinds, NEW v \in Workloads \union {Host}, Effect(what, v)
         PROVE  Goal(w)
    <3>1. CASE what \in {"dump", "copy", "restore"}
      BY <2>8, <2>9, <2>10, <2>11, <3>1
    <3>2. CASE what \notin {"dump", "copy", "restore"}
      <4>1. data' = data
        BY <2>11, <3>2 DEF Effect
      <4>2. Head(job.todo) = <<what, v>>
        BY <2>11, EffectHands
      <4>3. \A k \in {"dump", "copy", "restore"} : After(k, w) <=> Before(k, w)
        BY <2>2, <3>2, <4>2
      <4> QED  BY <2>7, <4>1, <4>3
    <3> QED  BY <3>1, <3>2
  <2>12. ASSUME \A what \in {"dump", "copy", "restore"} : ~ Effect(what, w), data' = data
         PROVE  Goal(w)
    BY <2>2, <2>7, <2>12
  <2>13. ASSUME NEW what \in {"dump", "copy", "restore"}, Effect(what, w)  PROVE Goal(w)
    BY <1>3, <2>11, <2>13, KindsOf
  <2>14. data' = data \/ (\E v \in Workloads : Write(v))
         \/ (\E what \in Kinds, v \in Workloads \union {Host} : Effect(what, v))
    <3>1. Quiet => data' = data
      BY DEF Quiet
    <3>2. Note => data' = data
      BY NoteIs
    <3>3. \A s \in Steps : Failed(s) \/ Undo(s) => data' = data
      BY UndoDoes DEF Failed
    <3>4. Still => data' = data \/ \E v \in Workloads : Write(v)
      BY DEF Still
    <3> QED  BY <3>1, <3>2, <3>3, <3>4, StepKinds
  <2> QED  BY <2>6, <2>11, <2>12, <2>13, <2>14
<1> QED  BY <1>5, <1>6


\* and nothing of it is lost in what an application starts with.
LEMMA CarriesStep ==
    ASSUME OnSides, RestoresDumped, [Next]_vars, NEW g \in Groups, InLine(g),
           FirstTime(g) => ReadDown(g) /\ Across(g), g \notin past.again, CarriesAll(g)
    PROVE  CarriesAll(g)'
<1> DEFINE X == AppStarts(g)  Y == Carrying(g)
<1>1. /\ InForm /\ PlacesType /\ DataType /\ Spared /\ Sides
      /\ Line(g, X, Y) /\ Follows(g, X, Y)
  BY RestIs, DataLines DEF OnSides, FormHolds, InLine
<1> SUFFICES ASSUME NEW a \in ToSet(Applications[g]), new'[a],
                    NEW w \in Members(g) \cap Carried
             PROVE  data'[w].new = data'[w].old
  BY DEF CarriesAll, Members, Carried
<1>2. a \in Members(g) /\ a \in Workloads /\ w \in Workloads /\ Members(g) \subseteq Workloads
  BY StepsAre DEF Members
<1>3. new[a] => data[w].new = data[w].old
  BY DEF CarriesAll
<1>4. CASE Quiet \/ Note \/ \E s \in Steps : Failed(s)
  <2>1. new' = new /\ data' = data
    BY <1>1, <1>4, NoteIs DEF Quiet, Failed
  <2> QED  BY <1>3, <2>1
<1>5. ASSUME NEW s \in Steps, Undo(s)  PROVE data'[w].new = data'[w].old
  <2>1. data' = data /\ UndoesNew(s)
    BY <1>1, <1>5, UndoDoes
  <2>2. new[a]
    BY <1>1, <1>2, <2>1 DEF UndoesNew, PlacesType
  <2> QED  BY <1>3, <2>1, <2>2
<1>6. CASE Still
  <2>1. new[a]
    BY <1>6 DEF Still
  <2>2. ASSUME NEW v \in Workloads, Write(v)  PROVE data'[w].new = data'[w].old
    <3>1. data' = [data EXCEPT ![v].old = @ + 1] /\ old[v] = "up"
      BY <2>2 DEF Write
    <3>2. old[w] # "up"
      BY <1>2, <2>1, UpMeansDown
    <3>3. data'[w] = data[w]
      BY <1>1, <3>1, <3>2 DEF DataType
    <3> QED  BY <1>3, <2>1, <3>3
  <2> QED  BY <1>3, <1>6, <2>1, <2>2 DEF Still
<1>7. ASSUME NEW what \in Kinds, NEW v \in Workloads \union {Host}, Effect(what, v)
      PROVE  data'[w].new = data'[w].old
  <2>1. /\ job.noting = NotNoted /\ job.kind \in Runs /\ job.todo # <<>>
        /\ Head(job.todo) = <<what, v>>
    BY <1>1, <1>7, EffectHands
  <2>2. data[w] \in [old : Nat, new : Nat, dump : Nat \union {Nothing}]
    BY <1>1 DEF DataType
  <2>3. CASE new[a]
    <3>1. data[w].new = data[w].old
      BY <1>3, <2>3
    <3>2. CASE what = "dump"
      <4>1. data' = [data EXCEPT ![v].dump = data[v].old]
        BY <1>7, <3>2 DEF Effect
      <4>2. data'[w].new = data[w].new /\ data'[w].old = data[w].old
        BY <1>1, <2>2, <4>1 DEF DataType
      <4> QED  BY <3>1, <4>2
    <3>3. CASE what = "copy"
      <4>1. data' = [data EXCEPT ![v].new = data[v].old]
        BY <1>7, <3>3 DEF Effect
      <4>2. CASE v = w
        BY <1>1, <2>2, <4>1, <4>2 DEF DataType
      <4>3. CASE v # w
        <5>1. data'[w] = data[w]
          BY <1>1, <4>1, <4>3 DEF DataType
        <5> QED  BY <3>1, <5>1
      <4> QED  BY <4>2, <4>3
    <3>4. CASE what = "restore"
      <4>1. data' = [data EXCEPT ![v].new = data[v].dump, ![v].dump = Nothing]
        BY <1>7, <3>4 DEF Effect
      <4>2. v # w
        <5> SUFFICES ASSUME v = w  PROVE FALSE
          OBVIOUS
        <5>1. <<"restore", w>> \in GroupStep(g)
          BY DEF GroupStep
        <5>2. Head(job.todo) = <<"restore", w>>
          BY <2>1, <3>4
        <5>3. MoveOf(g)
          BY <1>1, <2>1, <5>1, <5>2, GroupAtHand
        <5>4. w \in Dumped
          <6>1. <<"restore", w>> \in ToSet(job.todo)
            BY <1>1, <2>1, <5>2, TodoTail
          <6> QED  BY <5>3, <6>1 DEF RestoresDumped, MoveOf
        <5>5. <<"restore", w>> \in Y
          BY <5>4 DEF Carrying
        <5>6. Head(job.todo) \in Y
          BY <5>2, <5>5
        <5>7. ~ HasAny(X)
          <6> HIDE DEF X, Y
          <6> QED  BY <1>1, <2>1, <5>6, NotAtHand
        <5>8. <<"start", a>> \in ToSet(journal.live) \/ <<"service", a>> \in ToSet(journal.live)
          BY <1>1, <1>2, <2>1, <2>3 DEF Sides, ToUndo, NotNoted
        <5> QED  BY <5>7, <5>8 DEF HasAny, AppStarts
      <4>3. data'[w] = data[w]
        BY <1>1, <4>1, <4>2 DEF DataType
      <4> QED  BY <3>1, <4>3
    <3>5. CASE what \notin {"dump", "copy", "restore"}
      <4>1. data' = data
        BY <1>7, <3>5 DEF Effect
      <4> QED  BY <3>1, <4>1
    <3> QED  BY <3>2, <3>3, <3>4, <3>5
  <2>4. CASE ~ new[a]
    <3>1. what \in {"start", "service"} /\ v = a /\ data' = data
      <4>1. new' = IF what \in {"start", "service"} THEN [new EXCEPT ![v] = TRUE] ELSE new
        BY <1>7 DEF Effect
      <4>2. what \in {"start", "service"} /\ v = a
        BY <1>1, <1>2, <2>4, <4>1 DEF PlacesType
      <4> QED  BY <1>7, <4>2 DEF Effect
    <3>2. Head(job.todo) \in X
      <4>1. <<"start", a>> \in X /\ <<"service", a>> \in X
        BY DEF AppStarts
      <4>2. Head(job.todo) = <<"start", a>> \/ Head(job.todo) = <<"service", a>>
        BY <2>1, <3>1
      <4> QED  BY <4>1, <4>2
    <3>3. MoveOf(g) /\ Y \subseteq journal.done
      <4> HIDE DEF X, Y
      <4> QED  BY <1>1, <2>1, <3>2, FollowsAtHand
    <3>4. Across(g)
      BY <3>3 DEF FirstTime, Covering, MoveOf
    <3>5. CASE w \in Dumped
      <4>1. Performed("restore", w)
        BY <3>3, <3>5 DEF Performed, Done, Carrying
      <4> QED  BY <3>1, <3>4, <3>5, <4>1 DEF Across
    <3>6. CASE w \in Copied
      <4>1. Performed("copy", w)
        BY <3>3, <3>6 DEF Performed, Done, Carrying
      <4> QED  BY <3>1, <3>4, <3>6, <4>1 DEF Across
    <3> QED  BY <3>5, <3>6 DEF Carried
  <2> QED  BY <2>3, <2>4
<1> QED  BY <1>1, <1>4, <1>5, <1>6, <1>7, StepKinds

Lossless ==
    /\ OnSides /\ RestoresDumped
    /\ \A g \in Groups :
          /\ InLine(g)
          /\ FirstTime(g) => ReadDown(g) /\ Across(g)
          /\ g \notin past.again => CarriesAll(g)

LEMMA LosslessInit ==
    ASSUME Init, Clean
    PROVE  Lossless
<1>1. OnSides /\ RestoresDumped
  BY SidesInit DEF Init, RestoresDumped
<1>2. ASSUME NEW g \in Groups  PROVE InLine(g) /\ ReadDown(g) /\ Across(g) /\ CarriesAll(g)
  <2>1. InLine(g) /\ ReadDown(g)
    BY FollowsInit DEF InLine, ReadDown
  <2>2. Across(g)
    BY DEF Init, Across, Performed, Done, AtHand, NotNoted
  <2>3. CarriesAll(g)
    BY StepsAre DEF Init, CarriesAll, Members
  <2> QED  BY <2>1, <2>2, <2>3
<1> QED  BY <1>1, <1>2 DEF Lossless

LEMMA LosslessStep ==
    ASSUME Lossless, [Next]_vars
    PROVE  Lossless'
<1>1. InForm /\ DataType /\ PastType /\ Spared /\ Sides
  BY RestIs DEF Lossless, OnSides, FormHolds
<1>2. OnSides' /\ RestoresDumped'
  BY <1>1, OnSidesStep, RestoresStep DEF Lossless
<1>3. ASSUME NEW g \in Groups
      PROVE  /\ InLine(g)'
             /\ (FirstTime(g) => ReadDown(g) /\ Across(g))'
             /\ (g \notin past.again => CarriesAll(g))'
  <2>1. /\ InLine(g) /\ (FirstTime(g) => ReadDown(g) /\ Across(g))
        /\ (g \notin past.again => CarriesAll(g))
    BY DEF Lossless
  <2>2. InLine(g)'
    BY <1>1, <2>1, InLineStep
  <2>3. FirstTime(g)' => ReadDown(g)' /\ Across(g)'
    BY <1>1, <2>1, ReadDownStep, AcrossStep DEF Lossless
  <2>4. (g \notin past'.again) => CarriesAll(g)'
    <3>1. past.again \subseteq past'.again
      BY <1>1, AgainStays
    <3> QED  BY <2>1, <3>1, CarriesStep DEF Lossless
  <2> QED  BY <2>2, <2>3, <2>4
<1> QED  BY <1>2, <1>3 DEF Lossless

\* An application runs on Meshploy only with everything its group had written,
\* in every group that is moved for the first time: it is read with the
\* applications stopped (TakeDown), and loaded before any of them starts
\* (BringUp), whatever fails, is cut short or resumed in between.
THEOREM FirstMoveKeepsAll == Spec /\ Clean => []FirstMoveLosesNothing
<1>1. Init /\ Clean => Lossless
  BY LosslessInit
<1>2. Lossless /\ [Next]_vars => Lossless'
  BY LosslessStep
<1>3. Lossless => FirstMoveLosesNothing
  BY DEF Lossless, FirstMoveLosesNothing
<1> QED  BY <1>1, <1>2, <1>3, PTL DEF Spec

-----------------------------------------------------------------------------
(* What runs nothing on a group leaves it be *)

\* A stage moves a group, or puts it back.
Busy(g) == MoveOf(g) \/ Covering(g)

\* Neither, and nothing was cut short at it.
Open(g) == g \notin past.cut /\ ~ Busy(g)

LEMMA UndoingHas ==
    ASSUME Undoing
    PROVE  /\ InForm /\ PlacesType /\ BudgetType /\ PastType /\ Spared /\ Revoked /\ Settled
           /\ Ending /\ ChangesOnce /\ TellsEdge /\ Outcome
           /\ CutoverLeft /\ PortsTold /\ EdgesLive /\ EdgeUndoneLast
  BY RestIs DEF Undoing, Removing, OnSides, FormHolds, EdgesInOrder

LEMMA BusyIs ==
    ASSUME InForm, NEW g \in Groups
    PROVE  Busy(g) <=> job.kind # "idle" /\ g \in Touched
<1>1. g # Host /\ Touched = IF job.kind = "rollback" /\ job.group = Host THEN Groups \union {Host}
                            ELSE {job.group}
  BY HostApart DEF Touched
<1>2. /\ job.kind \in {"cutover", "finish", "restore"} => job.group = Host
      /\ job.kind = "undo" => job.group \in Groups
  BY DEF InForm, Stage
<1>3. job.kind \in {"idle", "move", "cutover", "finish", "undo", "rollback", "restore"}
  BY DEF InForm, JobType, Runs, Replays
<1> QED  BY <1>1, <1>2, <1>3, HostApart DEF Busy, MoveOf, Covering

\* What is done or undone of a group is at hand in a stage that is at work on it.
LEMMA BusyAtHand ==
    ASSUME InForm, job.todo # <<>>, NEW g \in Groups, Head(job.todo) \in LiveStep \cap StepsOf(g)
    PROVE  Busy(g)
<1> DEFINE s == Head(job.todo)
<1>1. s[2] \in Members(g) /\ Host \notin Members(g)
  BY HostApart DEF StepsOf, Workloads
<1>2. \A h \in Groups : s[2] \in Members(h) => h = g
  BY <1>1, MigrationAssumption
<1>3. CASE job.kind = "move"
  <2>1. job.group \in Groups /\ s \in MoveStep(job.group)
    BY <1>3, HeadIs
  <2> QED  BY <1>2, <1>3, <2>1 DEF MoveStep, Busy, MoveOf
<1>4. CASE job.kind = "cutover"
  <2>1. s \in CutoverStep
    BY <1>4, HeadIs
  <2>2. s[1] # "probe"
    BY DEF LiveStep
  <2> QED  BY <1>1, <2>1, <2>2 DEF CutoverStep
<1>5. CASE job.kind = "finish"
  <2>1. s \in FinishStep
    BY <1>5, HeadIs
  <2> QED  BY <2>1 DEF FinishStep, LiveStep
<1>6. CASE job.kind = "undo"
  <2>1. job.group \in Groups /\ s \in UndoStep(job.group)
    BY <1>6, HeadIs
  <2>2. s[2] \in Members(job.group)
    BY <2>1, HostApart DEF UndoStep, StepsOf
  <2> QED  BY <1>2, <1>6, <2>1, <2>2 DEF Busy, Covering
<1>7. CASE job.kind = "rollback"
  <2>1. s \in StepsOf(job.group) /\ job.group \in Groups \union {Host}
    BY <1>7, HeadIs DEF InForm, JobType
  <2>2. job.group # Host => s[2] \in Members(job.group)
    BY <2>1 DEF StepsOf
  <2> QED  BY <1>2, <1>7, <2>1, <2>2 DEF Busy, Covering
<1>8. CASE job.kind = "restore"
  <2>1. s = <<"edge", Host>>
    BY <1>8, HeadIs
  <2> QED  BY <1>1, <2>1
<1>9. job.kind # "idle"
  BY DEF InForm, Stage
<1> QED  BY <1>3, <1>4, <1>5, <1>6, <1>7, <1>8, <1>9 DEF InForm, JobType, Runs, Replays

\* A group that is left alone keeps its entries and its routes, and the ports stay
\* with Meshploy's proxy.
LEMMA AloneKeeps ==
    ASSUME InForm, PlacesType, Spared, [Next]_vars, NEW g \in Groups, ~ Busy(g)
    PROVE  /\ \A s \in LiveStep \cap StepsOf(g) :
                 /\ s \in journal'.done <=> s \in journal.done
                 /\ s \in ToSet(journal'.live) <=> s \in ToSet(journal.live)
           /\ \A w \in Members(g) : /\ w \in routes'.published <=> w \in routes.published
                                    /\ w \in routes'.switched <=> w \in routes.switched
           /\ edge.ports = "caddy" => edge'.ports = "caddy"
<1> DEFINE Entries == \A s \in LiveStep \cap StepsOf(g) :
                          /\ s \in journal'.done <=> s \in journal.done
                          /\ s \in ToSet(journal'.live) <=> s \in ToSet(journal.live)
           Routes == \A w \in Members(g) : /\ w \in routes'.published <=> w \in routes.published
                                           /\ w \in routes'.switched <=> w \in routes.switched
           Stay == edge.ports = "caddy" => edge'.ports = "caddy"
<1>1. \A w \in Members(g) : w \in Workloads /\ \A what \in {"domain", "publish", "tcp"} :
                                <<what, w>> \in LiveStep \cap StepsOf(g)
  BY HostApart, KindsOf DEF LiveStep, StepsOf, Workloads
<1>2. ASSUME Quiet \/ Still  PROVE Entries /\ Routes /\ Stay
  <2>1. journal' = journal /\ routes' = routes
    BY <1>2, Zenon DEF Quiet, Still
  <2>2. edge' = edge \/ Unsettled
    BY <1>2, Zenon DEF Quiet, Still
  <2>3. Stay
    BY <2>2 DEF Unsettled, PlacesType
  <2> QED  BY <2>1, <2>3
<1>3. ASSUME NEW what \in Kinds, NEW w \in Workloads \union {Host}, Effect(what, w)
      PROVE  Entries /\ Routes /\ Stay
  <2>1. journal' = journal /\ job.todo # <<>> /\ Head(job.todo) = <<what, w>>
    BY <1>3, EffectHands
  <2>2. Stay
    BY <1>3, EffectEdges
  <2>3. CASE what \in {"domain", "publish", "tcp"}
    <3>1. w \notin Members(g)
      BY <1>1, <2>1, <2>3, BusyAtHand
    <3>2. Routes
      BY <1>3, <2>3, <3>1 DEF Effect, PlacesType
    <3> QED  BY <2>1, <2>2, <3>2
  <2>4. CASE what \notin {"domain", "publish", "tcp"}
    <3>1. routes' = routes
      BY <1>3, <2>4 DEF Effect
    <3> QED  BY <2>1, <2>2, <3>1
  <2> QED  BY <2>3, <2>4
<1>4. ASSUME Note  PROVE Entries /\ Routes /\ Stay
  <2>1. /\ journal'.done = journal.done \union {Head(job.todo)}
        /\ ToSet(journal'.live) \in {ToSet(journal.live) \union {Head(job.todo)}, ToSet(journal.live)}
        /\ routes' = routes /\ edge' = edge /\ job.todo # <<>>
    BY <1>4, NoteIs
  <2>2. Head(job.todo) \notin LiveStep \cap StepsOf(g)
    BY <2>1, BusyAtHand
  <2> QED  BY <2>1, <2>2
<1>5. ASSUME NEW s \in Steps, Failed(s)  PROVE Entries /\ Routes /\ Stay
  <2>1. /\ journal'.done = journal.done \ {s} /\ journal'.live = journal.live
        /\ routes' = routes /\ edge' = edge /\ job.todo # <<>> /\ Head(job.todo) = s
    BY <1>5, FailedIs DEF Failed
  <2>2. s \notin LiveStep \cap StepsOf(g)
    BY <2>1, BusyAtHand
  <2> QED  BY <2>1, <2>2
<1>6. ASSUME NEW s \in Steps, Undo(s)  PROVE Entries /\ Routes /\ Stay
  <2>1. /\ journal'.done = journal.done \ {s} /\ ToSet(journal'.live) = ToSet(journal.live) \ {s}
        /\ job.todo # <<>> /\ Head(job.todo) = s /\ job.kind \in Replays /\ UndoesRoutes(s)
    BY <1>6, UndoDoes
  <2>2. s \notin LiveStep \cap StepsOf(g)
    BY <2>1, BusyAtHand
  <2>3. Entries
    BY <2>1, <2>2
  <2>4. Routes
    <3>1. s = <<s[1], s[2]>>
      BY DEF Steps
    <3>2. s[1] \in {"domain", "publish", "tcp"} => s[2] \notin Members(g)
      BY <1>1, <2>2, <3>1
    <3> QED  BY <2>1, <3>2 DEF UndoesRoutes, PlacesType
  <2>5. s # TheUp
    <3> SUFFICES ASSUME s = TheUp  PROVE FALSE
      OBVIOUS
    <3>1. \A h \in Groups : TheUp \notin StepsOf(h)
      BY HostApart DEF TheUp, StepsOf, Workloads
    <3>2. CASE job.kind = "undo"
      <4>1. job.group \in Groups /\ s \in UndoStep(job.group)
        BY <2>1, <3>2, HeadIs
      <4> QED  BY <3>1, <4>1 DEF UndoStep, TheUp
    <3>3. CASE job.kind = "rollback"
      <4>1. s \in StepsOf(job.group) /\ job.group \in Groups \union {Host}
        BY <2>1, <3>3, HeadIs DEF InForm, JobType
      <4>2. job.group = Host
        BY <3>1, <4>1
      <4> QED  BY <3>3, <4>2 DEF Busy, Covering
    <3>4. CASE job.kind = "restore"
      BY <2>1, <3>4, HeadIs DEF TheUp
    <3> QED  BY <2>1, <3>2, <3>3, <3>4 DEF Replays
  <2>6. Stay
    BY <1>6, <2>5, UndoEdges
  <2> QED  BY <2>3, <2>4, <2>6
<1>7. Entries /\ Routes /\ Stay
  <2> HIDE DEF Entries, Routes, Stay
  <2> QED  BY <1>2, <1>3, <1>4, <1>5, <1>6, StepKinds
<1> QED  BY <1>7

\* A group is open because it was, because it has been moved, or because it has
\* been put back.
LEMMA OpenFrom ==
    ASSUME InForm, PastType, Spared, [Next]_vars, NEW g \in Groups, Open(g)'
    PROVE  \/ Open(g)
           \/ EndRun /\ MoveOf(g)
           \/ EndReplay /\ ~ job.failed /\ Covering(g)
<1>1. g # Host /\ g \notin past'.cut /\ ~ Busy(g)'
  BY HostApart DEF Open
<1>2. ASSUME past' = past, job'.kind = job.kind, job'.group = job.group  PROVE Open(g)
  BY <1>1, <1>2 DEF Open, Busy, MoveOf, Covering
<1>3. ASSUME \/ \E h \in Groups : StartMove(h)
             \/ \E first \in EdgeFirst : StartCutover(first)
             \/ StartFinish
             \/ \E h \in Groups \union {Host} : StartRollback(h)
      PROVE  Open(g)
  <2>1. past' = past /\ job.kind = "idle"
    BY <1>3, Zenon DEF StartMove, StartCutover, StartFinish, StartRollback
  <2> QED  BY <1>1, <2>1 DEF Open, Busy, MoveOf, Covering
<1>4. ASSUME Step  PROVE Open(g)
  <2>1. ASSUME NEW what, NEW w, Effect(what, w)  PROVE Open(g)
    <3>1. past' = past
      BY <2>1 DEF Effect
    <3> QED  BY <1>2, <2>1, <3>1, EffectHands
  <2>2. ASSUME Note  PROVE Open(g)
    <3>1. past' = past
      BY <2>2 DEF Note
    <3> QED  BY <1>2, <2>2, <3>1, NoteIs
  <2>3. ASSUME Unsettled  PROVE Open(g)
    <3>1. job.todo # <<>> /\ Head(job.todo) = TheEdge /\ job.kind \in Runs /\ TheEdge \in Steps
      BY <2>3, KindsOf DEF Unsettled, At, TheEdge, Steps
    <3>2. job.kind = "cutover"
      BY <3>1, EdgeAtHand
    <3>3. past'.cut = past.cut \union {Host}
      BY <2>3 DEF Unsettled, PastType
    <3> QED  BY <1>1, <3>2, <3>3 DEF Open, Busy, MoveOf, Covering
  <2> QED  BY <1>4, <2>1, <2>2, <2>3, StepIs
<1>5. ASSUME NEW s \in Steps, FailMove(s) \/ FailCutover(s) \/ FailFinish(s)  PROVE Open(g)
  <2>1. past' = past /\ job.kind \in {"move", "cutover", "finish"}
    BY <1>5, Zenon DEF FailMove, FailCutover, FailFinish
  <2>2. ~ MoveOf(g)
    <3> SUFFICES ASSUME MoveOf(g)  PROVE FALSE
      OBVIOUS
    <3>1. Begun("undo", job.group, UndoList(job.group))
      BY <1>5, FailMoveIs DEF MoveOf, FailCutover, FailFinish
    <3> QED  BY <1>1, <3>1 DEF Begun, MoveOf, Busy, Covering
  <2> QED  BY <1>1, <2>1, <2>2 DEF Open, Busy, Covering
<1>6. ASSUME NEW s \in Steps, Undo(s)  PROVE Open(g)
  <2>1. past' = past
    BY <1>6, Zenon DEF Undo, UndoOf
  <2> QED  BY <1>2, <1>6, <2>1, UndoDoes
<1>7. ASSUME FailUndo  PROVE Open(g)
  <2>1. past' = past /\ job'.kind = job.kind /\ job'.group = job.group
    BY <1>7 DEF FailUndo, InForm, JobType
  <2> QED  BY <1>2, <2>1
<1>8. ASSUME EndRun, ~ MoveOf(g)  PROVE Open(g)
  <2>1. job.kind \in Runs /\ past'.cut \in {past.cut, past.cut \ {job.group}}
    BY <1>8 DEF EndRun, PastType
  <2>2. job.kind # "move" => job.group = Host
    BY <2>1 DEF InForm, Stage, Runs
  <2>3. job.group # g
    BY <1>1, <1>8, <2>2 DEF MoveOf
  <2> QED  BY <1>1, <1>8, <2>1, <2>3, KindsAre DEF Open, Busy, Covering, Runs
<1>9. ASSUME EndReplay  PROVE Open(g) \/ (~ job.failed /\ Covering(g))
  <2>1. /\ job.kind \in Replays
        /\ past'.cut = IF job.failed THEN past.cut \union Touched ELSE past.cut \ Touched
    BY <1>9 DEF EndReplay
  <2>2. job.kind # "idle" /\ job.kind # "move"
    BY <2>1 DEF Replays
  <2>3. Busy(g) <=> g \in Touched
    BY <2>2, BusyIs
  <2>4. Busy(g) <=> Covering(g)
    BY <2>2 DEF Busy, MoveOf
  <2> QED  BY <1>1, <2>1, <2>3, <2>4 DEF Open
<1>10. ASSUME Crash  PROVE Open(g)
  <2>1. past'.cut = past.cut \union Touched /\ job.kind # "idle"
    BY <1>10 DEF Crash, PastType
  <2> QED  BY <1>1, <2>1, BusyIs DEF Open
<1>11. ASSUME UNCHANGED vars \/ \E w \in Workloads : Write(w)  PROVE Open(g)
  <2>1. past' = past /\ job' = job
    BY <1>11, Zenon DEF vars, Write
  <2> QED  BY <1>2, <2>1
<1> QED  BY <1>3, <1>4, <1>5, <1>6, <1>7, <1>8, <1>9, <1>10, <1>11, Zenon DEF Next

\* Every workload of a group is started by its move, and its domains are probed.
LEMMA MoveStarts ==
    ASSUME NEW g \in Groups
    PROVE  /\ \A w \in Members(g) : <<"start", w>> \in ToSet(MoveSteps(g))
           /\ \A w \in ToSet(DomainsOf(g)) : <<"probe", w>> \in ToSet(MoveSteps(g))
<1>1. PICK a, d \in Seq(MoveStep(g)) :
          /\ MoveSteps(g) = a \o (BringUp(g) \o d)
          /\ BringUp(g) \in Seq(MoveStep(g))
  BY MoveIs
<1>2. ToSet(BringUp(g)) \subseteq ToSet(MoveSteps(g))
  <2> DEFINE rest == BringUp(g) \o d
  <2>1. rest \in Seq(MoveStep(g)) /\ ToSet(rest) = ToSet(BringUp(g)) \union ToSet(d)
    BY <1>1, ConcatSet
  <2>2. MoveSteps(g) = a \o rest
    BY <1>1
  <2> HIDE DEF rest
  <2>3. ToSet(a \o rest) = ToSet(a) \union ToSet(rest)
    BY <2>1, ConcatSet
  <2> QED  BY <2>1, <2>2, <2>3
<1> DEFINE S == Kinds \X Members(g)
           R == Each("copy", Only(Databases[g] \o Applications[g], Copied))
           B == StartAll(Databases[g])
           C == Each("restore", Only(Databases[g], Dumped))
           A == StartAll(Applications[g])
<1>3. /\ Applications[g] \in Seq(Members(g)) /\ Databases[g] \in Seq(Members(g))
      /\ DomainsOf(g) \in Seq(Members(g))
  <2>1. DomainsOf(g) \in Seq(Members(g) \cap ToSet(Domains))
    BY ListsAre
  <2> QED  BY <2>1, ListsAre, SeqIn
<1>4. R \in Seq(S) /\ C \in Seq(S)
  <2>1. Databases[g] \o Applications[g] \in Seq(Members(g))
    BY <1>3, ConcatSet
  <2>2. /\ Only(Databases[g] \o Applications[g], Copied) \in Seq(Members(g) \cap Copied)
        /\ Only(Databases[g], Dumped) \in Seq(Members(g) \cap Dumped)
    BY <1>3, <2>1, OnlySet
  <2>3. /\ R \in Seq({"copy"} \X (Members(g) \cap Copied))
        /\ C \in Seq({"restore"} \X (Members(g) \cap Dumped))
    BY <2>2, EachIs
  <2>4. /\ {"copy"} \X (Members(g) \cap Copied) \subseteq S
        /\ {"restore"} \X (Members(g) \cap Dumped) \subseteq S
    BY KindsOf
  <2> HIDE DEF R, C, S
  <2> QED  BY <2>3, <2>4, SeqIn
<1>5. /\ B \in Seq(S) /\ ToSet(B) = UNION {ToSet(Start(w)) : w \in ToSet(Databases[g])}
      /\ A \in Seq(S) /\ ToSet(A) = UNION {ToSet(Start(w)) : w \in ToSet(Applications[g])}
  <2>1. {"service", "healthy", "start"} \X Members(g) \subseteq S
    BY KindsOf
  <2>2. /\ B \in Seq({"service", "healthy", "start"} \X Members(g))
        /\ ToSet(B) = UNION {ToSet(Start(w)) : w \in ToSet(Databases[g])}
        /\ A \in Seq({"service", "healthy", "start"} \X Members(g))
        /\ ToSet(A) = UNION {ToSet(Start(w)) : w \in ToSet(Applications[g])}
    BY <1>3, StartAllIs
  <2> HIDE DEF S, A, B
  <2> QED  BY <2>1, <2>2, SeqIn
<1>6. BringUp(g) = R \o B \o C \o A
  BY DEF BringUp
<1> HIDE DEF S, R, B, C, A
<1>7. ToSet(B) \union ToSet(A) \subseteq ToSet(BringUp(g))
  <2> DEFINE RB == R \o B  RBC == RB \o C
  <2>1. RB \in Seq(S) /\ ToSet(RB) = ToSet(R) \union ToSet(B)
    BY <1>4, <1>5, ConcatSet
  <2>2. BringUp(g) = RBC \o A
    BY <1>6
  <2> HIDE DEF RB
  <2>3. RBC \in Seq(S) /\ ToSet(RBC) = ToSet(RB) \union ToSet(C)
    BY <1>4, <2>1, ConcatSet
  <2> HIDE DEF RBC
  <2>4. ToSet(RBC \o A) = ToSet(RBC) \union ToSet(A)
    BY <1>5, <2>3, ConcatSet
  <2> QED  BY <2>1, <2>2, <2>3, <2>4
<1>8. ASSUME NEW w \in Members(g)  PROVE <<"start", w>> \in ToSet(MoveSteps(g))
  <2>1. w \in ToSet(Databases[g]) \union ToSet(Applications[g])
    BY <1>8 DEF Members
  <2>2. <<"start", w>> \in ToSet(Start(w))
    BY StartIs
  <2>3. <<"start", w>> \in ToSet(B) \union ToSet(A)
    BY <1>5, <2>1, <2>2
  <2> QED  BY <1>2, <1>7, <2>3
<1>9. ASSUME NEW w \in ToSet(DomainsOf(g))  PROVE <<"probe", w>> \in ToSet(MoveSteps(g))
  <2> DEFINE P == Each("probe", DomainsOf(g))
             T == Each("tcp", Only(Databases[g], Ports))
             Q == FlattenSeq([i \in DOMAIN DomainsOf(g) |-> Switch(DomainsOf(g)[i])])
             Y == Each("ready", Only(Applications[g], Stacks))
             U == Kinds \X Members(g)
  <2>1. P \in Seq(U) /\ <<"probe", w>> \in ToSet(P)
    <3>1. P \in Seq({"probe"} \X Members(g)) /\ ToSet(P) = {<<"probe", x>> : x \in ToSet(DomainsOf(g))}
      BY <1>3, EachIs
    <3>2. {"probe"} \X Members(g) \subseteq U
      BY KindsOf
    <3> HIDE DEF P, U
    <3> QED  BY <1>9, <3>1, <3>2, SeqIn
  <2>2. T \in Seq(U) /\ Y \in Seq(U)
    <3>1. /\ Only(Databases[g], Ports) \in Seq(Members(g) \cap Ports)
          /\ Only(Applications[g], Stacks) \in Seq(Members(g) \cap Stacks)
      BY <1>3, OnlySet
    <3>2. T \in Seq({"tcp"} \X (Members(g) \cap Ports)) /\ Y \in Seq({"ready"} \X (Members(g) \cap Stacks))
      BY <3>1, EachIs
    <3>3. {"tcp"} \X (Members(g) \cap Ports) \subseteq U /\ {"ready"} \X (Members(g) \cap Stacks) \subseteq U
      BY KindsOf
    <3> HIDE DEF T, U, Y
    <3> QED  BY <3>2, <3>3, SeqIn
  <2>3. Q \in Seq(U)
    <3>1. Q \in Seq({"domain", "publish"} \X (Members(g) \cap ToSet(Domains)))
      BY SwitchesAre
    <3>2. {"domain", "publish"} \X (Members(g) \cap ToSet(Domains)) \subseteq U
      BY KindsOf
    <3> HIDE DEF Q, U
    <3> QED  BY <3>1, <3>2, SeqIn
  <2>4. TakeDown(g) \in Seq(U) /\ BringUp(g) \in Seq(U)
    <3>1. /\ {"stop", "dump"} \X Members(g) \subseteq U
          /\ {"copy", "restore", "service", "healthy", "start"} \X Members(g) \subseteq U
      BY KindsOf
    <3> HIDE DEF U
    <3> QED  BY <3>1, TakeDownIs, BringUpIs, SeqIn
  <2>5. MoveSteps(g) = Y \o TakeDown(g) \o BringUp(g) \o T \o Q \o P
    BY DEF MoveSteps
  <2> HIDE DEF P, T, Q, Y, U
  <2> DEFINE Y1 == Y \o TakeDown(g)  Y2 == Y1 \o BringUp(g)  Y3 == Y2 \o T  Y4 == Y3 \o Q
  <2>6. MoveSteps(g) = Y4 \o P
    BY <2>5
  <2>7. Y1 \in Seq(U)
    BY <2>2, <2>4, ConcatSet
  <2> HIDE DEF Y1
  <2>8. Y2 \in Seq(U)
    BY <2>4, <2>7, ConcatSet
  <2> HIDE DEF Y2
  <2>9. Y3 \in Seq(U)
    BY <2>2, <2>8, ConcatSet
  <2> HIDE DEF Y3
  <2>10. Y4 \in Seq(U)
    BY <2>3, <2>9, ConcatSet
  <2> HIDE DEF Y4
  <2>11. ToSet(Y4 \o P) = ToSet(Y4) \union ToSet(P)
    BY <2>1, <2>10, ConcatSet
  <2> QED  BY <2>1, <2>6, <2>11
<1> QED  BY <1>8, <1>9

-----------------------------------------------------------------------------
(* What is at rest is served by one side or by the other *)

OnlyJournalled == \A s \in journal.done : s[1] \in Journalled

\* Meshploy's proxy is asked for it.
Reached(w) == w \in routes.published /\ (w \in routes.switched \/ edge.ports = "caddy")

\* What a move has not probed yet it will, and it starts every workload.
Probed ==
    job.kind = "move" =>
        /\ \A w \in ToSet(DomainsOf(job.group)) : <<"probe", w>> \in ToSet(job.todo) \/ Reached(w)
        /\ \A w \in Members(job.group) : <<"start", w>> \in journal.done \union ToSet(job.todo)

\* At rest a group has nothing left to undo, or it has moved altogether.
Untouched(g) == ToSet(journal.live) \cap StepsOf(g) = {}
Arrived(g) == GroupHasMoved(g) /\ \A w \in ToSet(DomainsOf(g)) : Reached(w)
Standing == \A g \in Groups : Open(g) => Untouched(g) \/ Arrived(g)

LEMMA OnlyJournalledStep ==
    ASSUME InForm, Spared, OnlyJournalled, [Next]_vars
    PROVE  OnlyJournalled'
<1>1. ASSUME Quiet \/ Still  PROVE journal' = journal
  BY <1>1, Zenon DEF Quiet, Still
<1>2. ASSUME NEW what, NEW w, Effect(what, w)  PROVE journal' = journal
  BY <1>2, EffectHands
<1>3. ASSUME Note  PROVE OnlyJournalled'
  <2>1. journal'.done = journal.done \union {Head(job.todo)}
    BY <1>3, NoteIs
  <2>2. Head(job.todo)[1] \in Journalled
    BY <1>3 DEF Note, InForm, Hand
  <2> QED  BY <2>1, <2>2 DEF OnlyJournalled
<1>4. ASSUME NEW s \in Steps, Failed(s) \/ Undo(s)  PROVE OnlyJournalled'
  <2>1. journal'.done = journal.done \ {s}
    BY <1>4, FailedIs, UndoDoes
  <2> QED  BY <2>1 DEF OnlyJournalled
<1>5. ASSUME journal' = journal  PROVE OnlyJournalled'
  BY <1>5 DEF OnlyJournalled
<1> QED  BY <1>1, <1>2, <1>3, <1>4, <1>5, StepKinds

\* What is reached stays so while nothing is put back.
LEMMA ReachedStays ==
    ASSUME InForm, PlacesType, NEW what \in Kinds, NEW v \in Workloads \union {Host},
           Effect(what, v), NEW w, Reached(w)
    PROVE  Reached(w)'
<1>1. edge.ports = "caddy" => edge'.ports = "caddy"
  BY EffectEdges
<1>2. routes.published \subseteq routes'.published /\ routes.switched \subseteq routes'.switched
  BY DEF Effect, PlacesType
<1> QED  BY <1>1, <1>2 DEF Reached

LEMMA ProbedStep ==
    ASSUME InForm, PlacesType, Spared, OnlyJournalled, Probed, [Next]_vars
    PROVE  Probed'
<1> SUFFICES ASSUME job'.kind = "move"
             PROVE  /\ \A w \in ToSet(DomainsOf(job'.group)) :
                          <<"probe", w>> \in ToSet(job'.todo) \/ Reached(w)'
                    /\ \A w \in Members(job'.group) :
                          <<"start", w>> \in journal'.done \union ToSet(job'.todo)
  BY DEF Probed, DomainsOf, ToSet, Members
<1> DEFINE Goal == /\ \A w \in ToSet(DomainsOf(job'.group)) :
                          <<"probe", w>> \in ToSet(job'.todo) \/ Reached(w)'
                   /\ \A w \in Members(job'.group) :
                          <<"start", w>> \in journal'.done \union ToSet(job'.todo)
<1>1. ASSUME NEW h \in Groups, StartMove(h)  PROVE Goal
  <2>1. job'.group = h /\ job'.todo = ToDo(MoveSteps(h)) /\ journal' = journal
    BY <1>1, StartMoveIs DEF Begun, StartMove
  <2>2. ToSet(ToDo(MoveSteps(h))) = ToSet(MoveSteps(h)) \ journal.done
    BY MoveStepsAre, StepsAre, ToDoIs
  <2>3. \A w : <<"probe", w>> \notin journal.done
    BY KindsOf DEF OnlyJournalled
  <2> QED  BY <2>1, <2>2, <2>3, MoveStarts
<1>2. ASSUME NEW first \in EdgeFirst, StartCutover(first)  PROVE Goal
  BY <1>2, StartCutoverIs DEF Begun
<1>3. ASSUME StartFinish  PROVE Goal
  BY <1>3, StartFinishIs DEF Begun
<1>4. ASSUME Still  PROVE Goal
  <2>1. UNCHANGED <<journal, routes, edge, job>>
    BY <1>4, Zenon DEF Still
  <2> QED  BY <2>1 DEF Probed, Reached
<1>5. ASSUME NEW what \in Kinds, NEW v \in Workloads \union {Host}, Effect(what, v)  PROVE Goal
  <2>1. /\ job.kind = "move" /\ job'.group = job.group /\ journal' = journal
        /\ job.todo # <<>> /\ Head(job.todo) = <<what, v>>
        /\ job'.todo = IF what \in Journalled THEN job.todo ELSE Tail(job.todo)
    BY <1>5, EffectHands
  <2>2. \A s \in ToSet(job.todo) : s = <<what, v>> \/ s \in ToSet(Tail(job.todo))
    BY <2>1, TodoTail
  <2>3. ASSUME NEW w \in ToSet(DomainsOf(job.group))
        PROVE  <<"probe", w>> \in ToSet(job'.todo) \/ Reached(w)'
    <3>1. CASE Reached(w)
      BY <1>5, <3>1, ReachedStays
    <3>2. CASE <<"probe", w>> = <<what, v>>
      <4>1. ServedByMeshploy(w)
        BY <1>5, <2>1, <3>2 DEF Effect, At, Refused
      <4>2. Reached(w)
        BY <4>1 DEF ServedByMeshploy, Published, Reached
      <4> QED  BY <1>5, <4>2, ReachedStays
    <3>3. CASE ~ Reached(w) /\ <<"probe", w>> # <<what, v>>
      BY <2>1, <2>2, <3>3 DEF Probed
    <3> QED  BY <3>1, <3>2, <3>3
  <2>4. ASSUME NEW w \in Members(job.group)
        PROVE  <<"start", w>> \in journal'.done \union ToSet(job'.todo)
    <3>1. <<"start", w>> \in journal.done \union ToSet(job.todo)
      BY <2>1 DEF Probed
    <3>2. <<"start", w>> = <<what, v>> => what \in Journalled
      BY KindsOf
    <3> QED  BY <2>1, <2>2, <3>1, <3>2
  <2> QED  BY <2>1, <2>3, <2>4
<1>6. ASSUME Note  PROVE Goal
  <2>1. /\ job.kind = "move" /\ job'.group = job.group /\ job.todo # <<>>
        /\ journal'.done = journal.done \union {Head(job.todo)} /\ job'.todo = Tail(job.todo)
        /\ routes' = routes /\ edge' = edge
    BY <1>6, NoteIs
  <2>2. \A s \in ToSet(job.todo) : s = Head(job.todo) \/ s \in ToSet(Tail(job.todo))
    BY <2>1, TodoTail
  <2>3. \A w : <<"probe", w>> # Head(job.todo)
    <3>1. Head(job.todo)[1] \in Journalled
      BY <1>6 DEF Note, InForm, Hand
    <3> QED  BY <3>1, KindsOf
  <2> QED  BY <2>1, <2>2, <2>3 DEF Probed, Reached
<1>7. ASSUME NEW s \in Steps, FailFinish(s)  PROVE Goal
  BY <1>7 DEF FailFinish, InForm, JobType
<1>8. Goal
  <2> HIDE DEF Goal
  <2> QED  BY <1>1, <1>2, <1>3, <1>4, <1>5, <1>6, <1>7, RunFrom DEF Runs
<1> QED  BY <1>8

\* A move that has ended has moved its group.
LEMMA MoveEnds ==
    ASSUME InForm, Probed, EndRun, NEW g \in Groups, MoveOf(g)
    PROVE  Arrived(g) /\ UNCHANGED <<journal, routes, edge>>
<1>1. job.todo = <<>> /\ job.kind = "move" /\ job.group = g /\ UNCHANGED <<journal, routes, edge>>
  BY DEF EndRun, MoveOf
<1>2. ToSet(job.todo) = {}
  BY <1>1 DEF ToSet
<1> QED  BY <1>1, <1>2 DEF Probed, Arrived, GroupHasMoved, Done

LEMMA MovedStays ==
    ASSUME InForm, PlacesType, Spared, [Next]_vars, NEW g \in Groups, ~ Busy(g), GroupHasMoved(g)
    PROVE  GroupHasMoved(g)'
<1>1. \A w \in Members(g) : <<"start", w>> \in LiveStep \cap StepsOf(g)
  BY HostApart, KindsOf DEF LiveStep, StepsOf, Workloads
<1>2. \A w \in Members(g) : <<"start", w>> \in journal'.done
  BY <1>1, AloneKeeps DEF GroupHasMoved, Done
<1> QED  BY <1>2 DEF GroupHasMoved, Done, Members

LEMMA StandingStep ==
    ASSUME InForm, PlacesType, PastType, Spared, Outcome, Probed, Standing, [Next]_vars
    PROVE  Standing'
<1> SUFFICES ASSUME NEW g \in Groups, Open(g)'
             PROVE  Untouched(g)' \/ Arrived(g)'
  BY DEF Standing
<1>1. CASE Open(g) /\ Untouched(g)
  <2>1. ~ Busy(g) /\ ToSet(journal.live) \cap StepsOf(g) = {}
    BY <1>1 DEF Open, Untouched
  <2>2. ToSet(journal'.live) \subseteq LiveStep
    <3>1. InForm'
      BY FormStep
    <3>2. journal'.live \in Seq(LiveStep)
      BY <3>1 DEF InForm, JournalType
    <3> QED  BY <3>2, InSeq
  <2>3. ToSet(journal'.live) \cap StepsOf(g) = {}
    BY <2>1, <2>2, AloneKeeps
  <2>4. StepsOf(g)' = StepsOf(g)
    BY DEF StepsOf, Members, Workloads
  <2> QED  BY <2>3, <2>4 DEF Untouched, ToSet
<1>2. CASE Open(g) /\ Arrived(g)
  <2>1. ~ Busy(g) /\ GroupHasMoved(g) /\ \A w \in ToSet(DomainsOf(g)) : Reached(w)
    BY <1>2 DEF Open, Arrived
  <2>2. GroupHasMoved(g)'
    BY <2>1, MovedStays
  <2>3. ToSet(DomainsOf(g)) \subseteq Members(g)
    BY ListsAre
  <2>4. \A w \in ToSet(DomainsOf(g)) : Reached(w)'
    BY <2>1, <2>3, AloneKeeps DEF Reached
  <2> QED  BY <2>2, <2>4 DEF Arrived, DomainsOf, ToSet, Members
<1>3. CASE EndRun /\ MoveOf(g)
  <2>1. Arrived(g) /\ UNCHANGED <<journal, routes, edge>>
    BY <1>3, MoveEnds
  <2> QED  BY <2>1 DEF Arrived, GroupHasMoved, Done, Reached, DomainsOf, ToSet, Members
<1>4. CASE EndReplay /\ ~ job.failed /\ Covering(g)
  <2>1. job.todo = <<>> /\ job.kind \in Replays /\ journal' = journal
    BY <1>4 DEF EndReplay
  <2>2. ToSet(job.todo) = {}
    BY <2>1 DEF ToSet
  <2>3. job.kind # "restore" /\ job.ended # "restored" /\ job.group \in {g, Host}
    <3>1. job.kind \in {"undo", "rollback"} /\ job.group \in {g, Host}
      BY <1>4 DEF Covering
    <3>2. job.ended = "none"
      BY <3>1 DEF Outcome
    <3> QED  BY <3>1, <3>2
  <2>4. ToSet(journal.live) \cap StepsOf(job.group) = {}
    BY <1>4, <2>1, <2>2, <2>3 DEF Outcome, Covered
  <2>5. StepsOf(g) \subseteq StepsOf(job.group)
    BY <2>3 DEF StepsOf, Workloads
  <2>6. ToSet(journal'.live) \cap StepsOf(g) = {}
    BY <2>1, <2>4, <2>5
  <2> QED  BY <2>6 DEF Untouched, StepsOf, ToSet, Members, Workloads
<1> QED  BY <1>1, <1>2, <1>3, <1>4, OpenFrom DEF Standing

\* The ports are nobody's only on the way from one edge to the other: in a cutover
\* that has let them go, or in what takes them back.
LettingGo ==
    /\ job.kind = "cutover" /\ Early \cap ToSet(job.todo) = {}
    /\ TheEdge \in ToSet(job.todo) => AtHand(TheEdge)

TakingBack == job.kind = "restore" \/ (job.kind = "rollback" /\ job.group = Host)

HandedOver ==
    /\ job.kind = "cutover" => TheUp \in journal.done \union ToSet(job.todo)
    /\ edge.ports = "nobody" => Host \in past.cut \/ TakingBack \/ LettingGo

\* The old edge goes after all that comes early.
EdgeAfterEarly == job.kind = "cutover" => NoneAfter(job.todo, {TheEdge}, Early)

LEMMA HostIs ==
    /\ TheEdge \in Steps /\ TheUp \in Steps /\ TheEdge \in LiveStep /\ TheUp \in LiveStep
    /\ TheEdge \in StepsOf(Host) /\ TheUp \in StepsOf(Host)
    /\ TheEdge \notin Early /\ TheUp \notin Early /\ TheEdge # TheUp
    /\ \A g \in Groups : StepsOf(g) \cap ({"trust", "fallback", "edge", "up"} \X {Host}) = {}
<1>1. Host \notin UNION {Members(g) : g \in Groups} /\ \A g \in Groups : g # Host
  BY HostApart DEF Workloads
<1> QED  BY <1>1, KindsOf DEF TheEdge, TheUp, Steps, LiveStep, StepsOf, Early

\* A cutover's steps are its own, or another's end in it.
LEMMA CutoverFrom ==
    ASSUME InForm, Spared, [Next]_vars, job'.kind = "cutover"
    PROVE  \/ \E first \in EdgeFirst :
                  /\ StartCutover(first) /\ job'.first = first
                  /\ job'.todo = ToDo(CutoverSteps(first)) /\ job'.noting = NotNoted
                  /\ UNCHANGED <<movable, journal, past, edge>>
           \/ /\ job.kind = "cutover" /\ job'.first = job.first /\ movable' = movable
              /\ Still \/ Note \/ \E what \in Kinds, w \in Workloads \union {Host} : Effect(what, w)
<1>1. ASSUME \/ \E h \in Groups : StartMove(h)
             \/ StartFinish
      PROVE  FALSE
  BY <1>1, StartMoveIs, StartFinishIs DEF Begun
<1>2. ASSUME NEW first \in EdgeFirst, StartCutover(first)
      PROVE  /\ job'.first = first /\ job'.todo = ToDo(CutoverSteps(first)) /\ job'.noting = NotNoted
             /\ UNCHANGED <<movable, journal, past, edge>>
  BY <1>2, StartCutoverIs DEF StartCutover, Begun, InForm, JobType
<1>3. ASSUME Still
      PROVE  job.kind = "cutover" /\ job'.first = job.first /\ movable' = movable
  BY <1>3 DEF Still
<1>4. ASSUME NEW what \in Kinds, NEW w \in Workloads \union {Host}, Effect(what, w)
      PROVE  job.kind = "cutover" /\ job'.first = job.first /\ movable' = movable
  BY <1>4, EffectHands DEF Effect, Had, InForm, JobType
<1>5. ASSUME Note
      PROVE  job.kind = "cutover" /\ job'.first = job.first /\ movable' = movable
  BY <1>5 DEF Note, InForm, JobType
<1>6. ASSUME NEW s \in Steps, FailFinish(s)  PROVE FALSE
  BY <1>6 DEF FailFinish, InForm, JobType
<1> QED  BY <1>1, <1>2, <1>3, <1>4, <1>5, <1>6, RunFrom DEF Runs

LEMMA EdgeAfterEarlyStep ==
    ASSUME InForm, Spared, EdgeAfterEarly, [Next]_vars
    PROVE  EdgeAfterEarly'
<1> SUFFICES ASSUME job'.kind = "cutover"
             PROVE  NoneAfter(job'.todo, {TheEdge}, Early)
  BY DEF EdgeAfterEarly, NoneAfter, TheEdge, Early
<1>1. ASSUME NEW first, job'.todo = ToDo(CutoverSteps(first))
      PROVE  NoneAfter(job'.todo, {TheEdge}, Early)
  BY <1>1, CutoverStepsAre, StepsAre, ToDoNone DEF TheEdge
<1>2. ASSUME NoneAfter(job.todo, {TheEdge}, Early), job'.todo = job.todo \/ job'.todo = Tail(job.todo),
             job.todo # <<>>
      PROVE  NoneAfter(job'.todo, {TheEdge}, Early)
  BY <1>2, TodoTail
<1>3. ASSUME NEW what \in Kinds, NEW w \in Workloads \union {Host}, Effect(what, w)
      PROVE  job.todo # <<>> /\ (job'.todo = job.todo \/ job'.todo = Tail(job.todo))
  BY <1>3, EffectHands
<1>4. ASSUME Note  PROVE job.todo # <<>> /\ job'.todo = Tail(job.todo)
  BY <1>4, NoteIs
<1>5. ASSUME Still  PROVE job' = job
  BY <1>5 DEF Still
<1> QED  BY <1>1, <1>2, <1>3, <1>4, <1>5, CutoverFrom DEF EdgeAfterEarly

\* Once a cutover has ended, Meshploy's proxy has the ports.
LEMMA CutoverEnds ==
    ASSUME InForm, PortsTold, HandedOver, job.kind = "cutover", TheUp \notin ToSet(job.todo)
    PROVE  edge.ports = "caddy"
  BY DEF HandedOver, PortsTold

\* Nothing of the edges is left to take back, and the old one has the ports.
LEMMA EdgeTakenBack ==
    ASSUME TellsEdge, PortsTold, EdgesLive, job.noting = NotNoted, TheEdge \notin ToSet(journal.live)
    PROVE  edge.at = "ports" /\ edge.ports = "old"
<1>1. TheEdge \notin journal.done
  BY DEF EdgesLive
<1>2. edge.at = "ports"
  BY <1>1 DEF TellsEdge, AtHand
<1> QED  BY <1>2 DEF PortsTold

LEMMA TakenBackEnds ==
    ASSUME InForm, TellsEdge, PortsTold, EdgesLive, Outcome, EndReplay, ~ job.failed, TakingBack
    PROVE  /\ edge.at = "ports" /\ edge.ports = "old"
           /\ job.kind = "rollback" => ToSet(journal.live) = {}
<1>1. job.todo = <<>> /\ job.kind \in Replays
  BY DEF EndReplay
<1>2. ToSet(job.todo) = {} /\ job.noting = NotNoted
  BY <1>1, IdleNotNoting DEF ToSet
<1>3. ToSet(journal.live) \cap Covered(job) = {}
  BY <1>1, <1>2 DEF Outcome
<1>4. TheEdge \in Covered(job)
  BY HostIs DEF Covered, TakingBack
<1>5. ASSUME job.kind = "rollback"  PROVE ToSet(journal.live) = {}
  <2>1. job.ended = "none"
    BY <1>5 DEF Outcome
  <2>2. Covered(job) = StepsOf(Host)
    BY <1>5, <2>1 DEF Covered, TakingBack
  <2>3. StepsOf(Host) = Steps
    BY DEF StepsOf, Steps
  <2>4. ToSet(journal.live) \subseteq Steps
    BY TodoSeq, InSeq, StepsAre
  <2> QED  BY <1>3, <2>2, <2>3, <2>4
<1> QED  BY <1>2, <1>3, <1>4, <1>5, EdgeTakenBack

LEMMA HandedOverStep ==
    ASSUME InForm, PlacesType, PastType, BudgetType, Spared, Settled, TellsEdge, Outcome,
           CutoverLeft, PortsTold, EdgesLive, EdgeAfterEarly, HandedOver, [Next]_vars
    PROVE  HandedOver'
<1>1. ASSUME job'.kind = "cutover"  PROVE TheUp \in journal'.done \union ToSet(job'.todo)
  <2>1. ASSUME NEW first, journal' = journal, job'.todo = ToDo(CutoverSteps(first))
        PROVE  TheUp \in journal'.done \union ToSet(job'.todo)
    <3>1. ToSet(ToDo(CutoverSteps(first))) = ToSet(CutoverSteps(first)) \ journal.done
      BY CutoverStepsAre, StepsAre, ToDoIs
    <3> QED  BY <2>1, <3>1, CutoverStepsAre DEF TheUp
  <2>2. ASSUME job.kind = "cutover", NEW what \in Kinds, NEW w \in Workloads \union {Host},
               Effect(what, w)
        PROVE  TheUp \in journal'.done \union ToSet(job'.todo)
    <3>1. /\ journal' = journal /\ job.todo # <<>> /\ Head(job.todo) = <<what, w>>
          /\ job'.todo = IF what \in Journalled THEN job.todo ELSE Tail(job.todo)
      BY <2>2, EffectHands
    <3>2. <<what, w>> = TheUp => what \in Journalled
      BY KindsOf DEF TheUp
    <3> QED  BY <2>2, <3>1, <3>2, TodoTail DEF HandedOver
  <2>3. ASSUME job.kind = "cutover", Note  PROVE TheUp \in journal'.done \union ToSet(job'.todo)
    BY <2>3, NoteIs, TodoTail DEF HandedOver
  <2>4. ASSUME job.kind = "cutover", Still  PROVE TheUp \in journal'.done \union ToSet(job'.todo)
    BY <2>4 DEF Still, HandedOver
  <2> QED  BY <1>1, <2>1, <2>2, <2>3, <2>4, CutoverFrom
<1> DEFINE Fine == edge'.ports = "nobody" => Host \in past'.cut \/ TakingBack' \/ LettingGo'
<1>2. ASSUME job'.kind = job.kind, job'.group = job.group, past' = past, edge'.ports = edge.ports,
             ~ LettingGo
      PROVE  Fine
  BY <1>2 DEF HandedOver, TakingBack
<1>3. ASSUME \/ \E h \in Groups : StartMove(h)
             \/ \E first \in EdgeFirst : StartCutover(first)
             \/ StartFinish
             \/ \E h \in Groups \union {Host} : StartRollback(h)
      PROVE  Fine
  <2>1. past' = past /\ edge' = edge /\ job.kind = "idle"
    BY <1>3, Zenon DEF StartMove, StartCutover, StartFinish, StartRollback
  <2> QED  BY <2>1 DEF HandedOver, TakingBack, LettingGo
<1>4. ASSUME NEW what \in Kinds, NEW w \in Workloads \union {Host}, Effect(what, w)  PROVE Fine
  <2>1. /\ job.noting = NotNoted /\ job.kind \in Runs /\ job.todo # <<>>
        /\ Head(job.todo) = <<what, w>> /\ <<what, w>> \in Steps
        /\ job'.kind = job.kind /\ job'.group = job.group
        /\ job'.todo = IF what \in Journalled THEN job.todo ELSE Tail(job.todo)
        /\ what \in Journalled => job'.noting # NotNoted
        /\ past' = past
    BY <1>4, EffectHands, HeadIs DEF Effect, NotNoted
  <2>2. ToSet(job.todo) = {<<what, w>>} \union ToSet(Tail(job.todo))
    BY <2>1, TodoTail
  <2>3. CASE what = "edge"
    <3>1. <<what, w>> = TheEdge
      BY <2>1, <2>3, EdgeAtHand
    <3>2. job.kind = "cutover"
      BY <2>1, <3>1, EdgeAtHand
    <3>3. ToSet(Tail(job.todo)) \cap Early = {}
      BY <2>1, <3>1, <3>2, TodoTail DEF EdgeAfterEarly
    <3>4. job'.todo = job.todo /\ job'.noting # NotNoted
      BY <2>1, <2>3, KindsOf
    <3>5. /\ Early \cap ToSet(job'.todo) = {} /\ job'.kind = "cutover"
          /\ job'.noting # NotNoted /\ Head(job'.todo) = TheEdge
      BY <2>1, <2>2, <3>1, <3>2, <3>3, <3>4, HostIs
    <3>6. LettingGo'
      BY <3>5 DEF LettingGo, AtHand, TheEdge, Early, ToSet
    <3> QED  BY <3>6
  <2>4. CASE what # "edge" /\ LettingGo
    <3>1. TheEdge \notin ToSet(job.todo)
      BY <2>1, <2>4 DEF LettingGo, AtHand
    <3>2. /\ Early \cap ToSet(job'.todo) = {} /\ job'.kind = "cutover"
          /\ TheEdge \notin ToSet(job'.todo)
      BY <2>1, <2>2, <2>4, <3>1 DEF LettingGo
    <3>3. LettingGo'
      BY <3>2 DEF LettingGo, TheEdge, Early, ToSet
    <3> QED  BY <3>3
  <2>5. CASE what # "edge" /\ ~ LettingGo
    <3>1. edge'.ports = edge.ports \/ edge'.ports = "caddy"
      BY <1>4, <2>5, EffectEdges
    <3> QED  BY <1>2, <2>1, <2>5, <3>1
  <2> QED  BY <2>3, <2>4, <2>5
<1>5. ASSUME Note  PROVE Fine
  <2>1. /\ job'.kind = job.kind /\ job'.group = job.group /\ job.kind \in Runs
        /\ job.todo # <<>> /\ job'.todo = Tail(job.todo) /\ edge' = edge /\ past' = past
    BY <1>5, NoteIs DEF Note
  <2>2. ToSet(job.todo) = {Head(job.todo)} \union ToSet(Tail(job.todo))
    BY <2>1, TodoTail
  <2>3. CASE LettingGo
    <3>1. TheEdge \notin ToSet(Tail(job.todo))
      <4>1. CASE Head(job.todo) = TheEdge
        BY <2>1, <2>3, <4>1, TodoTail DEF LettingGo, TellsEdge
      <4>2. CASE Head(job.todo) # TheEdge
        BY <2>2, <2>3, <4>2 DEF LettingGo, AtHand
      <4> QED  BY <4>1, <4>2
    <3>2. /\ Early \cap ToSet(job'.todo) = {} /\ job'.kind = "cutover"
          /\ TheEdge \notin ToSet(job'.todo)
      BY <2>1, <2>2, <2>3, <3>1 DEF LettingGo
    <3>3. LettingGo'
      BY <3>2 DEF LettingGo, TheEdge, Early, ToSet
    <3> QED  BY <3>3
  <2> QED  BY <1>2, <2>1, <2>3
<1>6. ASSUME NEW s \in Steps, Failed(s)  PROVE Fine
  <2>1. /\ job.kind \in Runs /\ job.todo # <<>> /\ Head(job.todo) = s /\ job.noting = NotNoted
        /\ edge' = edge /\ (FailMove(s) \/ FailCutover(s) \/ FailFinish(s))
    BY <1>6 DEF Failed
  <2>2. past' = past
    BY <2>1, Zenon DEF FailMove, FailCutover, FailFinish
  <2>3. CASE edge.ports = "nobody" /\ Host \notin past.cut
    <3>1. LettingGo
      BY <2>1, <2>3, KindsAre DEF HandedOver, TakingBack, Runs
    <3>2. FailCutover(s) /\ s \in CutoverStep
      BY <2>1, <3>1, FailCutoverIs DEF LettingGo, FailMove, FailFinish
    <3>3. s \notin Early /\ s # TheEdge
      BY <2>1, <3>1, TodoTail DEF LettingGo, AtHand
    <3>4. s \notin Probes
      <4> SUFFICES ASSUME s \in Probes  PROVE FALSE
        OBVIOUS
      <4>1. NoneAfter(job.todo, Probes, {TheUp}) /\ s # TheUp
        BY <3>1 DEF CutoverLeft, LettingGo, Probes, TheUp
      <4>2. TheUp \notin ToSet(job.todo)
        BY <2>1, <4>1, TodoTail
      <4> QED  BY <2>3, <3>1, <4>2, CutoverEnds DEF LettingGo
    <3>5. s[1] \in {"gone", "caddy", "up"}
      BY <3>2, <3>3, <3>4 DEF CutoverStep, Early, TheEdge, Probes
    <3>6. job'.kind = "restore"
      BY <3>2, <3>5 DEF FailCutover, Begin, InForm, JobType
    <3> QED  BY <3>6 DEF TakingBack
  <2>4. CASE ~ (edge.ports = "nobody" /\ Host \notin past.cut)
    <3>1. edge' = edge
      BY <1>6 DEF Failed
    <3> QED  BY <2>2, <2>4, <3>1
  <2> QED  BY <2>3, <2>4
<1>7. ASSUME NEW s \in Steps, Undo(s)  PROVE Fine
  <2>1. /\ job'.kind = job.kind /\ job'.group = job.group /\ job.kind \in Replays
        /\ job.todo # <<>> /\ Head(job.todo) = s /\ past' = past
    BY <1>7, UndoDoes DEF Undo, UndoOf
  <2>2. ~ LettingGo
    BY <2>1, KindsAre DEF LettingGo, Runs
  <2>3. CASE s = TheUp
    <3>1. CASE job.kind = "undo"
      <4>1. job.group \in Groups /\ s \in UndoStep(job.group)
        BY <2>1, <3>1, HeadIs
      <4> QED  BY <2>3, <4>1, HostIs DEF UndoStep, TheUp
    <3>2. CASE job.kind = "rollback"
      <4>1. s \in StepsOf(job.group) /\ job.group \in Groups \union {Host}
        BY <2>1, <3>2, HeadIs DEF InForm, JobType
      <4>2. job.group = Host
        BY <2>3, <4>1, HostIs DEF TheUp
      <4> QED  BY <2>1, <3>2, <4>2 DEF TakingBack
    <3>3. CASE job.kind = "restore"
      BY <2>1, <3>3 DEF TakingBack
    <3> QED  BY <2>1, <3>1, <3>2, <3>3 DEF Replays
  <2>4. CASE s # TheUp
    <3>1. edge'.ports = edge.ports \/ edge'.ports = "old"
      BY <1>7, <2>4, UndoEdges
    <3> QED  BY <1>2, <2>1, <2>2, <3>1
  <2> QED  BY <2>3, <2>4
<1>8. ASSUME FailUndo  PROVE Fine
  <2>1. /\ job'.kind = job.kind /\ job'.group = job.group /\ job.kind \in Replays
        /\ past' = past /\ edge' = edge
    BY <1>8 DEF FailUndo, InForm, JobType
  <2>2. ~ LettingGo
    BY <2>1, KindsAre DEF LettingGo, Runs
  <2> QED  BY <1>2, <2>1, <2>2
<1>9. ASSUME EndRun  PROVE Fine
  <2>1. job.kind \in Runs /\ job.todo = <<>> /\ edge' = edge
    BY <1>9 DEF EndRun
  <2>2. ToSet(job.todo) = {}
    BY <2>1 DEF ToSet
  <2>3. ASSUME edge.ports = "nobody"  PROVE Host \in past'.cut
    <3>1. job.kind # "cutover"
      BY <2>2, <2>3, CutoverEnds
    <3>2. Host \in past.cut
      BY <2>1, <2>3, <3>1, KindsAre DEF HandedOver, TakingBack, LettingGo, Runs
    <3>3. job.kind = "move" => job.group # Host
      BY HostApart DEF InForm, Stage
    <3> QED  BY <1>9, <2>1, <3>1, <3>2, <3>3 DEF EndRun, PastType, Runs
  <2> QED  BY <2>1, <2>3
<1>10. ASSUME EndReplay  PROVE Fine
  <2>1. /\ job.kind \in Replays /\ edge' = edge
        /\ past'.cut = IF job.failed THEN past.cut \union Touched ELSE past.cut \ Touched
    BY <1>10 DEF EndReplay
  <2>2. ASSUME edge.ports = "nobody"  PROVE Host \in past'.cut
    <3>1. ~ LettingGo
      BY <2>1, KindsAre DEF LettingGo, Runs
    <3>2. TakingBack => Host \in Touched /\ job.failed
      <4>1. TakingBack => Host \in Touched
        BY DEF TakingBack, Touched, InForm, Stage
      <4> QED  BY <1>10, <2>2, <4>1, TakenBackEnds
    <3>3. ~ TakingBack => Host \notin Touched
      BY <2>1, HostApart DEF TakingBack, Touched, InForm, Stage, JobType, Replays
    <3> QED  BY <2>1, <2>2, <3>1, <3>2, <3>3 DEF HandedOver
  <2> QED  BY <2>1, <2>2
<1>11. ASSUME Crash  PROVE Fine
  <2>1. past'.cut = past.cut \union Touched /\ edge' = edge
    BY <1>11 DEF Crash, PastType
  <2>2. TakingBack \/ LettingGo => Host \in Touched
    BY DEF TakingBack, LettingGo, Touched, InForm, Stage
  <2> QED  BY <2>1, <2>2 DEF HandedOver
<1>12. ASSUME UNCHANGED vars \/ \E w \in Workloads : Write(w)  PROVE Fine
  <2>1. past' = past /\ job' = job /\ edge' = edge
    BY <1>12, Zenon DEF vars, Write
  <2> QED  BY <2>1 DEF HandedOver, TakingBack, LettingGo, AtHand
<1>13. ASSUME Unsettled  PROVE FALSE
  <2>1. "settle" \in Expenses
    BY DEF Expenses, Wrong
  <2> QED  BY <1>13, <2>1 DEF Unsettled, Spend, Settled
<1>14. Fine
  <2> HIDE DEF Fine
  <2>1. ASSUME Step  PROVE Fine
    BY <1>4, <1>5, <1>13, <2>1, StepIs
  <2>2. ASSUME NEW s \in Steps, FailMove(s) \/ FailCutover(s) \/ FailFinish(s)  PROVE Failed(s)
    BY <2>2, FailsAre
  <2> QED  BY <1>3, <1>6, <1>7, <1>8, <1>9, <1>10, <1>11, <1>12, <2>1, <2>2, Zenon DEF Next
<1> QED  BY <1>1, <1>14 DEF HandedOver, TheUp, ToSet

\* What was put back past the cutover is noted, until it is moved or everything is
\* put back.
LEMMA ReturnedStays ==
    ASSUME InForm, PastType, [Next]_vars, NEW g \in Groups, g \in past.returned
    PROVE  \/ g \in past'.returned
           \/ EndRun /\ MoveOf(g)
           \/ EndReplay /\ job.kind = "rollback" /\ job.group = Host
<1>1. ASSUME \/ \E h \in Groups : StartMove(h)
             \/ \E first \in EdgeFirst : StartCutover(first)
             \/ StartFinish
             \/ \E h \in Groups \union {Host} : StartRollback(h)
             \/ FailUndo
             \/ \E w \in Workloads : Write(w)
      PROVE  past' = past
  BY <1>1, Zenon DEF StartMove, StartCutover, StartFinish, StartRollback, FailUndo, Write
<1>2. ASSUME NEW s \in Steps, FailMove(s) \/ FailCutover(s) \/ FailFinish(s) \/ Undo(s)
      PROVE  past' = past
  BY <1>2, Zenon DEF FailMove, FailCutover, FailFinish, Undo, UndoOf
<1>3. ASSUME UNCHANGED vars  PROVE past' = past
  BY <1>3, Zenon DEF vars
<1>4. ASSUME Step  PROVE past'.returned = past.returned
  <2>1. Note => past' = past
    BY Zenon DEF Note
  <2>2. \A what, w : Effect(what, w) => past' = past
    BY Zenon DEF Effect
  <2>3. Unsettled => past'.returned = past.returned
    BY DEF Unsettled, PastType
  <2> QED  BY <1>4, <2>1, <2>2, <2>3, StepIs, Zenon
<1>5. ASSUME Crash  PROVE past'.returned = past.returned
  BY <1>5 DEF Crash, PastType
<1>6. ASSUME EndRun, ~ MoveOf(g)  PROVE g \in past'.returned
  <2>1. job.group # g
    BY <1>6, HostApart DEF EndRun, MoveOf, InForm, Stage, Runs
  <2>2. past'.returned = past.returned \ {job.group}
    BY <1>6 DEF EndRun, PastType
  <2> QED  BY <2>1, <2>2
<1>7. ASSUME EndReplay, ~ (job.kind = "rollback" /\ job.group = Host)  PROVE g \in past'.returned
  <2>1. past'.returned = past.returned \union {h \in Touched \ {Host} : PastCutover(h)}
    BY <1>7 DEF EndReplay
  <2> QED  BY <2>1
<1> QED  BY <1>1, <1>2, <1>3, <1>4, <1>5, <1>6, <1>7, Zenon DEF Next

\* Of a group Meshploy answers for it, or it is known that nobody may.
Accounted(g) == ~ Open(g) \/ g \in past.returned \/ GroupHasMoved(g)

LEMMA AccountedStays ==
    ASSUME InForm, PlacesType, PastType, Spared, Probed, [Next]_vars, NEW g \in Groups, Accounted(g)
    PROVE  \/ Accounted(g)'
           \/ /\ EndReplay /\ ~ job.failed
              /\ \/ job.kind = "rollback" /\ job.group = Host
                 \/ job.group = g /\ ~ PastCutover(g)
<1>1. CASE ~ Open(g)'
  BY <1>1 DEF Accounted
<1>2. CASE Open(g)
  <2>1. ~ Busy(g) /\ (g \in past.returned \/ GroupHasMoved(g))
    BY <1>2 DEF Open, Accounted
  <2>2. CASE GroupHasMoved(g)
    <3>1. GroupHasMoved(g)'
      BY <2>1, <2>2, MovedStays
    <3> QED  BY <3>1 DEF Accounted
  <2>3. CASE g \in past.returned
    <3>1. g \in past'.returned
      BY <2>1, <2>3, ReturnedStays DEF Busy, Covering
    <3> QED  BY <3>1 DEF Accounted
  <2> QED  BY <2>1, <2>2, <2>3
<1>3. CASE EndRun /\ MoveOf(g)
  <2>1. Arrived(g) /\ journal' = journal
    BY <1>3, MoveEnds
  <2>2. GroupHasMoved(g)'
    BY <2>1 DEF Arrived, GroupHasMoved, Done, Members
  <2> QED  BY <2>2 DEF Accounted
<1>4. CASE EndReplay /\ ~ job.failed /\ Covering(g)
  <2>1. CASE job.group = Host
    <3>1. job.kind = "rollback"
      BY <1>4, <2>1, HostApart DEF Covering, InForm, Stage
    <3> QED  BY <1>4, <2>1, <3>1
  <2>2. CASE job.group = g /\ PastCutover(g)
    <3>1. g \in Touched \ {Host} /\ g # Host
      BY <2>2, HostApart DEF Touched
    <3>2. past'.returned = past.returned \union {h \in Touched \ {Host} : PastCutover(h)}
      BY <1>4, <2>2, <3>1 DEF EndReplay
    <3>3. g \in past'.returned
      BY <2>2, <3>1, <3>2
    <3> QED  BY <3>3 DEF Accounted
  <2> QED  BY <1>4, <2>1, <2>2 DEF Covering
<1> QED  BY <1>1, <1>2, <1>3, <1>4, OpenFrom

-----------------------------------------------------------------------------
(* Finish starts with everything moved *)

AllMoved ==
    /\ (job.kind = "finish" \/ TheEnd \in journal.done) => \A g \in Groups : GroupHasMoved(g)
    /\ edge.at = "gone" => job.kind = "finish" \/ TheEnd \in journal.done

LEMMA AllMovedStep ==
    ASSUME InForm, PlacesType, BudgetType, Spared, Settled, Revoked, Ending, AllMoved, [Next]_vars
    PROVE  AllMoved'
<1>1. ASSUME job'.kind = "finish" \/ TheEnd \in journal'.done, NEW g \in Groups
      PROVE  GroupHasMoved(g)'
  <2>1. CASE job'.kind = "finish"
    <3>1. ASSUME StartFinish  PROVE GroupHasMoved(g)'
      BY <3>1 DEF StartFinish, GroupHasMoved, Done, Members
    <3>2. ASSUME job.kind = "finish", FinishKeeps  PROVE GroupHasMoved(g)'
      <4>1. \A w \in Members(g) : <<"start", w>> \in journal.done /\ <<"start", w>> \notin FinishStep
        BY <3>2 DEF AllMoved, GroupHasMoved, Done, FinishStep
      <4>2. \A w \in Members(g) : <<"start", w>> \in journal'.done
        BY <3>2, <4>1 DEF FinishKeeps
      <4> QED  BY <4>2 DEF GroupHasMoved, Done, Members
    <3> QED  BY <2>1, <3>1, <3>2, FinishFrom
  <2>2. CASE job'.kind # "finish"
    <3>1. TheEnd \in journal'.done /\ job'.kind = "idle"
      BY <1>1, <2>2, EndingStep DEF Ending, TheEnd
    <3>2. journal' = journal
      <4>1. CASE job.kind = "finish"
        BY <2>2, <4>1, FinishOnly
      <4>2. CASE job.kind = "idle" /\ TheEnd \in journal.done
        BY <4>2, NothingStarts
      <4>3. CASE job.kind # "finish" /\ TheEnd \notin journal.done
        <5>1. Note => job'.kind # "idle"
          BY NoteIs, KindsAre
        <5>2. \A s : Failed(s) \/ Undo(s) => journal'.done \subseteq journal.done
          BY FailedIs, UndoDoes
        <5>3. \A what, w : Effect(what, w) => journal' = journal
          BY EffectHands
        <5>4. Quiet \/ Still => journal' = journal
          BY Zenon DEF Quiet, Still
        <5> QED  BY <3>1, <4>3, <5>1, <5>2, <5>3, <5>4, StepKinds
      <4> QED  BY <4>1, <4>2, <4>3 DEF Ending
    <3>3. GroupHasMoved(g)
      BY <3>1, <3>2 DEF AllMoved
    <3> QED  BY <3>2, <3>3 DEF GroupHasMoved, Done, Members
  <2> QED  BY <2>1, <2>2
<1>2. ASSUME edge'.at = "gone"  PROVE job'.kind = "finish" \/ TheEnd \in journal'.done
  <2>1. CASE edge.at = "gone"
    <3>1. CASE job.kind = "finish"
      BY <3>1, FinishOnly
    <3>2. CASE job.kind # "finish"
      <4>1. TheEnd \in journal.done /\ job.kind = "idle"
        BY <2>1, <3>2 DEF AllMoved, Ending
      <4> QED  BY <4>1, NothingStarts
    <3> QED  BY <3>1, <3>2
  <2>2. CASE edge.at # "gone"
    <3>1. ASSUME Quiet  PROVE FALSE
      <4>1. edge' = edge \/ Unsettled
        BY <3>1 DEF Quiet
      <4> QED  BY <1>2, <2>2, <4>1 DEF Unsettled, PlacesType
    <3>2. ASSUME Still \/ Note  PROVE FALSE
      BY <1>2, <2>2, <3>2, NoteIs DEF Still
    <3>3. ASSUME NEW s \in Steps, Failed(s)  PROVE FALSE
      BY <1>2, <2>2, <3>3 DEF Failed
    <3>4. ASSUME NEW s \in Steps, Undo(s)  PROVE FALSE
      BY <1>2, <2>2, <3>4, UndoEdges
    <3>5. ASSUME NEW what \in Kinds, NEW w \in Workloads \union {Host}, Effect(what, w)
          PROVE  job'.kind = "finish"
      <4>1. what = "platform"
        BY <1>2, <2>2, <3>5, EffectEdges
      <4>2. job.kind = "finish"
        BY <3>5, <4>1, EffectHands, HostAtHand
      <4> QED  BY <3>5, <4>2, EffectHands
    <3> QED  BY <3>1, <3>2, <3>3, <3>4, <3>5, StepKinds
  <2> QED  BY <2>1, <2>2
<1> QED  BY <1>1, <1>2 DEF AllMoved, TheEnd

-----------------------------------------------------------------------------
(* The old edge, stopped, has nothing left to serve *)

TakenDown ==
    /\ edge.at = "down" => \A g \in movable : Accounted(g)
    /\ (job.kind = "cutover" /\ ~ job.first) => \A g \in movable : GroupHasMoved(g)

LEMMA MovableIn ==
    ASSUME PlacesType
    PROVE  movable \subseteq Groups
  BY MigrationAssumption DEF PlacesType

LEMMA MovableStays ==
    ASSUME [Next]_vars
    PROVE  movable' = movable
<1>1. Step => movable' = movable
  BY StepIs, Zenon DEF Effect, Unsettled, Note
<1>2. \A s : FailMove(s) \/ FailCutover(s) \/ FailFinish(s) \/ Undo(s) => movable' = movable
  BY Zenon DEF FailMove, FailCutover, FailFinish, FailsWith, Undo, UndoOf
<1> QED  BY <1>1, <1>2, Zenon DEF Next, vars, StartMove, StartCutover, StartFinish, StartRollback,
            FailUndo, EndRun, EndReplay, Crash, Write

LEMMA TakenDownStep ==
    ASSUME InForm, PlacesType, PastType, BudgetType, Spared, Settled, TellsEdge, Outcome,
           PortsTold, EdgesLive, Probed, TakenDown, [Next]_vars
    PROVE  TakenDown'
<1>1. movable' = movable /\ movable \subseteq Groups
  BY MovableIn, MovableStays
<1>2. ASSUME edge'.at = "down", NEW g \in movable  PROVE Accounted(g)'
  <2>1. CASE edge.at = "down"
    <3>1. Accounted(g)
      BY <2>1 DEF TakenDown
    <3>2. CASE EndReplay /\ ~ job.failed /\ job.kind = "rollback" /\ job.group = Host
      BY <2>1, <3>2, TakenBackEnds DEF TakingBack
    <3> QED  BY <1>1, <2>1, <3>1, <3>2, AccountedStays DEF PastCutover
  <2>2. CASE edge.at # "down"
    <3>1. ASSUME Quiet  PROVE FALSE
      <4>1. edge' = edge \/ Unsettled
        BY <3>1 DEF Quiet
      <4> QED  BY <1>2, <2>2, <4>1 DEF Unsettled, PlacesType
    <3>2. ASSUME Still \/ Note  PROVE FALSE
      BY <1>2, <2>2, <3>2, NoteIs DEF Still
    <3>3. ASSUME NEW s \in Steps, Failed(s)  PROVE FALSE
      BY <1>2, <2>2, <3>3 DEF Failed
    <3>4. ASSUME NEW s \in Steps, Undo(s)  PROVE FALSE
      BY <1>2, <2>2, <3>4, UndoEdges
    <3>5. ASSUME NEW what \in Kinds, NEW w \in Workloads \union {Host}, Effect(what, w)
          PROVE  Accounted(g)'
      <4>1. what = "edge" /\ ~ job.first
        BY <1>2, <2>2, <3>5, EffectEdges
      <4>2. job.kind = "cutover" /\ journal' = journal
        <5>1. /\ journal' = journal /\ job.todo # <<>> /\ Head(job.todo) = <<what, w>>
              /\ job.kind \in Runs /\ <<what, w>> \in Steps
          BY <3>5, EffectHands, HeadIs
        <5> QED  BY <4>1, <5>1, EdgeAtHand
      <4>3. GroupHasMoved(g)
        BY <4>1, <4>2 DEF TakenDown
      <4>4. GroupHasMoved(g)'
        BY <4>2, <4>3 DEF GroupHasMoved, Done, Members
      <4> QED  BY <4>4 DEF Accounted
    <3> QED  BY <3>1, <3>2, <3>3, <3>4, <3>5, StepKinds
  <2> QED  BY <2>1, <2>2
<1>3. ASSUME job'.kind = "cutover", ~ job'.first, NEW g \in movable  PROVE GroupHasMoved(g)'
  <2>1. ASSUME NEW first \in EdgeFirst, StartCutover(first), job'.first = first, journal' = journal
        PROVE  GroupHasMoved(g)'
    <3>1. GroupHasMoved(g)
      BY <1>3, <2>1 DEF StartCutover
    <3> QED  BY <2>1, <3>1 DEF GroupHasMoved, Done, Members
  <2>2. ASSUME job.kind = "cutover", job'.first = job.first  PROVE GroupHasMoved(g)'
    <3>1. ~ Busy(g) /\ GroupHasMoved(g)
      BY <1>3, <2>2 DEF Busy, MoveOf, Covering, TakenDown
    <3> QED  BY <1>1, <3>1, MovedStays
  <2> QED  BY <1>3, <2>1, <2>2, CutoverFrom
<1> QED  BY <1>1, <1>2, <1>3 DEF TakenDown

-----------------------------------------------------------------------------
(* What goes to the old edge while it is aside *)

TheTrust == <<"trust", Host>>
TheFallback == <<"fallback", Host>>

\* It has had its effect, noted or about to be.
Tried(s) == s \in journal.done \/ AtHand(s)

LEMMA TriedFrom ==
    ASSUME InForm, Spared, [Next]_vars, NEW s, Tried(s)'
    PROVE  /\ \/ Tried(s)
              \/ \E what \in Kinds, w \in Workloads \union {Host} :
                      s = <<what, w>> /\ what \in Journalled /\ Effect(what, w)
           /\ ~ Undo(s)
<1>1. ASSUME Quiet  PROVE Tried(s)
  BY <1>1 DEF Quiet, Tried, AtHand
<1>2. ASSUME Still  PROVE Tried(s)
  BY <1>2 DEF Still, Tried, AtHand
<1>3. ASSUME NEW what \in Kinds, NEW w \in Workloads \union {Host}, Effect(what, w)
      PROVE  Tried(s) \/ (s = <<what, w>> /\ what \in Journalled)
  BY <1>3, EffectHands DEF Tried, AtHand
<1>4. ASSUME Note  PROVE Tried(s)
  <2>1. journal'.done = journal.done \union {Head(job.todo)} /\ job'.noting = NotNoted
    BY <1>4, NoteIs
  <2>2. job.noting # NotNoted
    BY <1>4 DEF Note
  <2> QED  BY <2>1, <2>2 DEF Tried, AtHand
<1>5. ASSUME NEW t \in Steps, Failed(t)  PROVE Tried(s)
  <2>1. journal'.done = journal.done \ {t} /\ job'.noting = NotNoted
    BY <1>5, FailedIs DEF Failed
  <2> QED  BY <2>1 DEF Tried, AtHand
<1>6. ASSUME NEW t, Undo(t)  PROVE Tried(s) /\ s # t
  <2>1. journal'.done = journal.done \ {t} /\ job'.noting = NotNoted
    BY <1>6, UndoDoes
  <2> QED  BY <2>1 DEF Tried, AtHand
<1>7. ~ Undo(s)
  BY <1>6
<1> QED  BY <1>1, <1>2, <1>3, <1>4, <1>5, <1>6, <1>7, StepKinds

\* Which steps are of the old edge's headers and of the proxy's fallback.
LEMMA AsideAtHand ==
    ASSUME InForm, job.todo # <<>>, NEW s \in Steps, Head(job.todo) = s
    PROVE  /\ s[1] = "trust" => s = TheTrust
           /\ s[1] = "fallback" => s = TheFallback
           /\ (s[1] \in {"trust", "fallback"} /\ job.kind \in Runs) => job.kind = "cutover"
           /\ (s[1] = "clear" /\ job.kind \in Runs) => job.kind = "finish"
<1>1. s = <<s[1], s[2]>>
  BY DEF Steps
<1>2. CASE job.kind \in Runs
  <2>1. \/ job.kind = "move" /\ s[1] \in MoveKinds
        \/ job.kind = "cutover" /\ s \in CutoverStep
        \/ job.kind = "finish" /\ s \in FinishStep
    BY <1>2, HeadIs DEF MoveStep, Runs
  <2> QED  BY <1>1, <2>1 DEF MoveKinds, CutoverStep, FinishStep, TheTrust, TheFallback
<1>3. CASE job.kind \in Replays
  <2>1. s \in LiveStep \/ s[1] = "outright" \/ s = TheEdge
    BY <1>3, HeadIs DEF UndoStep, Replays, TheEdge
  <2> QED  BY <1>1, <1>3, <2>1, KindsAre DEF LiveStep, TheEdge, TheTrust, TheFallback
<1>4. job.kind \in Runs \union Replays
  BY DEF InForm, JobType, Stage
<1> QED  BY <1>2, <1>3, <1>4, KindsAre

\* What is sent to the old edge changes with the fallback's own step, with finish
\* and with the undo.
LEMMA FallbackStays ==
    ASSUME InForm, PlacesType, BudgetType, Spared, Settled, [Next]_vars
    PROVE  \/ edge'.fallback = edge.fallback
           \/ \E w \in Workloads \union {Host} : Effect("fallback", w)
           \/ job.kind = "finish" /\ journal' = journal
           \/ Undo(TheFallback)
<1>1. ASSUME Quiet  PROVE edge'.fallback = edge.fallback
  BY <1>1 DEF Quiet, Unsettled, PlacesType
<1>2. ASSUME Still \/ Note  PROVE edge'.fallback = edge.fallback
  BY <1>2, NoteIs DEF Still
<1>3. ASSUME NEW s \in Steps, Failed(s)  PROVE edge'.fallback = edge.fallback
  BY <1>3 DEF Failed
<1>4. ASSUME NEW what \in Kinds, NEW w \in Workloads \union {Host}, Effect(what, w)
      PROVE  \/ edge'.fallback = edge.fallback
             \/ what = "fallback"
             \/ job.kind = "finish" /\ journal' = journal
  <2>1. CASE what = "clear"
    <3>1. <<what, w>> \in Steps
      BY DEF Steps
    <3> QED  BY <1>4, <2>1, <3>1, EffectHands, AsideAtHand
  <2>2. CASE what \notin {"clear", "fallback"}
    BY <1>4, <2>2 DEF Effect, EffectOnEdge, PlacesType
  <2> QED  BY <2>1, <2>2
<1>5. ASSUME NEW s \in Steps, Undo(s)  PROVE edge'.fallback = edge.fallback \/ Undo(TheFallback)
  <2>1. UndoesEdge(s) /\ job.todo # <<>> /\ Head(job.todo) = s
    BY <1>5, UndoDoes
  <2>2. s[1] = "fallback" => s = TheFallback
    BY <2>1, AsideAtHand
  <2>3. s[1] # "fallback" => edge'.fallback = edge.fallback
    BY <2>1 DEF UndoesEdge, PlacesType
  <2> QED  BY <1>5, <2>2, <2>3
<1> QED  BY <1>1, <1>2, <1>3, <1>4, <1>5, StepKinds

\* What the proxy sends to the old edge is what has not moved, apart from what it
\* is known that nobody may answer for; and the step has an undo.
FallsBack ==
    /\ Tried(TheFallback) =>
          \A g \in Groups : Accounted(g) \/ ToSet(DomainsOf(g)) \subseteq edge.fallback
    /\ TheFallback \in journal.done => TheFallback \in ToSet(journal.live)
    /\ AtHand(TheFallback) => job.noting = "undo"

LEMMA NotMovedIs ==
    ASSUME NEW g \in Groups, ~ GroupHasMoved(g)
    PROVE  ToSet(DomainsOf(g)) \subseteq NotMovedDomains
<1> SUFFICES ASSUME NEW w \in ToSet(DomainsOf(g))  PROVE w \in NotMovedDomains
  OBVIOUS
<1>1. w \in Members(g) /\ w \in ToSet(Domains) /\ w \in Workloads
  BY ListsAre DEF Workloads
<1>2. GroupOf(w) = g
  BY <1>1, GroupOfIs, MigrationAssumption
<1> QED  BY <1>1, <1>2 DEF NotMovedDomains

LEMMA FallsBackStep ==
    ASSUME InForm, PlacesType, PastType, BudgetType, Spared, Settled, TellsEdge, Outcome,
           PortsTold, EdgesLive, Probed, AllMoved, FallsBack, [Next]_vars
    PROVE  FallsBack'
<1>1. TheFallback \in journal'.done => TheFallback \in ToSet(journal'.live)
  <2>1. ASSUME Quiet \/ Still  PROVE journal' = journal
    BY <2>1, Zenon DEF Quiet, Still
  <2>2. ASSUME NEW what, NEW w, Effect(what, w)  PROVE journal' = journal
    BY <2>2, EffectHands
  <2>3. ASSUME Note
        PROVE  TheFallback \in journal'.done => TheFallback \in ToSet(journal'.live)
    <3>1. job.noting # NotNoted
      BY <2>3 DEF Note
    <3>2. Head(job.todo) = TheFallback => job.noting = "undo"
      BY <3>1 DEF FallsBack, AtHand
    <3> QED  BY <2>3, <3>2, NoteIs DEF FallsBack
  <2>4. ASSUME NEW s \in Steps, Failed(s)
        PROVE  TheFallback \in journal'.done => TheFallback \in ToSet(journal'.live)
    BY <2>4, FailedIs DEF FallsBack
  <2>5. ASSUME NEW s \in Steps, Undo(s)
        PROVE  TheFallback \in journal'.done => TheFallback \in ToSet(journal'.live)
    BY <2>5, UndoDoes DEF FallsBack
  <2>6. TheFallback \in journal.done => TheFallback \in ToSet(journal.live)
    BY DEF FallsBack
  <2> QED  BY <2>1, <2>2, <2>3, <2>4, <2>5, <2>6, StepKinds
<1>2. AtHand(TheFallback)' => job'.noting = "undo"
  <2> SUFFICES ASSUME job'.noting # NotNoted, Head(job'.todo) = TheFallback
               PROVE  job'.noting = "undo"
    BY DEF AtHand, TheFallback
  <2>1. ASSUME Still  PROVE job'.noting = "undo"
    <3>1. job' = job
      BY <2>1 DEF Still
    <3> QED  BY <3>1 DEF FallsBack, AtHand
  <2>2. ASSUME NEW what \in Kinds, NEW w \in Workloads \union {Host}, Effect(what, w)
        PROVE  job'.noting = "undo"
    <3>1. what = "fallback"
      BY <2>2, EffectHands DEF TheFallback
    <3> QED  BY <2>2, <3>1, EffectHands, KindsOf DEF Undone
  <2>3. Note => job'.noting = NotNoted
    BY NoteIs
  <2>4. \A s : Failed(s) \/ Undo(s) => job'.noting = NotNoted
    BY UndoDoes DEF Failed
  <2>5. Quiet => job'.noting = NotNoted
    BY DEF Quiet
  <2> QED  BY <2>1, <2>2, <2>3, <2>4, <2>5, StepKinds
<1>3. ASSUME Tried(TheFallback)', NEW g \in Groups, ~ Accounted(g)'
      PROVE  ToSet(DomainsOf(g)) \subseteq edge'.fallback
  <2>1. CASE \E w \in Workloads \union {Host} : Effect("fallback", w)
    <3>1. PICK w \in Workloads \union {Host} : Effect("fallback", w)
      BY <2>1
    <3>2. journal' = journal /\ edge'.fallback = NotMovedDomains
      BY <3>1 DEF Effect, EffectOnEdge, PlacesType
    <3>3. ~ GroupHasMoved(g)
      BY <1>3, <3>2 DEF Accounted, GroupHasMoved, Done, Members
    <3> QED  BY <3>2, <3>3, NotMovedIs
  <2>2. CASE job.kind = "finish" /\ journal' = journal
    <3>1. GroupHasMoved(g)
      BY <2>2 DEF AllMoved
    <3> QED  BY <1>3, <2>2, <3>1 DEF Accounted, GroupHasMoved, Done, Members
  <2>3. CASE /\ edge'.fallback = edge.fallback
             /\ ~ \E w \in Workloads \union {Host} : Effect("fallback", w)
    <3>1. Tried(TheFallback)
      BY <1>3, <2>3, TriedFrom DEF TheFallback
    <3>2. CASE ToSet(DomainsOf(g)) \subseteq edge.fallback
      BY <2>3, <3>2
    <3>3. CASE Accounted(g) /\ ~ (ToSet(DomainsOf(g)) \subseteq edge.fallback)
      <4>1. /\ EndReplay /\ ~ job.failed
            /\ \/ job.kind = "rollback" /\ job.group = Host
               \/ job.group = g /\ ~ PastCutover(g)
        BY <1>3, <3>3, AccountedStays
      <4>2. TheFallback \in journal.done
        <5>1. job.kind \in Replays
          BY <4>1 DEF EndReplay
        <5>2. job.noting = NotNoted
          BY <5>1, IdleNotNoting, KindsAre
        <5> QED  BY <3>1, <5>2 DEF Tried, AtHand
      <4>3. ~ (job.group = g /\ ~ PastCutover(g))
        BY <3>3, <4>2 DEF PastCutover, Done, TheFallback
      <4>4. ToSet(journal.live) = {}
        BY <4>1, <4>3, TakenBackEnds DEF TakingBack
      <4> QED  BY <4>2, <4>4 DEF FallsBack
    <3> QED  BY <3>1, <3>2, <3>3 DEF FallsBack
  <2>4. ~ Undo(TheFallback)
    BY <1>3, TriedFrom
  <2> QED  BY <2>1, <2>2, <2>3, <2>4, FallbackStays
<1>4. Tried(TheFallback)' =>
          \A g \in Groups : Accounted(g)' \/ (ToSet(DomainsOf(g)) \subseteq edge.fallback)'
  BY <1>3 DEF DomainsOf, Members, ToSet
<1> QED  BY <1>1, <1>2, <1>4 DEF FallsBack, TheFallback, ToSet

\* What is switched on before the old edge goes aside.
Before == {TheTrust, TheFallback}

\* Whoever still is served there is, until the edge is back on its ports.
Aside ==
    /\ Tried(TheTrust) => edge.trust
    /\ TheEdge \in ToSet(journal.live) => TheEdge \in journal.done
    /\ (job.kind = "cutover" /\ job.first) => Before \subseteq journal.done \union ToSet(job.todo)
    /\ edge.at = "side" =>
          /\ Before \subseteq journal.done
          /\ NoneAfter(journal.live, {TheEdge}, Before)
          /\ job.kind = "cutover" => Before \cap ToSet(job.todo) = {}
          /\ (job.kind \in Replays /\ Before \cap ToSet(job.todo) # {}) =>
                TheEdge \in ToSet(job.todo) /\ NoneAfter(job.todo, Before, {TheEdge})

LEMMA BeforeIs ==
    /\ Before \subseteq Early /\ TheEdge \notin Before /\ TheUp \notin Before
    /\ Before \subseteq LiveStep \cap StepsOf(Host)
    /\ \A g \in Groups : Before \cap StepsOf(g) = {}
    /\ \A s \in Before : s[1] \in {"trust", "fallback"} /\ s[1] \in Journalled
  BY HostIs, KindsOf DEF Before, TheTrust, TheFallback, Early, TheEdge, TheUp, LiveStep, StepsOf

LEMMA TrustStep ==
    ASSUME InForm, PlacesType, BudgetType, Spared, Settled, Tried(TheTrust) => edge.trust,
           [Next]_vars, Tried(TheTrust)'
    PROVE  edge'.trust
<1>1. ASSUME NEW what \in Kinds, NEW w \in Workloads \union {Host}, Effect(what, w)
      PROVE  IF what = "trust" THEN edge'.trust ELSE edge'.trust = edge.trust
  BY <1>1 DEF Effect, EffectOnEdge, PlacesType
<1>2. ASSUME Quiet \/ Still \/ Note \/ \E s \in Steps : Failed(s)  PROVE edge'.trust = edge.trust
  <2>1. Unsettled => edge'.trust = edge.trust
    BY DEF Unsettled, PlacesType
  <2>2. Note => edge' = edge
    BY NoteIs
  <2>3. Still \/ (\E s \in Steps : Failed(s)) => edge' = edge
    BY Zenon DEF Still, Failed
  <2>4. Quiet => edge' = edge \/ Unsettled
    BY DEF Quiet
  <2> QED  BY <1>2, <2>1, <2>2, <2>3, <2>4
<1>3. ASSUME NEW s \in Steps, Undo(s)  PROVE edge'.trust = edge.trust
  <2>1. UndoesEdge(s) /\ job.todo # <<>> /\ Head(job.todo) = s
    BY <1>3, UndoDoes
  <2>2. s # TheTrust
    BY <1>3, TriedFrom
  <2>3. s[1] # "trust"
    BY <2>1, <2>2, AsideAtHand
  <2> QED  BY <2>1, <2>3 DEF UndoesEdge, PlacesType
<1>4. CASE Tried(TheTrust)
  BY <1>1, <1>2, <1>3, <1>4, StepKinds
<1>5. CASE ~ Tried(TheTrust)
  <2>1. \E w \in Workloads \union {Host} : Effect("trust", w)
    BY <1>5, TriedFrom DEF TheTrust
  <2> QED  BY <1>1, <2>1, KindsOf
<1> QED  BY <1>4, <1>5

LEMMA LiveIsDone ==
    ASSUME InForm, Spared, TellsEdge, CutoverLeft,
           TheEdge \in ToSet(journal.live) => TheEdge \in journal.done, [Next]_vars
    PROVE  TheEdge \in ToSet(journal'.live) => TheEdge \in journal'.done
<1>1. ASSUME Quiet \/ Still  PROVE journal' = journal
  BY <1>1, Zenon DEF Quiet, Still
<1>2. ASSUME NEW what, NEW w, Effect(what, w)  PROVE journal' = journal
  BY <1>2, EffectHands
<1>3. ASSUME Note  PROVE TheEdge \in ToSet(journal'.live) => TheEdge \in journal'.done
  BY <1>3, NoteIs
<1>4. ASSUME NEW s \in Steps, Failed(s)
      PROVE  TheEdge \in ToSet(journal'.live) => TheEdge \in journal'.done
  BY <1>4, FailedIs, FailedEdges
<1>5. ASSUME NEW s \in Steps, Undo(s)
      PROVE  TheEdge \in ToSet(journal'.live) => TheEdge \in journal'.done
  BY <1>5, UndoDoes
<1> QED  BY <1>1, <1>2, <1>3, <1>4, <1>5, StepKinds

LEMMA FirstStep ==
    ASSUME InForm, Spared, Aside, [Next]_vars, job'.kind = "cutover", job'.first
    PROVE  Before \subseteq journal'.done \union ToSet(job'.todo)
<1>1. ASSUME NEW first, first, journal' = journal, job'.todo = ToDo(CutoverSteps(first))
      PROVE  Before \subseteq journal'.done \union ToSet(job'.todo)
  <2>1. ToSet(ToDo(CutoverSteps(first))) = ToSet(CutoverSteps(first)) \ journal.done
    BY CutoverStepsAre, StepsAre, ToDoIs
  <2>2. Before \subseteq ToSet(CutoverSteps(first))
    BY <1>1, CutoverStepsAre DEF Before, TheTrust, TheFallback
  <2> QED  BY <1>1, <2>1, <2>2
<1>2. ASSUME job.kind = "cutover", job'.first = job.first
      PROVE  Before \subseteq journal.done \union ToSet(job.todo)
  BY <1>2 DEF Aside
<1>3. ASSUME NEW what \in Kinds, NEW w \in Workloads \union {Host}, Effect(what, w),
             Before \subseteq journal.done \union ToSet(job.todo)
      PROVE  Before \subseteq journal'.done \union ToSet(job'.todo)
  <2>1. /\ journal' = journal /\ job.todo # <<>> /\ Head(job.todo) = <<what, w>>
        /\ job'.todo = IF what \in Journalled THEN job.todo ELSE Tail(job.todo)
    BY <1>3, EffectHands
  <2>2. <<what, w>> \in Before => what \in Journalled
    BY BeforeIs
  <2> QED  BY <1>3, <2>1, <2>2, TodoTail
<1>4. ASSUME Note, Before \subseteq journal.done \union ToSet(job.todo)
      PROVE  Before \subseteq journal'.done \union ToSet(job'.todo)
  BY <1>4, NoteIs, TodoTail
<1>5. Still => journal' = journal /\ job' = job
  BY DEF Still
<1> QED  BY <1>1, <1>2, <1>3, <1>4, <1>5, CutoverFrom

\* When the old edge is told to go aside, both have been switched on.
LEMMA GoesAside ==
    ASSUME InForm, PlacesType, TellsEdge, EdgeAfterEarly, Aside, edge.at # "side",
           NEW what \in Kinds, NEW w \in Workloads \union {Host}, Effect(what, w), edge'.at = "side"
    PROVE  /\ job.kind = "cutover" /\ job'.kind = "cutover" /\ job'.todo = job.todo
           /\ journal' = journal /\ Before \subseteq journal.done
           /\ Before \cap ToSet(job.todo) = {} /\ TheEdge \notin ToSet(journal.live)
<1>1. what = "edge" /\ job.first
  BY EffectEdges
<1>2. /\ job.kind \in Runs /\ journal' = journal /\ job.todo # <<>> /\ Head(job.todo) = <<what, w>>
      /\ job'.kind = job.kind /\ job'.todo = job.todo
  BY <1>1, EffectHands, KindsOf
<1>3. <<what, w>> \in Steps
  BY DEF Steps
<1>4. <<what, w>> = TheEdge /\ job.kind = "cutover"
  BY <1>1, <1>2, <1>3, EdgeAtHand
<1>5. ToSet(job.todo) = {TheEdge} \union ToSet(Tail(job.todo)) /\ ToSet(Tail(job.todo)) \cap Early = {}
  BY <1>2, <1>4, TodoTail DEF EdgeAfterEarly
<1>6. Before \cap ToSet(job.todo) = {}
  BY <1>5, BeforeIs
<1>7. Before \subseteq journal.done
  BY <1>1, <1>4, <1>6 DEF Aside
<1>8. TheEdge \notin ToSet(journal.live)
  BY <1>4, <1>5 DEF TellsEdge, Aside
<1> QED  BY <1>2, <1>4, <1>6, <1>7, <1>8

\* Else it was aside, and no undo of it runs.
LEMMA AsideFrom ==
    ASSUME InForm, PlacesType, BudgetType, Spared, Settled, [Next]_vars, edge'.at = "side",
           edge.at # "side"
    PROVE  \E what \in Kinds, w \in Workloads \union {Host} : Effect(what, w)
<1>1. ~ Unsettled
  BY DEF Unsettled, Spend, Settled, BudgetType
<1>2. ~ (Quiet \/ Still)
  BY <1>1 DEF Quiet, Still
<1>3. ~ Note
  BY NoteIs
<1>4. \A s \in Steps : ~ Failed(s)
  BY DEF Failed
<1>5. \A s \in Steps : ~ Undo(s)
  BY UndoEdges
<1> QED  BY <1>2, <1>3, <1>4, <1>5, StepKinds

LEMMA AsideJournal ==
    ASSUME InForm, PlacesType, Spared, Aside, edge.at = "side", edge'.at = "side", [Next]_vars
    PROVE  Before \subseteq journal'.done /\ NoneAfter(journal'.live, {TheEdge}, Before)
<1>1. Before \subseteq journal.done /\ NoneAfter(journal.live, {TheEdge}, Before)
  BY DEF Aside
<1>2. ASSUME job.todo # <<>>, job.kind \in Runs  PROVE Head(job.todo) \notin Before
  <2> SUFFICES ASSUME Head(job.todo) \in Before  PROVE FALSE
    OBVIOUS
  <2>1. Head(job.todo)[1] \in {"trust", "fallback"} /\ Head(job.todo) \in Steps
    BY <1>2, BeforeIs, HeadIs
  <2>2. job.kind = "cutover"
    BY <1>2, <2>1, AsideAtHand
  <2>3. Head(job.todo) \in ToSet(job.todo)
    BY <1>2, TodoTail
  <2> QED  BY <2>2, <2>3 DEF Aside
<1>3. ASSUME Quiet \/ Still  PROVE journal' = journal
  BY <1>3, Zenon DEF Quiet, Still
<1>4. ASSUME NEW what, NEW w, Effect(what, w)  PROVE journal' = journal
  BY <1>4, EffectHands
<1>5. ASSUME Note
      PROVE  Before \subseteq journal'.done /\ NoneAfter(journal'.live, {TheEdge}, Before)
  <2> DEFINE h == Head(job.todo)
  <2>1. /\ journal'.done = journal.done \union {h} /\ job.todo # <<>> /\ job.kind \in Runs
        /\ job.noting \in Noting
    BY <1>5, NoteIs
  <2>2. NoneAfter(journal'.live, {TheEdge}, Before)
    <3>1. CASE job.noting = "undo"
      <4>1. journal'.live = Append(journal.live, h) /\ h \in LiveStep
        BY <1>5, <3>1 DEF Note, InForm, Hand
      <4>2. h \notin Before
        BY <1>2, <2>1
      <4>3. journal.live \in Seq(LiveStep)
        BY TodoSeq
      <4> HIDE DEF h
      <4>4. NoneAfter(Append(journal.live, h), {TheEdge}, Before)
        BY <1>1, <4>1, <4>2, <4>3, AppendNone
      <4> QED  BY <4>1, <4>4
    <3>2. CASE job.noting # "undo"
      <4>1. journal'.live = journal.live
        BY <1>5, <3>2 DEF Note
      <4> QED  BY <1>1, <4>1
    <3> QED  BY <3>1, <3>2
  <2> QED  BY <1>1, <2>1, <2>2
<1>6. ASSUME NEW s \in Steps, Failed(s)
      PROVE  Before \subseteq journal'.done /\ NoneAfter(journal'.live, {TheEdge}, Before)
  <2>1. journal'.done = journal.done \ {s} /\ journal'.live = journal.live
    BY <1>6, FailedIs
  <2>2. s \notin Before
    BY <1>2, <1>6 DEF Failed
  <2> QED  BY <1>1, <2>1, <2>2
<1>7. ASSUME NEW s \in Steps, Undo(s)
      PROVE  Before \subseteq journal'.done /\ NoneAfter(journal'.live, {TheEdge}, Before)
  <2>1. /\ journal'.done = journal.done \ {s} /\ job.kind \in Replays
        /\ job.todo # <<>> /\ Head(job.todo) = s
    BY <1>7, UndoDoes
  <2>2. s # TheEdge
    BY <1>7, UndoEdges
  <2>3. s \notin Before
    <3> SUFFICES ASSUME s \in Before  PROVE FALSE
      OBVIOUS
    <3>1. s \in ToSet(job.todo) /\ ToSet(job.todo) = {s} \union ToSet(Tail(job.todo))
      BY <2>1, TodoTail
    <3>2. TheEdge \in ToSet(job.todo) /\ NoneAfter(job.todo, Before, {TheEdge})
      BY <2>1, <3>1 DEF Aside
    <3>3. ToSet(Tail(job.todo)) \cap {TheEdge} = {}
      BY <2>1, <3>2, TodoTail
    <3> QED  BY <2>2, <3>1, <3>2, <3>3
  <2>4. NoneAfter(journal'.live, {TheEdge}, Before)
    <3>1. journal' = Unrecorded(s) /\ journal \in JournalType
      BY <1>7 DEF Undo, InForm
    <3>2. NoneAfter(Unrecorded(s).live, {TheEdge}, Before)
      BY <1>1, <3>1, UnrecordedIs
    <3> QED  BY <3>1, <3>2
  <2> QED  BY <1>1, <2>1, <2>3, <2>4
<1> QED  BY <1>1, <1>3, <1>4, <1>5, <1>6, <1>7, StepKinds

LEMMA AsideCutover ==
    ASSUME InForm, PlacesType, Spared, Aside, edge.at = "side", [Next]_vars, job'.kind = "cutover"
    PROVE  Before \cap ToSet(job'.todo) = {}
<1>1. ASSUME NEW first, job'.todo = ToDo(CutoverSteps(first))
      PROVE  Before \cap ToSet(job'.todo) = {}
  <2>1. ToSet(ToDo(CutoverSteps(first))) = ToSet(CutoverSteps(first)) \ journal.done
    BY CutoverStepsAre, StepsAre, ToDoIs
  <2> QED  BY <1>1, <2>1 DEF Aside
<1>2. ASSUME job.kind = "cutover"  PROVE Before \cap ToSet(job.todo) = {}
  BY <1>2 DEF Aside
<1>3. ASSUME NEW what \in Kinds, NEW w \in Workloads \union {Host}, Effect(what, w)
      PROVE  job.todo # <<>> /\ (job'.todo = job.todo \/ job'.todo = Tail(job.todo))
  BY <1>3, EffectHands
<1>4. Note => job.todo # <<>> /\ job'.todo = Tail(job.todo)
  BY NoteIs
<1>5. Still => job' = job
  BY DEF Still
<1>6. job.todo # <<>> => ToSet(Tail(job.todo)) \subseteq ToSet(job.todo)
  BY TodoTail
<1> QED  BY <1>1, <1>2, <1>3, <1>4, <1>5, <1>6, CutoverFrom

LEMMA AsideReplay ==
    ASSUME InForm, PlacesType, Spared, TellsEdge, EdgesLive, Aside, "edge" \notin UndoFails,
           edge.at = "side", edge'.at = "side", [Next]_vars, job'.kind \in Replays,
           Before \cap ToSet(job'.todo) # {}
    PROVE  TheEdge \in ToSet(job'.todo) /\ NoneAfter(job'.todo, Before, {TheEdge})
<1> DEFINE Goal == TheEdge \in ToSet(job'.todo) /\ NoneAfter(job'.todo, Before, {TheEdge})
<1>1. journal.live \in Seq(LiveStep)
  BY TodoSeq
<1>2. ASSUME NEW g \in Groups \union {Host}, StartRollback(g)  PROVE Goal
  <2> DEFINE u == Undoable(g)
  <2>1. job'.todo = u /\ job.noting = NotNoted
    BY <1>2, StartRollbackIs, IdleNotNoting, KindsAre DEF Begun, StartRollback
  <2>2. ToSet(u) = ToSet(journal.live) \cap StepsOf(g)
    BY <1>1, UndoableIs
  <2>3. NoneAfter(journal.live, {TheEdge}, Before)
    BY DEF Aside
  <2>4. NoneAfter(u, Before, {TheEdge})
    BY <1>1, <2>3, UndoableNone
  <2>5. g = Host
    BY <2>1, <2>2, BeforeIs
  <2>6. TheEdge \in ToSet(journal.live)
    BY <2>1 DEF TellsEdge, AtHand, EdgesLive
  <2>7. TheEdge \in ToSet(u)
    BY <2>2, <2>5, <2>6, HostIs
  <2> HIDE DEF u
  <2> QED  BY <2>1, <2>4, <2>7
<1>3. ASSUME NEW s \in Steps, FailMove(s)  PROVE FALSE
  <2> DEFINE g == job.group
  <2>1. g \in Groups /\ job'.todo = UndoList(g)
    BY <1>3, FailMoveIs DEF Begun
  <2> HIDE DEF g
  <2>2. ToSet(UndoList(g)) \subseteq (ToSet(journal.live) \cap StepsOf(g)) \union ({"outright"} \X Members(g))
    BY <1>1, <2>1, UndoListIs
  <2>3. Before \cap ({"outright"} \X Members(g)) = {}
    BY DEF Before, TheTrust, TheFallback
  <2> QED  BY <2>1, <2>2, <2>3, BeforeIs
<1>4. ASSUME NEW s \in Steps, FailCutover(s)  PROVE FALSE
  <2>1. job'.todo = EdgeEntry
    BY <1>4, FailCutoverIs, KindsAre DEF Begun, Idle
  <2>2. ToSet(EdgeEntry) \subseteq {TheEdge}
    <3>1. EdgeEntry \in Seq({TheEdge})
      BY <1>1, EdgeEntryIs DEF TheEdge
    <3> QED  BY <3>1, InSeq
  <2> QED  BY <2>1, <2>2, BeforeIs
<1>5. ASSUME job.kind \in Replays, job.todo # <<>>, job'.todo = Tail(job.todo),
             Head(job.todo) # TheEdge
      PROVE  Goal
  <2>1. ToSet(job.todo) = {Head(job.todo)} \union ToSet(Tail(job.todo))
    BY <1>5, TodoTail
  <2>2. TheEdge \in ToSet(job.todo) /\ NoneAfter(job.todo, Before, {TheEdge})
    BY <1>5, <2>1 DEF Aside
  <2>3. NoneAfter(Tail(job.todo), Before, {TheEdge})
    BY <1>5, <2>2, TodoTail
  <2> QED  BY <1>5, <2>1, <2>2, <2>3
<1>6. ASSUME NEW s \in Steps, Undo(s)  PROVE Goal
  <2>1. s # TheEdge
    BY <1>6, UndoEdges
  <2> QED  BY <1>5, <1>6, <2>1, UndoDoes
<1>7. ASSUME FailUndo  PROVE Goal
  <2>1. Head(job.todo) # TheEdge
    BY <1>7 DEF FailUndo, CanUndo, TheEdge
  <2>2. job.kind \in Replays /\ job.todo # <<>> /\ job'.todo = Tail(job.todo)
    BY <1>7 DEF FailUndo, InForm, JobType
  <2> QED  BY <1>5, <2>1, <2>2
<1>8. ASSUME Still  PROVE Goal
  <2>1. job' = job
    BY <1>8 DEF Still
  <2> QED  BY <2>1 DEF Aside
<1>9. Goal
  <2> HIDE DEF Goal
  <2> QED  BY <1>2, <1>3, <1>4, <1>6, <1>7, <1>8, ReplayBy
<1> QED  BY <1>9

LEMMA AsideStep ==
    ASSUME InForm, PlacesType, BudgetType, Spared, Settled, TellsEdge, CutoverLeft, EdgesLive,
           EdgeAfterEarly, Aside, "edge" \notin UndoFails, [Next]_vars
    PROVE  Aside'
<1>1. Tried(TheTrust)' => edge'.trust
  BY TrustStep DEF Aside
<1>2. TheEdge \in ToSet(journal'.live) => TheEdge \in journal'.done
  BY LiveIsDone DEF Aside
<1>3. (job'.kind = "cutover" /\ job'.first) => Before \subseteq journal'.done \union ToSet(job'.todo)
  BY FirstStep
<1> DEFINE There ==
        /\ Before \subseteq journal'.done
        /\ NoneAfter(journal'.live, {TheEdge}, Before)
        /\ job'.kind = "cutover" => Before \cap ToSet(job'.todo) = {}
        /\ (job'.kind \in Replays /\ Before \cap ToSet(job'.todo) # {}) =>
              TheEdge \in ToSet(job'.todo) /\ NoneAfter(job'.todo, Before, {TheEdge})
<1>4. ASSUME edge'.at = "side"  PROVE There
  <2>1. CASE edge.at = "side"
    BY <1>4, <2>1, AsideJournal, AsideCutover, AsideReplay
  <2>2. CASE edge.at # "side"
    <3>1. /\ job.kind = "cutover" /\ job'.kind = "cutover" /\ job'.todo = job.todo
          /\ journal' = journal /\ Before \subseteq journal.done
          /\ Before \cap ToSet(job.todo) = {} /\ TheEdge \notin ToSet(journal.live)
      BY <1>4, <2>2, AsideFrom, GoesAside
    <3>2. journal.live \in Seq(LiveStep)
      BY TodoSeq
    <3>3. NoneAfter(journal.live, {TheEdge}, Before)
      BY <3>1, <3>2, ApartNone
    <3> QED  BY <3>1, <3>3, KindsAre
  <2> QED  BY <2>1, <2>2
<1> QED  BY <1>1, <1>2, <1>3, <1>4
         DEF Aside, Before, TheTrust, TheFallback, TheEdge, ToSet, NoneAfter, Replays

-----------------------------------------------------------------------------
(* What is at rest is served *)

Serving ==
    /\ Undoing /\ OnlyJournalled /\ Probed /\ Standing
    /\ EdgeAfterEarly /\ HandedOver /\ AllMoved /\ TakenDown /\ FallsBack /\ Aside
    /\ "edge" \notin UndoFails

LEMMA ServingInit ==
    ASSUME Init, Clean, Orderly, "edge" \notin UndoFails
    PROVE  Serving
<1>1. /\ job.kind = "idle" /\ job.noting = NotNoted /\ edge.at = "ports" /\ edge.ports = "old"
      /\ journal.done = {} /\ journal.live = <<>> /\ job.todo = <<>>
  BY DEF Init
<1>2. ToSet(journal.live) = {}
  BY <1>1 DEF ToSet
<1>3. Undoing
  BY UndoingInit
<1>4. OnlyJournalled /\ Probed /\ Standing
  BY <1>1, <1>2 DEF OnlyJournalled, Probed, Standing, Untouched
<1>5. EdgeAfterEarly /\ HandedOver /\ AllMoved /\ TakenDown
  BY <1>1 DEF EdgeAfterEarly, HandedOver, AllMoved, TakenDown
<1>6. FallsBack /\ Aside
  BY <1>1, <1>2, KindsAre DEF FallsBack, Aside, Tried, AtHand
<1> QED  BY <1>3, <1>4, <1>5, <1>6 DEF Serving

LEMMA ServingStep ==
    ASSUME Serving, [Next]_vars
    PROVE  Serving'
<1>1. /\ InForm /\ PlacesType /\ BudgetType /\ PastType /\ Spared /\ Revoked /\ Settled
      /\ Ending /\ ChangesOnce /\ TellsEdge /\ Outcome
      /\ CutoverLeft /\ PortsTold /\ EdgesLive
  BY UndoingHas DEF Serving
<1>2. Undoing'
  BY UndoingStep DEF Serving
<1>3. OnlyJournalled' /\ Probed'
  BY <1>1, OnlyJournalledStep, ProbedStep DEF Serving
<1>4. Standing'
  BY <1>1, StandingStep DEF Serving
<1>5. EdgeAfterEarly' /\ HandedOver'
  BY <1>1, EdgeAfterEarlyStep, HandedOverStep DEF Serving
<1>6. AllMoved' /\ TakenDown'
  BY <1>1, AllMovedStep, TakenDownStep DEF Serving
<1>7. FallsBack' /\ Aside'
  BY <1>1, FallsBackStep, AsideStep DEF Serving
<1> QED  BY <1>2, <1>3, <1>4, <1>5, <1>6, <1>7 DEF Serving

LEMMA AlwaysServing == Spec /\ Clean /\ Orderly /\ "edge" \notin UndoFails => []Serving
<1>1. Init /\ Clean /\ Orderly /\ "edge" \notin UndoFails => Serving
  BY ServingInit
<1>2. Serving /\ [Next]_vars => Serving'
  BY ServingStep
<1> QED  BY <1>1, <1>2, PTL DEF Spec

LEMMA ServingServes == Serving => NothingGoesDark
<1> SUFFICES ASSUME Serving, job.kind = "idle", Host \notin past.cut, NEW w \in ToSet(Domains),
                    was[w] = "up", GroupOf(w) \notin past.cut, ~ LeftBehind(GroupOf(w))
             PROVE  Served(w)
  BY DEF NothingGoesDark
<1> DEFINE g == GroupOf(w)
<1>1. w \in Workloads /\ g \in Groups /\ w \in Members(g) /\ w \in ToSet(DomainsOf(g))
  <2>1. w \in Workloads
    BY InSeq, MigrationAssumption
  <2> QED  BY <2>1, GroupOfIs, ListsAre
<1>2. InForm /\ PlacesType /\ PortsTold /\ Undoing /\ StartedRuns /\ Sides
  BY UndoingHas DEF Serving, Undoing, Removing, OnSides
<1>3. Open(g) /\ job.noting = NotNoted
  BY <1>1, <1>2, IdleNotNoting, KindsAre DEF Open, Busy, MoveOf, Covering
<1>4. edge.ports \in {"old", "caddy"}
  <2>1. ~ TakingBack /\ ~ LettingGo
    BY DEF TakingBack, LettingGo
  <2> QED  BY <1>2, <2>1 DEF Serving, HandedOver, PlacesType
<1>5. GroupHasMoved(g) => new[w]
  BY <1>1, <1>2 DEF GroupHasMoved, StartedRuns
<1>6. CASE Arrived(g)
  <2>1. new[w] /\ w \in routes.published /\ (w \in routes.switched \/ edge.ports = "caddy")
    BY <1>1, <1>5, <1>6 DEF Arrived, Reached
  <2> QED  BY <1>4, <2>1 DEF Served, ServedByMeshploy, Published
<1>7. CASE Untouched(g)
  <2>1. ToSet(journal.live) \cap StepsOf(g) = {}
    BY <1>7 DEF Untouched
  <2>2. ~ new[w]
    <3>1. <<"start", w>> \in StepsOf(g) /\ <<"service", w>> \in StepsOf(g)
      BY <1>1, HostApart, KindsOf DEF StepsOf
    <3>2. ~ ToUndo(<<"start", w>>) /\ ~ ToUndo(<<"service", w>>)
      BY <1>3, <2>1, <3>1 DEF ToUndo, NotNoted
    <3> QED  BY <1>1, <1>2, <3>2 DEF Sides
  <2>3. TheEnd \notin journal.done
    BY <1>1, <1>5, <2>2 DEF Serving, AllMoved
  <2>4. PutBackGroup(g)
    BY <1>1, <1>2, <2>1, <2>3, NothingLeft
  <2>5. FromOldEdge(w) /\ w \notin routes.published
    BY <1>1, <2>4 DEF PutBackGroup, FromOldEdge
  <2>6. ~ Accounted(g)
    BY <1>3, <1>5, <2>2 DEF Accounted, LeftBehind
  <2>7. CASE edge.ports = "old"
    BY <2>5, <2>7 DEF Served, ServedByDokploy
  <2>8. CASE edge.ports = "caddy"
    <3>1. edge.at # "ports" /\ edge.at # "gone"
      BY <1>2, <2>3, <2>8 DEF PortsTold, Serving, AllMoved
    <3>2. edge.at # "down"
      BY <2>6 DEF Serving, TakenDown, LeftBehind
    <3>3. edge.at = "side"
      BY <1>2, <3>1, <3>2 DEF PlacesType
    <3>4. {TheTrust, TheFallback} \subseteq journal.done
      BY <3>3 DEF Serving, Aside, Before
    <3>5. edge.trust
      BY <3>4 DEF Serving, Aside, Tried
    <3>6. w \in edge.fallback
      BY <1>1, <2>6, <3>4 DEF Serving, FallsBack, Tried
    <3> QED  BY <2>5, <2>8, <3>3, <3>5, <3>6 DEF Served, ServedByDokploy
  <2> QED  BY <1>4, <2>7, <2>8
<1> QED  BY <1>1, <1>3, <1>6, <1>7 DEF Serving, Standing

\* Whenever no stage is at work, whatever was moved, put back, cut short and run
\* again before, a visitor of every domain the server served gets an answer: from
\* Dokploy through its own edge or, that edge aside, through Meshploy's proxy
\* (edge_first.go), or from Meshploy.  Apart from what a crash cut short, what a
\* cutover says it leaves behind, and what is put back once the ports have changed
\* hands; and as long as the old edge can be given its ports back.
THEOREM NothingEverGoesDark ==
    Spec /\ Clean /\ Orderly /\ "edge" \notin UndoFails => []NothingGoesDark
  BY ServingServes, AlwaysServing, PTL

=============================================================================
