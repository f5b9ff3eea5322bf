-------------------------- MODULE OrganizationsProofs --------------------------
(***************************************************************************)
(* Proofs about the names, the domain policy and the teams of a tenant,    *)
(* for any texts, domains, people and numbers of concurrent requests.      *)
(***************************************************************************)
EXTENDS Organizations, SequenceTheorems, FiniteSetTheorems, TLAPS

-----------------------------------------------------------------------------
(* Addresses.                                                               *)

\* A stem is a text, or has room for every number.
StemOK(a) ==
  /\ WellFormed(a)
  /\ a \in Texts \/ \A n \in Numbers : Len(a) + 1 + Len(Numeral[n]) <= MaxLength

\* How many characters come between a stem and its number.
Joint(kind) == IF kind = "project" THEN 0 ELSE 1

LEMMA SameCharacters ==
  ASSUME NEW a \in Seq(Characters), NEW b \in Seq(Characters), Len(a) = Len(b),
         \A i \in 1..Len(a) : a[i] = b[i]
  PROVE  a = b
BY SeqEqual

\* The characters of a number.
LEMMA NumeralProperties ==
  ASSUME NEW n \in Numbers
  PROVE  /\ Numeral[n] \in Seq(Characters) /\ Len(Numeral[n]) \in Nat \ {0}
         /\ Len(Numeral[n]) < MaxLength
         /\ \A i \in 1..Len(Numeral[n]) : Numeral[n][i] # Hyphen
BY NumeralsDiffer, LenProperties, EmptySeq DEF WellFormed, Address

\* Three sequences in a row.
LEMMA ConcatThree ==
  ASSUME NEW a \in Seq(Characters), NEW j \in Seq(Characters), NEW m \in Seq(Characters)
  PROVE  /\ (a \o j) \o m \in Seq(Characters)
         /\ Len((a \o j) \o m) = Len(a) + Len(j) + Len(m)
         /\ \A i \in 1..Len(a) : ((a \o j) \o m)[i] = a[i]
         /\ \A i \in 1..Len(j) : ((a \o j) \o m)[Len(a) + i] = j[i]
         /\ \A i \in 1..Len(m) : ((a \o j) \o m)[Len(a) + Len(j) + i] = m[i]
<1> DEFINE b == a \o j
           c == b \o m
<1>1. Len(a) \in Nat /\ Len(j) \in Nat /\ Len(m) \in Nat
  BY LenProperties
<1>2. /\ b \in Seq(Characters) /\ Len(b) = Len(a) + Len(j)
      /\ \A i \in 1..(Len(a) + Len(j)) : b[i] = IF i <= Len(a) THEN a[i] ELSE j[i - Len(a)]
  BY ConcatProperties
<1> HIDE DEF b
<1>3. /\ c \in Seq(Characters) /\ Len(c) = Len(b) + Len(m)
      /\ \A i \in 1..(Len(b) + Len(m)) : c[i] = IF i <= Len(b) THEN b[i] ELSE m[i - Len(b)]
  <2>1. b \in Seq(Characters)
    BY <1>2
  <2>2. QED
    BY <2>1, ConcatProperties
<1> HIDE DEF c
<1>4. Len(c) = Len(a) + Len(j) + Len(m)
  BY <1>1, <1>2, <1>3
<1>5. \A i \in 1..Len(a) : c[i] = a[i]
  BY <1>1, <1>2, <1>3
<1>6. ASSUME NEW i \in 1..Len(j)
      PROVE  c[Len(a) + i] = j[i]
  <2>1. /\ Len(a) + i \in 1..(Len(a) + Len(j)) /\ Len(a) + i \in 1..(Len(b) + Len(m))
        /\ Len(a) + i <= Len(b) /\ ~(Len(a) + i <= Len(a)) /\ (Len(a) + i) - Len(a) = i
    BY <1>1, <1>2
  <2>2. QED
    BY <1>2, <1>3, <2>1
<1>7. ASSUME NEW i \in 1..Len(m)
      PROVE  c[Len(a) + Len(j) + i] = m[i]
  <2>1. /\ Len(b) + i \in 1..(Len(b) + Len(m))
        /\ ~(Len(b) + i <= Len(b)) /\ (Len(b) + i) - Len(b) = i
    BY <1>1, <1>2
  <2>2. c[Len(b) + i] = m[i]
    BY <1>3, <2>1
  <2>3. QED
    BY <1>2, <2>2
<1>8. QED
  BY <1>3, <1>4, <1>5, <1>6, <1>7 DEF c, b

\* A number comes after the text and, in a slug, after a hyphen.
LEMMA NumberedProperties ==
  ASSUME NEW kind, NEW a \in Seq(Characters), NEW n \in Numbers
  PROVE  /\ Numbered(kind, a, n) \in Seq(Characters)
         /\ Len(Numbered(kind, a, n)) = Len(a) + Joint(kind) + Len(Numeral[n])
         /\ \A i \in 1..Len(a) : Numbered(kind, a, n)[i] = a[i]
         /\ kind # "project" => Numbered(kind, a, n)[Len(a) + 1] = Hyphen
         /\ \A i \in 1..Len(Numeral[n]) :
              Numbered(kind, a, n)[Len(a) + Joint(kind) + i] = Numeral[n][i]
<1> DEFINE joint == IF kind = "project" THEN <<>> ELSE <<Hyphen>>
           m == Numeral[n]
<1>1. /\ joint \in Seq(Characters) /\ Len(joint) = Joint(kind)
      /\ kind # "project" => Len(joint) = 1 /\ joint[1] = Hyphen
  BY TextsWellFormed DEF Joint
<1>2. m \in Seq(Characters)
  BY NumeralProperties
<1>3. Numbered(kind, a, n) = (a \o joint) \o m
  BY DEF Numbered
<1> HIDE DEF joint, m
<1>4. /\ (a \o joint) \o m \in Seq(Characters)
      /\ Len((a \o joint) \o m) = Len(a) + Len(joint) + Len(m)
      /\ \A i \in 1..Len(a) : ((a \o joint) \o m)[i] = a[i]
      /\ \A i \in 1..Len(joint) : ((a \o joint) \o m)[Len(a) + i] = joint[i]
      /\ \A i \in 1..Len(m) : ((a \o joint) \o m)[Len(a) + Len(joint) + i] = m[i]
  BY <1>1, <1>2, ConcatThree
<1>5. kind # "project" => ((a \o joint) \o m)[Len(a) + 1] = Hyphen
  BY <1>1, <1>4
<1>6. QED
  BY <1>1, <1>3, <1>4, <1>5 DEF m

\* A number that fits is part of a well-formed address.
LEMMA NumberedWellFormed ==
  ASSUME NEW kind, NEW a \in Seq(Characters), NEW n \in Numbers,
         Len(Numbered(kind, a, n)) <= MaxLength
  PROVE  WellFormed(Numbered(kind, a, n))
<1> DEFINE b == Numbered(kind, a, n)
           w == Len(Numeral[n])
<1>1. /\ b \in Seq(Characters) /\ Len(b) = Len(a) + Joint(kind) + w
      /\ w \in Nat \ {0} /\ Len(a) \in Nat /\ Joint(kind) \in {0, 1}
      /\ b[Len(a) + Joint(kind) + w] = Numeral[n][w] /\ Numeral[n][w] # Hyphen
  <2>1. w \in Nat \ {0} /\ w \in 1..w /\ \A i \in 1..w : Numeral[n][i] # Hyphen
    BY NumeralProperties
  <2>2. /\ b \in Seq(Characters) /\ Len(b) = Len(a) + Joint(kind) + w
        /\ \A i \in 1..w : b[Len(a) + Joint(kind) + i] = Numeral[n][i]
    BY NumberedProperties
  <2>3. Len(a) \in Nat /\ Joint(kind) \in {0, 1}
    BY LenProperties DEF Joint
  <2> HIDE DEF b, w
  <2>4. QED
    BY <2>1, <2>2, <2>3
<1> HIDE DEF b, w
<1>2. b # <<>>
  BY <1>1
<1>3. b \in Address
  BY <1>1 DEF Address, b
<1>4. QED
  BY <1>1, <1>2, <1>3 DEF WellFormed, b

\* A slice is the beginning.
LEMMA SliceProperties ==
  ASSUME NEW a \in Seq(Characters), NEW n \in Nat
  PROVE  /\ Slice(a, n) \in Seq(Characters)
         /\ Len(Slice(a, n)) = IF Len(a) <= n THEN Len(a) ELSE n
         /\ \A i \in 1..Len(Slice(a, n)) : Slice(a, n)[i] = a[i]
<1>1. Len(a) \in Nat /\ \A i \in 1..Len(a) : a[i] \in Characters
  BY LenProperties, ElementOfSeq
<1>2. CASE Len(a) <= n
  BY <1>2 DEF Slice
<1>3. CASE ~(Len(a) <= n)
  <2>1. \A i \in 1..n : a[i] \in Characters
    BY <1>1, <1>3
  <2>2. /\ SubSeq(a, 1, n) \in Seq(Characters)
        /\ Len(SubSeq(a, 1, n)) = IF 1 <= n THEN n - 1 + 1 ELSE 0
        /\ \A i \in 1..(n - 1 + 1) : SubSeq(a, 1, n)[i] = a[1 + i - 1]
    BY <2>1, SubSeqProperties
  <2>3. Len(SubSeq(a, 1, n)) = n /\ \A i \in 1..n : SubSeq(a, 1, n)[i] = a[i]
    BY <2>2
  <2>4. Slice(a, n) = SubSeq(a, 1, n)
    BY <1>3 DEF Slice
  <2>5. QED
    BY <1>3, <2>2, <2>3, <2>4
<1>4. QED
  BY <1>2, <1>3

\* What the attempts are made from.
LEMMA StemWellFormed ==
  ASSUME NEW kind \in Kinds, NEW t \in Texts
  PROVE  Stem(kind, t) \in Address /\ StemOK(Stem(kind, t))
<1>1. WellFormed(t)
  BY TextsWellFormed
<1>2. CASE ~(kind = "organization" /\ IsReserved(kind, t))
  BY <1>1, <1>2 DEF Stem, StemOK, WellFormed
<1>3. CASE kind = "organization" /\ IsReserved(kind, t)
  <2> DEFINE b == t \o <<Hyphen>>
             s == b \o Org
  <2>1. /\ t \in Seq(Characters) /\ Org \in Seq(Characters) /\ Len(t) \in Nat
        /\ Len(Org) \in Nat \ {0} /\ Org[Len(Org)] # Hyphen
        /\ <<Hyphen>> \in Seq(Characters) /\ Len(<<Hyphen>>) = 1
    BY <1>1, ReservedAreShort, TextsWellFormed, LenProperties, EmptySeq DEF WellFormed, Address
  <2>2. b \in Seq(Characters) /\ Len(b) = Len(t) + 1
    BY <2>1, ConcatProperties
  <2> HIDE DEF b
  <2>3. /\ s \in Seq(Characters) /\ Len(s) = Len(b) + Len(Org)
        /\ \A i \in 1..(Len(b) + Len(Org)) : s[i] = IF i <= Len(b) THEN b[i] ELSE Org[i - Len(b)]
    BY <2>1, <2>2, ConcatProperties
  <2>4. s[Len(s)] = Org[Len(Org)]
    BY <2>1, <2>2, <2>3
  <2> HIDE DEF s
  <2>5. \A n \in Numbers : Len(s) + 1 + Len(Numeral[n]) <= MaxLength
    <3> SUFFICES ASSUME NEW n \in Numbers
                 PROVE  Len(s) + 1 + Len(Numeral[n]) <= MaxLength
      OBVIOUS
    <3>1. Len(t) + Len(Org) + Len(Numeral[n]) <= MaxLength - 2
      BY <1>3, ReservedAreShort DEF IsReserved
    <3> DEFINE w == Len(Numeral[n])
    <3>2. w \in Nat /\ MaxLength \in Nat
      BY NumeralProperties, Bounds
    <3> HIDE DEF w
    <3>3. Len(t) + Len(Org) + w <= MaxLength - 2
      BY <3>1 DEF w
    <3>4. Len(s) + 1 + w <= MaxLength
      BY <2>1, <2>2, <2>3, <3>2, <3>3
    <3>5. QED
      BY <3>4 DEF w
  <2>6. 2 \in Numbers
    BY Bounds DEF Numbers
  <2>7. Len(s) <= MaxLength /\ s # <<>>
    <3> DEFINE w == Len(Numeral[2])
    <3>1. w \in Nat /\ MaxLength \in Nat
      BY <2>6, NumeralProperties, Bounds
    <3>2. Len(s) + 1 + w <= MaxLength
      BY <2>5, <2>6
    <3> HIDE DEF w
    <3>3. Len(s) \in Nat \ {0}
      BY <2>1, <2>2, <2>3
    <3>4. QED
      BY <3>1, <3>2, <3>3
  <2>8. WellFormed(s)
    BY <2>1, <2>3, <2>4, <2>7 DEF WellFormed, Address
  <2>9. Stem(kind, t) = s
    BY <1>3 DEF Stem, s, b
  <2>10. QED
    BY <2>5, <2>8, <2>9 DEF StemOK, WellFormed
<1>4. QED
  BY <1>2, <1>3

\* Every attempt is an address, which ends in a hyphen only at the edge.
LEMMA AttemptEnds ==
  ASSUME NEW kind \in Kinds, NEW a, StemOK(a), NEW n \in 1..(MaxAttempts - 1)
  PROVE  Attempt(kind, a, n) \in Address /\ HyphenAtTheEdge(Attempt(kind, a, n))
<1>1. /\ a \in Seq(Characters) /\ Len(a) \in Nat \ {0} /\ Len(a) <= MaxLength
      /\ a[Len(a)] # Hyphen /\ MaxLength \in Nat /\ WellFormed(a)
  BY Bounds, LenProperties, EmptySeq DEF StemOK, WellFormed, Address
<1>2. CASE n = 1
  BY <1>1, <1>2 DEF Attempt, HyphenAtTheEdge, WellFormed
<1> DEFINE w == Len(Numeral[n])
<1>3. ASSUME n # 1
      PROVE  /\ n \in Numbers /\ Numeral[n] \in Seq(Characters)
             /\ w \in Nat \ {0} /\ w < MaxLength
             /\ \A i \in 1..w : Numeral[n][i] # Hyphen
  <2>1. n \in Numbers
    BY <1>3, Bounds DEF Numbers
  <2>2. QED
    BY <2>1, NumeralProperties
<1>4. CASE n # 1 /\ kind = "project"
  <2> DEFINE b == Slice(a, MaxLength - w)
             c == b \o Numeral[n]
  <2>1. MaxLength - w \in Nat
    BY <1>1, <1>3, <1>4
  <2>2. b \in Seq(Characters) /\ Len(b) \in Nat /\ Len(b) <= MaxLength - w
    <3>1. /\ b \in Seq(Characters)
          /\ Len(b) = IF Len(a) <= MaxLength - w THEN Len(a) ELSE MaxLength - w
      BY <1>1, <2>1, SliceProperties
    <3> HIDE DEF b, w
    <3>2. QED
      BY <1>1, <2>1, <3>1
  <2> HIDE DEF b
  <2>3. /\ c \in Seq(Characters) /\ Len(c) = Len(b) + w
        /\ \A i \in 1..(Len(b) + w) : c[i] = IF i <= Len(b) THEN b[i] ELSE Numeral[n][i - Len(b)]
    BY <1>3, <1>4, <2>2, ConcatProperties
  <2> HIDE DEF c
  <2>4. c[Len(c)] = Numeral[n][w]
    BY <1>3, <1>4, <2>2, <2>3
  <2>5. c[Len(c)] # Hyphen /\ Len(c) <= MaxLength
    BY <1>1, <1>3, <1>4, <2>2, <2>3, <2>4
  <2>6. Attempt(kind, a, n) = c
    BY <1>4 DEF Attempt, c, b
  <2>7. QED
    BY <2>3, <2>5, <2>6 DEF Address, HyphenAtTheEdge
<1>5. CASE n # 1 /\ kind # "project"
  <2> DEFINE c == Numbered(kind, a, n)
             s == Slice(c, MaxLength)
  <2>1. /\ c \in Seq(Characters) /\ Len(c) = Len(a) + 1 + w
        /\ \A i \in 1..Len(a) : c[i] = a[i]
        /\ \A i \in 1..w : c[Len(a) + 1 + i] = Numeral[n][i]
    <3>1. Joint(kind) = 1
      BY <1>5 DEF Joint
    <3>2. /\ c \in Seq(Characters) /\ Len(c) = Len(a) + Joint(kind) + w
          /\ \A i \in 1..Len(a) : c[i] = a[i]
          /\ \A i \in 1..w : c[Len(a) + Joint(kind) + i] = Numeral[n][i]
      <4>1. n \in Numbers
        BY <1>3, <1>5
      <4>2. QED
        BY <1>1, <4>1, NumberedProperties
    <3> HIDE DEF c, w
    <3>3. QED
      BY <3>1, <3>2
  <2>2. /\ s \in Seq(Characters) /\ Len(s) = IF Len(c) <= MaxLength THEN Len(c) ELSE MaxLength
        /\ \A i \in 1..Len(s) : s[i] = c[i]
    BY <1>1, <2>1, SliceProperties
  <2>3. Attempt(kind, a, n) = s
    BY <1>5 DEF Attempt
  <2>4. CASE Len(c) <= MaxLength
    <3>1. WellFormed(c) /\ s = c
      BY <1>1, <1>3, <1>5, <2>4, NumberedWellFormed DEF Slice
    <3>2. QED
      BY <2>3, <3>1 DEF WellFormed, HyphenAtTheEdge
  <2> HIDE DEF c, s, w
  <2>5. CASE ~(Len(c) <= MaxLength)
    <3>1. a \in Texts
      <4>1. ~(Len(a) + 1 + w <= MaxLength)
        BY <2>1, <2>5
      <4>2. QED
        BY <1>3, <1>5, <4>1 DEF StemOK, w
    <3>2. Len(s) = MaxLength /\ s[MaxLength] = c[MaxLength]
      BY <1>1, <2>2, <2>5
    <3>3. CASE Len(a) = MaxLength
      BY <1>1, <2>1, <2>2, <2>3, <3>2, <3>3 DEF Address, HyphenAtTheEdge
    <3>4. CASE Len(a) = MaxLength - 1
      <4> DEFINE front == SubSeq(s, 1, MaxLength - 1)
      <4>1. \A i \in 1..(MaxLength - 1) : s[i] \in Characters /\ s[i] = a[i]
        BY <1>1, <2>1, <2>2, <3>2, <3>4, ElementOfSeq
      <4>2. /\ front \in Seq(Characters) /\ Len(front) = MaxLength - 1
            /\ \A i \in 1..(MaxLength - 1) : front[i] = s[i]
        <5>1. /\ front \in Seq(Characters)
              /\ Len(front) = IF 1 <= MaxLength - 1 THEN MaxLength - 1 - 1 + 1 ELSE 0
              /\ \A i \in 1..(MaxLength - 1 - 1 + 1) : front[i] = s[1 + i - 1]
          BY <1>1, <4>1, SubSeqProperties
        <5> HIDE DEF front
        <5>2. QED
          BY <1>1, <3>4, <5>1
      <4> HIDE DEF front
      <4>3. front = a
        BY <1>1, <3>4, <4>1, <4>2, SameCharacters
      <4>4. QED
        <5>1. s \in Address
          BY <1>1, <2>2, <3>2 DEF Address
        <5>2. SubSeq(s, 1, MaxLength - 1) \in Texts
          BY <3>1, <4>3 DEF front
        <5>3. HyphenAtTheEdge(s)
          BY <3>2, <5>2 DEF HyphenAtTheEdge
        <5>4. QED
          BY <2>3, <5>1, <5>3
    <3>5. CASE Len(a) < MaxLength - 1
      <4> DEFINE i == MaxLength - (Len(a) + 1)
      <4>1. i \in 1..w /\ MaxLength = Len(a) + 1 + i
        <5>1. w \in Nat /\ Len(a) + 1 + w > MaxLength
          BY <1>1, <1>3, <1>5, <2>1, <2>5
        <5>2. QED
          BY <1>1, <3>5, <5>1
      <4>2. c[MaxLength] # Hyphen
        BY <1>3, <1>5, <2>1, <4>1 DEF w
      <4>3. QED
        BY <2>2, <2>3, <3>2, <4>2 DEF Address, HyphenAtTheEdge
    <3>6. QED
      BY <1>1, <3>3, <3>4, <3>5
  <2>6. QED
    BY <2>4, <2>5
<1>6. QED
  BY <1>2, <1>4, <1>5

\* A number that fits is not cut, nor is what comes before it.
LEMMA FittingUncut ==
  ASSUME NEW kind, NEW a \in Seq(Characters), NEW n \in Fitting(kind, a)
  PROVE  Attempt(kind, a, n) = Numbered(kind, a, n)
<1>1. n \in Numbers /\ n # 1 /\ Len(Numbered(kind, a, n)) <= MaxLength
  BY Bounds DEF Fitting, Numbers
<1>2. /\ Len(Numbered(kind, a, n)) = Len(a) + Joint(kind) + Len(Numeral[n])
      /\ Len(a) \in Nat /\ Len(Numeral[n]) \in Nat /\ MaxLength \in Nat /\ Joint(kind) \in {0, 1}
  <2>1. Len(Numbered(kind, a, n)) = Len(a) + Joint(kind) + Len(Numeral[n])
    BY <1>1, NumberedProperties
  <2>2. Len(a) \in Nat /\ Joint(kind) \in {0, 1}
    BY LenProperties DEF Joint
  <2>3. Len(Numeral[n]) \in Nat /\ MaxLength \in Nat
    BY <1>1, NumeralProperties, Bounds
  <2>4. QED
    BY <2>1, <2>2, <2>3
<1>3. CASE kind = "project"
  <2>1. Len(a) <= MaxLength - Len(Numeral[n])
    BY <1>1, <1>2
  <2>2. Attempt(kind, a, n) = a \o Numeral[n]
    BY <1>1, <1>3, <2>1 DEF Attempt, Slice
  <2>3. Numbered(kind, a, n) = (a \o <<>>) \o Numeral[n]
    BY <1>3 DEF Numbered
  <2>4. QED
    BY <2>2, <2>3, ConcatEmptySeq
<1>4. CASE kind # "project"
  BY <1>1, <1>4 DEF Attempt, Slice
<1>5. QED
  BY <1>3, <1>4

\* So no two attempts with numbers that fit are the same, nor is the first one.
LEMMA AttemptsDiffer ==
  ASSUME NEW kind, NEW a \in Seq(Characters),
         NEW m \in {1} \cup Fitting(kind, a), NEW n \in {1} \cup Fitting(kind, a),
         Attempt(kind, a, m) = Attempt(kind, a, n)
  PROVE  m = n
<1>1. Attempt(kind, a, 1) = a
  BY DEF Attempt
<1>2. \A k \in Fitting(kind, a) :
        k \in Numbers /\ Attempt(kind, a, k) = Numbered(kind, a, k) /\ Numbered(kind, a, k) # a
  <2> SUFFICES ASSUME NEW k \in Fitting(kind, a)
               PROVE  /\ k \in Numbers /\ Attempt(kind, a, k) = Numbered(kind, a, k)
                      /\ Numbered(kind, a, k) # a
    OBVIOUS
  <2>1. k \in Numbers
    BY DEF Fitting
  <2>2. /\ Len(Numbered(kind, a, k)) = Len(a) + Joint(kind) + Len(Numeral[k])
        /\ Len(a) \in Nat /\ Len(Numeral[k]) \in Nat \ {0} /\ Joint(kind) \in {0, 1}
    <3>1. Len(Numbered(kind, a, k)) = Len(a) + Joint(kind) + Len(Numeral[k])
      BY <2>1, NumberedProperties
    <3>2. Len(a) \in Nat /\ Joint(kind) \in {0, 1}
      BY LenProperties DEF Joint
    <3>3. Len(Numeral[k]) \in Nat \ {0}
      BY <2>1, NumeralProperties
    <3>4. QED
      BY <3>1, <3>2, <3>3
  <2>3. QED
    BY <2>1, <2>2, FittingUncut
<1>3. CASE m = 1 \/ n = 1
  BY <1>1, <1>2, <1>3
<1>4. CASE m # 1 /\ n # 1
  <2> DEFINE joint == IF kind = "project" THEN <<>> ELSE <<Hyphen>>
  <2>1. m \in Numbers /\ n \in Numbers /\ Numbered(kind, a, m) = Numbered(kind, a, n)
    BY <1>2, <1>4
  <2>2. joint \in Seq(Characters)
    BY TextsWellFormed
  <2>3. a \o joint \in Seq(Characters)
    BY <2>2, ConcatProperties
  <2>4. (a \o joint) \o Numeral[m] = (a \o joint) \o Numeral[n]
    BY <2>1 DEF Numbered
  <2>5. Numeral[m] = Numeral[n]
    BY <2>1, <2>3, <2>4, NumeralProperties, ConcatSimplifications
  <2>6. QED
    BY <2>1, <2>5, NumeralsDiffer
<1>5. QED
  BY <1>3, <1>4

-----------------------------------------------------------------------------
(* Type correctness.                                                        *)

Request == {Idle} \cup Naming \cup Creating \cup Updating \cup Inviting \cup Adding

\* What a request may go on to.
LEMMA RequestStep ==
  ASSUME request \in [Requests -> Request], NEW r \in Requests, NEW next \in Request
  PROVE  [request EXCEPT ![r] = next] \in [Requests -> Request]
OBVIOUS

\* The kinds of request differ in their step.
LEMMA StepKinds ==
  ASSUME NEW q \in Request
  PROVE  /\ q.step = "lookup" => q \in Naming
         /\ q.step = "insert" => q \in Creating
         /\ q.step = "upsert" => q \in Updating
         /\ q.step = "issue" => q \in Inviting
         /\ q.step = "add" => q \in Adding
BY DEF Request, Idle, Naming, Creating, Updating, Inviting, Adding

\* A merge of what was given into the settings is settings.
LEMMA MergedType ==
  ASSUME settings \in Settings, NEW given, NEW input \in Settings
  PROVE  Merged(given, input) \in Settings
BY DEF Merged, Settings

\* The stems that creates look up.
StemsOK ==
  \A r \in Requests : request[r].step = "lookup" => StemOK(request[r].stem)

\* Every action keeps the variables in their types.
LEMMA TypeStep == TypeOK /\ StemsOK /\ [Next]_vars => TypeOK'
<1> SUFFICES ASSUME TypeOK, StemsOK, [Next]_vars
             PROVE  TypeOK'
  OBVIOUS
<1> USE DEF TypeOK, names, policy, people
<1>1. request \in [Requests -> Request]
  BY DEF Request
<1>2. CASE UNCHANGED vars
  BY <1>2 DEF vars
<1>3. ASSUME NEW r \in Requests, NEW next \in Request, Begin(r, next) \/ Proceed(r, next)
      PROVE  request' \in [Requests -> Request] /\ served' \in Nat
  BY <1>1, <1>3, RequestStep DEF Begin, Proceed
<1>4. Idle \in Request
  BY DEF Request
<1>5. ASSUME NEW r \in Requests, NEW kind \in Kinds, NEW t \in Texts, NEW chosen \in BOOLEAN,
             StartCreate(r, kind, t, chosen)
      PROVE  TypeOK'
  <2>1. Stem(kind, t) \in Address
    BY StemWellFormed
  <2>2. 1 \in 1..(MaxAttempts - 1)
    BY Bounds
  <2>3. [step |-> "lookup", kind |-> kind, chosen |-> chosen, n |-> 1,
         stem |-> Stem(kind, t), met |-> {}] \in Request
    BY <2>1, <2>2 DEF Request, Naming
  <2>4. PICK next \in Request : Begin(r, next)
    BY <1>5, <2>3 DEF StartCreate
  <2>5. QED
    BY <1>3, <1>5, <2>4 DEF StartCreate, Request
<1>6. ASSUME NEW r \in Requests, Lookup(r)
      PROVE  TypeOK'
  <2> DEFINE q == request[r]
  <2>1. q \in Naming /\ StemOK(q.stem)
    BY <1>1, <1>6, StepKinds DEF Lookup, StemsOK
  <2> DEFINE address == Attempt(q.kind, q.stem, q.n)
             met == q.met \cup ({address} \cap taken[q.kind])
  <2>2. q.n \in 1..(MaxAttempts - 1) /\ q.kind \in Kinds /\ q.stem \in Address /\ q.met \subseteq Address
    BY <2>1 DEF Naming
  <2>3. address \in Address
    BY <2>1, <2>2, AttemptEnds
  <2>4. met \subseteq Address
    BY <2>2, <2>3
  <2>5. [step |-> "insert", kind |-> q.kind, address |-> address] \in Request
    BY <2>2, <2>3 DEF Request, Creating
  <2> HIDE DEF address, met
  <2>6. ~LastAttempt(q) => [q EXCEPT !.n = q.n + 1, !.met = met] \in Request
    <3>1. ~LastAttempt(q) => q.n + 1 \in 1..(MaxAttempts - 1)
      BY <2>2, Bounds DEF LastAttempt
    <3>2. q.n + 1 \in 1..(MaxAttempts - 1) => [q EXCEPT !.n = q.n + 1, !.met = met] \in Naming
      BY <2>1, <2>4 DEF Naming
    <3>3. QED
      BY <3>1, <3>2 DEF Request
  <2>7. PICK next \in Request : Proceed(r, next)
    BY <1>4, <1>6, <2>5, <2>6 DEF Lookup, address, met
  <2>8. [kind |-> q.kind, stem |-> q.stem, met |-> met] \in [kind : Kinds, stem : Address, met : SUBSET Address]
    BY <2>2, <2>4
  <2>9. refused' \subseteq [kind : Kinds, stem : Address, met : SUBSET Address]
    BY <1>6, <2>8 DEF Lookup, address, met
  <2>10. QED
    BY <1>3, <1>6, <2>7, <2>9 DEF Lookup, Request
<1>7. ASSUME NEW r \in Requests, Insert(r)
      PROVE  TypeOK'
  <2>1. request[r] \in Creating
    BY <1>1, <1>7, StepKinds DEF Insert
  <2>2. taken' \in [Kinds -> SUBSET Address]
    BY <1>7, <2>1 DEF Insert, Creating
  <2>3. QED
    BY <1>3, <1>4, <1>7, <2>2 DEF Insert, Request
<1>8. ASSUME NEW r \in Requests, NEW given \in SUBSET {"restrict", "domains"}, NEW input \in Settings,
             StartUpdate(r, given, input)
      PROVE  TypeOK'
  <2>1. [step |-> "upsert", given |-> given, merged |-> Merged(given, input), stale |-> FALSE]
          \in Request
    BY MergedType DEF Request, Updating
  <2>2. QED
    BY <1>3, <1>8, <2>1 DEF StartUpdate, Request
<1>9. ASSUME NEW r \in Requests, Upsert(r)
      PROVE  TypeOK'
  <2>1. request[r] \in Updating
    BY <1>1, <1>9, StepKinds DEF Upsert
  <2>2. settings' \in Settings
    BY <1>9, <2>1, MergedType DEF Upsert, Updating
  <2>3. crossed' \in BOOLEAN
    BY <1>9, <2>1 DEF Upsert, Updating
  <2>4. \A s \in Requests : request[s].step \in {"upsert", "issue"} =>
          [request[s] EXCEPT !.stale = TRUE] \in Request
    <3>1. \A s \in Requests : request[s].step \in {"upsert", "issue"} =>
            request[s] \in Updating \cup Inviting
      BY <1>1, StepKinds
    <3>2. \A x \in Updating : [x EXCEPT !.stale = TRUE] \in Updating
      BY DEF Updating
    <3>3. \A x \in Inviting : [x EXCEPT !.stale = TRUE] \in Inviting
      BY DEF Inviting
    <3>4. QED
      BY <3>1, <3>2, <3>3 DEF Request
  <2>5. request' \in [Requests -> Request]
    BY <1>1, <1>4, <1>9, <2>4 DEF Upsert
  <2>6. QED
    BY <1>9, <2>2, <2>3, <2>5 DEF Upsert, Request
<1>10. ASSUME NEW r \in Requests, NEW d \in Domains, StartInvite(r, d)
       PROVE  TypeOK'
  <2>1. [step |-> "issue", domain |-> d, stale |-> FALSE] \in Request
    BY DEF Request, Inviting
  <2>2. QED
    BY <1>3, <1>10, <2>1 DEF StartInvite, Request
<1>11. ASSUME NEW r \in Requests, Issue(r)
       PROVE  TypeOK'
  <2>1. request[r] \in Inviting
    BY <1>1, <1>11, StepKinds DEF Issue
  <2>2. QED
    BY <1>3, <1>4, <1>11, <2>1 DEF Issue, Inviting, Request
<1>12. ASSUME NEW r \in Requests, NEW p \in People, StartAdd(r, p)
       PROVE  TypeOK'
  <2>1. [step |-> "add", person |-> p] \in Request
    BY DEF Request, Adding
  <2>2. QED
    BY <1>3, <1>12, <2>1 DEF StartAdd, Request
<1>13. ASSUME NEW r \in Requests, AddMember(r)
       PROVE  TypeOK'
  <2>1. request[r] \in Adding
    BY <1>1, <1>13, StepKinds DEF AddMember
  <2>2. QED
    BY <1>3, <1>4, <1>13, <2>1 DEF AddMember, Adding, Request
<1>14. ASSUME NEW r \in Requests, Abandon(r)
       PROVE  TypeOK'
  BY <1>3, <1>4, <1>14 DEF Abandon, Request
<1>15. ASSUME NEW p \in People,
              RemoveMember(p) \/ LeaveOrganization(p) \/ JoinOrganization(p)
       PROVE  TypeOK'
  BY <1>15 DEF RemoveMember, LeaveOrganization, JoinOrganization
<1>16. ASSUME NEW kind \in Kinds, NEW a, DeleteRow(kind, a)
       PROVE  TypeOK'
  BY <1>16 DEF DeleteRow
<1>17. QED
  BY <1>2, <1>5, <1>6, <1>7, <1>8, <1>9, <1>10, <1>11, <1>12, <1>13, <1>14, <1>15, <1>16
     DEF Next, Serve

-----------------------------------------------------------------------------
(* The inductive invariant.                                                 *)

\* The addresses about to be inserted.
EndsOK == \A r \in Requests : request[r].step = "insert" => HyphenAtTheEdge(request[r].address)

\* An update that no other has overtaken writes what was found acceptable.
UpdatesOK ==
  \A r \in Requests :
    LET q == request[r] IN
    q.step = "upsert" =>
      /\ q.merged.restrict => q.merged.domains # {}
      /\ ~q.stale => q.merged = Merged(q.given, q.merged)

\* An invite that no update has overtaken goes to a domain that is still allowed.
InvitesOK ==
  \A r \in Requests :
    request[r].step = "issue" /\ ~request[r].stale => DomainAllowed(request[r].domain)

\* The first n attempts of a create are among the rows it has met, but for a reserved
\* text.
Tried(met, kind, stem, n) ==
  /\ IsFiniteSet(met)
  /\ \A i \in 1..n : Attempt(kind, stem, i) \in met \/ (i = 1 /\ IsReserved(kind, stem))

\* Those of a create under way, and all of one that has been refused.
TriedOK ==
  /\ \A r \in Requests :
       LET q == request[r] IN q.step = "lookup" => Tried(q.met, q.kind, q.stem, q.n - 1)
  /\ \A f \in refused : StemOK(f.stem) /\ Tried(f.met, f.kind, f.stem, MaxAttempts - 1)

IInv ==
  /\ TypeOK
  /\ TriedOK
  /\ StemsOK /\ EndsOK /\ TrailingHyphenOnlyAtTheEdge
  /\ UpdatesOK /\ InvitesOK /\ RestrictionHasDomains
  /\ TeamOfMembers

\* The rows there are at first have addresses that users could choose.
LEMMA NamesakesWellFormed ==
  ASSUME NEW kind \in Kinds, NEW t \in Texts, NEW a \in Namesakes(kind, t)
  PROVE  a \in Address /\ HyphenAtTheEdge(a)
<1>1. t \in Seq(Characters) /\ WellFormed(t)
  BY TextsWellFormed DEF WellFormed, Address
<1>2. WellFormed(a)
  <2>1. CASE a = t
    BY <1>1, <2>1
  <2>2. CASE a # t
    <3>1. PICK n \in Fitting(kind, t) : a = Numbered(kind, t, n)
      BY <2>2 DEF Namesakes
    <3>2. n \in Numbers /\ Len(Numbered(kind, t, n)) <= MaxLength
      BY DEF Fitting
    <3>3. QED
      BY <1>1, <3>1, <3>2, NumberedWellFormed
  <2>3. QED
    BY <2>1, <2>2
<1>3. QED
  BY <1>2 DEF WellFormed, HyphenAtTheEdge

\* The invariant holds at first.
LEMMA InitInv == Init => IInv
<1> SUFFICES ASSUME Init
             PROVE  IInv
  OBVIOUS
<1> USE DEF Idle
<1>1. /\ taken \in [Kinds -> SUBSET Address]
      /\ \A k \in Kinds : \A a \in taken[k] : HyphenAtTheEdge(a)
  <2>1. CASE taken = [k \in Kinds |-> {}]
    BY <2>1
  <2>2. ASSUME NEW t \in Texts, taken = [k \in Kinds |-> Namesakes(k, t)]
        PROVE  /\ taken \in [Kinds -> SUBSET Address]
               /\ \A k \in Kinds : \A a \in taken[k] : HyphenAtTheEdge(a)
    BY <2>2, NamesakesWellFormed
  <2>3. QED
    BY <2>1, <2>2 DEF Init
<1>2. TypeOK
  BY <1>1 DEF Init, TypeOK, Settings
<1>3. StemsOK /\ EndsOK /\ UpdatesOK /\ InvitesOK
  BY DEF Init, StemsOK, EndsOK, UpdatesOK, InvitesOK
<1>4. TrailingHyphenOnlyAtTheEdge /\ RestrictionHasDomains /\ TeamOfMembers
  BY <1>1 DEF Init, TrailingHyphenOnlyAtTheEdge, RestrictionHasDomains, TeamOfMembers
<1>5. TriedOK
  BY DEF Init, TriedOK
<1>6. QED
  BY <1>2, <1>3, <1>4, <1>5 DEF IInv

\* An action that is not about names leaves the requests that are as they were, or ends them.
LEMMA NamesElsewhere ==
  ASSUME StemsOK, EndsOK, TrailingHyphenOnlyAtTheEdge, UNCHANGED taken,
         \A r \in Requests : request'[r].step \in {"lookup", "insert"} => request'[r] = request[r]
  PROVE  StemsOK' /\ EndsOK' /\ TrailingHyphenOnlyAtTheEdge'
<1>1. StemsOK'
  BY DEF StemsOK
<1>2. EndsOK'
  BY DEF EndsOK, HyphenAtTheEdge
<1>3. TrailingHyphenOnlyAtTheEdge'
  BY DEF TrailingHyphenOnlyAtTheEdge, HyphenAtTheEdge
<1>4. QED
  BY <1>1, <1>2, <1>3

\* And likewise the domain policy.
LEMMA PolicyElsewhere ==
  ASSUME UpdatesOK, InvitesOK, RestrictionHasDomains, UNCHANGED <<settings, crossed>>,
         \A r \in Requests : request'[r].step \in {"upsert", "issue"} => request'[r] = request[r]
  PROVE  UpdatesOK' /\ InvitesOK' /\ RestrictionHasDomains'
<1>1. UpdatesOK'
  BY DEF UpdatesOK, Merged
<1>2. InvitesOK'
  BY DEF InvitesOK, DomainAllowed
<1>3. RestrictionHasDomains'
  BY DEF RestrictionHasDomains
<1>4. QED
  BY <1>1, <1>2, <1>3

\* A request that goes on with a good stem or a good address.
LEMMA NamesHere ==
  ASSUME request \in [Requests -> Request], StemsOK, EndsOK,
         NEW r \in Requests, NEW next, request' = [request EXCEPT ![r] = next],
         next.step = "lookup" => StemOK(next.stem),
         next.step = "insert" => HyphenAtTheEdge(next.address)
  PROVE  StemsOK' /\ EndsOK'
<1>1. StemsOK'
  BY DEF StemsOK
<1>2. EndsOK'
  BY DEF EndsOK, HyphenAtTheEdge
<1>3. QED
  BY <1>1, <1>2

\* What is looked up is a good stem, and what is taken ends in a hyphen at the edge only.
LEMMA NamesStep ==
  TypeOK /\ StemsOK /\ EndsOK /\ TrailingHyphenOnlyAtTheEdge /\ [Next]_vars
    => StemsOK' /\ EndsOK' /\ TrailingHyphenOnlyAtTheEdge'
<1> SUFFICES ASSUME TypeOK, StemsOK, EndsOK, TrailingHyphenOnlyAtTheEdge, [Next]_vars
             PROVE  StemsOK' /\ EndsOK' /\ TrailingHyphenOnlyAtTheEdge'
  OBVIOUS
<1> USE DEF names, Idle
<1>1. request \in [Requests -> Request]
  BY DEF TypeOK, Request
<1>2. CASE UNCHANGED vars
  BY <1>2, NamesElsewhere DEF vars
<1>3. ASSUME NEW r \in Requests, NEW kind \in Kinds, NEW t \in Texts, NEW chosen \in BOOLEAN,
             StartCreate(r, kind, t, chosen)
      PROVE  StemsOK' /\ EndsOK' /\ TrailingHyphenOnlyAtTheEdge'
  <2> DEFINE next == [step |-> "lookup", kind |-> kind, chosen |-> chosen, n |-> 1,
                      stem |-> Stem(kind, t), met |-> {}]
  <2>1. StemOK(Stem(kind, t))
    BY StemWellFormed
  <2>2. request' = [request EXCEPT ![r] = next]
    BY <1>3 DEF StartCreate, Begin
  <2>3. next.step = "lookup" /\ next.stem = Stem(kind, t)
    OBVIOUS
  <2> HIDE DEF next
  <2>4. StemsOK' /\ EndsOK'
    BY <1>1, <2>1, <2>2, <2>3, NamesHere
  <2>5. TrailingHyphenOnlyAtTheEdge'
    BY <1>3 DEF StartCreate, TrailingHyphenOnlyAtTheEdge, HyphenAtTheEdge
  <2>6. QED
    BY <2>4, <2>5
<1>4. ASSUME NEW r \in Requests, Lookup(r)
      PROVE  StemsOK' /\ EndsOK' /\ TrailingHyphenOnlyAtTheEdge'
  <2> DEFINE q == request[r]
             address == Attempt(q.kind, q.stem, q.n)
             met == q.met \cup ({address} \cap taken[q.kind])
  <2>1. q \in Naming /\ StemOK(q.stem)
    BY <1>1, <1>4, StepKinds DEF Lookup, StemsOK
  <2>2. HyphenAtTheEdge(address)
    BY <2>1, AttemptEnds DEF Naming
  <2> HIDE DEF address, met
  <2>3. StemsOK' /\ EndsOK'
    <3>1. CASE Proceed(r, [step |-> "insert", kind |-> q.kind, address |-> address])
      BY <1>1, <2>2, <3>1, NamesHere DEF Proceed
    <3>2. CASE Proceed(r, [q EXCEPT !.n = q.n + 1, !.met = met])
      <4>1. /\ [q EXCEPT !.n = q.n + 1, !.met = met].step = "lookup"
            /\ [q EXCEPT !.n = q.n + 1, !.met = met].stem = q.stem
        BY <2>1 DEF Naming
      <4>2. QED
        BY <1>1, <2>1, <3>2, <4>1, NamesHere DEF Proceed
    <3>3. CASE Proceed(r, Idle)
      BY <1>1, <3>3, NamesHere DEF Proceed
    <3>4. QED
      BY <1>4, <3>1, <3>2, <3>3 DEF Lookup, address, met
  <2>4. TrailingHyphenOnlyAtTheEdge'
    BY <1>4 DEF Lookup, TrailingHyphenOnlyAtTheEdge, HyphenAtTheEdge
  <2>5. QED
    BY <2>3, <2>4
<1>5. ASSUME NEW r \in Requests, Insert(r)
      PROVE  StemsOK' /\ EndsOK' /\ TrailingHyphenOnlyAtTheEdge'
  <2>1. request' = [request EXCEPT ![r] = Idle]
    BY <1>5 DEF Insert, Proceed
  <2>2. StemsOK' /\ EndsOK'
    BY <1>1, <2>1 DEF StemsOK, EndsOK, HyphenAtTheEdge
  <2>3. HyphenAtTheEdge(request[r].address)
    BY <1>5 DEF Insert, EndsOK
  <2>4. \A k \in Kinds : \A a \in taken'[k] : a \in taken[k] \/ a = request[r].address
    BY <1>5 DEF Insert, TypeOK
  <2>5. TrailingHyphenOnlyAtTheEdge'
    BY <2>3, <2>4 DEF TrailingHyphenOnlyAtTheEdge, HyphenAtTheEdge
  <2>6. QED
    BY <2>2, <2>5
<1>6. ASSUME NEW r \in Requests, Upsert(r)
      PROVE  StemsOK' /\ EndsOK' /\ TrailingHyphenOnlyAtTheEdge'
  <2>1. \A s \in Requests : request[s].step \in {"upsert", "issue"} =>
          [request[s] EXCEPT !.stale = TRUE].step \in {"upsert", "issue"}
    BY <1>1, StepKinds DEF Updating, Inviting
  <2>2. \A s \in Requests : request'[s].step \in {"lookup", "insert"} => request'[s] = request[s]
    BY <1>6, <2>1 DEF Upsert
  <2>3. QED
    BY <1>6, <2>2, NamesElsewhere DEF Upsert
<1>7. ASSUME NEW r \in Requests,
             \/ \E given \in SUBSET {"restrict", "domains"}, input \in Settings :
                  StartUpdate(r, given, input)
             \/ \E d \in Domains : StartInvite(r, d)
             \/ Issue(r)
             \/ \E p \in People : StartAdd(r, p)
             \/ AddMember(r)
             \/ Abandon(r)
      PROVE  StemsOK' /\ EndsOK' /\ TrailingHyphenOnlyAtTheEdge'
  <2>1. PICK next : /\ request' = [request EXCEPT ![r] = next]
                    /\ next.step \notin {"lookup", "insert"}
    BY <1>7 DEF StartUpdate, StartInvite, Issue, StartAdd, AddMember, Abandon, Begin, Proceed
  <2>2. UNCHANGED taken
    BY <1>7 DEF StartUpdate, StartInvite, Issue, StartAdd, AddMember, Abandon
  <2>3. QED
    BY <1>1, <2>1, <2>2, NamesElsewhere
<1>8. ASSUME NEW p \in People,
             RemoveMember(p) \/ LeaveOrganization(p) \/ JoinOrganization(p)
      PROVE  StemsOK' /\ EndsOK' /\ TrailingHyphenOnlyAtTheEdge'
  BY <1>8, NamesElsewhere DEF RemoveMember, LeaveOrganization, JoinOrganization
<1>9. ASSUME NEW kind \in Kinds, NEW a, DeleteRow(kind, a)
      PROVE  StemsOK' /\ EndsOK' /\ TrailingHyphenOnlyAtTheEdge'
  <2>1. \A k \in Kinds : taken'[k] \subseteq taken[k]
    BY <1>9 DEF DeleteRow, TypeOK
  <2>2. UNCHANGED request
    BY <1>9 DEF DeleteRow
  <2>3. StemsOK' /\ EndsOK'
    BY <2>2 DEF StemsOK, EndsOK, HyphenAtTheEdge
  <2>4. TrailingHyphenOnlyAtTheEdge'
    BY <2>1 DEF TrailingHyphenOnlyAtTheEdge, HyphenAtTheEdge
  <2>5. QED
    BY <2>3, <2>4
<1>10. QED
  BY <1>2, <1>3, <1>4, <1>5, <1>6, <1>7, <1>8, <1>9 DEF Next, Serve

\* What updates and invitations have read of the settings stays so, or they overlap.
LEMMA PolicyStep ==
  TypeOK /\ UpdatesOK /\ InvitesOK /\ RestrictionHasDomains /\ [Next]_vars
    => UpdatesOK' /\ InvitesOK' /\ RestrictionHasDomains'
<1> SUFFICES ASSUME TypeOK, UpdatesOK, InvitesOK, RestrictionHasDomains, [Next]_vars
             PROVE  UpdatesOK' /\ InvitesOK' /\ RestrictionHasDomains'
  OBVIOUS
<1> USE DEF policy, Idle
<1>1. request \in [Requests -> Request]
  BY DEF TypeOK, Request
<1>2. CASE UNCHANGED vars
  BY <1>2, PolicyElsewhere DEF vars
<1>3. ASSUME NEW r \in Requests, NEW given \in SUBSET {"restrict", "domains"}, NEW input \in Settings,
             StartUpdate(r, given, input)
      PROVE  UpdatesOK' /\ InvitesOK' /\ RestrictionHasDomains'
  <2> DEFINE merged == Merged(given, input)
  <2>1. request' = [request EXCEPT ![r] = [step |-> "upsert", given |-> given, merged |-> merged,
                                           stale |-> FALSE]]
    BY <1>3 DEF StartUpdate, Begin
  <2>2. merged.restrict => merged.domains # {}
    BY <1>3 DEF StartUpdate, Acceptable
  <2>3. merged = Merged(given, merged)
    BY DEF Merged
  <2>4. UNCHANGED <<settings, crossed>>
    BY <1>3 DEF StartUpdate
  <2>5. UpdatesOK'
    <3> SUFFICES ASSUME NEW s \in Requests, request'[s].step = "upsert"
                 PROVE  /\ request'[s].merged.restrict => request'[s].merged.domains # {}
                        /\ ~request'[s].stale
                             => request'[s].merged = Merged(request'[s].given, request'[s].merged)
      BY <2>4 DEF UpdatesOK, Merged
    <3>1. CASE s = r
      BY <1>1, <2>1, <2>2, <2>3, <3>1
    <3>2. CASE s # r
      BY <1>1, <2>1, <3>2 DEF UpdatesOK
    <3>3. QED
      BY <3>1, <3>2
  <2>6. InvitesOK'
    BY <1>1, <2>1, <2>4 DEF InvitesOK, DomainAllowed
  <2>7. RestrictionHasDomains'
    BY <2>4 DEF RestrictionHasDomains
  <2>8. QED
    BY <2>5, <2>6, <2>7
<1>4. ASSUME NEW r \in Requests, Upsert(r)
      PROVE  UpdatesOK' /\ InvitesOK' /\ RestrictionHasDomains'
  <2> DEFINE q == request[r]
  <2>1. q \in Updating /\ q.step = "upsert"
    BY <1>1, <1>4, StepKinds DEF Upsert
  <2>2. \A s \in Requests : request'[s].step \in {"upsert", "issue"} =>
          /\ request[s].step = request'[s].step
          /\ request'[s] = [request[s] EXCEPT !.stale = TRUE]
          /\ request'[s].stale
    <3>1. \A s \in Requests : request[s].step \in {"upsert", "issue"} =>
            /\ [request[s] EXCEPT !.stale = TRUE].step = request[s].step
            /\ [request[s] EXCEPT !.stale = TRUE].stale
      BY <1>1, StepKinds DEF Updating, Inviting
    <3>2. QED
      BY <1>4, <3>1 DEF Upsert
  <2>3. UpdatesOK'
    <3>1. ASSUME NEW s \in Requests, request'[s].step = "upsert"
          PROVE  /\ request'[s].merged.restrict => request'[s].merged.domains # {}
                 /\ request'[s].stale
      <4>1. request[s] \in Updating /\ request[s].step = "upsert"
        BY <1>1, <2>2, <3>1, StepKinds
      <4>2. request'[s].merged = request[s].merged
        BY <2>2, <3>1, <4>1 DEF Updating
      <4>3. QED
        BY <2>2, <3>1, <4>1, <4>2 DEF UpdatesOK
    <3>2. QED
      BY <3>1 DEF UpdatesOK
  <2>4. InvitesOK'
    BY <2>2 DEF InvitesOK
  <2>5. RestrictionHasDomains'
    <3>1. CASE q.stale
      BY <1>4, <3>1 DEF Upsert, RestrictionHasDomains
    <3>2. CASE ~q.stale
      <4>1. settings' = q.merged /\ (q.merged.restrict => q.merged.domains # {})
        BY <1>4, <2>1, <3>2 DEF Upsert, UpdatesOK
      <4>2. QED
        BY <4>1 DEF RestrictionHasDomains
    <3>3. QED
      BY <3>1, <3>2
  <2>6. QED
    BY <2>3, <2>4, <2>5
<1>5. ASSUME NEW r \in Requests, NEW d \in Domains, StartInvite(r, d)
      PROVE  UpdatesOK' /\ InvitesOK' /\ RestrictionHasDomains'
  <2>1. /\ request' = [request EXCEPT ![r] = [step |-> "issue", domain |-> d, stale |-> FALSE]]
        /\ DomainAllowed(d)
        /\ UNCHANGED <<settings, crossed>>
    BY <1>5 DEF StartInvite, Begin
  <2>2. UpdatesOK'
    BY <1>1, <2>1 DEF UpdatesOK, Merged
  <2>3. InvitesOK'
    BY <1>1, <2>1 DEF InvitesOK, DomainAllowed
  <2>4. RestrictionHasDomains'
    BY <2>1 DEF RestrictionHasDomains
  <2>5. QED
    BY <2>2, <2>3, <2>4
<1>6. ASSUME NEW r \in Requests,
             \/ \E kind \in Kinds, t \in Texts, chosen \in BOOLEAN : StartCreate(r, kind, t, chosen)
             \/ Insert(r)
             \/ Issue(r)
             \/ \E p \in People : StartAdd(r, p)
             \/ AddMember(r)
             \/ Abandon(r)
      PROVE  UpdatesOK' /\ InvitesOK' /\ RestrictionHasDomains'
  <2>1. PICK next : /\ request' = [request EXCEPT ![r] = next]
                    /\ next.step \notin {"upsert", "issue"}
    BY <1>6 DEF StartCreate, Insert, Issue, StartAdd, AddMember, Abandon, Begin, Proceed
  <2>2. UNCHANGED <<settings, crossed>>
    BY <1>6 DEF StartCreate, Insert, Issue, StartAdd, AddMember, Abandon
  <2>3. QED
    BY <1>1, <2>1, <2>2, PolicyElsewhere
<1>7. ASSUME NEW r \in Requests, Lookup(r)
      PROVE  UpdatesOK' /\ InvitesOK' /\ RestrictionHasDomains'
  <2> DEFINE q == request[r]
             met == q.met \cup ({Attempt(q.kind, q.stem, q.n)} \cap taken[q.kind])
  <2>1. q \in Naming
    BY <1>1, <1>7, StepKinds DEF Lookup
  <2> HIDE DEF met
  <2>2. [q EXCEPT !.n = q.n + 1, !.met = met].step = "lookup"
    BY <2>1 DEF Naming
  <2>3. PICK next : /\ request' = [request EXCEPT ![r] = next]
                    /\ next.step \notin {"upsert", "issue"}
    BY <1>7, <2>2 DEF Lookup, Proceed, met
  <2>4. QED
    BY <1>1, <1>7, <2>3, PolicyElsewhere DEF Lookup
<1>8. ASSUME NEW p \in People,
             RemoveMember(p) \/ LeaveOrganization(p) \/ JoinOrganization(p)
      PROVE  UpdatesOK' /\ InvitesOK' /\ RestrictionHasDomains'
  BY <1>8, PolicyElsewhere DEF RemoveMember, LeaveOrganization, JoinOrganization
<1>9. ASSUME NEW kind \in Kinds, NEW a, DeleteRow(kind, a)
      PROVE  UpdatesOK' /\ InvitesOK' /\ RestrictionHasDomains'
  BY <1>9, PolicyElsewhere DEF DeleteRow
<1>10. QED
  BY <1>2, <1>3, <1>4, <1>5, <1>6, <1>7, <1>8, <1>9 DEF Next, Serve

\* Joining a team and leaving the organization keep the team among its members.
LEMMA TeamStep == TypeOK /\ TeamOfMembers /\ [Next]_vars => TeamOfMembers'
<1> SUFFICES ASSUME TypeOK, TeamOfMembers, [Next]_vars
             PROVE  TeamOfMembers'
  OBVIOUS
<1> USE DEF TeamOfMembers, people
<1>1. CASE UNCHANGED people
  BY <1>1
<1>2. ASSUME NEW r \in Requests, AddMember(r)
      PROVE  TeamOfMembers'
  BY <1>2 DEF AddMember
<1>3. ASSUME NEW p \in People, RemoveMember(p)
      PROVE  TeamOfMembers'
  BY <1>3 DEF RemoveMember
<1>4. ASSUME NEW p \in People, LeaveOrganization(p)
      PROVE  TeamOfMembers'
  BY <1>4 DEF LeaveOrganization
<1>5. ASSUME NEW p \in People, JoinOrganization(p)
      PROVE  TeamOfMembers'
  BY <1>5 DEF JoinOrganization
<1>6. ASSUME NEW r \in Requests, Serve(r)
      PROVE  AddMember(r) \/ UNCHANGED people
  BY <1>6 DEF Serve, StartCreate, Lookup, Insert, StartUpdate, Upsert, StartInvite, Issue,
              StartAdd, Abandon
<1>7. ASSUME NEW kind \in Kinds, NEW a, DeleteRow(kind, a)
      PROVE  UNCHANGED people
  BY <1>7 DEF DeleteRow
<1>8. QED
  BY <1>1, <1>2, <1>3, <1>4, <1>5, <1>6, <1>7 DEF Next, vars

\* A create that tries one address more has met its row, or knows it for reserved.
LEMMA TriedNext ==
  ASSUME NEW kind, NEW stem, NEW n \in Nat \ {0}, NEW met, Tried(met, kind, stem, n - 1),
         NEW among,
         \/ Attempt(kind, stem, n) \in among
         \/ n = 1 /\ IsReserved(kind, Attempt(kind, stem, n))
  PROVE  Tried(met \cup ({Attempt(kind, stem, n)} \cap among), kind, stem, n)
<1> DEFINE address == Attempt(kind, stem, n)
           more == met \cup ({address} \cap among)
<1>1. IsFiniteSet(met) /\ \A i \in 1..(n - 1) :
        Attempt(kind, stem, i) \in met \/ (i = 1 /\ IsReserved(kind, stem))
  BY DEF Tried
<1>2. IsFiniteSet(more)
  <2>1. more = met \/ more = met \cup {address}
    OBVIOUS
  <2>2. QED
    BY <1>1, <2>1, FS_AddElement
<1>3. ASSUME NEW i \in 1..n
      PROVE  Attempt(kind, stem, i) \in more \/ (i = 1 /\ IsReserved(kind, stem))
  <2>1. CASE i = n
    <3>1. n = 1 => address = stem
      BY DEF Attempt
    <3>2. QED
      BY <2>1, <3>1
  <2>2. CASE i # n
    <3>1. i \in 1..(n - 1)
      BY <2>2
    <3>2. QED
      BY <1>1, <3>1
  <2>3. QED
    BY <2>1, <2>2
<1> HIDE DEF more
<1>4. Tried(more, kind, stem, n)
  BY <1>2, <1>3 DEF Tried
<1>5. QED
  BY <1>4 DEF more

\* A create that is refused or goes on has met every row that it was told of.
LEMMA TriedStep == TypeOK /\ StemsOK /\ TriedOK /\ [Next]_vars => TriedOK'
<1> SUFFICES ASSUME TypeOK, StemsOK, TriedOK, [Next]_vars
             PROVE  TriedOK'
  OBVIOUS
<1> DEFINE Fine(q) == q.step = "lookup" => Tried(q.met, q.kind, q.stem, q.n - 1)
           Refused(f) == StemOK(f.stem) /\ Tried(f.met, f.kind, f.stem, MaxAttempts - 1)
<1> USE DEF names
<1>1. request \in [Requests -> Request]
  BY DEF TypeOK, Request
<1>2. /\ \A r \in Requests : Fine(request[r])
      /\ \A f \in refused : Refused(f)
  BY DEF TriedOK
<1>3. ASSUME \A r \in Requests : Fine(request'[r]),
             \A f \in refused' : Refused(f)
      PROVE  TriedOK'
  BY <1>3 DEF TriedOK, Tried, StemOK
<1> HIDE DEF Fine, Refused
<1>4. ASSUME NEW q, q.step # "lookup"
      PROVE  Fine(q)
  BY <1>4 DEF Fine
<1>5. ASSUME UNCHANGED refused,
             \A r \in Requests :
               request'[r].step = "lookup" => request'[r] = request[r] \/ Fine(request'[r])
      PROVE  TriedOK'
  <2>1. \A r \in Requests : Fine(request'[r])
    BY <1>2, <1>4, <1>5
  <2>2. QED
    BY <1>2, <1>3, <1>5, <2>1
<1>6. ASSUME NEW r \in Requests, Lookup(r)
      PROVE  TriedOK'
  <2> DEFINE q == request[r]
             address == Attempt(q.kind, q.stem, q.n)
             met == q.met \cup ({address} \cap taken[q.kind])
             free == address \notin taken[q.kind] /\ (q.n = 1 => ~IsReserved(q.kind, address))
  <2>1. q \in Naming /\ q.step = "lookup" /\ StemOK(q.stem)
    BY <1>1, <1>6, StepKinds DEF Lookup, StemsOK
  <2>2. q.n \in Nat \ {0} /\ q.n <= MaxAttempts - 1 /\ q.chosen \in BOOLEAN /\ MaxAttempts \in Nat
    BY <2>1, Bounds DEF Naming
  <2>3. ~free => Tried(met, q.kind, q.stem, q.n)
    <3>1. Tried(q.met, q.kind, q.stem, q.n - 1)
      BY <1>2, <2>1 DEF Fine
    <3>2. ~free => \/ address \in taken[q.kind]
                   \/ q.n = 1 /\ IsReserved(q.kind, address)
      OBVIOUS
    <3>3. QED
      BY <2>2, <3>1, <3>2, TriedNext
  <2>4. CASE free
    <3>1. /\ UNCHANGED refused
          /\ request' = [request EXCEPT
                           ![r] = [step |-> "insert", kind |-> q.kind, address |-> address]]
      BY <1>6, <2>4 DEF Lookup, Proceed
    <3>2. QED
      BY <1>1, <1>5, <3>1
  <2>5. CASE ~free /\ ~LastAttempt(q)
    <3> DEFINE next == [q EXCEPT !.n = q.n + 1, !.met = met]
    <3>1. UNCHANGED refused /\ request' = [request EXCEPT ![r] = next]
      BY <1>6, <2>5 DEF Lookup, Proceed
    <3> HIDE DEF met, free, address
    <3>2. /\ next.kind = q.kind /\ next.stem = q.stem /\ next.n - 1 = q.n
          /\ next.met = met
      BY <2>1, <2>2 DEF Naming
    <3> HIDE DEF next
    <3>3. Fine(next)
      BY <2>3, <2>5, <3>2 DEF Fine
    <3>4. \A s \in Requests : request'[s] = request[s] \/ Fine(request'[s])
      BY <1>1, <3>1, <3>3
    <3>5. QED
      BY <1>5, <3>1, <3>4
  <2>6. CASE ~free /\ LastAttempt(q)
    <3> DEFINE new == [kind |-> q.kind, stem |-> q.stem, met |-> met]
    <3>1. /\ request' = [request EXCEPT ![r] = Idle]
          /\ refused' = IF q.chosen THEN refused ELSE refused \cup {new}
      BY <1>6, <2>6 DEF Lookup, Proceed
    <3>2. ~q.chosen => q.n = MaxAttempts - 1
      BY <2>2, <2>6 DEF LastAttempt
    <3> HIDE DEF met, free, address
    <3>3. ~q.chosen => Refused(new)
      BY <2>1, <2>3, <2>6, <3>2 DEF Refused
    <3> HIDE DEF new
    <3>4. \A f \in refused' : Refused(f)
      BY <1>2, <3>1, <3>3
    <3>5. \A s \in Requests : Fine(request'[s])
      BY <1>1, <1>2, <1>4, <3>1 DEF Idle
    <3>6. QED
      BY <1>3, <3>4, <3>5
  <2>7. QED
    BY <2>4, <2>5, <2>6
<1>7. ASSUME NEW r \in Requests, NEW kind \in Kinds, NEW t \in Texts, NEW chosen \in BOOLEAN,
             StartCreate(r, kind, t, chosen)
      PROVE  TriedOK'
  <2> DEFINE next == [step |-> "lookup", kind |-> kind, chosen |-> chosen, n |-> 1,
                      stem |-> Stem(kind, t), met |-> {}]
  <2>1. request' = [request EXCEPT ![r] = next] /\ UNCHANGED refused
    BY <1>7 DEF StartCreate, Begin
  <2>2. Fine(next)
    BY FS_EmptySet DEF Fine, Tried
  <2> HIDE DEF next
  <2>3. QED
    BY <1>1, <1>5, <2>1, <2>2
<1>8. ASSUME NEW r \in Requests,
             \/ Insert(r)
             \/ \E given \in SUBSET {"restrict", "domains"}, input \in Settings :
                  StartUpdate(r, given, input)
             \/ \E d \in Domains : StartInvite(r, d)
             \/ Issue(r)
             \/ \E p \in People : StartAdd(r, p)
             \/ AddMember(r)
             \/ Abandon(r)
      PROVE  TriedOK'
  <2>1. PICK next : request' = [request EXCEPT ![r] = next] /\ next.step # "lookup"
    BY <1>8 DEF Insert, StartUpdate, StartInvite, Issue, StartAdd, AddMember, Abandon, Begin,
                Proceed, Idle
  <2>2. UNCHANGED refused
    BY <1>8 DEF Insert, StartUpdate, StartInvite, Issue, StartAdd, AddMember, Abandon
  <2>3. QED
    BY <1>1, <1>5, <2>1, <2>2
<1>9. ASSUME NEW r \in Requests, Upsert(r)
      PROVE  TriedOK'
  <2>1. \A s \in Requests : request[s].step \in {"upsert", "issue"} =>
          [request[s] EXCEPT !.stale = TRUE].step \in {"upsert", "issue"}
    BY <1>1, StepKinds DEF Updating, Inviting
  <2>2. \A s \in Requests : request'[s].step = "lookup" => request'[s] = request[s]
    BY <1>9, <2>1 DEF Upsert, Idle
  <2>3. QED
    BY <1>5, <1>9, <2>2 DEF Upsert
<1>10. ASSUME NEW p \in People,
              RemoveMember(p) \/ LeaveOrganization(p) \/ JoinOrganization(p)
       PROVE  TriedOK'
  BY <1>5, <1>10 DEF RemoveMember, LeaveOrganization, JoinOrganization
<1>11. ASSUME NEW kind \in Kinds, NEW a, DeleteRow(kind, a)
       PROVE  TriedOK'
  BY <1>5, <1>11 DEF DeleteRow
<1>12. CASE UNCHANGED vars
  BY <1>5, <1>12 DEF vars
<1>13. QED
  BY <1>6, <1>7, <1>8, <1>9, <1>10, <1>11, <1>12 DEF Next, Serve

\* Every action keeps the invariant.
LEMMA InvStep == IInv /\ [Next]_vars => IInv'
BY TypeStep, NamesStep, PolicyStep, TeamStep, TriedStep DEF IInv

\* Every reachable state satisfies the invariant.
LEMMA Invariance == Spec => []IInv
BY InitInv, InvStep, PTL DEF Spec

-----------------------------------------------------------------------------
(* The theorems.                                                            *)

\* Every address fits its type, whatever is cut off it, and every request is in a
\* state that its next query can go on from.
THEOREM TypeCorrect == Spec => []TypeOK
<1>1. IInv => TypeOK
  BY DEF IInv
<1>2. QED
  BY <1>1, Invariance, PTL

\* The four resolve loops, whatever is cut off: a slug ends in a hyphen only when it is
\* as long as a slug can be and what comes before the hyphen is a text that somebody chose
\* or a name was turned into.
THEOREM HyphensHold == Spec => []TrailingHyphenOnlyAtTheEdge
<1>1. IInv => TrailingHyphenOnlyAtTheEdge
  BY DEF IInv
<1>2. QED
  BY <1>1, Invariance, PTL

\* SettingsService.update: as long as no two updates overlap, the restriction is never
\* on with an empty list, whatever fields each of them gives.
THEOREM PolicySound == Spec => []RestrictionHasDomains
<1>1. IInv => RestrictionHasDomains
  BY DEF IInv
<1>2. QED
  BY <1>1, Invariance, PTL

\* InvitationsService.invite: an invitation that an update of the settings has not
\* overtaken goes to a domain that they allow.
THEOREM InvitesObey == Spec => OutsidersOnlyBySkew
<1>1. IInv /\ [Next]_vars =>
        [\A r \in Requests :
           /\ request[r].step = "issue"
           /\ invited' # invited
           /\ request'[r] = Idle
           /\ settings.restrict
           /\ request[r].domain \notin settings.domains
           => crossed \/ request[r].stale]_vars
  BY DEF IInv, InvitesOK, DomainAllowed, RestrictionHasDomains
<1>2. QED
  BY <1>1, Invariance, PTL DEF Spec, OutsidersOnlyBySkew

\* TeamsService.addMember against MembersService.remove: nobody is on a team who is
\* not in the organization.
THEOREM TeamsHold == Spec => []TeamOfMembers
<1>1. IInv => TeamOfMembers
  BY DEF IInv
<1>2. QED
  BY <1>1, Invariance, PTL

\* A refused create has met the row of its text, unless that is reserved, and one for
\* each number that fits.
LEMMA RefusedCrowded ==
  ASSUME IInv, NEW f \in refused
  PROVE  Cardinality(f.met) >=
           Cardinality(Fitting(f.kind, f.stem)) + (IF IsReserved(f.kind, f.stem) THEN 0 ELSE 1)
<1> DEFINE F == Fitting(f.kind, f.stem)
           S == F \cup (IF IsReserved(f.kind, f.stem) THEN {} ELSE {1})
           A(i) == Attempt(f.kind, f.stem, i)
<1>1. /\ f.stem \in Seq(Characters)
      /\ IsFiniteSet(f.met)
      /\ \A i \in 1..(MaxAttempts - 1) : A(i) \in f.met \/ (i = 1 /\ IsReserved(f.kind, f.stem))
  BY DEF IInv, TriedOK, Tried, StemOK, WellFormed, Address
<1>2. MaxAttempts \in Nat /\ MaxAttempts >= 3
  BY Bounds
<1>3. F \subseteq 2..(MaxAttempts - 1)
  BY DEF Fitting, Numbers
<1>4. IsFiniteSet(F) /\ Cardinality(F) \in Nat /\ 1 \notin F
  <2>1. IsFiniteSet(2..(MaxAttempts - 1))
    BY <1>2, FS_Interval
  <2>2. IsFiniteSet(F)
    BY <1>3, <2>1, FS_Subset
  <2>3. QED
    BY <1>3, <2>2, FS_CardinalityType
<1>5. Cardinality(S) = Cardinality(F) + (IF IsReserved(f.kind, f.stem) THEN 0 ELSE 1)
  <2>1. Cardinality(F \cup {1}) = Cardinality(F) + 1
    BY <1>4, FS_AddElement
  <2>2. F \cup {} = F
    OBVIOUS
  <2>3. QED
    BY <1>4, <2>1, <2>2
<1>6. \A i \in S : A(i) \in f.met
  BY <1>1, <1>2, <1>3
<1>7. \A i, j \in S : A(i) = A(j) => i = j
  BY <1>1, AttemptsDiffer
<1> DEFINE g == [i \in S |-> A(i)]
<1>8. g \in Injection(S, f.met)
  BY <1>6, <1>7 DEF Injection, IsInjective
<1>9. Cardinality(S) <= Cardinality(f.met)
  BY <1>1, <1>8, FS_Injection
<1>10. Cardinality(f.met) \in Nat
  BY <1>1, FS_CardinalityType
<1>11. QED
  BY <1>4, <1>5, <1>9, <1>10

\* The resolve loops, for any lengths of texts and numbers, cut or not, and any number of
\* attempts: a create is refused only after it has met a different row for its text and
\* for each number that fits after it.
THEOREM CrowdHolds == Spec => []RefusedOnlyWhenCrowded
<1>1. IInv => RefusedOnlyWhenCrowded
  BY RefusedCrowded DEF RefusedOnlyWhenCrowded
<1>2. QED
  BY <1>1, Invariance, PTL
=============================================================================
