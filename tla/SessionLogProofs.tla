-------------------------- MODULE SessionLogProofs --------------------------
(***************************************************************************)
(* Session file, session tree and transcript, for any number of entries,   *)
(* branches, forks, compactions and crashes.  The model is built from      *)
(* recursive functions over sequences, so its operators come first: a      *)
(* selection from a sequence, the walk to the root, the context of a path. *)
(* The induction principles they need are stated about sets.               *)
(***************************************************************************)
EXTENDS SessionLog, SequenceTheorems, FiniteSetTheorems, TLAPS

-----------------------------------------------------------------------------
(* Induction                                                               *)

(* Every set of numbers that is not empty has a least one.                 *)
LEMMA Least ==
  ASSUME NEW T, T \subseteq Nat, T # {}
  PROVE  \E n \in T : \A m \in T : n <= m
<1>1. IsWellFoundedOn(OpToRel(<, Nat), Nat)
  BY NatLessThanWellFounded
<1>2. \E x \in T : \A y \in T : ~ (<<y, x>> \in OpToRel(<, Nat))
  BY <1>1, WFMin
<1>3. \A x, y \in Nat : y < x => <<y, x>> \in OpToRel(<, Nat)
  BY DEF OpToRel
<1>4. PICK x \in T : \A y \in T : ~ (y < x)
  BY <1>2, <1>3, Zenon
<1> QED BY <1>4

(* Induction over numbers, ...                                             *)
LEMMA Induction ==
  ASSUME NEW P, 0 \in P, \A n \in Nat : n \in P => n + 1 \in P
  PROVE  Nat \subseteq P
<1> SUFFICES ASSUME Nat \ P # {} PROVE FALSE
  OBVIOUS
<1>1. PICK n \in Nat \ P : \A m \in Nat \ P : n <= m
  BY Least
<1>2. n # 0 /\ n - 1 \in Nat /\ n - 1 \in P
  BY <1>1
<1> QED BY <1>1, <1>2

(* ... from all the smaller ones, ...                                      *)
LEMMA StrongInduction ==
  ASSUME NEW P, \A n \in Nat : (\A m \in Nat : m < n => m \in P) => n \in P
  PROVE  Nat \subseteq P
<1> SUFFICES ASSUME Nat \ P # {} PROVE FALSE
  OBVIOUS
<1>1. PICK n \in Nat \ P : \A m \in Nat \ P : n <= m
  BY Least
<1>2. \A m \in Nat : m < n => m \in P
  BY <1>1
<1> QED BY <1>1, <1>2

(* ... and over sequences, from the front.                                 *)
LEMMA SeqInduction ==
  ASSUME NEW S, NEW Q, <<>> \in Q,
         \A s \in Seq(S), e \in S : s \in Q => Append(s, e) \in Q
  PROVE  Seq(S) \subseteq Q
<1> DEFINE P == {n \in Nat : \A s \in Seq(S) : Len(s) = n => s \in Q}
<1>1. 0 \in P
  <2>1. \A s \in Seq(S) : Len(s) = 0 => s = <<>>
    BY EmptySeq
  <2> QED BY <2>1
<1>2. ASSUME NEW n \in Nat, n \in P PROVE n + 1 \in P
  <2> SUFFICES ASSUME NEW s \in Seq(S), Len(s) = n + 1 PROVE s \in Q
    OBVIOUS
  <2>1. s # <<>>
    BY EmptySeq
  <2>2. PICK t \in Seq(S), e \in S : s = Append(t, e)
    BY <2>1, SequenceEmptyOrAppend
  <2>3. Len(t) \in Nat /\ Len(s) = Len(t) + 1
    BY <2>2, AppendProperties, LenProperties
  <2>4. t \in Q
    BY <1>2, <2>3
  <2> QED BY <2>2, <2>4
<1>3. Nat \subseteq P
  <2> HIDE DEF P
  <2> QED BY <1>1, <1>2, Induction
<1> QED BY <1>3, LenProperties

-----------------------------------------------------------------------------
(* Selections from a sequence                                              *)

IsSelect(g, s, I) ==
  g = [n \in 0..Len(s) |->
         IF n = 0 THEN <<>> ELSE IF n \in I THEN Append(g[n - 1], s[n]) ELSE g[n - 1]]

LEMMA SelectChosen ==
  ASSUME NEW s, NEW I
  PROVE  Select(s, I) = (CHOOSE g : IsSelect(g, s, I))[Len(s)]
BY DEF Select, IsSelect

(* A function that defines a selection restricts to those of the prefixes. *)
LEMMA SelectExists ==
  ASSUME NEW S, NEW I
  PROVE  \A s \in Seq(S) : \E g : IsSelect(g, s, I)
<1> DEFINE Q == {s \in Seq(S) : \E g : IsSelect(g, s, I)}
<1>1. <<>> \in Q
  <2>1. IsSelect([n \in 0..Len(<<>>) |-> <<>>], <<>>, I)
    BY DEF IsSelect
  <2> QED BY <2>1, EmptySeq
<1>2. ASSUME NEW s \in Seq(S), NEW e \in S, s \in Q PROVE Append(s, e) \in Q
  <2>1. PICK g : IsSelect(g, s, I)
    BY <1>2
  <2> DEFINE t == Append(s, e)
             n == Len(s)
             h == [k \in 0..Len(t) |->
                     IF k <= n THEN g[k] ELSE IF k \in I THEN Append(g[n], e) ELSE g[n]]
  <2>2. n \in Nat /\ t \in Seq(S) /\ Len(t) = n + 1 /\ t[n + 1] = e /\ \A k \in 1..n : t[k] = s[k]
    BY AppendProperties, LenProperties
  <2>3. \A k \in 0..n : g[k] = IF k = 0 THEN <<>> ELSE IF k \in I THEN Append(g[k - 1], s[k]) ELSE g[k - 1]
    BY <2>1 DEF IsSelect
  <2> HIDE DEF t
  <2>4. ASSUME NEW k \in 0..Len(t)
        PROVE  h[k] = IF k = 0 THEN <<>> ELSE IF k \in I THEN Append(h[k - 1], t[k]) ELSE h[k - 1]
    <3>1. CASE k = 0
      BY <2>2, <2>3, <3>1
    <3>2. CASE k \in 1..n
      <4>1. k - 1 \in 0..Len(t) /\ k - 1 <= n /\ k <= n /\ k \in 0..n
        BY <2>2, <3>2
      <4>2. h[k] = g[k] /\ h[k - 1] = g[k - 1]
        BY <4>1
      <4> QED BY <2>2, <2>3, <3>2, <4>1, <4>2
    <3>3. CASE k = n + 1
      <4>1. k - 1 \in 0..Len(t) /\ k - 1 = n
        BY <2>2, <3>3
      <4>2. h[k - 1] = g[n] /\ h[k] = IF k \in I THEN Append(g[n], e) ELSE g[n]
        BY <2>2, <3>3, <4>1
      <4> QED BY <2>2, <3>3, <4>2
    <3> QED BY <2>2, <3>1, <3>2, <3>3
  <2>5. IsSelect(h, t, I)
    BY <2>4 DEF IsSelect
  <2> QED BY <2>2, <2>5 DEF t
<1>3. Seq(S) \subseteq Q
  <2> HIDE DEF Q
  <2> QED BY <1>1, <1>2, SeqInduction
<1> QED BY <1>3

(* Two selections agree as long as the sequences and the positions do.     *)
LEMMA SelectAgree ==
  ASSUME NEW g, NEW s, NEW I, IsSelect(g, s, I), NEW h, NEW t, NEW J, IsSelect(h, t, J),
         Len(s) \in Nat, Len(t) \in Nat, NEW m \in Nat, m <= Len(s), m <= Len(t),
         \A k \in 1..m : s[k] = t[k] /\ (k \in I <=> k \in J)
  PROVE  g[m] = h[m]
<1> DEFINE P == {n \in Nat : n <= m => g[n] = h[n]}
<1>1. \A k \in 0..Len(s) : g[k] = IF k = 0 THEN <<>> ELSE IF k \in I THEN Append(g[k - 1], s[k]) ELSE g[k - 1]
  BY DEF IsSelect
<1>2. \A k \in 0..Len(t) : h[k] = IF k = 0 THEN <<>> ELSE IF k \in J THEN Append(h[k - 1], t[k]) ELSE h[k - 1]
  BY DEF IsSelect
<1>3. 0 \in P
  BY <1>1, <1>2
<1>4. ASSUME NEW n \in Nat, n \in P PROVE n + 1 \in P
  <2> SUFFICES ASSUME n + 1 <= m PROVE g[n + 1] = h[n + 1]
    OBVIOUS
  <2>1. g[n] = h[n]
    BY <1>4
  <2>2. n + 1 \in 1..m /\ n + 1 \in 0..Len(s) /\ n + 1 \in 0..Len(t) /\ n + 1 # 0 /\ (n + 1) - 1 = n
    OBVIOUS
  <2>3. g[n + 1] = IF n + 1 \in I THEN Append(g[n], s[n + 1]) ELSE g[n]
    BY <1>1, <2>2
  <2>4. h[n + 1] = IF n + 1 \in J THEN Append(h[n], t[n + 1]) ELSE h[n]
    BY <1>2, <2>2
  <2>5. s[n + 1] = t[n + 1] /\ (n + 1 \in I <=> n + 1 \in J)
    BY <2>2
  <2> QED BY <2>1, <2>3, <2>4, <2>5
<1>5. Nat \subseteq P
  <2> HIDE DEF P
  <2> QED BY <1>3, <1>4, Induction
<1> QED BY <1>5

LEMMA SelectDefined ==
  ASSUME NEW S, NEW s \in Seq(S), NEW I
  PROVE  \E g : IsSelect(g, s, I) /\ Select(s, I) = g[Len(s)]
<1>1. \E g : IsSelect(g, s, I)
  BY SelectExists
<1>2. IsSelect(CHOOSE g : IsSelect(g, s, I), s, I)
  BY <1>1
<1> QED BY <1>2, SelectChosen

(* A selection depends on the positions of the sequence alone.             *)
LEMMA SelectSame ==
  ASSUME NEW S, NEW s \in Seq(S), NEW I, NEW J, \A k \in 1..Len(s) : k \in I <=> k \in J
  PROVE  Select(s, I) = Select(s, J)
<1>1. PICK g : IsSelect(g, s, I) /\ Select(s, I) = g[Len(s)]
  BY SelectDefined
<1>2. PICK h : IsSelect(h, s, J) /\ Select(s, J) = h[Len(s)]
  BY SelectDefined
<1>3. Len(s) \in Nat
  BY LenProperties
<1>4. g[Len(s)] = h[Len(s)]
  BY <1>1, <1>2, <1>3, SelectAgree
<1> QED BY <1>1, <1>2, <1>4

LEMMA SelectEmpty ==
  ASSUME NEW I PROVE Select(<<>>, I) = <<>>
<1>1. <<>> \in Seq({}) /\ Len(<<>>) = 0
  BY EmptySeq
<1>2. PICK g : IsSelect(g, <<>>, I) /\ Select(<<>>, I) = g[0]
  BY <1>1, SelectDefined
<1>3. g[0] = <<>>
  BY <1>1, <1>2 DEF IsSelect
<1> QED BY <1>2, <1>3

LEMMA SelectAppend ==
  ASSUME NEW S, NEW s \in Seq(S), NEW e \in S, NEW I
  PROVE  Select(Append(s, e), I) = IF Len(s) + 1 \in I THEN Append(Select(s, I), e) ELSE Select(s, I)
<1> DEFINE t == Append(s, e)
           n == Len(s)
<1>1. n \in Nat /\ t \in Seq(S) /\ Len(t) = n + 1 /\ t[n + 1] = e /\ \A k \in 1..n : t[k] = s[k]
  BY AppendProperties, LenProperties
<1> HIDE DEF t
<1>2. PICK g : IsSelect(g, s, I) /\ Select(s, I) = g[n]
  BY SelectDefined
<1>3. PICK h : IsSelect(h, t, I) /\ Select(t, I) = h[Len(t)]
  BY <1>1, SelectDefined
<1>4. g[n] = h[n]
  BY <1>1, <1>2, <1>3, SelectAgree
<1>5. n + 1 \in 0..Len(t) /\ n + 1 # 0 /\ (n + 1) - 1 = n
  BY <1>1
<1>6. h[n + 1] = IF n + 1 \in I THEN Append(h[n], t[n + 1]) ELSE h[n]
  BY <1>3, <1>5 DEF IsSelect
<1> QED BY <1>1, <1>2, <1>3, <1>4, <1>6 DEF t

(* The elements of a sequence that are in P.                               *)
Filter(s, P) == Select(s, {i \in DOMAIN s : s[i] \in P})

LEMMA FilterEmpty ==
  ASSUME NEW P PROVE Filter(<<>>, P) = <<>>
BY SelectEmpty DEF Filter

LEMMA FilterAppend ==
  ASSUME NEW S, NEW s \in Seq(S), NEW e \in S, NEW P
  PROVE  Filter(Append(s, e), P) = IF e \in P THEN Append(Filter(s, P), e) ELSE Filter(s, P)
<1> DEFINE t == Append(s, e)
           I == {i \in DOMAIN t : t[i] \in P}
           J == {i \in DOMAIN s : s[i] \in P}
           n == Len(s)
<1>1. /\ n \in Nat /\ DOMAIN s = 1..n
      /\ t \in Seq(S) /\ Len(t) = n + 1 /\ t[n + 1] = e /\ \A k \in 1..n : t[k] = s[k]
  BY AppendProperties, LenProperties
<1>2. DOMAIN t = 1..(n + 1)
  BY <1>1, LenProperties
<1> HIDE DEF t
<1>3. \A k \in 1..n : k \in I <=> k \in J
  BY <1>1, <1>2
<1>4. n + 1 \in I <=> e \in P
  BY <1>1, <1>2
<1> HIDE DEF I, J
<1>5. Select(s, I) = Select(s, J)
  BY <1>3, SelectSame
<1>6. Select(t, I) = IF n + 1 \in I THEN Append(Select(s, I), e) ELSE Select(s, I)
  BY SelectAppend DEF t
<1> QED BY <1>4, <1>5, <1>6 DEF Filter, I, J, t

(* A filtered sequence has the elements that pass, ...                     *)
LEMMA FilterType ==
  ASSUME NEW S, NEW s \in Seq(S), NEW P
  PROVE  Filter(s, P) \in Seq(S \cap P)
<1> DEFINE Q == {q \in Seq(S) : Filter(q, P) \in Seq(S \cap P)}
<1>1. <<>> \in Q
  BY FilterEmpty, EmptySeq
<1>2. ASSUME NEW q \in Seq(S), NEW e \in S, q \in Q PROVE Append(q, e) \in Q
  <2>1. Append(q, e) \in Seq(S)
    BY AppendProperties
  <2>2. Filter(Append(q, e), P) = IF e \in P THEN Append(Filter(q, P), e) ELSE Filter(q, P)
    BY FilterAppend
  <2>3. Filter(q, P) \in Seq(S \cap P)
    BY <1>2
  <2>4. CASE e \in P
    <3>1. Append(Filter(q, P), e) \in Seq(S \cap P)
      BY <2>3, <2>4, AppendProperties
    <3> QED BY <2>1, <2>2, <2>4, <3>1
  <2>5. CASE e \notin P
    BY <2>1, <2>2, <2>3, <2>5
  <2> QED BY <2>4, <2>5
<1>3. Seq(S) \subseteq Q
  <2> HIDE DEF Q
  <2> QED BY <1>1, <1>2, SeqInduction
<1> QED BY <1>3

LEMMA FilterInSeq ==
  ASSUME NEW S, NEW s \in Seq(S), NEW P
  PROVE  Filter(s, P) \in Seq(S)
<1>1. Filter(s, P) \in Seq(S \cap P)
  BY FilterType
<1> HIDE DEF Filter
<1> QED BY <1>1, SeqMonotonic

(* ... all of them, ...                                                    *)
LEMMA FilterAll ==
  ASSUME NEW P, NEW s \in Seq(P)
  PROVE  Filter(s, P) = s
<1> DEFINE Q == {q \in Seq(P) : Filter(q, P) = q}
<1>1. <<>> \in Q
  BY FilterEmpty, EmptySeq
<1>2. ASSUME NEW q \in Seq(P), NEW e \in P, q \in Q PROVE Append(q, e) \in Q
  BY <1>2, FilterAppend, AppendProperties
<1>3. Seq(P) \subseteq Q
  <2> HIDE DEF Q
  <2> QED BY <1>1, <1>2, SeqInduction
<1> QED BY <1>3

(* ... and nothing else.                                                   *)
LEMMA FilterNone ==
  ASSUME NEW S, NEW s \in Seq(S), NEW P, S \cap P = {}
  PROVE  Filter(s, P) = <<>>
<1>1. Filter(s, P) \in Seq({})
  BY FilterType
<1>2. ASSUME NEW q \in Seq({}), q # <<>> PROVE FALSE
  BY <1>2, SequenceEmptyOrAppend
<1> QED BY <1>1, <1>2

LEMMA FilterConcat ==
  ASSUME NEW S, NEW s \in Seq(S), NEW t \in Seq(S), NEW P
  PROVE  Filter(s \o t, P) = Filter(s, P) \o Filter(t, P)
<1> DEFINE F == Filter(s, P)
           Q == {q \in Seq(S) : Filter(s \o q, P) = F \o Filter(q, P)}
<1>1. F \in Seq(S)
  BY FilterInSeq
<1>2. <<>> \in Q
  <2>1. s \o <<>> = s /\ F \o <<>> = F
    BY <1>1, ConcatEmptySeq
  <2> QED BY <2>1, FilterEmpty, EmptySeq
<1>3. ASSUME NEW q \in Seq(S), NEW e \in S, q \in Q PROVE Append(q, e) \in Q
  <2>1. Append(q, e) \in Seq(S) /\ s \o q \in Seq(S) /\ Filter(q, P) \in Seq(S)
    BY AppendProperties, ConcatProperties, FilterInSeq
  <2>2. Filter(Append(q, e), P) = IF e \in P THEN Append(Filter(q, P), e) ELSE Filter(q, P)
    BY FilterAppend
  <2>3. s \o Append(q, e) = Append(s \o q, e)
    OBVIOUS
  <2>4. Filter(Append(s \o q, e), P) = IF e \in P THEN Append(Filter(s \o q, P), e) ELSE Filter(s \o q, P)
    BY <2>1, FilterAppend
  <2>5. Filter(s \o q, P) = F \o Filter(q, P)
    BY <1>3
  <2>6. F \o Append(Filter(q, P), e) = Append(F \o Filter(q, P), e)
    BY <1>1, <2>1
  <2>7. Filter(s \o Append(q, e), P) = F \o Filter(Append(q, e), P)
    <3> HIDE DEF F
    <3>1. CASE e \in P
      BY <2>2, <2>3, <2>4, <2>5, <2>6, <3>1
    <3>2. CASE e \notin P
      BY <2>2, <2>3, <2>4, <2>5, <3>2
    <3> QED BY <3>1, <3>2
  <2> QED BY <2>1, <2>7
<1>4. Seq(S) \subseteq Q
  <2> HIDE DEF Q
  <2> QED BY <1>2, <1>3, SeqInduction
<1> QED BY <1>4

LEMMA FilterTwice ==
  ASSUME NEW S, NEW s \in Seq(S), NEW P, NEW R
  PROVE  Filter(Filter(s, P), R) = Filter(s, P \cap R)
<1> DEFINE Q == {q \in Seq(S) : Filter(Filter(q, P), R) = Filter(q, P \cap R)}
<1>1. <<>> \in Q
  BY FilterEmpty, EmptySeq
<1>2. ASSUME NEW q \in Seq(S), NEW e \in S, q \in Q PROVE Append(q, e) \in Q
  <2>1. Append(q, e) \in Seq(S) /\ Filter(q, P) \in Seq(S)
    BY AppendProperties, FilterInSeq
  <2>2. Filter(Append(q, e), P) = IF e \in P THEN Append(Filter(q, P), e) ELSE Filter(q, P)
    BY FilterAppend
  <2>3. Filter(Append(q, e), P \cap R) = IF e \in P \cap R THEN Append(Filter(q, P \cap R), e) ELSE Filter(q, P \cap R)
    BY FilterAppend
  <2>4. Filter(Append(Filter(q, P), e), R) = IF e \in R THEN Append(Filter(Filter(q, P), R), e) ELSE Filter(Filter(q, P), R)
    BY <2>1, FilterAppend
  <2>5. Filter(Filter(q, P), R) = Filter(q, P \cap R)
    BY <1>2
  <2>6. Filter(Filter(Append(q, e), P), R) = Filter(Append(q, e), P \cap R)
    <3>1. CASE e \in P \cap R
      BY <2>2, <2>3, <2>4, <2>5, <3>1
    <3>2. CASE e \in P /\ e \notin R
      BY <2>2, <2>3, <2>4, <2>5, <3>2
    <3>3. CASE e \notin P
      BY <2>2, <2>3, <2>5, <3>3
    <3> QED BY <3>1, <3>2, <3>3
  <2> QED BY <2>1, <2>6
<1>3. Seq(S) \subseteq Q
  <2> HIDE DEF Q
  <2> QED BY <1>1, <1>2, SeqInduction
<1> QED BY <1>3

(* Filtering by two sets that the sequence cannot tell apart.              *)
LEMMA FilterSame ==
  ASSUME NEW S, NEW s \in Seq(S), NEW P, NEW R, \A i \in 1..Len(s) : s[i] \in P <=> s[i] \in R
  PROVE  Filter(s, P) = Filter(s, R)
<1>1. {i \in DOMAIN s : s[i] \in P} = {i \in DOMAIN s : s[i] \in R}
  BY LenProperties
<1> QED BY <1>1 DEF Filter

(* An element is in the filtered sequence when it passes.                  *)
LEMMA FilterHas ==
  ASSUME NEW S, NEW s \in Seq(S), NEW P
  PROVE  \A x : (\E i \in 1..Len(Filter(s, P)) : Filter(s, P)[i] = x)
                  <=> x \in P /\ \E i \in 1..Len(s) : s[i] = x
<1> DEFINE Has(q, x) == \E i \in 1..Len(q) : q[i] = x
           Q == {q \in Seq(S) : \A x : Has(Filter(q, P), x) <=> x \in P /\ Has(q, x)}
<1>1. <<>> \in Q
  BY FilterEmpty, EmptySeq
<1>2. ASSUME NEW q \in Seq(S), NEW e \in S, NEW x PROVE Has(Append(q, e), x) <=> Has(q, x) \/ x = e
  <2>1. Len(q) \in Nat /\ Len(Append(q, e)) = Len(q) + 1 /\ Append(q, e)[Len(q) + 1] = e
        /\ \A i \in 1..Len(q) : Append(q, e)[i] = q[i]
    BY AppendProperties, LenProperties
  <2>2. 1..(Len(q) + 1) = 1..Len(q) \cup {Len(q) + 1}
    BY <2>1
  <2> QED BY <2>1, <2>2
<1>3. ASSUME NEW q \in Seq(S), NEW e \in S, q \in Q PROVE Append(q, e) \in Q
  <2>1. Append(q, e) \in Seq(S) /\ Filter(q, P) \in Seq(S)
    BY AppendProperties, FilterInSeq
  <2>2. Filter(Append(q, e), P) = IF e \in P THEN Append(Filter(q, P), e) ELSE Filter(q, P)
    BY FilterAppend
  <2> SUFFICES ASSUME NEW x
               PROVE  Has(Filter(Append(q, e), P), x) <=> x \in P /\ Has(Append(q, e), x)
    BY <2>1
  <2>3. Has(Append(q, e), x) <=> Has(q, x) \/ x = e
    BY <1>2
  <2>4. Has(Append(Filter(q, P), e), x) <=> Has(Filter(q, P), x) \/ x = e
    BY <2>1, <1>2
  <2>5. Has(Filter(q, P), x) <=> x \in P /\ Has(q, x)
    BY <1>3
  <2> HIDE DEF Has
  <2> QED BY <2>2, <2>3, <2>4, <2>5
<1>4. Seq(S) \subseteq Q
  <2> HIDE DEF Q
  <2> QED BY <1>1, <1>3, SeqInduction
<1> QED BY <1>4

LEMMA FilterElements ==
  ASSUME NEW S, NEW s \in Seq(S), NEW P
  PROVE  /\ Filter(s, P) \in Seq(S) /\ Len(Filter(s, P)) \in Nat
         /\ \A i \in 1..Len(Filter(s, P)) :
              Filter(s, P)[i] \in P /\ \E k \in 1..Len(s) : s[k] = Filter(s, P)[i]
         /\ \A k \in 1..Len(s) : s[k] \in P => \E i \in 1..Len(Filter(s, P)) : Filter(s, P)[i] = s[k]
<1> DEFINE F == Filter(s, P)
<1>1. \A x : (\E i \in 1..Len(F) : F[i] = x) <=> x \in P /\ \E i \in 1..Len(s) : s[i] = x
  BY FilterHas
<1>2. F \in Seq(S)
  BY FilterInSeq
<1> HIDE DEF F
<1>3. Len(F) \in Nat
  BY <1>2, LenProperties
<1>4. ASSUME NEW i \in 1..Len(F) PROVE F[i] \in P /\ \E k \in 1..Len(s) : s[k] = F[i]
  BY <1>1
<1>5. ASSUME NEW k \in 1..Len(s), s[k] \in P PROVE \E i \in 1..Len(F) : F[i] = s[k]
  BY <1>1, <1>5
<1> QED BY <1>2, <1>3, <1>4, <1>5 DEF F

-----------------------------------------------------------------------------
(* Entries, and the order of their identifiers                             *)

EntryRec == [id : 1..MaxEntries, parent : 0..MaxEntries, type : EntryTypes,
             ref : 0..MaxEntries, covers : SUBSET (1..MaxEntries)]
Lines    == EntryRec \cup {TornLine, GarbledLine, OpenLine}

WithId(S) == {e \in EntryRec : e.id \in S}
Seen      == {e \in EntryRec : Visible(e)}
Spoken    == {e \in EntryRec : Message(e)}

(* Entries are older than what refers to them, and stand in order of age.  *)
Tree(es) ==
  /\ es \in Seq(EntryRec)
  /\ \A i \in 1..Len(es) : es[i].parent < es[i].id /\ es[i].ref < es[i].id
  /\ \A i, j \in 1..Len(es) : i < j => es[i].id < es[j].id

LEMMA EntryIds ==
  ASSUME NEW e \in EntryRec
  PROVE  /\ e.id \in Nat \ {0} /\ e.id \in 1..MaxEntries /\ e.parent \in Nat /\ e.ref \in Nat
         /\ e.type \in EntryTypes
BY SessionLogAssumption DEF EntryRec

LEMMA TreeEmpty == Tree(<<>>)
BY EmptySeq DEF Tree

LEMMA TreeTypes ==
  ASSUME NEW es, Tree(es)
  PROVE  /\ es \in Seq(EntryRec) /\ Len(es) \in Nat /\ DOMAIN es = 1..Len(es)
         /\ \A i \in 1..Len(es) :
              /\ es[i] \in EntryRec
              /\ es[i].id \in Nat \ {0} /\ es[i].parent \in Nat /\ es[i].ref \in Nat
              /\ es[i].parent < es[i].id /\ es[i].ref < es[i].id
<1>1. es \in Seq(EntryRec)
  BY DEF Tree
<1>2. Len(es) \in Nat /\ DOMAIN es = 1..Len(es) /\ \A i \in 1..Len(es) : es[i] \in EntryRec
  BY <1>1, LenProperties, ElementOfSeq
<1> QED BY <1>1, <1>2, EntryIds DEF Tree

LEMMA TreeAppend ==
  ASSUME NEW es \in Seq(EntryRec), NEW e \in EntryRec
  PROVE  Tree(Append(es, e)) <=> /\ Tree(es) /\ e.parent < e.id /\ e.ref < e.id
                                 /\ \A i \in 1..Len(es) : es[i].id < e.id
<1> DEFINE t == Append(es, e)
           n == Len(es)
<1>1. n \in Nat /\ t \in Seq(EntryRec) /\ Len(t) = n + 1 /\ t[n + 1] = e /\ \A k \in 1..n : t[k] = es[k]
  BY AppendProperties, LenProperties
<1> HIDE DEF t
<1>2. ASSUME Tree(t) PROVE Tree(es) /\ e.parent < e.id /\ e.ref < e.id /\ \A i \in 1..n : es[i].id < e.id
  <2>1. n + 1 \in 1..Len(t) /\ \A i \in 1..n : i \in 1..Len(t) /\ i < n + 1
    BY <1>1
  <2>2. e.parent < e.id /\ e.ref < e.id /\ \A i \in 1..n : es[i].id < e.id
    BY <1>1, <1>2, <2>1 DEF Tree
  <2>3. Tree(es)
    BY <1>1, <1>2, <2>1 DEF Tree
  <2> QED BY <2>2, <2>3
<1>3. ASSUME Tree(es), e.parent < e.id, e.ref < e.id, \A i \in 1..n : es[i].id < e.id PROVE Tree(t)
  <2>1. \A i \in 1..Len(t) : i = n + 1 \/ i \in 1..n
    BY <1>1
  <2>2. \A i \in 1..Len(t) : t[i].parent < t[i].id /\ t[i].ref < t[i].id
    BY <1>1, <1>3, <2>1 DEF Tree
  <2>3. ASSUME NEW i \in 1..Len(t), NEW j \in 1..Len(t), i < j PROVE t[i].id < t[j].id
    <3>1. i \in 1..n
      BY <1>1, <2>3
    <3>2. CASE j \in 1..n
      BY <1>1, <1>3, <2>3, <3>1, <3>2 DEF Tree
    <3>3. CASE j = n + 1
      BY <1>1, <1>3, <3>1, <3>3
    <3> QED BY <2>1, <3>2, <3>3
  <2> QED BY <1>1, <2>2, <2>3 DEF Tree
<1> QED BY <1>2, <1>3 DEF t

(* What is left of a tree when entries are dropped is in order too.        *)
LEMMA TreeFilter ==
  ASSUME NEW es, Tree(es), NEW P
  PROVE  Tree(Filter(es, P))
<1> DEFINE Q == {q \in Seq(EntryRec) : Tree(q) => Tree(Filter(q, P))}
<1>1. <<>> \in Q
  BY FilterEmpty, EmptySeq
<1>2. ASSUME NEW q \in Seq(EntryRec), NEW e \in EntryRec, q \in Q PROVE Append(q, e) \in Q
  <2>1. Append(q, e) \in Seq(EntryRec) /\ Filter(q, P) \in Seq(EntryRec)
    BY AppendProperties, FilterInSeq
  <2> SUFFICES ASSUME Tree(Append(q, e)) PROVE Tree(Filter(Append(q, e), P))
    BY <2>1
  <2>2. Filter(Append(q, e), P) = IF e \in P THEN Append(Filter(q, P), e) ELSE Filter(q, P)
    BY FilterAppend
  <2>3. Tree(q) /\ e.parent < e.id /\ e.ref < e.id /\ \A i \in 1..Len(q) : q[i].id < e.id
    BY TreeAppend
  <2>4. Tree(Filter(q, P))
    BY <1>2, <2>3
  <2>5. \A i \in 1..Len(Filter(q, P)) : Filter(q, P)[i].id < e.id
    <3>1. \A i \in 1..Len(Filter(q, P)) :
            Filter(q, P)[i] \in P /\ \E k \in 1..Len(q) : q[k] = Filter(q, P)[i]
      BY FilterElements
    <3> QED BY <2>3, <3>1
  <2>6. Tree(Append(Filter(q, P), e))
    BY <2>1, <2>3, <2>4, <2>5, TreeAppend
  <2> QED BY <2>2, <2>4, <2>6
<1>3. Seq(EntryRec) \subseteq Q
  <2> HIDE DEF Q
  <2> QED BY <1>1, <1>2, SeqInduction
<1>4. es \in Seq(EntryRec)
  BY DEF Tree
<1> QED BY <1>3, <1>4

(* An identifier names one entry.                                          *)
LEMMA TreeUnique ==
  ASSUME NEW es, Tree(es), NEW i \in 1..Len(es), NEW j \in 1..Len(es), es[i].id = es[j].id
  PROVE  i = j
BY TreeTypes DEF Tree

LEMMA EntryOfId ==
  ASSUME NEW es, Tree(es), NEW i \in 1..Len(es)
  PROVE  es[i].id \in IdsOf(es) /\ Entry(es, es[i].id) = es[i]
<1>1. DOMAIN es = 1..Len(es)
  BY TreeTypes
<1>2. \A j \in DOMAIN es : es[j].id = es[i].id => j = i
  BY <1>1, TreeUnique
<1>3. (CHOOSE j \in DOMAIN es : es[j].id = es[i].id) = i
  BY <1>1, <1>2
<1> QED BY <1>1, <1>3 DEF IdsOf, Entry

LEMMA IdOfEntry ==
  ASSUME NEW es, Tree(es), NEW n \in IdsOf(es)
  PROVE  /\ \E i \in 1..Len(es) : es[i].id = n /\ Entry(es, n) = es[i]
         /\ n \in Nat \ {0} /\ Entry(es, n) \in EntryRec /\ Entry(es, n).id = n
         /\ Entry(es, n).parent \in Nat /\ Entry(es, n).parent < n
<1>1. PICK i \in 1..Len(es) : es[i].id = n
  BY TreeTypes DEF IdsOf
<1>2. Entry(es, n) = es[i]
  BY <1>1, EntryOfId
<1> QED BY <1>1, <1>2, TreeTypes

LEMMA InOrderFilter ==
  ASSUME NEW es \in Seq(EntryRec), NEW S
  PROVE  InOrder(es, S) = Filter(es, WithId(S))
<1>1. DOMAIN es = 1..Len(es) /\ \A i \in DOMAIN es : es[i] \in EntryRec
  BY LenProperties, ElementOfSeq
<1>2. {i \in DOMAIN es : es[i].id \in S} = {i \in DOMAIN es : es[i] \in WithId(S)}
  BY <1>1 DEF WithId
<1> QED BY <1>2 DEF InOrder, Filter

LEMMA VisibleFilter ==
  ASSUME NEW es \in Seq(EntryRec)
  PROVE  VisibleOf(es) = Filter(es, Seen)
<1>1. DOMAIN es = 1..Len(es) /\ \A i \in DOMAIN es : es[i] \in EntryRec
  BY LenProperties, ElementOfSeq
<1>2. {i \in DOMAIN es : Visible(es[i])} = {i \in DOMAIN es : es[i] \in Seen}
  BY <1>1 DEF Seen
<1> QED BY <1>2 DEF VisibleOf, Filter

LEMMA ReadableFilter ==
  ASSUME NEW f \in Seq(Lines)
  PROVE  Readable(f) = Filter(f, EntryRec)
<1>1. DOMAIN f = 1..Len(f) /\ \A i \in DOMAIN f : f[i] \in Lines
  BY LenProperties, ElementOfSeq
<1>2. TornLine.id = 0 /\ GarbledLine.id = 0 /\ OpenLine.id = 0 /\ \A e \in EntryRec : e.id # 0
  BY EntryIds DEF TornLine, GarbledLine, OpenLine
<1>3. \A i \in DOMAIN f : f[i].id # 0 <=> f[i] \in EntryRec
  BY <1>1, <1>2 DEF Lines
<1>4. {i \in DOMAIN f : f[i].id # 0} = {i \in DOMAIN f : f[i] \in EntryRec}
  BY <1>3
<1> QED BY <1>4 DEF Readable, Filter

-----------------------------------------------------------------------------
(* The walk to the root                                                    *)

IsWalk(g, es, N) ==
  g = [n \in 0..N |-> IF n \notin IdsOf(es) THEN {} ELSE {n} \cup g[Entry(es, n).parent]]

LEMMA WalkChosen ==
  ASSUME NEW es, NEW N
  PROVE  Ancestors(es, N) = (CHOOSE g : IsWalk(g, es, N))[N]
BY DEF Ancestors, IsWalk

LEMMA WalkExists ==
  ASSUME NEW es, Tree(es), NEW N \in Nat
  PROVE  \E g : IsWalk(g, es, N)
<1> DEFINE P == {n \in Nat : \E g : IsWalk(g, es, n)}
           Step(g, n) == IF n \notin IdsOf(es) THEN {} ELSE {n} \cup g[Entry(es, n).parent]
<1>1. \A n \in Nat : n \in IdsOf(es) => Entry(es, n).parent \in Nat /\ Entry(es, n).parent < n
  BY IdOfEntry
<1>2. 0 \in P
  <2>1. 0 \notin IdsOf(es)
    BY IdOfEntry
  <2>2. IsWalk([n \in 0..0 |-> {}], es, 0)
    BY <2>1 DEF IsWalk
  <2> QED BY <2>2
<1>3. ASSUME NEW n \in Nat, n \in P PROVE n + 1 \in P
  <2>1. PICK g : IsWalk(g, es, n)
    BY <1>3
  <2>2. \A k \in 0..n : g[k] = Step(g, k)
    BY <2>1 DEF IsWalk
  <2> DEFINE h == [k \in 0..(n + 1) |-> IF k <= n THEN g[k] ELSE Step(g, k)]
  <2>3. ASSUME NEW k \in 0..(n + 1) PROVE h[k] = Step(h, k)
    <3>1. h[k] = Step(g, k)
      BY <2>2
    <3>2. CASE k \in IdsOf(es)
      <4>1. Entry(es, k).parent \in Nat /\ Entry(es, k).parent < k
        BY <1>1, <3>2
      <4>2. h[Entry(es, k).parent] = g[Entry(es, k).parent]
        BY <4>1
      <4> QED BY <3>1, <4>2
    <3>3. CASE k \notin IdsOf(es)
      BY <3>1, <3>3
    <3> QED BY <3>2, <3>3
  <2>4. h = [k \in 0..(n + 1) |-> Step(h, k)]
    <3>1. \A k \in 0..(n + 1) : [j \in 0..(n + 1) |-> Step(h, j)][k] = h[k]
      BY <2>3
    <3> HIDE DEF Step
    <3> QED BY <3>1
  <2>5. IsWalk(h, es, n + 1)
    BY <2>4 DEF IsWalk
  <2> QED BY <2>5
<1>4. Nat \subseteq P
  <2> HIDE DEF P
  <2> QED BY <1>2, <1>3, Induction
<1> QED BY <1>4

LEMMA WalkDefined ==
  ASSUME NEW es, Tree(es), NEW N \in Nat
  PROVE  \E g : IsWalk(g, es, N) /\ Ancestors(es, N) = g[N]
<1>1. \E g : IsWalk(g, es, N)
  BY WalkExists
<1>2. IsWalk(CHOOSE g : IsWalk(g, es, N), es, N)
  BY <1>1
<1> QED BY <1>2, WalkChosen

(* Walks agree wherever the entries do.                                    *)
LEMMA WalkAgree ==
  ASSUME NEW es, Tree(es), NEW ds, Tree(ds), NEW N \in Nat, NEW M \in Nat,
         NEW g, IsWalk(g, es, N), NEW h, IsWalk(h, ds, M), NEW k \in Nat, k <= N, k <= M,
         \A n \in 0..k : /\ n \in IdsOf(es) <=> n \in IdsOf(ds)
                         /\ n \in IdsOf(es) => Entry(es, n).parent = Entry(ds, n).parent
  PROVE  g[k] = h[k]
<1> DEFINE P == {n \in Nat : n <= k => g[n] = h[n]}
<1>1. \A n \in 0..N : g[n] = IF n \notin IdsOf(es) THEN {} ELSE {n} \cup g[Entry(es, n).parent]
  BY DEF IsWalk
<1>2. \A n \in 0..M : h[n] = IF n \notin IdsOf(ds) THEN {} ELSE {n} \cup h[Entry(ds, n).parent]
  BY DEF IsWalk
<1>3. ASSUME NEW n \in Nat, \A m \in Nat : m < n => m \in P PROVE n \in P
  <2> SUFFICES ASSUME n <= k PROVE g[n] = h[n]
    OBVIOUS
  <2>1. n \in 0..N /\ n \in 0..M /\ n \in 0..k
    OBVIOUS
  <2>2. CASE n \in IdsOf(es)
    <3>1. Entry(es, n).parent \in Nat /\ Entry(es, n).parent < n
      BY <2>2, IdOfEntry
    <3>2. g[Entry(es, n).parent] = h[Entry(es, n).parent]
      BY <1>3, <3>1
    <3> QED BY <1>1, <1>2, <2>1, <2>2, <3>2
  <2>3. CASE n \notin IdsOf(es)
    BY <1>1, <1>2, <2>1, <2>3
  <2> QED BY <2>2, <2>3
<1>4. Nat \subseteq P
  <2> HIDE DEF P
  <2> QED BY <1>3, StrongInduction
<1> QED BY <1>4

(* An entry's ancestors are itself and those of its parent.                *)
LEMMA AncestorsStep ==
  ASSUME NEW es, Tree(es), NEW n \in Nat
  PROVE  Ancestors(es, n) = IF n \notin IdsOf(es) THEN {} ELSE {n} \cup Ancestors(es, Entry(es, n).parent)
<1>1. PICK g : IsWalk(g, es, n) /\ Ancestors(es, n) = g[n]
  BY WalkDefined
<1>2. n \in 0..n
  OBVIOUS
<1>3. g[n] = IF n \notin IdsOf(es) THEN {} ELSE {n} \cup g[Entry(es, n).parent]
  BY <1>1, <1>2 DEF IsWalk
<1>4. ASSUME n \in IdsOf(es) PROVE g[Entry(es, n).parent] = Ancestors(es, Entry(es, n).parent)
  <2> DEFINE p == Entry(es, n).parent
  <2>1. p \in Nat /\ p < n
    BY <1>4, IdOfEntry
  <2> HIDE DEF p
  <2>2. PICK h : IsWalk(h, es, p) /\ Ancestors(es, p) = h[p]
    BY <2>1, WalkDefined
  <2>3. g[p] = h[p]
    BY <1>1, <2>1, <2>2, WalkAgree
  <2> QED BY <2>2, <2>3 DEF p
<1> QED BY <1>1, <1>3, <1>4

(* They are not younger than it, ...                                       *)
LEMMA AncestorsOlder ==
  ASSUME NEW es, Tree(es)
  PROVE  \A n \in Nat : \A m \in Ancestors(es, n) : m \in IdsOf(es) /\ m \in Nat /\ m <= n
<1> DEFINE P == {n \in Nat : \A m \in Ancestors(es, n) : m \in IdsOf(es) /\ m \in Nat /\ m <= n}
<1>1. ASSUME NEW n \in Nat, \A m \in Nat : m < n => m \in P PROVE n \in P
  <2>1. CASE n \in IdsOf(es)
    <3>1. Entry(es, n).parent \in Nat /\ Entry(es, n).parent < n
      BY <2>1, IdOfEntry
    <3>2. Entry(es, n).parent \in P
      BY <1>1, <3>1
    <3>3. Ancestors(es, n) = {n} \cup Ancestors(es, Entry(es, n).parent)
      BY <2>1, AncestorsStep
    <3> QED BY <2>1, <3>1, <3>2, <3>3
  <2>2. CASE n \notin IdsOf(es)
    BY <2>2, AncestorsStep
  <2> QED BY <2>1, <2>2
<1>2. Nat \subseteq P
  <2> HIDE DEF P
  <2> QED BY <1>1, StrongInduction
<1> QED BY <1>2

(* ... and stay the same when entries younger than it are added.           *)
LEMMA AncestorsAppend ==
  ASSUME NEW es, NEW e \in EntryRec, Tree(es), Tree(Append(es, e)), NEW n \in Nat, n < e.id
  PROVE  Ancestors(Append(es, e), n) = Ancestors(es, n)
<1> DEFINE t == Append(es, e)
<1>1. /\ Len(es) \in Nat /\ t \in Seq(EntryRec) /\ Len(t) = Len(es) + 1 /\ t[Len(es) + 1] = e
      /\ \A k \in 1..Len(es) : t[k] = es[k]
  BY TreeTypes, AppendProperties
<1>2. DOMAIN t = 1..(Len(es) + 1) /\ DOMAIN es = 1..Len(es)
  BY <1>1, TreeTypes, LenProperties
<1>3. IdsOf(t) = IdsOf(es) \cup {e.id}
  <2>1. 1..(Len(es) + 1) = 1..Len(es) \cup {Len(es) + 1}
    BY <1>1
  <2> HIDE DEF t
  <2> QED BY <1>1, <1>2, <2>1 DEF IdsOf
<1>4. ASSUME NEW m \in 0..n, m \in IdsOf(es) PROVE Entry(t, m) = Entry(es, m)
  <2>1. PICK i \in 1..Len(es) : es[i].id = m /\ Entry(es, m) = es[i]
    BY <1>4, IdOfEntry
  <2>2. i \in 1..Len(t) /\ t[i] = es[i]
    BY <1>1, <2>1
  <2> QED BY <2>1, <2>2, EntryOfId
<1>5. \A m \in 0..n : m # e.id
  BY EntryIds
<1>6. PICK g : IsWalk(g, es, n) /\ Ancestors(es, n) = g[n]
  BY WalkDefined
<1>7. PICK h : IsWalk(h, t, n) /\ Ancestors(t, n) = h[n]
  BY WalkDefined
<1> HIDE DEF t
<1>8. g[n] = h[n]
  BY <1>3, <1>4, <1>5, <1>6, <1>7, WalkAgree DEF t
<1> QED BY <1>6, <1>7, <1>8 DEF t

-----------------------------------------------------------------------------
(* Paths                                                                   *)

LEMMA PathFilter ==
  ASSUME NEW es, Tree(es), NEW n \in Nat
  PROVE  Path(es, n) = Filter(es, WithId(Ancestors(es, n))) /\ Tree(Path(es, n))
<1>1. Path(es, n) = Filter(es, WithId(Ancestors(es, n)))
  BY TreeTypes, InOrderFilter DEF Path
<1> QED BY <1>1, TreeFilter

LEMMA PathNone ==
  ASSUME NEW es, Tree(es), NEW n \in Nat, n \notin IdsOf(es)
  PROVE  Path(es, n) = <<>>
<1>1. Ancestors(es, n) = {}
  BY AncestorsStep
<1>2. WithId({}) = {}
  BY DEF WithId
<1>3. Filter(es, {}) = <<>>
  BY TreeTypes, FilterNone
<1> QED BY <1>1, <1>2, <1>3, PathFilter

(* Adding an entry adds its identifier, and changes no other entry.        *)
LEMMA IdsAppend ==
  ASSUME NEW es, NEW e \in EntryRec, Tree(es), Tree(Append(es, e))
  PROVE  /\ IdsOf(Append(es, e)) = IdsOf(es) \cup {e.id}
         /\ Entry(Append(es, e), e.id) = e
         /\ \A n \in IdsOf(es) : n < e.id /\ Entry(Append(es, e), n) = Entry(es, n)
<1> DEFINE t == Append(es, e)
<1>1. /\ Len(es) \in Nat /\ t \in Seq(EntryRec) /\ Len(t) = Len(es) + 1 /\ t[Len(es) + 1] = e
      /\ \A k \in 1..Len(es) : t[k] = es[k]
  BY TreeTypes, AppendProperties
<1>2. DOMAIN t = 1..(Len(es) + 1) /\ DOMAIN es = 1..Len(es)
  BY <1>1, TreeTypes, LenProperties
<1>3. IdsOf(t) = IdsOf(es) \cup {e.id}
  <2>1. 1..(Len(es) + 1) = 1..Len(es) \cup {Len(es) + 1}
    BY <1>1
  <2> HIDE DEF t
  <2> QED BY <1>1, <1>2, <2>1 DEF IdsOf
<1>4. ASSUME NEW m \in IdsOf(es) PROVE m < e.id /\ Entry(t, m) = Entry(es, m)
  <2>1. PICK i \in 1..Len(es) : es[i].id = m /\ Entry(es, m) = es[i]
    BY <1>4, IdOfEntry
  <2>2. i \in 1..Len(t) /\ t[i] = es[i]
    BY <1>1, <2>1
  <2>3. m < e.id
    BY <2>1, TreeAppend, TreeTypes
  <2> QED BY <2>1, <2>2, <2>3, EntryOfId
<1>5. Entry(t, e.id) = e
  <2>1. Len(es) + 1 \in 1..Len(t)
    BY <1>1
  <2> HIDE DEF t
  <2>2. Tree(t)
    BY DEF t
  <2>3. Entry(t, t[Len(es) + 1].id) = t[Len(es) + 1]
    BY <2>1, <2>2, EntryOfId
  <2> QED BY <1>1, <2>3
<1> QED BY <1>3, <1>4, <1>5

LEMMA PathAppendOld ==
  ASSUME NEW es, NEW e \in EntryRec, Tree(es), Tree(Append(es, e)), NEW n \in Nat, n < e.id
  PROVE  Path(Append(es, e), n) = Path(es, n)
<1> DEFINE A == WithId(Ancestors(es, n))
<1>1. Ancestors(Append(es, e), n) = Ancestors(es, n)
  BY AncestorsAppend
<1>2. e.id \notin Ancestors(es, n)
  BY AncestorsOlder, EntryIds
<1>3. e \notin A
  BY <1>2 DEF WithId
<1>4. Filter(Append(es, e), A) = Filter(es, A)
  BY <1>3, TreeTypes, FilterAppend
<1> QED BY <1>1, <1>4, PathFilter

(* A new entry is put behind the path of its parent.                       *)
LEMMA PathAppendNew ==
  ASSUME NEW es, NEW e \in EntryRec, Tree(es), Tree(Append(es, e))
  PROVE  Path(Append(es, e), e.id) = Append(Path(es, e.parent), e)
<1> DEFINE A == Ancestors(es, e.parent)
           t == Append(es, e)
<1>1. e.id \in Nat /\ e.parent \in Nat /\ e.parent < e.id
  BY EntryIds, TreeAppend, TreeTypes
<1>2. Ancestors(t, e.id) = {e.id} \cup A
  <2>1. Ancestors(t, e.id) = {e.id} \cup Ancestors(t, e.parent)
    BY <1>1, IdsAppend, AncestorsStep
  <2> QED BY <1>1, <2>1, AncestorsAppend
<1>3. e \in WithId({e.id} \cup A)
  BY DEF WithId
<1>4. Filter(t, WithId({e.id} \cup A)) = Append(Filter(es, WithId({e.id} \cup A)), e)
  <2> DEFINE B == WithId({e.id} \cup A)
  <2>1. es \in Seq(EntryRec) /\ e \in B
    BY <1>3, TreeTypes
  <2> HIDE DEF B
  <2>2. Filter(t, B) = Append(Filter(es, B), e)
    BY <2>1, FilterAppend
  <2> QED BY <2>2 DEF B
<1>5. Filter(es, WithId({e.id} \cup A)) = Filter(es, WithId(A))
  <2>1. \A i \in 1..Len(es) : es[i].id # e.id
    BY TreeAppend, TreeTypes, EntryIds
  <2>2. \A i \in 1..Len(es) : es[i] \in WithId({e.id} \cup A) <=> es[i] \in WithId(A)
    BY <2>1, TreeTypes DEF WithId
  <2> HIDE DEF A
  <2> QED BY <2>2, TreeTypes, FilterSame
<1>6. Path(t, e.id) = Filter(t, WithId({e.id} \cup A))
  BY <1>1, <1>2, PathFilter
<1>7. Path(es, e.parent) = Filter(es, WithId(A))
  BY <1>1, PathFilter
<1> QED BY <1>4, <1>5, <1>6, <1>7

(* So every entry ends its path, and its parent's path comes before it.    *)
LEMMA PathStep ==
  ASSUME NEW es, Tree(es), NEW n \in IdsOf(es)
  PROVE  Path(es, n) = Append(Path(es, Entry(es, n).parent), Entry(es, n))
<1> DEFINE Good(q, m) == Path(q, m) = Append(Path(q, Entry(q, m).parent), Entry(q, m))
           Q == {q \in Seq(EntryRec) : Tree(q) => \A m \in IdsOf(q) : Good(q, m)}
<1>1. <<>> \in Q
  BY EmptySeq DEF IdsOf
<1>2. ASSUME NEW q \in Seq(EntryRec), NEW e \in EntryRec, q \in Q PROVE Append(q, e) \in Q
  <2> DEFINE t == Append(q, e)
  <2>1. t \in Seq(EntryRec)
    BY AppendProperties
  <2> SUFFICES ASSUME Tree(t), NEW m \in IdsOf(t) PROVE Good(t, m)
    BY <2>1
  <2>2. Tree(q)
    BY TreeAppend
  <2>3. e.id \in Nat /\ e.parent \in Nat /\ e.parent < e.id
    BY EntryIds, TreeAppend
  <2>4. CASE m = e.id
    <3>1. Entry(t, m) = e
      BY <2>2, <2>4, IdsAppend
    <3>2. Path(t, e.parent) = Path(q, e.parent)
      BY <2>2, <2>3, PathAppendOld
    <3> QED BY <2>2, <2>4, <3>1, <3>2, PathAppendNew
  <2>5. CASE m \in IdsOf(q)
    <3>1. Entry(t, m) = Entry(q, m) /\ m < e.id /\ m \in Nat
      BY <2>2, <2>5, IdsAppend, IdOfEntry
    <3>2. Entry(q, m).parent \in Nat /\ Entry(q, m).parent < m
      BY <2>2, <2>5, IdOfEntry
    <3>3. Path(t, m) = Path(q, m)
      BY <2>2, <3>1, PathAppendOld
    <3>4. Path(t, Entry(q, m).parent) = Path(q, Entry(q, m).parent)
      <4>1. Entry(q, m).parent < e.id
        BY <2>3, <3>1, <3>2
      <4> QED BY <2>2, <3>2, <4>1, PathAppendOld
    <3>5. Good(q, m)
      BY <1>2, <2>2, <2>5
    <3> QED BY <3>1, <3>3, <3>4, <3>5
  <2>6. m = e.id \/ m \in IdsOf(q)
    BY <2>2, IdsAppend
  <2> QED BY <2>4, <2>5, <2>6
<1>3. Seq(EntryRec) \subseteq Q
  <2> HIDE DEF Q
  <2> QED BY <1>1, <1>2, SeqInduction
<1> QED BY <1>3, TreeTypes

-----------------------------------------------------------------------------
(* The context of a path                                                   *)

LEMMA Greatest ==
  ASSUME NEW n \in Nat, NEW T, T \subseteq 1..n, T # {}
  PROVE  Max(T) \in T /\ \A m \in T : m <= Max(T)
<1>1. \E x \in T : \A y \in T : x >= y
  <2> DEFINE U == {n - k : k \in T}
  <2>1. U \subseteq Nat /\ U # {}
    <3>1. \A k \in T : n - k \in Nat
      OBVIOUS
    <3> QED BY <3>1
  <2>2. PICK u \in U : \A v \in U : u <= v
    BY <2>1, Least
  <2>3. PICK x \in T : u = n - x
    BY <2>2
  <2>4. \A y \in T : n - y \in U
    OBVIOUS
  <2>5. \A y \in T : n - x <= n - y
    BY <2>2, <2>3, <2>4
  <2>6. \A y \in T : x >= y
    BY <2>5
  <2> QED BY <2>6
<1>2. Max(T) = CHOOSE x \in T : \A y \in T : x >= y
  BY DEF Max
<1>3. Max(T) \in T /\ \A y \in T : Max(T) >= y
  BY <1>1, <1>2
<1> QED BY <1>3

LEMMA Smallest ==
  ASSUME NEW T, T \subseteq Nat, T # {}
  PROVE  Min(T) \in T /\ \A m \in T : Min(T) <= m
<1>1. \E x \in T : \A y \in T : x <= y
  BY Least
<1>2. Min(T) = CHOOSE x \in T : \A y \in T : x <= y
  BY DEF Min
<1> QED BY <1>1, <1>2

(* The last compaction of a path, or 0 if there is none.                   *)
LEMMA LastCompactionIs ==
  ASSUME NEW path \in Seq(EntryRec)
  PROVE  /\ LastCompaction(path) \in 0..Len(path)
         /\ LastCompaction(path) # 0 => path[LastCompaction(path)].type = "compaction"
         /\ \A i \in 1..Len(path) : i > LastCompaction(path) => path[i].type # "compaction"
<1> DEFINE T == Compactions(path)
<1>1. Len(path) \in Nat /\ DOMAIN path = 1..Len(path)
  BY LenProperties
<1>2. T = {i \in 1..Len(path) : path[i].type = "compaction"}
  BY <1>1 DEF Compactions
<1>3. CASE T = {}
  BY <1>1, <1>2, <1>3 DEF LastCompaction
<1>4. CASE T # {}
  <2>1. LastCompaction(path) = Max(T)
    BY <1>4 DEF LastCompaction
  <2>2. T \subseteq 1..Len(path)
    BY <1>2
  <2> HIDE DEF T
  <2>3. Max(T) \in T /\ \A m \in T : m <= Max(T)
    BY <1>1, <1>4, <2>2, Greatest
  <2> DEFINE x == Max(T)
  <2>4. x \in 1..Len(path) /\ x \in T /\ \A m \in T : m <= x
    BY <2>2, <2>3
  <2> HIDE DEF x
  <2>5. \A i \in 1..Len(path) : i > x => i \notin T
    BY <1>1, <2>2, <2>4
  <2> QED BY <1>1, <1>2, <2>1, <2>4, <2>5 DEF x
<1> QED BY <1>3, <1>4

(* That description fits one number only.                                  *)
LEMMA LastCompactionUnique ==
  ASSUME NEW path \in Seq(EntryRec), NEW c \in 0..Len(path),
         c # 0 => path[c].type = "compaction",
         \A i \in 1..Len(path) : i > c => path[i].type # "compaction"
  PROVE  LastCompaction(path) = c
<1> DEFINE d == LastCompaction(path)
<1>1. /\ d \in 0..Len(path)
      /\ d # 0 => path[d].type = "compaction"
      /\ \A i \in 1..Len(path) : i > d => path[i].type # "compaction"
  BY LastCompactionIs
<1> HIDE DEF d
<1>2. Len(path) \in Nat
  BY LenProperties
<1>3. ~ (c < d)
  BY <1>1, <1>2
<1>4. ~ (d < c)
  BY <1>1, <1>2
<1> QED BY <1>1, <1>2, <1>3, <1>4 DEF d

(* Where an identifier stands on a path.                                   *)
LEMMA BoundaryIs ==
  ASSUME NEW path, Tree(path), NEW ref
  PROVE  \/ /\ Boundary(path, ref) = 0
            /\ \A i \in 1..Len(path) : path[i].id # ref
         \/ /\ Boundary(path, ref) \in 1..Len(path)
            /\ path[Boundary(path, ref)].id = ref
<1> DEFINE T == {i \in DOMAIN path : path[i].id = ref}
<1>1. Len(path) \in Nat /\ DOMAIN path = 1..Len(path)
  BY TreeTypes
<1>2. CASE T = {}
  <2>1. Boundary(path, ref) = 0
    BY <1>2 DEF Boundary
  <2> QED BY <1>1, <1>2, <2>1
<1>3. CASE T # {}
  <2>1. Boundary(path, ref) = Min(T)
    BY <1>3 DEF Boundary
  <2>2. T \subseteq Nat /\ \A i \in T : i \in 1..Len(path) /\ path[i].id = ref
    BY <1>1
  <2> HIDE DEF T
  <2>3. Min(T) \in T
    BY <1>3, <2>2, Smallest
  <2> QED BY <2>1, <2>2, <2>3
<1> QED BY <1>2, <1>3

LEMMA BoundaryAt ==
  ASSUME NEW path, Tree(path), NEW b \in 1..Len(path)
  PROVE  Boundary(path, path[b].id) = b
<1> DEFINE d == Boundary(path, path[b].id)
<1>1. d \in 1..Len(path) /\ path[d].id = path[b].id
  BY BoundaryIs
<1> HIDE DEF d
<1>2. d = b
  BY <1>1, TreeUnique
<1> QED BY <1>2 DEF d

(* Where the context of a path begins, behind the summary: the entries     *)
(* from there are shown, except the summary itself.                        *)
LEMMA BoundaryStartIs ==
  ASSUME NEW path, Tree(path)
  PROVE  LET c == LastCompaction(path)
             b == BoundaryStart(path)
         IN  /\ c \in 0..Len(path)
             /\ c = 0 => b = 1
             /\ c # 0 => b \in 1..(c + 1) /\ b # c
             /\ b \in 1..(Len(path) + 1)
             /\ c # 0 => Kept(path, c) = SubSeq(path, b, c - 1)
<1> DEFINE c == LastCompaction(path)
           b == BoundaryStart(path)
           d == Boundary(path, path[c].ref)
<1>1. path \in Seq(EntryRec) /\ Len(path) \in Nat
  BY TreeTypes
<1>2. c \in 0..Len(path)
  BY <1>1, LastCompactionIs
<1>3. CASE c = 0
  <2>1. b = 1
    BY <1>3 DEF BoundaryStart
  <2> HIDE DEF c, b
  <2>2. b \in 1..(Len(path) + 1)
    BY <1>1, <2>1
  <2> QED BY <1>2, <1>3, <2>1, <2>2 DEF c, b
<1>4. CASE c # 0
  <2>1. c \in 1..Len(path)
    BY <1>1, <1>2, <1>4
  <2>2. b = IF d = 0 THEN c + 1 ELSE d
    BY <1>4 DEF BoundaryStart
  <2>3. Kept(path, c) = IF d \in 1..(c - 1) THEN SubSeq(path, d, c - 1) ELSE <<>>
    BY DEF Kept
  <2> HIDE DEF c, b
  <2>4. path[c].ref < path[c].id /\ path[c].ref \in Nat /\ path[c].id \in Nat
    BY <2>1, TreeTypes
  <2>5. CASE d = 0
    <3>1. b = c + 1 /\ Kept(path, c) = <<>>
      BY <2>1, <2>2, <2>3, <2>5
    <3>2. SubSeq(path, b, c - 1) = <<>>
      BY <2>1, <3>1, SubSeqEmpty
    <3>3. b \in 1..(c + 1) /\ b # c /\ b \in 1..(Len(path) + 1)
      BY <1>1, <2>1, <3>1
    <3> QED BY <1>2, <1>4, <3>1, <3>2, <3>3 DEF c, b
  <2>6. CASE d # 0
    <3>1. d \in 1..Len(path) /\ path[d].id = path[c].ref
      BY <2>6, BoundaryIs
    <3> HIDE DEF d
    <3>2. d < c
      <4>1. d # c
        BY <2>4, <3>1
      <4>2. ~ (c < d)
        <5>1. c < d => path[c].id < path[d].id
          BY <2>1, <3>1 DEF Tree
        <5> QED BY <2>4, <3>1, <5>1
      <4> QED BY <1>1, <2>1, <3>1, <4>1, <4>2
    <3>3. b = d /\ d \in 1..(c - 1)
      BY <2>1, <2>2, <2>6, <3>1, <3>2
    <3>4. Kept(path, c) = SubSeq(path, b, c - 1)
      BY <2>3, <3>3
    <3>5. b \in 1..(c + 1) /\ b # c /\ b \in 1..(Len(path) + 1)
      BY <1>1, <2>1, <3>1, <3>2, <3>3
    <3> QED BY <1>2, <1>4, <3>4, <3>5 DEF c, b
  <2> QED BY <2>5, <2>6
<1> QED BY <1>3, <1>4

(* Parts of a sequence that has grown by one element.                      *)
LEMMA SubSeqType ==
  ASSUME NEW S, NEW s \in Seq(S), NEW a \in Nat \ {0}, NEW z \in Nat, z <= Len(s)
  PROVE  /\ SubSeq(s, a, z) \in Seq(S)
         /\ Len(SubSeq(s, a, z)) = IF a <= z THEN z - a + 1 ELSE 0
         /\ \A i \in 1..(z - a + 1) : SubSeq(s, a, z)[i] = s[a + i - 1]
<1>1. Len(s) \in Nat /\ \A i \in 1..Len(s) : s[i] \in S
  BY LenProperties, ElementOfSeq
<1>2. a \in Int /\ z \in Int /\ \A i \in a..z : s[i] \in S
  BY <1>1
<1> HIDE <1>1
<1> QED BY <1>2, SubSeqProperties

LEMMA SubSeqAppendIn ==
  ASSUME NEW S, NEW s \in Seq(S), NEW e \in S, NEW a \in Nat \ {0}, NEW z \in Nat, z <= Len(s)
  PROVE  SubSeq(Append(s, e), a, z) = SubSeq(s, a, z)
<1> DEFINE t == Append(s, e)
<1>1. Len(s) \in Nat /\ t \in Seq(S) /\ Len(t) = Len(s) + 1 /\ \A k \in 1..Len(s) : t[k] = s[k]
  BY AppendProperties, LenProperties
<1> HIDE DEF t
<1>2. z <= Len(t)
  BY <1>1
<1>3. /\ SubSeq(s, a, z) \in Seq(S)
      /\ Len(SubSeq(s, a, z)) = IF a <= z THEN z - a + 1 ELSE 0
      /\ \A i \in 1..(z - a + 1) : SubSeq(s, a, z)[i] = s[a + i - 1]
  BY SubSeqType
<1>4. /\ SubSeq(t, a, z) \in Seq(S)
      /\ Len(SubSeq(t, a, z)) = IF a <= z THEN z - a + 1 ELSE 0
      /\ \A i \in 1..(z - a + 1) : SubSeq(t, a, z)[i] = t[a + i - 1]
  BY <1>1, <1>2, SubSeqType
<1>5. \A i \in 1..(z - a + 1) : t[a + i - 1] = s[a + i - 1]
  <2> TAKE i \in 1..(z - a + 1)
  <2>1. a + i - 1 \in 1..Len(s)
    BY <1>1
  <2> QED BY <1>1, <2>1
<1> DEFINE u == SubSeq(s, a, z)
           v == SubSeq(t, a, z)
<1>6. Len(u) = Len(v) /\ \A i \in 1..Len(u) : i \in 1..(z - a + 1)
  BY <1>3, <1>4
<1>7. \A i \in 1..Len(u) : v[i] = u[i]
  BY <1>3, <1>4, <1>5, <1>6
<1>8. u \in Seq(S) /\ v \in Seq(S)
  BY <1>3, <1>4
<1> HIDE DEF u, v
<1>9. u = v
  BY <1>6, <1>7, <1>8, SeqEqual
<1> QED BY <1>9 DEF u, v, t

LEMMA SubSeqAppendEnd ==
  ASSUME NEW S, NEW s \in Seq(S), NEW e \in S, NEW a \in 1..(Len(s) + 1)
  PROVE  SubSeq(Append(s, e), a, Len(s) + 1) = Append(SubSeq(s, a, Len(s)), e)
<1> DEFINE t == Append(s, e)
           n == Len(s)
<1>1. n \in Nat /\ t \in Seq(S) /\ Len(t) = n + 1 /\ t[n + 1] = e
  BY AppendProperties, LenProperties
<1> HIDE DEF t
<1>2. a \in 1..Len(t) /\ n + 1 \in a..Len(t) /\ (n + 1) - 1 = n
  BY <1>1
<1>3. SubSeq(t, a, n + 1) = SubSeq(t, a, (n + 1) - 1) \o <<t[n + 1]>>
  BY <1>1, <1>2, SubSeqRecursiveSecond
<1>4. SubSeq(t, a, n) = SubSeq(s, a, n)
  <2>1. a \in Nat \ {0} /\ n <= Len(s)
    BY <1>1
  <2> QED BY <1>1, <2>1, SubSeqAppendIn DEF t
<1>5. SubSeq(s, a, n) \in Seq(S)
  <2>1. a \in Nat \ {0} /\ n <= Len(s)
    BY <1>1
  <2> QED BY <1>1, <2>1, SubSeqType
<1>6. SubSeq(s, a, n) \o <<e>> = Append(SubSeq(s, a, n), e)
  <2> DEFINE u == SubSeq(s, a, n)
  <2> HIDE DEF u
  <2>1. u \in Seq(S)
    BY <1>5 DEF u
  <2>2. u \o <<e>> = Append(u, e)
    BY <2>1, AppendIsConcat
  <2> QED BY <2>2 DEF u
<1> QED BY <1>1, <1>2, <1>3, <1>4, <1>6 DEF t

(* The context is the last summary and what stands from the boundary on.   *)
LEMMA ContextEntriesIs ==
  ASSUME NEW path, Tree(path)
  PROVE  LET c == LastCompaction(path)
             b == BoundaryStart(path)
             n == Len(path)
         IN  /\ ContextEntries(path) =
                  IF c = 0 THEN path ELSE <<path[c]>> \o SubSeq(path, b, c - 1) \o SubSeq(path, c + 1, n)
             /\ ContextEntries(path) \in Seq(EntryRec)
<1> DEFINE c == LastCompaction(path)
           b == BoundaryStart(path)
           n == Len(path)
<1>1. path \in Seq(EntryRec) /\ n \in Nat
  BY TreeTypes
<1>2. c \in 0..n /\ b \in 1..(n + 1) /\ c # 0 => Kept(path, c) = SubSeq(path, b, c - 1)
  BY BoundaryStartIs
<1>3. c # 0 => Kept(path, c) = SubSeq(path, b, c - 1)
  BY BoundaryStartIs
<1>4. c \in 0..n /\ b \in 1..(n + 1)
  BY BoundaryStartIs
<1>5. ContextEntries(path) = IF c = 0 THEN path ELSE <<path[c]>> \o Kept(path, c) \o SubSeq(path, c + 1, n)
  BY DEF ContextEntries, From
<1> HIDE DEF c, b
<1>6. ASSUME c # 0
      PROVE  <<path[c]>> \o SubSeq(path, b, c - 1) \o SubSeq(path, c + 1, n) \in Seq(EntryRec)
  <2>1. c - 1 \in Nat /\ c - 1 <= n /\ b \in Nat \ {0} /\ c + 1 \in Nat \ {0} /\ c \in 1..n
    BY <1>1, <1>4, <1>6
  <2>2. SubSeq(path, b, c - 1) \in Seq(EntryRec) /\ SubSeq(path, c + 1, n) \in Seq(EntryRec)
    BY <1>1, <2>1, SubSeqType
  <2>3. path[c] \in EntryRec
    BY <1>1, <2>1, ElementOfSeq
  <2>4. <<path[c]>> \in Seq(EntryRec)
    BY <2>3
  <2> QED BY <2>2, <2>4, ConcatProperties
<1>7. ContextEntries(path) = IF c = 0 THEN path ELSE <<path[c]>> \o SubSeq(path, b, c - 1) \o SubSeq(path, c + 1, n)
  BY <1>3, <1>5
<1>8. ContextEntries(path) \in Seq(EntryRec)
  BY <1>1, <1>6, <1>7
<1> QED BY <1>7, <1>8 DEF c, b

(* What is no summary leaves boundary and summary where they are.          *)
LEMMA BoundaryAppend ==
  ASSUME NEW path, NEW e \in EntryRec, Tree(path), Tree(Append(path, e)), NEW r, r # e.id
  PROVE  Boundary(Append(path, e), r) = Boundary(path, r)
<1> DEFINE t == Append(path, e)
           n == Len(path)
           b == Boundary(path, r)
<1>1. n \in Nat /\ Len(t) = n + 1 /\ t[n + 1] = e /\ \A k \in 1..n : t[k] = path[k]
  BY TreeTypes, AppendProperties
<1>2. Tree(t)
  OBVIOUS
<1> HIDE DEF t
<1>3. CASE b = 0 /\ \A i \in 1..n : path[i].id # r
  <2>1. \A i \in 1..Len(t) : i = n + 1 \/ i \in 1..n
    BY <1>1
  <2>2. \A i \in 1..Len(t) : t[i].id # r
    BY <1>1, <1>3, <2>1
  <2>3. Boundary(t, r) = 0
    BY <1>2, <2>2, BoundaryIs
  <2> QED BY <1>3, <2>3 DEF t
<1>4. CASE b \in 1..n /\ path[b].id = r
  <2> HIDE DEF b
  <2>1. b \in 1..Len(t) /\ t[b].id = r
    BY <1>1, <1>4
  <2>2. Boundary(t, r) = b
    BY <1>2, <2>1, BoundaryAt
  <2> QED BY <2>2 DEF t, b
<1> QED BY <1>3, <1>4, BoundaryIs

LEMMA BoundaryStartAppend ==
  ASSUME NEW path, NEW e \in EntryRec, Tree(path), Tree(Append(path, e)), e.type # "compaction"
  PROVE  /\ LastCompaction(Append(path, e)) = LastCompaction(path)
         /\ BoundaryStart(Append(path, e)) = BoundaryStart(path)
<1> DEFINE t == Append(path, e)
           n == Len(path)
           c == LastCompaction(path)
<1>1. /\ n \in Nat /\ t \in Seq(EntryRec) /\ Len(t) = n + 1 /\ t[n + 1] = e
      /\ \A k \in 1..n : t[k] = path[k]
  BY TreeTypes, AppendProperties
<1>2. /\ c \in 0..n
      /\ c # 0 => path[c].type = "compaction"
      /\ \A i \in 1..n : i > c => path[i].type # "compaction"
  BY TreeTypes, LastCompactionIs
<1> HIDE DEF t, c
<1>3. \A i \in 1..Len(t) : i = n + 1 \/ i \in 1..n
  BY <1>1
<1>4. c \in 0..Len(t) /\ c # 0 => t[c].type = "compaction"
  BY <1>1, <1>2
<1>5. \A i \in 1..Len(t) : i > c => t[i].type # "compaction"
  BY <1>1, <1>2, <1>3
<1>6. c \in 0..Len(t)
  BY <1>1, <1>2
<1>7. LastCompaction(t) = c
  BY <1>1, <1>4, <1>5, <1>6, LastCompactionUnique
<1>8. CASE c = 0
  BY <1>7, <1>8 DEF BoundaryStart, t, c
<1>9. CASE c # 0
  <2>1. c \in 1..n /\ t[c] = path[c]
    BY <1>1, <1>2, <1>9
  <2>2. path[c].ref < path[c].id /\ path[c].ref \in Nat /\ path[c].id \in Nat
    BY <2>1, TreeTypes
  <2>3. path[c].id < e.id
    BY <2>1, TreeTypes, TreeAppend
  <2>4. path[c].ref # e.id
    BY <2>2, <2>3, EntryIds
  <2>5. Boundary(t, path[c].ref) = Boundary(path, path[c].ref)
    BY <2>4, BoundaryAppend DEF t
  <2> QED BY <1>7, <1>9, <2>1, <2>5 DEF BoundaryStart, t, c
<1> QED BY <1>7, <1>8, <1>9 DEF t, c

LEMMA ContextEntriesAppend ==
  ASSUME NEW path, NEW e \in EntryRec, Tree(path), Tree(Append(path, e)), e.type # "compaction"
  PROVE  ContextEntries(Append(path, e)) = Append(ContextEntries(path), e)
<1> DEFINE t == Append(path, e)
           n == Len(path)
           c == LastCompaction(path)
           b == BoundaryStart(path)
<1>1. /\ n \in Nat /\ path \in Seq(EntryRec) /\ t \in Seq(EntryRec) /\ Len(t) = n + 1
      /\ \A k \in 1..n : t[k] = path[k]
  BY TreeTypes, AppendProperties
<1>2. LastCompaction(t) = c /\ BoundaryStart(t) = b
  BY BoundaryStartAppend
<1>3. c \in 0..n /\ b \in 1..(n + 1)
  BY BoundaryStartIs
<1>4. ContextEntries(path) = IF c = 0 THEN path ELSE <<path[c]>> \o SubSeq(path, b, c - 1) \o SubSeq(path, c + 1, n)
  BY ContextEntriesIs
<1>5. ContextEntries(t) = IF c = 0 THEN t ELSE <<t[c]>> \o SubSeq(t, b, c - 1) \o SubSeq(t, c + 1, n + 1)
  BY <1>1, <1>2, ContextEntriesIs
<1> HIDE DEF c, b
<1>6. CASE c = 0
  BY <1>4, <1>5, <1>6
<1>7. CASE c # 0
  <2> DEFINE k == SubSeq(path, b, c - 1)
             f == SubSeq(path, c + 1, n)
  <2>1. c \in 1..n /\ c - 1 \in Nat /\ c - 1 <= n /\ b \in Nat \ {0} /\ c + 1 \in 1..(n + 1) /\ c + 1 \in Nat \ {0}
    BY <1>1, <1>3, <1>7
  <2>2. SubSeq(t, b, c - 1) = k
    BY <1>1, <2>1, SubSeqAppendIn
  <2>3. SubSeq(t, c + 1, n + 1) = Append(f, e)
    BY <1>1, <2>1, SubSeqAppendEnd
  <2>4. t[c] = path[c]
    BY <1>1, <2>1
  <2>5. k \in Seq(EntryRec) /\ f \in Seq(EntryRec) /\ path[c] \in EntryRec
    BY <1>1, <2>1, SubSeqType, ElementOfSeq
  <2> HIDE DEF k, f, t
  <2>6. <<path[c]>> \o k \o Append(f, e) = Append(<<path[c]>> \o k \o f, e)
    BY <2>5
  <2> QED BY <1>4, <1>5, <1>7, <2>2, <2>3, <2>4, <2>6 DEF k, f, t
<1> QED BY <1>6, <1>7

-----------------------------------------------------------------------------
(* The session and its file                                                *)

LEMMA LastIdIs ==
  ASSUME NEW es, Tree(es)
  PROVE  /\ LastId(es) \in Nat /\ LastId(es) \in 0..MaxEntries
         /\ es = <<>> => LastId(es) = 0
         /\ es # <<>> => Len(es) \in 1..Len(es) /\ LastId(es) = es[Len(es)].id
         /\ \A i \in 1..Len(es) : es[i].id <= LastId(es)
<1>1. es \in Seq(EntryRec) /\ Len(es) \in Nat
  BY TreeTypes
<1>2. CASE es = <<>>
  BY <1>2, SessionLogAssumption DEF LastId
<1>3. CASE es # <<>>
  <2>1. Len(es) \in 1..Len(es)
    BY <1>1, <1>3, EmptySeq
  <2>2. LastId(es) = es[Len(es)].id
    BY <1>3 DEF LastId, Last
  <2>3. es[Len(es)] \in EntryRec
    BY <1>1, <2>1, ElementOfSeq
  <2>4. LastId(es) \in Nat /\ LastId(es) \in 1..MaxEntries
    BY <2>2, <2>3, EntryIds
  <2>5. ASSUME NEW i \in 1..Len(es) PROVE es[i].id <= LastId(es)
    <3>1. CASE i = Len(es)
      BY <2>2, <2>4, <3>1
    <3>2. CASE i < Len(es)
      <4>1. es[i].id < es[Len(es)].id /\ es[i].id \in Nat
        BY <2>1, <3>2, TreeTypes DEF Tree
      <4> QED BY <2>2, <2>4, <4>1
    <3> QED BY <1>1, <3>1, <3>2
  <2> QED BY <1>3, <2>1, <2>2, <2>4, <2>5
<1> QED BY <1>2, <1>3

LEMMA LineTypes ==
  /\ TornLine \in Lines /\ GarbledLine \in Lines /\ OpenLine \in Lines /\ EntryRec \subseteq Lines
  /\ TornLine \notin EntryRec /\ GarbledLine \notin EntryRec /\ OpenLine \notin EntryRec
  /\ TornLine # GarbledLine /\ TornLine # OpenLine /\ GarbledLine # OpenLine
<1>1. /\ TornLine.id = 0 /\ GarbledLine.id = 0 /\ OpenLine.id = 0
      /\ TornLine.type = "torn" /\ GarbledLine.type = "garbled" /\ OpenLine.type = "open"
  BY DEF TornLine, GarbledLine, OpenLine
<1>2. \A e \in EntryRec : e.id # 0
  BY EntryIds
<1>3. TornLine \notin EntryRec /\ GarbledLine \notin EntryRec /\ OpenLine \notin EntryRec
  BY <1>1, <1>2
<1>4. TornLine # GarbledLine /\ TornLine # OpenLine /\ GarbledLine # OpenLine
  BY <1>1
<1> QED BY <1>3, <1>4 DEF Lines

(* The files that are not read line by line: none, and a refused one.      *)
LEMMA NoLines ==
  ASSUME NEW f \in {NoFile, VoidFile}
  PROVE  /\ f \notin Seq(Lines) /\ f # <<>> /\ f # <<OpenLine>>
         /\ ~ EndsWith(f, TornLine) /\ ~ EndsWith(f, OpenLine) /\ Readable(f) = <<>>
         /\ NoFile # VoidFile
<1> DEFINE none == [id |-> 0, type |-> "none"]
           void == [id |-> 0, type |-> "void"]
<1>1. none.id = 0 /\ none.type = "none" /\ void.id = 0 /\ void.type = "void"
  OBVIOUS
<1>2. NoFile = <<none>> /\ VoidFile = <<void>>
  BY DEF NoFile, VoidFile
<1>3. /\ TornLine.id = 0 /\ GarbledLine.id = 0 /\ OpenLine.id = 0
      /\ TornLine.type = "torn" /\ GarbledLine.type = "garbled" /\ OpenLine.type = "open"
  BY DEF TornLine, GarbledLine, OpenLine
<1> HIDE DEF none, void
<1>4. none # void /\ none \notin Lines /\ void \notin Lines
  BY <1>1, <1>3, EntryIds DEF Lines
<1>5. PICK x : f = <<x>> /\ x.id = 0 /\ x \notin Lines
  BY <1>1, <1>2, <1>4
<1>6. f # <<>> /\ Len(f) = 1 /\ f[1] = x /\ f \in Seq({x})
  BY <1>5
<1>7. f \notin Seq(Lines) /\ f # <<OpenLine>>
  <2>1. ASSUME f \in Seq(Lines) PROVE FALSE
    <3>1. f[1] \in Lines
      BY <1>6, <2>1, ElementOfSeq
    <3> QED BY <1>5, <1>6, <3>1
  <2>2. <<OpenLine>> \in Seq(Lines)
    BY LineTypes
  <2> QED BY <2>1, <2>2
<1>8. ~ EndsWith(f, TornLine) /\ ~ EndsWith(f, OpenLine)
  BY <1>5, <1>6, LineTypes DEF EndsWith
<1> DEFINE I == {i \in DOMAIN f : f[i].id # 0}
<1>9. 1 \notin I
  BY <1>5, <1>6
<1> HIDE DEF I
<1>10. PICK g : IsSelect(g, f, I) /\ Select(f, I) = g[Len(f)]
  BY <1>6, SelectDefined
<1>11. Select(f, I) = <<>>
  <2>1. 0 \in 0..Len(f) /\ 1 \in 0..Len(f) /\ 1 - 1 = 0 /\ 1 # 0
    BY <1>6
  <2>2. g[0] = <<>> /\ g[1] = g[0]
    BY <1>9, <1>10, <2>1 DEF IsSelect
  <2> QED BY <1>6, <1>10, <2>2
<1>12. Readable(f) = <<>>
  BY <1>11 DEF Readable, I
<1>13. NoFile # VoidFile
  <2>1. NoFile[1] = none /\ VoidFile[1] = void
    BY <1>2
  <2> QED BY <1>4, <2>1
<1> QED BY <1>6, <1>7, <1>8, <1>12, <1>13

(* The first entries of a tree are one.                                    *)
LEMMA TreePrefix ==
  ASSUME NEW es, Tree(es), NEW k \in 0..Len(es)
  PROVE  /\ Tree(SubSeq(es, 1, k)) /\ Len(SubSeq(es, 1, k)) = k
         /\ \A i \in 1..k : SubSeq(es, 1, k)[i] = es[i]
<1> DEFINE u == SubSeq(es, 1, k)
<1>1. es \in Seq(EntryRec) /\ Len(es) \in Nat
  BY TreeTypes
<1>2. k \in Nat /\ k <= Len(es) /\ 1 \in Nat \ {0}
  BY <1>1
<1>3. /\ u \in Seq(EntryRec) /\ Len(u) = IF 1 <= k THEN k - 1 + 1 ELSE 0
      /\ \A i \in 1..(k - 1 + 1) : u[i] = es[1 + i - 1]
  BY <1>1, <1>2, SubSeqType
<1> HIDE DEF u
<1>4. Len(u) = k /\ \A i \in 1..k : i \in 1..Len(es) /\ u[i] = es[i]
  BY <1>1, <1>2, <1>3
<1>5. \A i \in 1..Len(u) : u[i].parent < u[i].id /\ u[i].ref < u[i].id
  BY <1>4 DEF Tree
<1>6. \A i, j \in 1..Len(u) : i < j => u[i].id < u[j].id
  BY <1>4 DEF Tree
<1>7. Tree(u)
  BY <1>3, <1>5, <1>6 DEF Tree
<1> QED BY <1>4, <1>7 DEF u

(* What a reader makes of a line that is added behind a whole one, ...     *)
LEMMA ReadableAppend ==
  ASSUME NEW f \in Seq(Lines), NEW x \in Lines
  PROVE  Readable(Append(f, x)) = IF x \in EntryRec THEN Append(Readable(f), x) ELSE Readable(f)
<1>1. Append(f, x) \in Seq(Lines)
  BY AppendProperties
<1>2. Filter(Append(f, x), EntryRec) = IF x \in EntryRec THEN Append(Filter(f, EntryRec), x) ELSE Filter(f, EntryRec)
  BY FilterAppend
<1> QED BY <1>1, <1>2, ReadableFilter

(* A sequence with its last element taken off, ...                         *)
LEMMA FrontAppend ==
  ASSUME NEW S, NEW s \in Seq(S), NEW e \in S
  PROVE  Front(Append(s, e)) = s /\ Last(Append(s, e)) = e
<1> DEFINE t == Append(s, e)
           n == Len(s)
           u == SubSeq(t, 1, n)
<1>1. n \in Nat /\ t \in Seq(S) /\ Len(t) = n + 1 /\ t[n + 1] = e /\ \A k \in 1..n : t[k] = s[k]
  BY AppendProperties, LenProperties
<1> HIDE DEF t
<1>2. n <= Len(t) /\ 1 \in Nat \ {0}
  BY <1>1
<1>3. /\ u \in Seq(S) /\ Len(u) = IF 1 <= n THEN n - 1 + 1 ELSE 0
      /\ \A i \in 1..(n - 1 + 1) : u[i] = t[1 + i - 1]
  BY <1>1, <1>2, SubSeqType
<1> HIDE DEF u
<1>4. Len(u) = n /\ \A i \in 1..n : u[i] = s[i]
  BY <1>1, <1>3
<1>5. u = s
  BY <1>3, <1>4, SeqEqual
<1>6. Front(t) = SubSeq(t, 1, n) /\ Last(t) = e
  BY <1>1 DEF Front, Last
<1> QED BY <1>5, <1>6 DEF t, u

(* ... and every one that is not empty is such an extension.               *)
LEMMA FrontLast ==
  ASSUME NEW S, NEW s \in Seq(S), s # <<>>
  PROVE  /\ Front(s) \in Seq(S) /\ Last(s) \in S /\ s = Append(Front(s), Last(s))
         /\ Last(s) = s[Len(s)] /\ Len(s) = Len(Front(s)) + 1 /\ Len(Front(s)) \in Nat
<1>1. PICK t \in Seq(S), e \in S : s = Append(t, e)
  BY SequenceEmptyOrAppend
<1>2. Front(s) = t /\ Last(s) = e
  BY <1>1, FrontAppend
<1>3. Len(t) \in Nat /\ Len(s) = Len(t) + 1 /\ s[Len(t) + 1] = e
  BY <1>1, AppendProperties, LenProperties
<1> QED BY <1>1, <1>2, <1>3

LEMMA EndsWithAppend ==
  ASSUME NEW f \in Seq(Lines), NEW x \in Lines
  PROVE  Append(f, x) \in Seq(Lines) /\ \A l : EndsWith(Append(f, x), l) <=> x = l
<1>1. /\ Len(f) \in Nat /\ Append(f, x) # <<>> /\ Len(Append(f, x)) = Len(f) + 1
      /\ Append(f, x)[Len(f) + 1] = x /\ Append(f, x) \in Seq(Lines)
  BY AppendProperties, LenProperties
<1> QED BY <1>1 DEF EndsWith

LEMMA EndsWithLast ==
  ASSUME NEW f \in Seq(Lines), NEW l, EndsWith(f, l)
  PROVE  f # <<>> /\ Front(f) \in Seq(Lines) /\ f = Append(Front(f), l) /\ l \in Lines
<1>1. f # <<>> /\ f[Len(f)] = l
  BY DEF EndsWith
<1> QED BY <1>1, FrontLast

(* A file of entries ends with none of the other lines.                    *)
LEMMA EntriesEnd ==
  ASSUME NEW es \in Seq(EntryRec)
  PROVE  es \in Seq(Lines) /\ Readable(es) = es /\ \A l \in Lines \ EntryRec : ~ EndsWith(es, l)
<1>1. es \in Seq(Lines)
  BY LineTypes, SeqMonotonic
<1>2. Readable(es) = es
  BY <1>1, ReadableFilter, FilterAll
<1>3. ASSUME NEW l, EndsWith(es, l) PROVE l \in EntryRec
  <2>1. es # <<>> /\ es[Len(es)] = l
    BY <1>3 DEF EndsWith
  <2> QED BY <2>1, FrontLast
<1> QED BY <1>1, <1>2, <1>3

(* ... a file that lost its last line's end, as well as what is read of it. *)
LEMMA OpenEnd ==
  ASSUME NEW f \in Seq(Lines), EndsWith(f, OpenLine), Len(f) > 1, f[Len(f) - 1] \in EntryRec
  PROVE  LET p == Front(Front(f))
             x == f[Len(f) - 1]
         IN  /\ p \in Seq(Lines) /\ Readable(p) \in Seq(EntryRec)
             /\ Readable(f) = Append(Readable(p), x) /\ Len(f) - 1 \in DOMAIN f
<1> DEFINE q == Front(f)
<1>1. q \in Seq(Lines) /\ f = Append(q, OpenLine) /\ OpenLine \in Lines
  BY EndsWithLast
<1> HIDE DEF q
<1>2. Len(q) \in Nat /\ Len(f) = Len(q) + 1 /\ \A i \in 1..Len(q) : f[i] = q[i]
  BY <1>1, AppendProperties, LenProperties
<1>3. Len(f) - 1 = Len(q) /\ Len(q) >= 1 /\ q[Len(q)] = f[Len(f) - 1] /\ Len(f) - 1 \in DOMAIN f
  BY <1>2, LenProperties
<1>4. q # <<>>
  BY <1>3, EmptySeq
<1>5. Front(q) \in Seq(Lines) /\ q = Append(Front(q), Last(q)) /\ Last(q) = q[Len(q)]
  BY <1>1, <1>4, FrontLast
<1>6. Last(q) = f[Len(f) - 1]
  BY <1>3, <1>5
<1>7. Readable(f) = Readable(q)
  BY <1>1, LineTypes, ReadableAppend
<1> DEFINE p == Front(q)
           x == Last(q)
<1>8. p \in Seq(Lines) /\ q = Append(p, x) /\ x \in EntryRec /\ x \in Lines
  BY <1>5, <1>6, LineTypes
<1> HIDE DEF p, x
<1>9. Readable(q) = Append(Readable(p), x)
  BY <1>8, ReadableAppend
<1>10. Readable(p) \in Seq(EntryRec)
  <2>1. Filter(p, EntryRec) \in Seq(Lines \cap EntryRec)
    BY <1>8, FilterType
  <2>2. Lines \cap EntryRec = EntryRec
    BY LineTypes
  <2> QED BY <1>8, <2>1, <2>2, ReadableFilter
<1> QED BY <1>3, <1>6, <1>7, <1>8, <1>9, <1>10 DEF p, q, x

LogInv ==
  /\ Tree(entries) /\ \A i \in 1..Len(entries) : entries[i].id < next
  /\ next \in 1..(MaxEntries + 1)
  /\ leaf \in 0..MaxEntries /\ leaf < next

(* A compaction that is being prepared, or none.                           *)
Comps == [ref : 0..MaxEntries, covers : SUBSET (1..MaxEntries), retry : BOOLEAN]

DroppedInv == dropped \in SUBSET (1..MaxEntries) /\ \A n \in dropped : n < next

ControlInv ==
  /\ turn \in Turns /\ pending \in BOOLEAN /\ flushed \in BOOLEAN
  /\ comp \in Comps /\ comp.ref < next
  /\ DroppedInv

(* How many entries each end of a file may still cost.                     *)
Counted(f, gone, cuts) ==
  /\ Cardinality(gone) <= 2 * cuts
  /\ EndsWith(f, TornLine) => Cardinality(gone) + 1 <= 2 * cuts
  /\ EndsWith(f, OpenLine) => Cardinality(gone) + 2 <= 2 * cuts

(* The line without an end is that of an entry, or the header.             *)
OpenEntry(f) == EndsWith(f, OpenLine) /\ Len(f) > 1 => f[Len(f) - 1] \in EntryRec

(* An entry behind a line without an end has not been lost yet.            *)
FileInv ==
  /\ IF flushed THEN file = VoidFile \/ (file \in Seq(Lines) /\ OpenEntry(file))
     ELSE file = NoFile /\ lost = {}
  /\ tears \in Nat /\ IsFiniteSet(lost) /\ \A n \in lost : n \in Nat /\ n < next
  /\ file # VoidFile => Counted(file, lost, tears)
  /\ file \in {<<OpenLine>>, VoidFile} => IdsOf(entries) \subseteq lost
  /\ FileIsMemory

(* An entry that may be appended now.                                      *)
Fresh(e) == e \in EntryRec /\ e.id = next /\ e.parent < next /\ e.ref < next

LEMMA FreshEntry ==
  ASSUME LogInv, next <= MaxEntries, NEW parent \in 0..MaxEntries, parent < next,
         NEW type \in EntryTypes, NEW ref \in 0..MaxEntries, ref < next,
         NEW covers \in SUBSET (1..MaxEntries)
  PROVE  /\ Fresh(NewEntry(parent, type, ref, covers))
         /\ NewEntry(parent, type, ref, covers).type = type
         /\ NewEntry(parent, type, ref, covers).parent = parent
         /\ NewEntry(parent, type, ref, covers).ref = ref
         /\ NewEntry(parent, type, ref, covers).covers = covers
<1>1. next \in 1..MaxEntries
  BY SessionLogAssumption DEF LogInv
<1> QED BY <1>1 DEF Fresh, NewEntry, EntryRec

LEMMA FreshAppends ==
  ASSUME LogInv, NEW e, Fresh(e)
  PROVE  /\ e \in EntryRec /\ Tree(entries) /\ Tree(Append(entries, e))
         /\ e.id \notin IdsOf(entries) /\ e.id \in Nat /\ e.parent \in Nat /\ e.parent < e.id
<1>1. e \in EntryRec /\ e.id = next /\ e.parent < e.id /\ e.ref < e.id
  BY DEF Fresh
<1>2. Tree(entries) /\ entries \in Seq(EntryRec) /\ \A i \in 1..Len(entries) : entries[i].id < e.id
  BY <1>1, TreeTypes DEF LogInv
<1>3. Tree(Append(entries, e))
  BY <1>1, <1>2, TreeAppend
<1>4. e.id \notin IdsOf(entries)
  <2>1. e.id \in Nat /\ DOMAIN entries = 1..Len(entries)
    BY <1>1, <1>2, EntryIds, LenProperties
  <2>2. \A i \in 1..Len(entries) : entries[i].id # e.id
    <3>1. \A i \in 1..Len(entries) : entries[i].id \in Nat
      BY <1>2, TreeTypes
    <3> QED BY <1>2, <2>1, <3>1
  <2> QED BY <2>1, <2>2 DEF IdsOf
<1> QED BY <1>1, <1>2, <1>3, <1>4, EntryIds

LEMMA AddEntryLog ==
  ASSUME LogInv, NEW e, Fresh(e), AddEntry(e)
  PROVE  LogInv' /\ next < next' /\ next' = next + 1 /\ entries' = Append(entries, e) /\ leaf' = e.id
<1>1. next <= MaxEntries /\ entries' = Append(entries, e) /\ leaf' = e.id /\ next' = next + 1
  BY DEF AddEntry
<1>2. e.id = next /\ next \in Nat /\ next' \in 1..(MaxEntries + 1) /\ leaf' \in 0..MaxEntries
  BY <1>1, SessionLogAssumption DEF Fresh, LogInv
<1>3. Tree(entries')
  BY <1>1, FreshAppends
<1>4. /\ Len(entries) \in Nat /\ Len(entries') = Len(entries) + 1 /\ entries'[Len(entries) + 1] = e
      /\ \A k \in 1..Len(entries) : entries'[k] = entries[k] /\ entries[k].id \in Nat
  BY <1>1, FreshAppends, AppendProperties, TreeTypes
<1>5. ASSUME NEW i \in 1..Len(entries') PROVE entries'[i].id < next'
  <2>1. CASE i \in 1..Len(entries)
    <3>1. entries[i].id < next
      BY <2>1 DEF LogInv
    <3> QED BY <1>1, <1>2, <1>4, <2>1, <3>1
  <2>2. CASE i = Len(entries) + 1
    BY <1>1, <1>2, <1>4, <2>2
  <2> QED BY <1>4, <2>1, <2>2
<1> QED BY <1>1, <1>2, <1>3, <1>5 DEF LogInv

(* Keeping every entry, ...                                                *)
LEMMA InOrderAll ==
  ASSUME NEW es, Tree(es), NEW S, S \cap IdsOf(es) = {}
  PROVE  InOrder(es, IdsOf(es) \ S) = es
<1> DEFINE A == WithId(IdsOf(es) \ S)
<1>1. es \in Seq(EntryRec) /\ DOMAIN es = 1..Len(es) /\ Len(es) \in Nat
  BY TreeTypes
<1>2. \A i \in 1..Len(es) : es[i] \in A <=> es[i] \in EntryRec
  <2> SUFFICES ASSUME NEW i \in 1..Len(es) PROVE es[i] \in A /\ es[i] \in EntryRec
    OBVIOUS
  <2>1. es[i] \in EntryRec
    BY TreeTypes
  <2>2. es[i].id \in IdsOf(es) \ S
    BY <1>1 DEF IdsOf
  <2> QED BY <2>1, <2>2 DEF WithId
<1>3. Filter(es, A) = Filter(es, EntryRec)
  <2> HIDE DEF A
  <2> QED BY <1>1, <1>2, FilterSame
<1>4. Filter(es, EntryRec) = es
  BY <1>1, FilterAll
<1> QED BY <1>1, <1>3, <1>4, InOrderFilter

(* ... and the newest one when it is not lost.                             *)
LEMMA InOrderNew ==
  ASSUME NEW es, NEW e \in EntryRec, Tree(es), Tree(Append(es, e)), NEW S
  PROVE  LET t == Append(es, e)
         IN  /\ InOrder(t, IdsOf(t) \ S) =
                  IF e.id \in S THEN InOrder(es, IdsOf(es) \ S) ELSE Append(InOrder(es, IdsOf(es) \ S), e)
             /\ InOrder(t, IdsOf(t) \ (S \cup {e.id})) = InOrder(es, IdsOf(es) \ S)
<1> DEFINE t == Append(es, e)
           A == WithId(IdsOf(es) \ S)
<1>1. es \in Seq(EntryRec) /\ t \in Seq(EntryRec) /\ Len(es) \in Nat
  BY TreeTypes
<1>2. IdsOf(t) = IdsOf(es) \cup {e.id} /\ \A i \in 1..Len(es) : es[i] \in EntryRec /\ es[i].id < e.id /\ es[i].id \in Nat
  BY IdsAppend, TreeAppend, TreeTypes
<1>3. \A i \in 1..Len(es) : es[i].id # e.id
  BY <1>2, EntryIds
<1>4. \A T : InOrder(t, T) = IF e \in WithId(T) THEN Append(Filter(es, WithId(T)), e) ELSE Filter(es, WithId(T))
  <2> TAKE T
  <2> DEFINE B == WithId(T)
  <2>1. InOrder(t, T) = Filter(t, B)
    BY <1>1, InOrderFilter
  <2> HIDE DEF B
  <2>2. Filter(t, B) = IF e \in B THEN Append(Filter(es, B), e) ELSE Filter(es, B)
    BY <1>1, FilterAppend
  <2> QED BY <2>1, <2>2 DEF B
<1>5. InOrder(es, IdsOf(es) \ S) = Filter(es, A)
  BY <1>1, InOrderFilter
<1>6. ASSUME e.id \notin S PROVE InOrder(t, IdsOf(t) \ S) = Append(Filter(es, A), e)
  <2> DEFINE B == WithId(IdsOf(t) \ S)
  <2>1. e \in B
    BY <1>2, <1>6 DEF WithId
  <2>2. \A i \in 1..Len(es) : es[i] \in B <=> es[i] \in A
    BY <1>2, <1>3 DEF WithId
  <2>3. Filter(es, B) = Filter(es, A)
    <3> HIDE DEF A, B
    <3> QED BY <1>1, <2>2, FilterSame
  <2> QED BY <1>4, <2>1, <2>3
<1>7. InOrder(t, IdsOf(t) \ (S \cup {e.id})) = Filter(es, A)
  <2> DEFINE B == WithId(IdsOf(t) \ (S \cup {e.id}))
  <2>1. e \notin B
    BY DEF WithId
  <2>2. \A i \in 1..Len(es) : es[i] \in B <=> es[i] \in A
    BY <1>2, <1>3 DEF WithId
  <2>3. Filter(es, B) = Filter(es, A)
    <3> HIDE DEF A, B
    <3> QED BY <1>1, <2>2, FilterSame
  <2> QED BY <1>4, <2>1, <2>3
<1>8. ASSUME e.id \in S PROVE InOrder(t, IdsOf(t) \ S) = Filter(es, A)
  <2>1. S \cup {e.id} = S
    BY <1>8
  <2> QED BY <1>7, <2>1
<1> QED BY <1>5, <1>6, <1>7, <1>8

(* Keeping none.                                                           *)
LEMMA InOrderNone ==
  ASSUME NEW es, Tree(es), NEW S, IdsOf(es) \subseteq S
  PROVE  InOrder(es, IdsOf(es) \ S) = <<>>
<1> DEFINE A == WithId(IdsOf(es) \ S)
<1>1. EntryRec \cap A = {} /\ es \in Seq(EntryRec)
  BY TreeTypes DEF WithId
<1>2. Filter(es, A) = <<>>
  <2> HIDE DEF A
  <2> QED BY <1>1, FilterNone
<1> QED BY <1>1, <1>2, InOrderFilter

(* Giving up the last one of those kept.                                   *)
Except(C, A, x) == \A y \in EntryRec : y \in C <=> (y \in A /\ y.id # x.id)

LEMMA FilterButLast ==
  ASSUME NEW es, Tree(es), NEW A, NEW q \in Seq(EntryRec), NEW x \in EntryRec, Filter(es, A) = Append(q, x),
         NEW C, Except(C, A, x)
  PROVE  Filter(es, C) = q
<1> DEFINE B == {y \in EntryRec : y.id # x.id}
<1>1. es \in Seq(EntryRec) /\ Tree(Append(q, x))
  BY TreeTypes, TreeFilter
<1>2. \A i \in 1..Len(q) : q[i] \in EntryRec /\ q[i].id < x.id
  BY <1>1, TreeAppend, TreeTypes
<1>3. \A i \in 1..Len(q) : q[i] \in B <=> q[i] \in EntryRec
  BY <1>2, EntryIds
<1>4. x \notin B
  OBVIOUS
<1>5. \A i \in 1..Len(es) : es[i] \in C <=> es[i] \in A \cap B
  BY TreeTypes DEF Except
<1> HIDE DEF B
<1>6. Filter(q, B) = Filter(q, EntryRec)
  BY <1>3, FilterSame
<1>7. Filter(q, EntryRec) = q
  BY FilterAll
<1>8. Filter(Append(q, x), B) = Filter(q, B)
  BY <1>4, FilterAppend
<1>9. \A P, R : Filter(Filter(es, P), R) = Filter(es, P \cap R)
  BY <1>1, FilterTwice
<1>10. Filter(Filter(es, A), B) = Filter(es, A \cap B)
  BY <1>9
<1>11. Filter(es, C) = Filter(es, A \cap B)
  BY <1>1, <1>5, FilterSame
<1> QED BY <1>6, <1>7, <1>8, <1>10, <1>11

Less(L, K, n) == \A m : m \in L <=> (m \in K /\ m # n)

LEMMA InOrderButLast ==
  ASSUME NEW es, Tree(es), NEW K, NEW q \in Seq(EntryRec), NEW x \in EntryRec,
         InOrder(es, K) = Append(q, x), NEW L, Less(L, K, x.id)
  PROVE  InOrder(es, L) = q
<1> DEFINE A == WithId(K)
           C == WithId(L)
<1>1. es \in Seq(EntryRec)
  BY TreeTypes
<1>2. InOrder(es, K) = Filter(es, A) /\ InOrder(es, L) = Filter(es, C)
  BY <1>1, InOrderFilter
<1>3. Except(C, A, x)
  BY DEF WithId, Except, Less
<1> HIDE DEF A, C
<1>4. Filter(es, A) = Append(q, x)
  BY <1>2
<1>5. Filter(es, C) = q
  BY <1>3, <1>4, FilterButLast
<1> QED BY <1>2, <1>5

LEMMA MoreThanOne ==
  ASSUME NEW n \in Nat, n # 0, n # 1 PROVE n > 1
OBVIOUS

(* Behind the last entry of the file its line end is missing.              *)
LEMMA LastSaved ==
  ASSUME LogInv, FileInv, flushed, EndsWith(file, OpenLine), file # <<OpenLine>>
  PROVE  LET p == Front(Front(file))
             x == file[Len(file) - 1]
         IN  /\ file \in Seq(Lines) /\ file # VoidFile /\ Len(file) > 1 /\ Len(file) - 1 \in DOMAIN file
             /\ x \in EntryRec /\ x.id \in Nat /\ x.id < next
             /\ p \in Seq(Lines)
             /\ Readable(p) = InOrder(entries, IdsOf(entries) \ (lost \cup {x.id}))
             /\ \A z \in IdsOf(entries) : z \in lost \/ z <= x.id
<1> DEFINE p == Front(Front(file))
           x == file[Len(file) - 1]
           q == Readable(p)
           K == IdsOf(entries) \ lost
           L == IdsOf(entries) \ (lost \cup {x.id})
           A == WithId(K)
<1>1. /\ file \in Seq(Lines) /\ OpenEntry(file) /\ file # VoidFile
      /\ Tree(entries) /\ entries \in Seq(EntryRec) /\ Readable(file) = InOrder(entries, K)
  BY NoLines, TreeTypes DEF FileInv, FileIsMemory, LogInv
<1>2. Len(file) > 1
  <2>1. file # <<>> /\ file[Len(file)] = OpenLine /\ Len(file) \in Nat
    BY <1>1, LenProperties DEF EndsWith
  <2>2. Len(file) # 0
    BY <1>1, <2>1, EmptySeq
  <2>3. ASSUME Len(file) = 1 PROVE FALSE
    <3>1. /\ <<OpenLine>> \in Seq(Lines) /\ Len(<<OpenLine>>) = 1 /\ <<OpenLine>>[1] = OpenLine
      BY LineTypes
    <3>2. \A i \in 1..Len(file) : file[i] = <<OpenLine>>[i]
      BY <2>1, <2>3, <3>1
    <3>3. file = <<OpenLine>>
      BY <1>1, <2>3, <3>1, <3>2, SeqEqual
    <3> QED BY <3>3
  <2> HIDE DEF p, x, q, K, L, A
  <2> QED BY <2>1, <2>2, <2>3, MoreThanOne
<1>3. x \in EntryRec
  BY <1>1, <1>2 DEF OpenEntry
<1>4. p \in Seq(Lines) /\ q \in Seq(EntryRec) /\ Readable(file) = Append(q, x) /\ Len(file) - 1 \in DOMAIN file
  BY <1>1, <1>2, <1>3, OpenEnd
<1>5. x.id \in Nat
  BY <1>3, EntryIds
<1>6. Less(L, K, x.id)
  BY DEF Less
<1>7. InOrder(entries, K) = Filter(entries, A)
  BY <1>1, InOrderFilter
<1>8. \A e \in EntryRec : e \in A <=> e.id \in IdsOf(entries) /\ e.id \notin lost
  BY DEF WithId
<1> HIDE DEF p, x, q, K, L, A
<1>9. InOrder(entries, L) = q
  <2>1. InOrder(entries, K) = Append(q, x) /\ Tree(entries) /\ q \in Seq(EntryRec)
    BY <1>1, <1>4
  <2> QED BY <1>3, <1>6, <2>1, InOrderButLast
<1> DEFINE left == Filter(entries, A)
<1>10. left = Append(q, x) /\ Tree(left)
  BY <1>1, <1>4, <1>7, TreeFilter
<1>11. /\ \A i \in 1..Len(left) : \E k \in 1..Len(entries) : entries[k] = left[i]
       /\ \A k \in 1..Len(entries) : entries[k] \in A => \E i \in 1..Len(left) : left[i] = entries[k]
  BY <1>1, FilterElements
<1> HIDE DEF left
<1>12. /\ Len(q) \in Nat /\ Len(left) = Len(q) + 1 /\ left[Len(q) + 1] = x
       /\ \A i \in 1..Len(q) : left[i] = q[i]
  BY <1>3, <1>4, <1>10, AppendProperties, LenProperties
<1>13. \A i \in 1..Len(q) : q[i].id < x.id /\ q[i].id \in Nat
  BY <1>3, <1>4, <1>10, TreeAppend, TreeTypes
<1>14. x.id < next
  <2>1. PICK k \in 1..Len(entries) : entries[k] = x
    BY <1>11, <1>12
  <2> QED BY <2>1 DEF LogInv
<1>15. ASSUME NEW z \in IdsOf(entries), z \notin lost PROVE z <= x.id
  <2>1. PICK k \in 1..Len(entries) : entries[k].id = z /\ entries[k] \in EntryRec
    BY <1>1, IdOfEntry, TreeTypes
  <2>2. PICK i \in 1..Len(left) : left[i] = entries[k]
    BY <1>8, <1>11, <1>15, <2>1
  <2>3. CASE i \in 1..Len(q)
    BY <1>5, <1>12, <1>13, <2>1, <2>2, <2>3
  <2>4. CASE i = Len(q) + 1
    BY <1>5, <1>12, <2>1, <2>2, <2>4
  <2> QED BY <1>12, <2>3, <2>4
<1> QED BY <1>1, <1>2, <1>3, <1>4, <1>5, <1>9, <1>14, <1>15 DEF p, x, q, L

(* An entry is written when there is a file, or with it.                   *)
LEMMA AddEntryFile ==
  ASSUME LogInv, FileInv, flushed \in BOOLEAN, NEW e, Fresh(e), AddEntry(e), UNCHANGED tears
  PROVE  FileInv' /\ flushed' \in BOOLEAN
<1> DEFINE t == Append(entries, e)
           left == InOrder(entries, IdsOf(entries) \ lost)
<1>1. /\ e \in EntryRec /\ e \in Lines /\ Tree(entries) /\ Tree(t) /\ e.id \notin IdsOf(entries)
      /\ entries \in Seq(EntryRec) /\ t \in Seq(EntryRec) /\ IdsOf(t) = IdsOf(entries) \cup {e.id}
  BY FreshAppends, TreeTypes, LineTypes, IdsAppend
<1>2. /\ entries' = t /\ next \in Nat /\ next' = next + 1 /\ e.id = next
      /\ flushed' = (flushed \/ HasAnswer(t)) /\ flushed' \in BOOLEAN
      /\ file' = IF flushed THEN WithLine(file, e) ELSE IF HasAnswer(t) THEN t ELSE file
      /\ lost' = IF flushed THEN lost \cup Joined(file, e) ELSE lost
  BY AddEntryLog DEF AddEntry, Persist, Fresh, LogInv
<1>3. /\ tears' = tears /\ tears \in Nat /\ IsFiniteSet(lost) /\ Cardinality(lost) \in Nat
      /\ \A n \in lost : n \in Nat /\ n < next
      /\ file # VoidFile => Counted(file, lost, tears)
      /\ flushed => Readable(file) = left
  BY FS_CardinalityType DEF FileInv, FileIsMemory
<1>4. e.id \notin lost
  BY <1>2, <1>3
<1>5. /\ InOrder(t, IdsOf(t) \ lost) = Append(left, e)
      /\ \A S : InOrder(t, IdsOf(t) \ (S \cup {e.id})) = InOrder(entries, IdsOf(entries) \ S)
  <2>1. \A S : /\ InOrder(t, IdsOf(t) \ S) =
                     IF e.id \in S THEN InOrder(entries, IdsOf(entries) \ S)
                     ELSE Append(InOrder(entries, IdsOf(entries) \ S), e)
               /\ InOrder(t, IdsOf(t) \ (S \cup {e.id})) = InOrder(entries, IdsOf(entries) \ S)
    BY <1>1, InOrderNew
  <2> HIDE DEF t
  <2>2. InOrder(t, IdsOf(t) \ lost) = Append(left, e)
    BY <1>4, <2>1
  <2> QED BY <2>1, <2>2
<1>6. ASSUME flushed', file' \in Seq(Lines), OpenEntry(file'), IsFiniteSet(lost'),
             \A n \in lost' : n \in Nat /\ n < next',
             Counted(file', lost', tears), file' # <<OpenLine>>, file' # VoidFile,
             Readable(file') = InOrder(t, IdsOf(t) \ lost')
      PROVE  FileInv'
  BY <1>2, <1>3, <1>6 DEF FileInv, FileIsMemory, Counted
<1> HIDE DEF t, left
<1>7. CASE flushed /\ EndsWith(file, TornLine)
  <2>1. file \in Seq(Lines) /\ file # VoidFile
    BY <1>7, NoLines DEF FileInv
  <2>2. /\ file' = Append(Front(file), GarbledLine) /\ flushed' /\ lost' = lost \cup {e.id}
    <3>1. ~ EndsWith(file, OpenLine)
      BY <1>7, LineTypes DEF EndsWith
    <3> QED BY <1>2, <1>7, <3>1 DEF WithLine, Joined
  <2> DEFINE p == Front(file)
  <2>3. p \in Seq(Lines) /\ file = Append(p, TornLine)
    BY <1>7, <2>1, EndsWithLast
  <2> HIDE DEF p
  <2>4. /\ file' \in Seq(Lines) /\ ~ EndsWith(file', TornLine) /\ ~ EndsWith(file', OpenLine)
        /\ Readable(file') = Readable(p) /\ Readable(file) = Readable(p)
    BY <2>2, <2>3, LineTypes, EndsWithAppend, ReadableAppend DEF p
  <2>5. file' # VoidFile /\ file' # <<OpenLine>> /\ OpenEntry(file')
    <3>1. EndsWith(<<OpenLine>>, OpenLine)
      BY DEF EndsWith
    <3> QED BY <2>4, <3>1, NoLines DEF OpenEntry
  <2>6. IsFiniteSet(lost') /\ Cardinality(lost') = Cardinality(lost) + 1
    BY <1>3, <1>4, <2>2, FS_AddElement
  <2>7. Counted(file', lost', tears)
    BY <1>3, <1>7, <2>1, <2>4, <2>6 DEF Counted
  <2>8. Readable(file') = InOrder(t, IdsOf(t) \ lost')
    BY <1>3, <1>5, <1>7, <2>2, <2>4 DEF left
  <2>9. \A n \in lost' : n \in Nat /\ n < next'
    BY <1>2, <1>3, <2>2
  <2> QED BY <1>2, <1>6, <2>2, <2>4, <2>5, <2>6, <2>7, <2>8, <2>9
<1>8. CASE flushed /\ file \in {<<OpenLine>>, VoidFile}
  <2>1. ~ EndsWith(file, TornLine)
    <3>1. ~ EndsWith(<<OpenLine>>, TornLine)
      BY LineTypes DEF EndsWith
    <3> QED BY <1>8, <3>1, NoLines
  <2>2. file' = VoidFile /\ flushed' /\ lost' = lost \cup {e.id}
    <3>1. file' = VoidFile /\ flushed'
      BY <1>2, <1>8, <2>1 DEF WithLine
    <3>2. Joined(file, e) = {e.id}
      <4>1. CASE file = <<OpenLine>>
        <5>1. Len(file) = 1 /\ DOMAIN file = 1..1 /\ EndsWith(file, OpenLine)
          BY <4>1 DEF EndsWith
        <5>2. {file[i].id : i \in (DOMAIN file) \cap {Len(file) - 1}} = {}
          BY <5>1
        <5> QED BY <5>1, <5>2 DEF Joined
      <4>2. CASE file = VoidFile
        BY <4>2, NoLines DEF Joined
      <4> QED BY <1>8, <4>1, <4>2
    <3> QED BY <1>2, <1>8, <3>1, <3>2
  <2>3. IdsOf(t) \subseteq lost'
    BY <1>1, <1>8, <2>2 DEF FileInv
  <2>4. Readable(file') = InOrder(t, IdsOf(t) \ lost')
    BY <1>1, <2>2, <2>3, NoLines, InOrderNone
  <2>5. IsFiniteSet(lost') /\ \A n \in lost' : n \in Nat /\ n < next'
    BY <1>2, <1>3, <2>2, FS_AddElement
  <2> QED BY <1>2, <1>3, <2>2, <2>3, <2>4, <2>5 DEF FileInv, FileIsMemory
<1>9. CASE flushed /\ EndsWith(file, OpenLine) /\ file # <<OpenLine>>
  <2> DEFINE p == Front(Front(file))
             x == file[Len(file) - 1]
  <2>1. file \in Seq(Lines) /\ file # VoidFile /\ x.id \in Nat /\ x.id < next
    BY <1>9, LastSaved
  <2>2. Len(file) - 1 \in DOMAIN file /\ p \in Seq(Lines)
    BY <1>9, LastSaved
  <2>3. Readable(p) = InOrder(entries, IdsOf(entries) \ (lost \cup {x.id}))
    BY <1>9, LastSaved
  <2>5. /\ file' = Append(p, GarbledLine) /\ flushed' /\ lost' = (lost \cup {x.id}) \cup {e.id}
    <3>1. ~ EndsWith(file, TornLine)
      BY <1>9, LineTypes DEF EndsWith
    <3>2. file' = Append(p, GarbledLine) /\ flushed'
      BY <1>2, <1>9, <2>1, <3>1 DEF WithLine
    <3>3. Joined(file, e) = {e.id} \cup {x.id}
      <4>1. (DOMAIN file) \cap {Len(file) - 1} = {Len(file) - 1}
        BY <2>2
      <4>2. {file[i].id : i \in {Len(file) - 1}} = {x.id}
        OBVIOUS
      <4> QED BY <1>9, <4>1, <4>2 DEF Joined
    <3> QED BY <1>2, <1>9, <3>2, <3>3
  <2> HIDE DEF p, x
  <2>6. /\ file' \in Seq(Lines) /\ ~ EndsWith(file', TornLine) /\ ~ EndsWith(file', OpenLine)
        /\ Readable(file') = Readable(p)
    BY <2>2, <2>5, LineTypes, EndsWithAppend, ReadableAppend
  <2>7. file' # VoidFile /\ file' # <<OpenLine>> /\ OpenEntry(file')
    <3>1. EndsWith(<<OpenLine>>, OpenLine)
      BY DEF EndsWith
    <3> QED BY <2>6, <3>1, NoLines DEF OpenEntry
  <2>9. IsFiniteSet(lost') /\ Cardinality(lost') \in Nat /\ Cardinality(lost') <= Cardinality(lost) + 2
    <3>1. /\ IsFiniteSet(lost \cup {x.id})
          /\ Cardinality(lost \cup {x.id}) = Cardinality(lost) \/ Cardinality(lost \cup {x.id}) = Cardinality(lost) + 1
      BY <1>3, FS_AddElement
    <3>2. /\ IsFiniteSet(lost')
          /\ Cardinality(lost') = Cardinality(lost \cup {x.id}) \/ Cardinality(lost') = Cardinality(lost \cup {x.id}) + 1
      BY <2>5, <3>1, FS_AddElement
    <3> QED BY <1>3, <3>1, <3>2
  <2>10. Counted(file', lost', tears)
    BY <1>3, <1>9, <2>1, <2>6, <2>9 DEF Counted
  <2>11. Readable(file') = InOrder(t, IdsOf(t) \ lost')
    <3>1. InOrder(t, IdsOf(t) \ lost') = InOrder(entries, IdsOf(entries) \ (lost \cup {x.id}))
      BY <1>5, <2>5
    <3> QED BY <2>3, <2>6, <3>1
  <2>12. \A n \in lost' : n \in Nat /\ n < next'
    BY <1>2, <1>3, <2>1, <2>5
  <2> QED BY <1>2, <1>6, <2>5, <2>6, <2>7, <2>9, <2>10, <2>11, <2>12
<1>10. CASE flushed /\ ~ EndsWith(file, TornLine) /\ ~ EndsWith(file, OpenLine) /\ file # VoidFile
  <2>1. file \in Seq(Lines) /\ file # <<OpenLine>>
    <3>1. EndsWith(<<OpenLine>>, OpenLine)
      BY DEF EndsWith
    <3> QED BY <1>10, <3>1 DEF FileInv
  <2>2. file' = Append(file, e) /\ flushed' /\ lost' = lost
    BY <1>2, <1>10, <2>1 DEF WithLine, Joined
  <2>3. /\ file' \in Seq(Lines) /\ Readable(file') = Append(Readable(file), e)
        /\ ~ EndsWith(file', TornLine) /\ ~ EndsWith(file', OpenLine)
    BY <1>1, <2>1, <2>2, LineTypes, ReadableAppend, EndsWithAppend
  <2>4. file' # VoidFile /\ file' # <<OpenLine>> /\ OpenEntry(file')
    <3>1. EndsWith(<<OpenLine>>, OpenLine)
      BY DEF EndsWith
    <3> QED BY <2>3, <3>1, NoLines DEF OpenEntry
  <2>5. Readable(file') = InOrder(t, IdsOf(t) \ lost')
    BY <1>3, <1>5, <1>10, <2>2, <2>3
  <2>6. \A n \in lost' : n \in Nat /\ n < next'
    BY <1>2, <1>3, <2>2
  <2>7. Counted(file', lost', tears)
    BY <1>3, <1>10, <2>2, <2>3 DEF Counted
  <2> QED BY <1>2, <1>3, <1>6, <2>2, <2>3, <2>4, <2>5, <2>6, <2>7
<1>11. CASE ~ flushed /\ HasAnswer(t)
  <2>1. file' = t /\ flushed' /\ lost' = lost /\ lost = {} /\ file # VoidFile
    BY <1>2, <1>11, NoLines DEF FileInv
  <2>2. t \in Seq(Lines) /\ Readable(t) = t /\ ~ EndsWith(t, TornLine) /\ ~ EndsWith(t, OpenLine)
    BY <1>1, EntriesEnd, LineTypes
  <2>3. InOrder(t, IdsOf(t) \ lost) = t
    <3>1. lost \cap IdsOf(t) = {}
      BY <2>1
    <3> QED BY <1>1, <3>1, InOrderAll
  <2>4. file' # VoidFile /\ file' # <<OpenLine>> /\ OpenEntry(file')
    <3>1. EndsWith(<<OpenLine>>, OpenLine)
      BY DEF EndsWith
    <3> QED BY <2>1, <2>2, <3>1, NoLines DEF OpenEntry
  <2>5. Counted(file', lost', tears) /\ \A n \in lost' : n \in Nat /\ n < next'
    BY <1>3, <2>1, <2>2 DEF Counted
  <2>6. Readable(file') = InOrder(t, IdsOf(t) \ lost') /\ file' \in Seq(Lines)
    BY <2>1, <2>2, <2>3
  <2> QED BY <1>2, <1>3, <1>6, <2>1, <2>4, <2>5, <2>6
<1>12. CASE ~ flushed /\ ~ HasAnswer(t)
  <2>1. file' = file /\ ~ flushed' /\ lost' = lost /\ lost = {} /\ file = NoFile
    BY <1>2, <1>12 DEF FileInv
  <2>2. ~ HasAnswer(entries') /\ flushed' \in BOOLEAN
    BY <1>2, <1>12
  <2>3. file' \notin {<<OpenLine>>, VoidFile} /\ ~ EndsWith(file', TornLine) /\ ~ EndsWith(file', OpenLine)
    BY <2>1, NoLines
  <2>4. Counted(file', lost', tears') /\ \A n \in lost' : n \in Nat /\ n < next'
    BY <1>3, <2>1, <2>3, NoLines DEF Counted
  <2>5. Cardinality(lost') <= 2 * tears'
    BY <2>4 DEF Counted
  <2> QED BY <1>3, <2>1, <2>2, <2>3, <2>4, <2>5 DEF FileInv, FileIsMemory
<1> QED BY <1>2, <1>7, <1>8, <1>9, <1>10, <1>11, <1>12

-----------------------------------------------------------------------------
(* A session that is read from a file                                      *)

LEMMA StartSessionLog ==
  ASSUME NEW es, Tree(es), \A i \in 1..Len(es) : es[i].id < next', next' \in 1..(MaxEntries + 1),
         NEW f, f.flushed \in BOOLEAN, StartSession(es, f)
  PROVE  LogInv' /\ ControlInv'
<1>1. /\ entries' = es /\ leaf' = LastId(es) /\ flushed' \in BOOLEAN /\ turn' \in Turns
      /\ pending' \in BOOLEAN /\ comp' = NoComp /\ dropped' = {}
  BY DEF StartSession, Turns
<1>2. leaf' \in 0..MaxEntries /\ leaf' < next'
  <2>1. CASE es = <<>>
    BY <1>1, <2>1, LastIdIs, SessionLogAssumption
  <2>2. CASE es # <<>>
    BY <1>1, <2>2, LastIdIs
  <2> QED BY <2>1, <2>2
<1>3. LogInv'
  BY <1>1, <1>2 DEF LogInv
<1>4. comp' \in Comps /\ comp'.ref = 0
  BY <1>1, SessionLogAssumption DEF NoComp, Comps
<1>5. ControlInv'
  BY <1>1, <1>4, SessionLogAssumption DEF ControlInv, DroppedInv
<1> QED BY <1>3, <1>5

(* What is left of the session is what its file says.                      *)
LEMMA SavedTree ==
  ASSUME LogInv, FileInv, flushed
  PROVE  LET saved == Readable(file)
         IN  /\ Tree(saved) /\ lost \cap IdsOf(saved) = {}
             /\ \A i \in 1..Len(saved) : saved[i].id < next
<1> DEFINE A == WithId(IdsOf(entries) \ lost)
           saved == Readable(file)
<1>1. Tree(entries) /\ entries \in Seq(EntryRec) /\ saved = Filter(entries, A)
  BY TreeTypes, InOrderFilter DEF LogInv, FileInv, FileIsMemory
<1>2. \A i \in 1..Len(Filter(entries, A)) :
        Filter(entries, A)[i] \in A /\ \E k \in 1..Len(entries) : entries[k] = Filter(entries, A)[i]
  <2> HIDE DEF A
  <2> QED BY <1>1, FilterElements
<1>3. Tree(Filter(entries, A))
  BY <1>1, TreeFilter
<1> HIDE DEF saved
<1>4. \A i \in 1..Len(saved) : saved[i] \in A /\ \E k \in 1..Len(entries) : entries[k] = saved[i]
  BY <1>1, <1>2
<1>5. Tree(saved)
  BY <1>1, <1>3
<1>6. \A i \in 1..Len(saved) : saved[i].id < next
  BY <1>4 DEF LogInv
<1>7. \A i \in 1..Len(saved) : saved[i].id \notin lost
  BY <1>4 DEF WithId
<1>8. lost \cap IdsOf(saved) = {}
  BY <1>5, <1>7, TreeTypes DEF IdsOf
<1> QED BY <1>5, <1>6, <1>8 DEF saved

(* A session that starts without a file.                                   *)
LEMMA EmptyKeeps ==
  ASSUME LogInv, FileInv, StartSession(<<>>, [flushed |-> FALSE, file |-> NoFile]),
         lost' = {}, next' = next, tears' \in Nat
  PROVE  LogInv' /\ ControlInv' /\ FileInv'
<1> DEFINE r == [flushed |-> FALSE, file |-> NoFile]
<1>1. /\ StartSession(<<>>, r) /\ r.flushed \in BOOLEAN
      /\ entries' = <<>> /\ file' = NoFile /\ flushed' = FALSE
  BY DEF StartSession
<1>2. next' \in 1..(MaxEntries + 1) /\ \A i \in 1..Len(<<>>) : <<>>[i].id < next'
  BY EmptySeq DEF LogInv
<1>3. LogInv' /\ ControlInv'
  <2> HIDE DEF r
  <2> QED BY <1>1, <1>2, TreeEmpty, StartSessionLog
<1>4. /\ ~ HasAnswer(entries') /\ ~ EndsWith(file', TornLine) /\ ~ EndsWith(file', OpenLine)
      /\ file' \notin {<<OpenLine>>, VoidFile}
  BY <1>1, NoLines DEF HasAnswer
<1>5. IsFiniteSet(lost') /\ Cardinality(lost') = 0
  BY FS_EmptySet
<1>6. Counted(file', lost', tears') /\ Cardinality(lost') <= 2 * tears'
  BY <1>4, <1>5 DEF Counted
<1> QED BY <1>1, <1>3, <1>4, <1>5, <1>6 DEF FileInv, FileIsMemory

(* A session that is read from its file.                                   *)
LEMMA ReloadFile ==
  ASSUME LogInv, NEW f \in Seq(Lines), OpenEntry(f), NEW gone, Reload(f, gone),
         NEW es, Readable(f) = es, Tree(es), gone \cap IdsOf(es) = {},
         \A i \in 1..Len(es) : es[i].id < next,
         next' = next, tears' \in Nat, Counted(f, gone, tears'),
         IsFiniteSet(gone), \A n \in gone : n \in Nat /\ n < next
  PROVE  LogInv' /\ ControlInv' /\ FileInv'
<1>1. f # NoFile /\ f # VoidFile
  BY NoLines
<1> DEFINE r == [flushed |-> TRUE, file |-> f]
<1>2. /\ StartSession(es, r) /\ r.flushed \in BOOLEAN /\ lost' = gone
      /\ entries' = es /\ file' = f /\ flushed' = TRUE
  BY <1>1 DEF Reload, StartSession
<1>3. LogInv' /\ ControlInv'
  <2>1. next' \in 1..(MaxEntries + 1) /\ \A i \in 1..Len(es) : es[i].id < next'
    BY DEF LogInv
  <2> HIDE DEF r
  <2> QED BY <1>2, <2>1, StartSessionLog
<1>4. InOrder(es, IdsOf(es) \ gone) = es
  BY InOrderAll
<1>5. Readable(file') = InOrder(entries', IdsOf(entries') \ lost')
  BY <1>2, <1>4
<1>6. f = <<OpenLine>> => IdsOf(entries') \subseteq lost'
  <2> SUFFICES ASSUME f = <<OpenLine>> PROVE IdsOf(es) = {}
    BY <1>2
  <2>1. <<>> \in Seq(Lines) /\ f = Append(<<>>, OpenLine) /\ <<>> \in Seq(EntryRec)
    BY EmptySeq
  <2>2. Readable(f) = Readable(<<>>) /\ Readable(<<>>) = <<>>
    BY <2>1, LineTypes, ReadableAppend, EntriesEnd
  <2> QED BY <2>2 DEF IdsOf
<1>7. Cardinality(lost') <= 2 * tears' /\ Counted(file', lost', tears')
  BY <1>2 DEF Counted
<1> QED BY <1>1, <1>2, <1>3, <1>5, <1>6, <1>7 DEF FileInv, FileIsMemory

LEMMA RefusedKeeps ==
  ASSUME LogInv, FileInv, NEW f \in {NoFile, VoidFile}, NEW gone, Reload(f, gone),
         next' = next, tears' \in Nat
  PROVE  LogInv' /\ ControlInv' /\ FileInv'
BY EmptyKeeps DEF Reload

LEMMA CrashKeeps ==
  ASSUME LogInv, ControlInv, FileInv, Crash
  PROVE  LogInv' /\ ControlInv' /\ FileInv'
<1>1. Reload(file, lost) /\ next' = next /\ tears' = tears /\ tears \in Nat
  BY DEF Crash, FileInv
<1>2. CASE file \in {NoFile, VoidFile}
  BY <1>1, <1>2, RefusedKeeps
<1>3. CASE file \notin {NoFile, VoidFile}
  <2>1. /\ flushed /\ file \in Seq(Lines) /\ OpenEntry(file) /\ Counted(file, lost, tears')
        /\ IsFiniteSet(lost) /\ \A n \in lost : n \in Nat /\ n < next
    BY <1>1, <1>3 DEF FileInv
  <2> DEFINE es == Readable(file)
  <2>2. Tree(es) /\ lost \cap IdsOf(es) = {} /\ \A i \in 1..Len(es) : es[i].id < next
    BY <2>1, SavedTree
  <2>3. Readable(file) = es
    OBVIOUS
  <2> HIDE DEF es
  <2> QED BY <1>1, <2>1, <2>2, <2>3, ReloadFile
<1> QED BY <1>2, <1>3

(* A line of the file is cut off.                                          *)
LEMMA CutAppendKeeps ==
  ASSUME LogInv, FileInv, flushed, NEW whole \in BOOLEAN, CutAppend(whole),
         next' = next, tears' = tears + 1
  PROVE  LogInv' /\ ControlInv' /\ FileInv'
<1> DEFINE saved == Readable(file)
<1>1. /\ tears \in Nat /\ tears' \in Nat /\ IsFiniteSet(lost) /\ \A n \in lost : n \in Nat /\ n < next
      /\ Cardinality(lost) \in Nat /\ (file # VoidFile => Counted(file, lost, tears))
      /\ (file # VoidFile => file \in Seq(Lines) /\ OpenEntry(file))
  BY FS_CardinalityType DEF FileInv
<1>2. Tree(saved) /\ lost \cap IdsOf(saved) = {} /\ \A i \in 1..Len(saved) : saved[i].id < next
  BY SavedTree
<1>3. CASE EndsWith(file, OpenLine) /\ Len(file) = 1
  <2>1. Reload(VoidFile, lost)
    BY <1>3 DEF CutAppend
  <2> QED BY <1>1, <2>1, RefusedKeeps
<1>4. CASE EndsWith(file, OpenLine) /\ Len(file) # 1
  <2> DEFINE p == Front(Front(file))
             x == file[Len(file) - 1]
             f == Append(p, TornLine)
             gone == lost \cup {x.id}
  <2>1. file # VoidFile /\ file # <<>> /\ Reload(f, gone)
    BY <1>4, NoLines DEF CutAppend, EndsWith
  <2>2. file \in Seq(Lines) /\ OpenEntry(file) /\ Counted(file, lost, tears) /\ Len(file) > 1
    <3>1. file \in Seq(Lines) /\ OpenEntry(file) /\ Counted(file, lost, tears)
      BY <1>1, <2>1
    <3>2. Len(file) \in Nat /\ Len(file) # 0
      BY <2>1, <3>1, EmptySeq, LenProperties
    <3> HIDE DEF p, x, f, gone
    <3>3. Len(file) > 1
      BY <1>4, <3>2, MoreThanOne
    <3> QED BY <3>1, <3>3
  <2>3. x \in EntryRec
    BY <1>4, <2>2 DEF OpenEntry
  <2>4. p \in Seq(Lines) /\ Readable(p) \in Seq(EntryRec) /\ saved = Append(Readable(p), x)
    BY <1>4, <2>2, <2>3, OpenEnd
  <2> HIDE DEF p, x, saved
  <2> DEFINE es == Readable(p)
  <2>5. /\ f \in Seq(Lines) /\ Readable(f) = es
        /\ EndsWith(f, TornLine) /\ ~ EndsWith(f, OpenLine)
    BY <2>4, LineTypes, EndsWithAppend, ReadableAppend
  <2>6. Tree(es) /\ \A i \in 1..Len(es) : es[i].id < x.id /\ es[i].id \in Nat
    BY <1>2, <2>3, <2>4, TreeAppend, TreeTypes
  <2>7. x.id < next /\ x.id \in Nat /\ \A i \in 1..Len(es) : saved[i] = es[i] /\ i \in 1..Len(saved)
    <3>1. /\ Len(es) \in Nat /\ Len(saved) = Len(es) + 1 /\ saved[Len(es) + 1] = x
          /\ \A i \in 1..Len(es) : saved[i] = es[i]
      BY <2>3, <2>4, AppendProperties, LenProperties
    <3>2. x.id < next
      BY <1>2, <3>1
    <3> QED BY <2>3, <3>1, <3>2, EntryIds
  <2>8. gone \cap IdsOf(es) = {}
    <3>1. DOMAIN es = 1..Len(es) /\ DOMAIN saved = 1..Len(saved)
      BY <1>2, <2>6, TreeTypes
    <3>2. ASSUME NEW n \in IdsOf(es) PROVE n \notin gone
      <4>1. PICK i \in 1..Len(es) : n = es[i].id
        BY <3>1 DEF IdsOf
      <4>2. n \in IdsOf(saved)
        BY <2>7, <3>1, <4>1 DEF IdsOf
      <4>3. n < x.id
        BY <2>6, <4>1
      <4> QED BY <1>2, <2>6, <2>7, <4>1, <4>2, <4>3
    <3> QED BY <3>2
  <2>9. \A i \in 1..Len(es) : es[i].id < next
    BY <1>2, <2>7
  <2>10. /\ IsFiniteSet(gone) /\ Cardinality(gone) \in Nat /\ Cardinality(gone) <= Cardinality(lost) + 1
    <3>1. /\ IsFiniteSet(gone)
          /\ Cardinality(gone) = Cardinality(lost) \/ Cardinality(gone) = Cardinality(lost) + 1
      BY <1>1, FS_AddElement
    <3> QED BY <1>1, <3>1
  <2>11. Counted(f, gone, tears') /\ OpenEntry(f)
    <3>1. Cardinality(lost) + 2 <= 2 * tears
      BY <1>4, <2>2 DEF Counted
    <3>2. Cardinality(gone) + 1 <= 2 * tears' /\ Cardinality(gone) <= 2 * tears'
      BY <1>1, <2>10, <3>1
    <3> HIDE DEF f, gone
    <3> QED BY <2>5, <3>2 DEF Counted, OpenEntry
  <2>12. \A n \in gone : n \in Nat /\ n < next
    BY <1>1, <2>7
  <2> HIDE DEF f, gone, es
  <2> QED BY <1>1, <2>1, <2>5, <2>6, <2>8, <2>9, <2>10, <2>11, <2>12, ReloadFile
<1>5. CASE ~ EndsWith(file, OpenLine)
  <2> DEFINE x == IF whole THEN OpenLine ELSE TornLine
             f == Append(file, x)
  <2>1. file # VoidFile /\ Reload(f, lost) /\ (whole /\ file # <<>> => Last(file).id # 0)
    BY <1>5 DEF CutAppend
  <2>2. file \in Seq(Lines) /\ Counted(file, lost, tears) /\ x \in Lines /\ x \notin EntryRec
    BY <1>1, <2>1, LineTypes
  <2>3. f \in Seq(Lines) /\ Readable(f) = saved /\ \A l : EndsWith(f, l) <=> x = l
    <3> HIDE DEF x
    <3> QED BY <2>2, EndsWithAppend, ReadableAppend
  <2>4. Counted(f, lost, tears')
    BY <1>1, <2>2 DEF Counted
  <2>5. OpenEntry(f)
    <3> SUFFICES ASSUME x = OpenLine, Len(f) > 1 PROVE f[Len(f) - 1] \in EntryRec
      BY <2>3 DEF OpenEntry
    <3>1. whole
      BY LineTypes
    <3>2. /\ Len(file) \in Nat /\ Len(f) = Len(file) + 1 /\ \A i \in 1..Len(file) : f[i] = file[i]
      <4> HIDE DEF x
      <4> QED BY <2>2, AppendProperties, LenProperties
    <3>3. file # <<>>
      BY <3>2, EmptySeq
    <3>4. Last(file) \in Lines /\ Last(file) = file[Len(file)] /\ Last(file).id # 0
      BY <2>1, <2>2, <3>1, <3>3, FrontLast
    <3>5. Last(file) \in EntryRec
      <4>1. TornLine.id = 0 /\ GarbledLine.id = 0 /\ OpenLine.id = 0
        BY DEF TornLine, GarbledLine, OpenLine
      <4> QED BY <3>4, <4>1 DEF Lines
    <3>6. Len(f) - 1 = Len(file) /\ Len(file) \in 1..Len(file)
      BY <3>2
    <3> QED BY <3>2, <3>4, <3>5, <3>6
  <2> HIDE DEF f, x, saved
  <2> QED BY <1>1, <1>2, <2>1, <2>3, <2>4, <2>5, ReloadFile
<1> QED BY <1>3, <1>4, <1>5

Tails == {<<>>, <<TornLine>>, <<OpenLine>>}

LEMMA CrashInWriteKeeps ==
  ASSUME LogInv, ControlInv, FileInv, NEW k \in 0..MaxEntries, NEW tail \in Tails, CrashInWrite(k, tail)
  PROVE  LogInv' /\ ControlInv' /\ FileInv'
<1>1. next' = next /\ tears' = tears + 1 /\ tears \in Nat /\ tears' \in Nat
  BY DEF CrashInWrite, FileInv
<1>2. CASE flushed
  <2>1. PICK whole \in BOOLEAN : CutAppend(whole)
    BY <1>2 DEF CrashInWrite
  <2> QED BY <1>1, <1>2, <2>1, CutAppendKeeps
<1>3. CASE ~ flushed
  <2> DEFINE es == SubSeq(entries, 1, k)
             f == es \o tail
  <2>1. k \in 0..Len(entries) /\ Reload(f, lost) /\ lost = {}
    BY <1>3 DEF FileInv, CrashInWrite
  <2>2. Tree(es) /\ Len(es) = k /\ \A i \in 1..k : es[i] = entries[i]
    BY <2>1, TreePrefix DEF LogInv
  <2> HIDE DEF es
  <2>3. /\ es \in Seq(EntryRec) /\ es \in Seq(Lines) /\ Readable(es) = es
        /\ ~ EndsWith(es, TornLine) /\ ~ EndsWith(es, OpenLine) /\ Len(es) \in Nat
    BY <2>2, TreeTypes, EntriesEnd, LineTypes
  <2>4. /\ f \in Seq(Lines) /\ Readable(f) = es
        /\ EndsWith(f, OpenLine) => f = Append(es, OpenLine)
    <3>1. CASE tail = <<>>
      BY <2>3, <3>1, ConcatEmptySeq
    <3>2. ASSUME NEW l \in {TornLine, OpenLine}, tail = <<l>>
          PROVE  f = Append(es, l) /\ f \in Seq(Lines) /\ Readable(f) = es /\ EndsWith(f, l)
      <4>1. f = Append(es, l) /\ l \in Lines /\ l \notin EntryRec
        BY <2>3, <3>2, LineTypes
      <4> HIDE DEF f
      <4> QED BY <2>3, <4>1, EndsWithAppend, ReadableAppend
    <3> HIDE DEF f
    <3>3. CASE tail = <<TornLine>>
      <4>1. f \in Seq(Lines) /\ Readable(f) = es /\ EndsWith(f, TornLine)
        BY <3>2, <3>3
      <4> QED BY <4>1, LineTypes DEF EndsWith
    <3>4. CASE tail = <<OpenLine>>
      BY <3>2, <3>4
    <3> QED BY <3>1, <3>3, <3>4 DEF Tails
  <2>5. OpenEntry(f)
    <3> SUFFICES ASSUME EndsWith(f, OpenLine), Len(f) > 1 PROVE f[Len(f) - 1] \in EntryRec
      BY DEF OpenEntry
    <3>1. f = Append(es, OpenLine)
      BY <2>4
    <3> HIDE DEF f
    <3>2. Len(f) = Len(es) + 1 /\ \A i \in 1..Len(es) : f[i] = es[i]
      BY <2>3, <3>1, LineTypes, AppendProperties
    <3>3. Len(f) - 1 = Len(es) /\ Len(es) \in 1..Len(es)
      BY <2>3, <3>2
    <3> QED BY <2>3, <3>2, <3>3, ElementOfSeq
  <2>6. Counted(f, lost, tears') /\ IsFiniteSet(lost)
    <3>1. IsFiniteSet(lost) /\ Cardinality(lost) = 0
      BY <2>1, FS_EmptySet
    <3> HIDE DEF f
    <3> QED BY <1>1, <3>1 DEF Counted
  <2>7. \A i \in 1..Len(es) : es[i].id < next
    BY <2>1, <2>2 DEF LogInv
  <2>8. lost \cap IdsOf(es) = {} /\ \A n \in lost : n \in Nat /\ n < next
    BY <2>1
  <2> HIDE DEF f
  <2> QED BY <1>1, <2>1, <2>2, <2>4, <2>5, <2>6, <2>7, <2>8, ReloadFile
<1> QED BY <1>2, <1>3 DEF ControlInv

-----------------------------------------------------------------------------
(* Forks                                                                   *)

Plain == {e \in EntryRec : e.type # "label"}

LEMMA WithoutLabelsFilter ==
  ASSUME NEW es \in Seq(EntryRec)
  PROVE  WithoutLabels(es) = Filter(es, Plain)
<1>1. DOMAIN es = 1..Len(es) /\ \A i \in DOMAIN es : es[i] \in EntryRec
  BY LenProperties, ElementOfSeq
<1>2. {i \in DOMAIN es : es[i].type # "label"} = {i \in DOMAIN es : es[i] \in Plain}
  BY <1>1 DEF Plain
<1> QED BY <1>2 DEF WithoutLabels, Filter

(* A chain: every entry is the child of the one before it.                 *)
Chained(es) == \A i \in 1..Len(es) : es[i].parent = IF i = 1 THEN 0 ELSE es[i - 1].id

(* The entries of a fork are those of the path, but for their parents.     *)
LEMMA RechainedIs ==
  ASSUME NEW path, Tree(path)
  PROVE  LET W == WithoutLabels(path)
             R == Rechained(path)
         IN  /\ W = Filter(path, Plain) /\ Tree(W) /\ Tree(R) /\ Len(R) = Len(W) /\ Chained(R)
             /\ \A i \in 1..Len(W) : /\ R[i].id = W[i].id /\ R[i].type = W[i].type
                                     /\ R[i].ref = W[i].ref /\ R[i].covers = W[i].covers
<1> DEFINE W == WithoutLabels(path)
           R == Rechained(path)
           n == Len(W)
           parent(i) == IF i = 1 THEN 0 ELSE W[i - 1].id
<1>1. W = Filter(path, Plain) /\ Tree(W)
  BY TreeTypes, WithoutLabelsFilter, TreeFilter
<1>2. n \in Nat /\ DOMAIN W = 1..n /\ \A i \in 1..n : W[i] \in EntryRec
  BY <1>1, TreeTypes
<1>3. R = [i \in 1..n |-> [W[i] EXCEPT !.parent = parent(i)]]
  BY <1>2 DEF Rechained
<1> HIDE DEF W, R
<1>4. ASSUME NEW i \in 1..n
      PROVE  parent(i) \in 0..MaxEntries /\ parent(i) < W[i].id
  <2>1. CASE i = 1
    BY <1>2, <2>1, EntryIds, SessionLogAssumption
  <2>2. CASE i # 1
    <3>1. i - 1 \in 1..n /\ i - 1 < i
      BY <1>2, <2>2
    <3>2. W[i - 1].id < W[i].id
      BY <1>1, <3>1 DEF Tree
    <3>3. W[i - 1].id \in 0..MaxEntries
      BY <1>2, <3>1, EntryIds, SessionLogAssumption
    <3> QED BY <2>2, <3>2, <3>3
  <2> QED BY <2>1, <2>2
<1> HIDE DEF parent
<1>5. ASSUME NEW i \in 1..n
      PROVE  /\ R[i] \in EntryRec /\ R[i].id = W[i].id /\ R[i].type = W[i].type
             /\ R[i].ref = W[i].ref /\ R[i].covers = W[i].covers /\ R[i].parent = parent(i)
  <2>1. R[i] = [W[i] EXCEPT !.parent = parent(i)] /\ W[i] \in EntryRec /\ parent(i) \in 0..MaxEntries
    BY <1>2, <1>3, <1>4
  <2> QED BY <2>1 DEF EntryRec
<1>6. R \in Seq(EntryRec) /\ Len(R) = n
  BY <1>2, <1>3, <1>5
<1>7. \A i \in 1..n : W[i].ref < W[i].id
  BY <1>1, TreeTypes
<1>8. \A i, j \in 1..n : i < j => W[i].id < W[j].id
  BY <1>1 DEF Tree
<1>9. Tree(R)
  BY <1>4, <1>5, <1>6, <1>7, <1>8 DEF Tree
<1>10. \A i \in 1..n : i # 1 => i - 1 \in 1..n
  BY <1>2
<1>11. Chained(R)
  BY <1>5, <1>6, <1>10 DEF Chained, parent
<1> QED BY <1>1, <1>5, <1>6, <1>9, <1>11 DEF W, R

(* What a fork consists of: the chain, and a label for each target.        *)
LEMMA BranchedIs ==
  ASSUME NEW saved, Tree(saved), NEW n0 \in Nat, NEW nx \in 1..(MaxEntries + 1),
         \A i \in 1..Len(saved) : saved[i].id < nx,
         LastId(Branched(saved, n0, nx)) <= MaxEntries
  PROVE  LET R == Rechained(Path(saved, n0))
             T == Labelled(saved) \cap IdsOf(R)
             O == InOrder(R, T)
             L == Relabelled(R, T, nx)
             B == Branched(saved, n0, nx)
         IN  /\ B = R \o L /\ Tree(B) /\ Chained(B) /\ L \in Seq(EntryRec) /\ Len(L) = Len(O)
             /\ Tree(R) /\ O = Filter(R, WithId(T)) /\ \A i \in 1..Len(R) : R[i].id < nx
             /\ \A i \in 1..Len(L) : /\ L[i].id = nx + i - 1 /\ L[i].type = "label"
                                     /\ L[i].ref = O[i].id /\ L[i].covers = {O[i].id}
             /\ \A i \in 1..Len(B) : B[i].id < nx \/ B[i].id <= LastId(B)
<1> DEFINE path == Path(saved, n0)
           R == Rechained(path)
           T == Labelled(saved) \cap IdsOf(R)
           O == InOrder(R, T)
           L == Relabelled(R, T, nx)
           B == Branched(saved, n0, nx)
           n == Len(R)
           m == Len(O)
<1>1. Tree(path) /\ path = Filter(saved, WithId(Ancestors(saved, n0)))
  BY PathFilter
<1>2. Tree(R) /\ Chained(R) /\ n \in Nat /\ R \in Seq(EntryRec) /\ DOMAIN R = 1..n
  <2> HIDE DEF path
  <2>1. Tree(R) /\ Chained(R)
    BY <1>1, RechainedIs
  <2> HIDE DEF R
  <2> QED BY <2>1, TreeTypes
<1>3. \A i \in 1..n : R[i].id < nx /\ R[i].id \in Nat
  <2> DEFINE W == WithoutLabels(path)
             A == WithId(Ancestors(saved, n0))
  <2>1. W = Filter(path, Plain) /\ Len(R) = Len(W) /\ \A i \in 1..Len(W) : R[i].id = W[i].id
    <3> HIDE DEF path
    <3> QED BY <1>1, RechainedIs
  <2>2. \A i \in 1..Len(Filter(path, Plain)) :
          Filter(path, Plain)[i] \in Plain /\ \E k \in 1..Len(path) : path[k] = Filter(path, Plain)[i]
    <3> HIDE DEF path
    <3> QED BY <1>1, TreeTypes, FilterElements
  <2>3. \A i \in 1..Len(Filter(saved, A)) :
          Filter(saved, A)[i] \in A /\ \E k \in 1..Len(saved) : saved[k] = Filter(saved, A)[i]
    <3> HIDE DEF A
    <3> QED BY TreeTypes, FilterElements
  <2> HIDE DEF path, R, W
  <2>4. \A i \in 1..Len(path) : path[i].id < nx
    BY <1>1, <2>3
  <2>5. \A i \in 1..Len(W) : W[i].id < nx
    BY <2>1, <2>2, <2>4
  <2> QED BY <1>2, <2>1, <2>5, TreeTypes
<1>4. O = Filter(R, WithId(T)) /\ O \in Seq(EntryRec) /\ m \in Nat /\ DOMAIN O = 1..m
  <2> HIDE DEF R, T
  <2>1. O = Filter(R, WithId(T)) /\ O \in Seq(EntryRec)
    BY <1>2, InOrderFilter, FilterInSeq
  <2> HIDE DEF O
  <2> QED BY <2>1, LenProperties
<1>5. B = R \o L
  BY DEF Branched
<1> HIDE DEF R
<1> DEFINE label(i) == [id     |-> nx + i - 1,
                        parent |-> IF i = 1 THEN LastId(R) ELSE nx + i - 2,
                        type   |-> "label",
                        ref    |-> O[i].id,
                        covers |-> {O[i].id}]
<1>6. L = [i \in 1..m |-> label(i)]
  <2> DEFINE order == IdSeq(O)
  <2>1. order = [i \in 1..m |-> O[i].id]
    BY <1>4 DEF IdSeq
  <2>2. DOMAIN order = 1..m /\ \A i \in 1..m : order[i] = O[i].id
    BY <2>1
  <2>3. L = [i \in DOMAIN order |->
               [id     |-> nx + i - 1,
                parent |-> IF i = 1 THEN LastId(R) ELSE nx + i - 2,
                type   |-> "label",
                ref    |-> order[i],
                covers |-> {order[i]}]]
    BY DEF Relabelled
  <2> HIDE DEF order, O, L
  <2> QED BY <2>2, <2>3
<1> HIDE DEF T, O, L, B
<1> DEFINE X == EntryRec \cup {label(i) : i \in 1..m}
<1>7. L \in Seq(X) /\ Len(L) = m /\ R \in Seq(X)
  <2>1. \A i \in 1..m : label(i) \in X
    OBVIOUS
  <2>2. R \in Seq(X)
    <3> HIDE DEF label
    <3> QED BY <1>2, SeqMonotonic
  <2> HIDE DEF label, X
  <2> QED BY <1>4, <1>6, <2>1, <2>2
<1> HIDE DEF X
<1>8. /\ Len(B) = n + m
      /\ \A i \in 1..(n + m) : B[i] = IF i <= n THEN R[i] ELSE L[i - n]
  BY <1>5, <1>7, ConcatProperties
<1>9. m # 0 => nx + m - 1 <= MaxEntries
  <2> SUFFICES ASSUME m # 0 PROVE nx + m - 1 <= MaxEntries
    OBVIOUS
  <2>1. n + m \in 1..(n + m) /\ ~ (n + m <= n) /\ (n + m) - n = m /\ m \in 1..m
    BY <1>2, <1>4
  <2>2. B[n + m] = label(m)
    <3>1. B[n + m] = L[m]
      BY <1>8, <2>1
    <3> QED BY <1>6, <2>1, <3>1
  <2>3. B # <<>>
    <3>1. Len(B) # 0
      BY <1>8, <2>1
    <3> QED BY <3>1, EmptySeq
  <2>4. LastId(B) = B[Len(B)].id
    BY <2>3 DEF LastId, Last
  <2>5. LastId(B) = nx + m - 1
    BY <1>8, <2>2, <2>4
  <2> QED BY <2>5 DEF B
<1>10. LastId(R) \in 0..MaxEntries /\ LastId(R) < nx /\ LastId(R) \in Nat
  <2>1. CASE R = <<>>
    BY <1>2, <2>1, LastIdIs, SessionLogAssumption
  <2>2. CASE R # <<>>
    <3>1. n \in 1..n /\ LastId(R) = R[n].id /\ LastId(R) \in 0..MaxEntries
      BY <1>2, <2>2, LastIdIs
    <3> QED BY <1>3, <3>1
  <2> QED BY <2>1, <2>2
<1>11. ASSUME NEW i \in 1..m
       PROVE  /\ L[i] \in EntryRec /\ L[i] = label(i)
              /\ L[i].parent < L[i].id /\ L[i].ref < L[i].id
  <2>1. L[i] = label(i)
    BY <1>6
  <2>2. nx + i - 1 \in 1..MaxEntries /\ (i # 1 => nx + i - 2 \in 0..MaxEntries) /\ nx <= nx + i - 1
    BY <1>4, <1>9, SessionLogAssumption
  <2>3. O[i].id \in 1..MaxEntries /\ O[i].id < nx
    <3>1. \A j \in 1..Len(Filter(R, WithId(T))) :
            Filter(R, WithId(T))[j] \in WithId(T) /\ \E k \in 1..Len(R) : R[k] = Filter(R, WithId(T))[j]
      <4> DEFINE A == WithId(T)
      <4> HIDE DEF A
      <4>1. \A j \in 1..Len(Filter(R, A)) : Filter(R, A)[j] \in A /\ \E k \in 1..Len(R) : R[k] = Filter(R, A)[j]
        BY <1>2, FilterElements
      <4> QED BY <4>1 DEF A
    <3>2. \E k \in 1..n : R[k] = O[i]
      BY <1>4, <3>1
    <3>3. O[i] \in EntryRec
      BY <1>4, ElementOfSeq
    <3> QED BY <1>3, <3>2, <3>3, EntryIds
  <2>4. label(i) \in EntryRec
    <3> DEFINE p == IF i = 1 THEN LastId(R) ELSE nx + i - 2
    <3>1. p \in 0..MaxEntries
      BY <1>10, <2>2
    <3>2. nx + i - 1 \in 1..MaxEntries /\ "label" \in EntryTypes
      BY <2>2 DEF EntryTypes
    <3>3. O[i].id \in 0..MaxEntries /\ {O[i].id} \in SUBSET (1..MaxEntries)
      BY <2>3, SessionLogAssumption
    <3> HIDE DEF p
    <3>4. [id |-> nx + i - 1, parent |-> p, type |-> "label", ref |-> O[i].id, covers |-> {O[i].id}] \in EntryRec
      BY <3>1, <3>2, <3>3 DEF EntryRec
    <3> QED BY <3>4 DEF p
  <2>5. label(i).parent < label(i).id
    <3>1. CASE i = 1
      BY <1>10, <2>2, <3>1
    <3>2. CASE i # 1
      BY <1>4, <3>2
    <3> QED BY <3>1, <3>2
  <2>6. label(i).ref < label(i).id
    BY <1>4, <2>2, <2>3
  <2> QED BY <2>1, <2>4, <2>5, <2>6
<1>12. L \in Seq(EntryRec)
  <2>1. \A i \in 1..m : label(i) \in EntryRec
    BY <1>11
  <2> HIDE DEF label
  <2> QED BY <1>4, <1>6, <2>1
<1>13. B \in Seq(EntryRec)
  BY <1>2, <1>5, <1>12, ConcatProperties
<1>14. \A i \in 1..Len(B) : \/ i \in 1..n /\ B[i] = R[i]
                            \/ i - n \in 1..m /\ i > n /\ B[i] = L[i - n] /\ B[i].id = nx + (i - n) - 1
  <2> TAKE i \in 1..Len(B)
  <2>1. CASE i <= n
    BY <1>2, <1>4, <1>8, <2>1
  <2>2. CASE i > n
    <3>1. i - n \in 1..m /\ B[i] = L[i - n]
      BY <1>2, <1>4, <1>8, <2>2
    <3>2. L[i - n] = label(i - n)
      BY <1>11, <3>1
    <3> QED BY <2>2, <3>1, <3>2
  <2> QED BY <1>2, <1>4, <1>8, <2>1, <2>2
<1>15. \A i \in 1..Len(B) : B[i].parent < B[i].id /\ B[i].ref < B[i].id
  <2> TAKE i \in 1..Len(B)
  <2>1. CASE i \in 1..n /\ B[i] = R[i]
    <3>1. Tree(R)
      BY <1>2
    <3>2. R[i].parent < R[i].id /\ R[i].ref < R[i].id
      BY <2>1, <3>1, TreeTypes
    <3> QED BY <2>1, <3>2
  <2>2. CASE i - n \in 1..m /\ B[i] = L[i - n]
    BY <1>11, <2>2
  <2> QED BY <1>14, <2>1, <2>2
<1>16. ASSUME NEW i \in 1..Len(B), NEW j \in 1..Len(B), i < j PROVE B[i].id < B[j].id
  <2>1. CASE i \in 1..n /\ B[i] = R[i] /\ j \in 1..n /\ B[j] = R[j]
    <3>1. \A a, b \in 1..n : a < b => R[a].id < R[b].id
      BY <1>2 DEF Tree
    <3> QED BY <1>16, <2>1, <3>1
  <2>2. CASE i \in 1..n /\ B[i] = R[i] /\ j - n \in 1..m /\ B[j].id = nx + (j - n) - 1
    BY <1>3, <1>4, <2>2
  <2>3. CASE i - n \in 1..m /\ B[i].id = nx + (i - n) - 1 /\ j - n \in 1..m /\ B[j].id = nx + (j - n) - 1
    BY <1>2, <1>4, <1>16, <2>3
  <2>4. ~ (i > n /\ j \in 1..n)
    BY <1>2, <1>16
  <2> QED BY <1>14, <2>1, <2>2, <2>3, <2>4
<1>17. Tree(B)
  BY <1>13, <1>15, <1>16 DEF Tree
<1>18. Chained(B)
  <2> SUFFICES ASSUME NEW i \in 1..Len(B) PROVE B[i].parent = IF i = 1 THEN 0 ELSE B[i - 1].id
    BY DEF Chained
  <2>1. CASE i \in 1..n
    <3>1. B[i] = R[i] /\ (i # 1 => i - 1 \in 1..n /\ i - 1 \in 1..(n + m) /\ B[i - 1] = R[i - 1])
      BY <1>2, <1>4, <1>8, <2>1
    <3> QED BY <1>2, <2>1, <3>1 DEF Chained
  <2>2. CASE i - n \in 1..m /\ i - n # 1
    <3> DEFINE k == i - n
    <3>1. B[i] = label(k) /\ k \in 1..m /\ k # 1
      <4>1. i > n /\ k \in 1..m /\ k # 1
        BY <1>2, <2>2
      <4>2. B[i] = L[k]
        BY <1>2, <1>14, <4>1
      <4> HIDE DEF k, label
      <4>3. L[k] = label(k)
        BY <1>11, <4>1
      <4> QED BY <4>1, <4>2, <4>3
    <3>2. i - 1 \in 1..Len(B) /\ (i - 1) - n \in 1..m /\ i - 1 > n /\ i # 1 /\ (i - 1) - n = k - 1
      BY <1>2, <1>4, <1>8, <2>2
    <3>3. B[i - 1].id = nx + ((i - 1) - n) - 1
      <4> DEFINE j == i - 1
      <4>1. j \in 1..Len(B) /\ j > n
        BY <3>2
      <4> HIDE DEF j
      <4>2. B[j].id = nx + (j - n) - 1
        BY <1>2, <1>14, <4>1
      <4> QED BY <4>2 DEF j
    <3>4. label(k).parent = nx + k - 2
      BY <3>1
    <3> QED BY <1>2, <3>1, <3>2, <3>3, <3>4
  <2>3. CASE i - n = 1
    <3>1. B[i].parent = LastId(R)
      <4>1. i = n + 1 /\ i - n \in 1..m /\ i > n
        BY <1>2, <1>4, <1>8, <2>3
      <4>2. B[i] = label(1)
        BY <1>2, <1>11, <1>14, <2>3, <4>1
      <4> QED BY <4>2
    <3>2. CASE n = 0
      <4>1. R = <<>>
        BY <1>2, <3>2, EmptySeq
      <4>2. LastId(R) = 0 /\ i = 1
        BY <1>2, <2>3, <3>2, <4>1, LastIdIs
      <4> QED BY <3>1, <4>2
    <3>3. CASE n # 0
      <4>1. R # <<>> /\ n \in 1..n /\ i - 1 = n /\ i # 1 /\ n \in 1..(n + m)
        BY <1>2, <1>4, <2>3, <3>3, EmptySeq
      <4>2. LastId(R) = R[n].id
        BY <1>2, <4>1, LastIdIs
      <4>3. B[n] = R[n]
        BY <1>8, <4>1
      <4> QED BY <3>1, <4>1, <4>2, <4>3
    <3> QED BY <1>2, <3>2, <3>3
  <2> QED BY <1>14, <2>1, <2>2, <2>3
<1>19. \A i \in 1..Len(B) : B[i].id <= LastId(B)
  BY <1>17, LastIdIs
<1>20. \A i \in 1..m : /\ L[i].id = nx + i - 1 /\ L[i].type = "label"
                       /\ L[i].ref = O[i].id /\ L[i].covers = {O[i].id}
  <2> TAKE i \in 1..m
  <2>1. L[i] = label(i)
    BY <1>6
  <2> QED BY <2>1
<1> QED BY <1>2, <1>3, <1>4, <1>5, <1>7, <1>12, <1>17, <1>18, <1>19, <1>20 DEF R, T, O, L, B

LEMMA NewSessionKeeps ==
  ASSUME LogInv, FileInv, NewSession
  PROVE  LogInv' /\ ControlInv' /\ FileInv'
<1>1. tears' \in Nat
  BY DEF NewSession, FileInv
<1> QED BY <1>1, EmptyKeeps DEF NewSession

(* A fork starts from a saved session.                                     *)
LEMMA ForkOrigin ==
  ASSUME LogInv, FileInv, flushed \in BOOLEAN, NEW target \in 1..MaxEntries, Fork(target)
  PROVE  LET saved == Readable(file)
             es    == Branched(saved, target, next)
         IN  /\ flushed /\ Tree(saved) /\ target \in IdsOf(saved)
             /\ next \in 1..(MaxEntries + 1) /\ \A i \in 1..Len(saved) : saved[i].id < next
             /\ Tree(es) /\ Chained(es) /\ LastId(es) <= MaxEntries
             /\ \A i \in 1..Len(es) : es[i].id < next \/ es[i].id <= LastId(es)
<1>1. flushed
  BY DEF Fork, FileInv
<1> DEFINE saved == Readable(file)
           es == Branched(saved, target, next)
<1>2. /\ Tree(saved) /\ target \in IdsOf(saved) /\ LastId(es) <= MaxEntries
      /\ \A i \in 1..Len(saved) : saved[i].id < next
      /\ next \in 1..(MaxEntries + 1) /\ target \in Nat
  BY <1>1, SavedTree DEF Fork, LogInv
<1> HIDE DEF saved
<1>3. /\ Tree(es) /\ Chained(es)
      /\ \A i \in 1..Len(es) : es[i].id < next \/ es[i].id <= LastId(es)
  BY <1>2, BranchedIs
<1> QED BY <1>1, <1>2, <1>3 DEF saved

LEMMA ForkKeeps ==
  ASSUME LogInv, ControlInv, FileInv, NEW target \in 1..MaxEntries, Fork(target)
  PROVE  LogInv' /\ ControlInv' /\ FileInv'
<1> DEFINE saved == Readable(file)
           es == Branched(saved, target, next)
           f == ForkOf(es)
<1>1. /\ Tree(es) /\ LastId(es) <= MaxEntries /\ next \in 1..(MaxEntries + 1)
      /\ \A i \in 1..Len(es) : es[i].id < next \/ es[i].id <= LastId(es)
  BY ForkOrigin DEF ControlInv
<1>2. /\ StartSession(es, f) /\ lost' = {} /\ tears' = tears
      /\ next' = IF LastId(es) < next THEN next ELSE LastId(es) + 1
      /\ entries' = es /\ flushed' = f.flushed /\ file' = f.file
  BY DEF Fork, StartSession
<1> HIDE DEF es
<1>3. f = IF HasAnswer(es) THEN [flushed |-> TRUE, file |-> es] ELSE [flushed |-> FALSE, file |-> NoFile]
  BY DEF ForkOf
<1>4. f.flushed \in BOOLEAN
  BY <1>3
<1>5. LastId(es) \in Nat /\ \A i \in 1..Len(es) : es[i].id <= LastId(es) /\ es[i].id \in Nat
  BY <1>1, LastIdIs, TreeTypes
<1>6. next' \in 1..(MaxEntries + 1) /\ \A i \in 1..Len(es) : es[i].id < next'
  <2>1. CASE LastId(es) < next
    BY <1>1, <1>2, <1>5, <2>1
  <2>2. CASE ~ (LastId(es) < next)
    BY <1>1, <1>2, <1>5, <2>2, SessionLogAssumption
  <2> QED BY <2>1, <2>2
<1>7. LogInv' /\ ControlInv'
  <2> HIDE DEF f
  <2> QED BY <1>1, <1>2, <1>4, <1>6, StartSessionLog
<1>8. /\ IsFiniteSet(lost') /\ tears' \in Nat /\ lost' = {} /\ Cardinality(lost') <= 2 * tears'
  <2>1. lost' = {} /\ tears' \in Nat
    BY <1>2 DEF FileInv
  <2>2. IsFiniteSet(lost') /\ Cardinality(lost') = 0
    BY <2>1, FS_EmptySet
  <2> QED BY <2>1, <2>2
<1>9. CASE HasAnswer(es)
  <2>1. flushed' = TRUE /\ file' = es
    BY <1>2, <1>3, <1>9
  <2>2. es \in Seq(Lines) /\ Readable(es) = es /\ ~ EndsWith(es, TornLine) /\ ~ EndsWith(es, OpenLine)
    BY <1>1, TreeTypes, EntriesEnd, LineTypes
  <2>3. file' # <<OpenLine>> /\ file' # VoidFile /\ OpenEntry(file')
    <3>1. EndsWith(<<OpenLine>>, OpenLine)
      BY DEF EndsWith
    <3> QED BY <2>1, <2>2, <3>1, NoLines DEF OpenEntry
  <2>4. InOrder(es, IdsOf(es) \ lost') = es
    <3>1. InOrder(es, IdsOf(es) \ {}) = es
      <4> DEFINE S == {}
      <4>1. S \cap IdsOf(es) = {}
        OBVIOUS
      <4> HIDE DEF S
      <4>2. InOrder(es, IdsOf(es) \ S) = es
        BY <1>1, <4>1, InOrderAll
      <4> QED BY <4>2 DEF S
    <3> QED BY <1>8, <3>1
  <2>5. Readable(file') = InOrder(entries', IdsOf(entries') \ lost')
    BY <1>2, <2>1, <2>2, <2>4
  <2>6. Counted(file', lost', tears')
    BY <1>8, <2>1, <2>2 DEF Counted
  <2> QED BY <1>7, <1>8, <2>1, <2>2, <2>3, <2>5, <2>6 DEF FileInv, FileIsMemory
<1>10. CASE ~ HasAnswer(es)
  <2>1. flushed' = FALSE /\ file' = NoFile /\ ~ HasAnswer(entries')
    BY <1>2, <1>3, <1>10
  <2>2. /\ ~ EndsWith(file', TornLine) /\ ~ EndsWith(file', OpenLine)
        /\ file' \notin {<<OpenLine>>, VoidFile}
    BY <2>1, NoLines
  <2>3. Counted(file', lost', tears')
    BY <1>8, <2>2 DEF Counted
  <2> QED BY <1>7, <1>8, <2>1, <2>2, <2>3 DEF FileInv, FileIsMemory
<1> QED BY <1>9, <1>10

-----------------------------------------------------------------------------
(* The transcript                                                          *)

LEMMA IdSeqAppend ==
  ASSUME NEW s \in Seq(EntryRec), NEW e \in EntryRec
  PROVE  /\ IdSeq(Append(s, e)) = Append(IdSeq(s), e.id)
         /\ IdSeq(s) \in Seq(Nat) /\ Len(IdSeq(s)) = Len(s) /\ \A i \in 1..Len(s) : IdSeq(s)[i] = s[i].id
<1> DEFINE t == Append(s, e)
           n == Len(s)
<1>1. /\ n \in Nat /\ DOMAIN s = 1..n /\ t \in Seq(EntryRec) /\ Len(t) = n + 1 /\ t[n + 1] = e
      /\ \A i \in 1..n : t[i] = s[i] /\ s[i].id \in Nat
  BY LenProperties, AppendProperties, ElementOfSeq, EntryIds
<1>2. DOMAIN t = 1..(n + 1)
  BY <1>1, LenProperties
<1> HIDE DEF t
<1>3. IdSeq(s) = [i \in 1..n |-> s[i].id] /\ IdSeq(t) = [i \in 1..(n + 1) |-> t[i].id]
  BY <1>1, <1>2 DEF IdSeq
<1>4. IdSeq(s) \in Seq(Nat) /\ Len(IdSeq(s)) = n /\ \A i \in 1..n : IdSeq(s)[i] = s[i].id
  BY <1>1, <1>3
<1>5. e.id \in Nat /\ \A i \in 1..(n + 1) : t[i].id \in Nat
  <2>1. \A i \in 1..(n + 1) : i \in 1..n \/ i = n + 1
    BY <1>1
  <2> QED BY <1>1, <2>1, EntryIds
<1>6. IdSeq(t) \in Seq(Nat) /\ Len(IdSeq(t)) = n + 1 /\ \A i \in 1..(n + 1) : IdSeq(t)[i] = t[i].id
  BY <1>1, <1>3, <1>5
<1> DEFINE u == IdSeq(s)
           v == IdSeq(t)
           w == Append(u, e.id)
<1>7. w \in Seq(Nat) /\ Len(w) = n + 1 /\ w[n + 1] = e.id /\ \A i \in 1..n : w[i] = u[i]
  <2> HIDE DEF u
  <2>1. u \in Seq(Nat) /\ Len(u) = n
    BY <1>4 DEF u
  <2> QED BY <1>5, <2>1, AppendProperties
<1> HIDE DEF u, v, w
<1>8. \A i \in 1..(n + 1) : v[i] = w[i]
  <2>1. \A i \in 1..(n + 1) : i \in 1..n \/ i = n + 1
    BY <1>1
  <2>2. ASSUME NEW i \in 1..n PROVE i \in 1..(n + 1) /\ v[i] = w[i]
    <3>1. i \in 1..(n + 1)
      BY <1>1
    <3>2. v[i] = t[i].id /\ u[i] = s[i].id
      BY <1>4, <1>6, <3>1 DEF u, v
    <3>3. t[i] = s[i] /\ w[i] = u[i]
      BY <1>1, <1>7
    <3> QED BY <3>1, <3>2, <3>3
  <2>3. v[n + 1] = w[n + 1]
    BY <1>1, <1>6, <1>7 DEF v
  <2> QED BY <2>1, <2>2, <2>3
<1>9. v = w
  <2>1. v \in Seq(Nat) /\ Len(v) = n + 1
    BY <1>6 DEF v
  <2> QED BY <1>7, <1>8, <2>1, SeqEqual
<1> QED BY <1>4, <1>9 DEF t, u, v, w

(* What is appended at the end of a path ends its context, if it is shown. *)
LEMMA ContextAppend ==
  ASSUME NEW es, NEW e \in EntryRec, Tree(es), Tree(Append(es, e)), e.type # "compaction"
  PROVE  Context(Append(es, e), e.id) =
           IF Visible(e) THEN Append(Context(es, e.parent), e) ELSE Context(es, e.parent)
<1> DEFINE t == Append(es, e)
           path == Path(es, e.parent)
<1>1. e.id \in Nat /\ e.parent \in Nat
  BY EntryIds
<1>2. Path(t, e.id) = Append(path, e) /\ Tree(path) /\ Tree(Append(path, e))
  <2>1. Path(t, e.id) = Append(path, e)
    BY PathAppendNew
  <2>2. Tree(path) /\ Tree(Path(t, e.id))
    BY <1>1, PathFilter
  <2> QED BY <2>1, <2>2
<1>3. Context(t, e.id) = VisibleOf(ContextEntries(Append(path, e)))
  BY <1>2 DEF Context
<1>4. Context(es, e.parent) = VisibleOf(ContextEntries(path))
  BY DEF Context
<1> HIDE DEF t, path
<1> DEFINE k == ContextEntries(path)
<1>5. k \in Seq(EntryRec)
  BY <1>2, ContextEntriesIs
<1>6. ContextEntries(Append(path, e)) = Append(k, e)
  BY <1>2, ContextEntriesAppend
<1> HIDE DEF k
<1>7. Append(k, e) \in Seq(EntryRec)
  BY <1>5, AppendProperties
<1>8. Filter(Append(k, e), Seen) = IF e \in Seen THEN Append(Filter(k, Seen), e) ELSE Filter(k, Seen)
  BY <1>5, FilterAppend
<1>9. VisibleOf(Append(k, e)) = Filter(Append(k, e), Seen) /\ VisibleOf(k) = Filter(k, Seen)
  BY <1>5, <1>7, VisibleFilter
<1>10. e \in Seen <=> Visible(e)
  BY DEF Seen
<1> QED BY <1>3, <1>4, <1>6, <1>8, <1>9, <1>10 DEF k, t

LEMMA ContextType ==
  ASSUME NEW es, Tree(es), NEW n \in Nat
  PROVE  Context(es, n) \in Seq(EntryRec)
<1>1. ContextEntries(Path(es, n)) \in Seq(EntryRec)
  BY PathFilter, ContextEntriesIs
<1> DEFINE k == ContextEntries(Path(es, n))
<1> HIDE DEF k
<1>2. VisibleOf(k) \in Seq(EntryRec)
  BY <1>1, VisibleFilter, FilterInSeq DEF k
<1> QED BY <1>2 DEF Context, k

LEMMA PathElements ==
  ASSUME NEW es, Tree(es), NEW n \in Nat
  PROVE  \A i \in 1..Len(Path(es, n)) : \E k \in 1..Len(es) : es[k] = Path(es, n)[i]
<1> DEFINE A == WithId(Ancestors(es, n))
<1>1. Path(es, n) = Filter(es, A)
  BY PathFilter
<1> HIDE DEF A
<1>2. \A i \in 1..Len(Filter(es, A)) : Filter(es, A)[i] \in A /\ \E k \in 1..Len(es) : es[k] = Filter(es, A)[i]
  BY TreeTypes, FilterElements
<1> QED BY <1>1, <1>2

(* Every entry of a context is one of the session, and stands there once.  *)
Distinct(s) == \A i, j \in 1..Len(s) : s[i].id = s[j].id => i = j
Within(s, es) == \A i \in 1..Len(s) : \E k \in 1..Len(es) : es[k] = s[i]

LEMMA DistinctAppend ==
  ASSUME NEW s \in Seq(EntryRec), NEW e \in EntryRec
  PROVE  Distinct(Append(s, e)) <=> Distinct(s) /\ \A i \in 1..Len(s) : s[i].id # e.id
<1> DEFINE t == Append(s, e)
           n == Len(s)
<1>1. n \in Nat /\ Len(t) = n + 1 /\ t[n + 1] = e /\ \A k \in 1..n : t[k] = s[k]
  BY AppendProperties, LenProperties
<1> HIDE DEF t
<1>2. 1..Len(t) = 1..n \cup {n + 1} /\ n + 1 \notin 1..n
  BY <1>1
<1> QED BY <1>1, <1>2 DEF Distinct, t

LEMMA DistinctFilter ==
  ASSUME NEW s \in Seq(EntryRec), NEW P, Distinct(s)
  PROVE  Distinct(Filter(s, P))
<1> DEFINE Q == {q \in Seq(EntryRec) : Distinct(q) => Distinct(Filter(q, P))}
<1>1. <<>> \in Q
  BY FilterEmpty, EmptySeq
<1>2. ASSUME NEW q \in Seq(EntryRec), NEW e \in EntryRec, q \in Q PROVE Append(q, e) \in Q
  <2>1. Append(q, e) \in Seq(EntryRec) /\ Filter(q, P) \in Seq(EntryRec)
    BY AppendProperties, FilterInSeq
  <2> SUFFICES ASSUME Distinct(Append(q, e)) PROVE Distinct(Filter(Append(q, e), P))
    BY <2>1
  <2>2. Filter(Append(q, e), P) = IF e \in P THEN Append(Filter(q, P), e) ELSE Filter(q, P)
    BY FilterAppend
  <2>3. Distinct(q) /\ \A i \in 1..Len(q) : q[i].id # e.id
    BY DistinctAppend
  <2>4. Distinct(Filter(q, P))
    BY <1>2, <2>3
  <2>5. \A i \in 1..Len(Filter(q, P)) : Filter(q, P)[i].id # e.id
    <3>1. \A i \in 1..Len(Filter(q, P)) :
            Filter(q, P)[i] \in P /\ \E k \in 1..Len(q) : q[k] = Filter(q, P)[i]
      BY FilterElements
    <3> QED BY <2>3, <3>1
  <2>6. Distinct(Append(Filter(q, P), e))
    BY <2>1, <2>4, <2>5, DistinctAppend
  <2> QED BY <2>2, <2>4, <2>6
<1>3. Seq(EntryRec) \subseteq Q
  <2> HIDE DEF Q
  <2> QED BY <1>1, <1>2, SeqInduction
<1> QED BY <1>3

LEMMA ConcatParts ==
  ASSUME NEW s \in Seq(EntryRec), NEW t \in Seq(EntryRec), NEW es, Within(s, es), Within(t, es),
         Distinct(s), Distinct(t), \A i \in 1..Len(s), j \in 1..Len(t) : s[i].id # t[j].id
  PROVE  s \o t \in Seq(EntryRec) /\ Within(s \o t, es) /\ Distinct(s \o t)
<1> DEFINE u == s \o t
           m == Len(s)
           n == Len(t)
<1>1. /\ m \in Nat /\ n \in Nat /\ u \in Seq(EntryRec) /\ Len(u) = m + n
      /\ \A i \in 1..(m + n) : u[i] = IF i <= m THEN s[i] ELSE t[i - m]
  BY ConcatProperties, LenProperties
<1> HIDE DEF u
<1>2. \A i \in 1..Len(u) : IF i <= m THEN i \in 1..m /\ u[i] = s[i] ELSE i - m \in 1..n /\ u[i] = t[i - m]
  BY <1>1
<1>3. Within(u, es)
  BY <1>2 DEF Within
<1>4. ASSUME NEW i \in 1..Len(u), NEW j \in 1..Len(u), u[i].id = u[j].id PROVE i = j
  <2>1. CASE i <= m /\ j <= m
    BY <1>2, <1>4, <2>1 DEF Distinct
  <2>2. CASE ~ i <= m /\ ~ j <= m
    <3>1. i - m = j - m
      BY <1>2, <1>4, <2>2 DEF Distinct
    <3> QED BY <1>1, <3>1
  <2>3. CASE i <= m /\ ~ j <= m
    BY <1>2, <1>4, <2>3
  <2>4. CASE ~ i <= m /\ j <= m
    <3>1. s[j].id = t[i - m].id /\ j \in 1..m /\ i - m \in 1..n
      BY <1>2, <1>4, <2>4
    <3> QED BY <3>1
  <2> QED BY <2>1, <2>2, <2>3, <2>4
<1>5. Distinct(u)
  BY <1>4 DEF Distinct
<1> QED BY <1>1, <1>3, <1>5 DEF u

LEMMA TreeDistinct ==
  ASSUME NEW es, Tree(es)
  PROVE  Distinct(es) /\ Within(es, es)
BY TreeUnique DEF Distinct, Within

LEMMA PartOfTree ==
  ASSUME NEW path, Tree(path), NEW a \in Nat \ {0}, NEW z \in Nat, z <= Len(path)
  PROVE  LET s == SubSeq(path, a, z)
         IN  /\ s \in Seq(EntryRec) /\ Within(s, path) /\ Distinct(s)
             /\ \A i \in 1..Len(s) : \E k \in a..z : s[i] = path[k]
<1> DEFINE s == SubSeq(path, a, z)
<1>1. path \in Seq(EntryRec) /\ Len(path) \in Nat
  BY TreeTypes
<1>2. /\ s \in Seq(EntryRec) /\ Len(s) = IF a <= z THEN z - a + 1 ELSE 0
      /\ \A i \in 1..(z - a + 1) : s[i] = path[a + i - 1]
  BY <1>1, SubSeqType
<1> HIDE DEF s
<1>3. \A i \in 1..Len(s) : s[i] = path[a + i - 1] /\ a + i - 1 \in a..z /\ a + i - 1 \in 1..Len(path)
  BY <1>1, <1>2
<1>4. ASSUME NEW i \in 1..Len(s), NEW j \in 1..Len(s), s[i].id = s[j].id PROVE i = j
  <2>1. a + i - 1 = a + j - 1
    <3> DEFINE k == a + i - 1
               l == a + j - 1
    <3>1. k \in 1..Len(path) /\ l \in 1..Len(path) /\ path[k].id = path[l].id
      BY <1>3, <1>4
    <3> HIDE DEF k, l
    <3>2. k = l
      BY <3>1, TreeUnique
    <3> QED BY <3>2 DEF k, l
  <2>2. i \in Nat /\ j \in Nat
    BY <1>2
  <2> QED BY <2>1, <2>2
<1>5. Distinct(s)
  BY <1>4 DEF Distinct
<1>6. Within(s, path) /\ \A i \in 1..Len(s) : \E k \in a..z : s[i] = path[k]
  BY <1>3 DEF Within
<1> QED BY <1>2, <1>5, <1>6 DEF s

LEMMA ContextEntriesOnce ==
  ASSUME NEW path, Tree(path)
  PROVE  Within(ContextEntries(path), path) /\ Distinct(ContextEntries(path))
<1> DEFINE c == LastCompaction(path)
           b == BoundaryStart(path)
           n == Len(path)
           K == SubSeq(path, b, c - 1)
           F == SubSeq(path, c + 1, n)
<1>1. path \in Seq(EntryRec) /\ n \in Nat /\ c \in 0..n /\ b \in 1..(n + 1)
  BY TreeTypes, BoundaryStartIs
<1>2. ContextEntries(path) = IF c = 0 THEN path ELSE <<path[c]>> \o K \o F
  BY ContextEntriesIs
<1> HIDE DEF c, b
<1>3. CASE c = 0
  BY <1>2, <1>3, TreeDistinct
<1>4. CASE c # 0
  <2>1. c - 1 \in Nat /\ c - 1 <= n /\ b \in Nat \ {0} /\ c + 1 \in Nat \ {0} /\ c \in 1..n
    BY <1>1, <1>4
  <2>2. K \in Seq(EntryRec) /\ Within(K, path) /\ Distinct(K) /\ \A i \in 1..Len(K) : \E k \in b..(c - 1) : K[i] = path[k]
    BY <2>1, PartOfTree
  <2>3. F \in Seq(EntryRec) /\ Within(F, path) /\ Distinct(F) /\ \A i \in 1..Len(F) : \E k \in (c + 1)..n : F[i] = path[k]
    BY <1>1, <2>1, PartOfTree
  <2> DEFINE s == <<path[c]>>
  <2>4. path[c] \in EntryRec
    BY <1>1, <2>1, TreeTypes
  <2>5. s \in Seq(EntryRec) /\ Len(s) = 1 /\ s[1] = path[c]
    BY <2>4
  <2> HIDE DEF s, K, F
  <2>6. Within(s, path) /\ Distinct(s)
    <3>1. \A i \in 1..Len(s) : i = 1
      BY <2>5
    <3> QED BY <2>1, <2>5, <3>1 DEF Within, Distinct
  <2>7. \A k, l \in 1..n : path[k].id = path[l].id => k = l
    BY TreeUnique
  <2>8. \A i \in 1..Len(s), j \in 1..Len(K) : s[i].id # K[j].id
    <3> TAKE i \in 1..Len(s), j \in 1..Len(K)
    <3>1. PICK k \in b..(c - 1) : K[j] = path[k]
      BY <2>2
    <3>2. k \in 1..n /\ k # c /\ s[i] = path[c]
      BY <1>1, <2>1, <2>5
    <3> QED BY <2>1, <2>7, <3>1, <3>2
  <2>9. s \o K \in Seq(EntryRec) /\ Within(s \o K, path) /\ Distinct(s \o K)
    BY <2>2, <2>5, <2>6, <2>8, ConcatParts
  <2>10. \A i \in 1..Len(s \o K), j \in 1..Len(F) : (s \o K)[i].id # F[j].id
    <3> TAKE i \in 1..Len(s \o K), j \in 1..Len(F)
    <3>1. PICK l \in (c + 1)..n : F[j] = path[l]
      BY <2>3
    <3>2. \E k \in 1..c : (s \o K)[i] = path[k]
      <4>1. /\ Len(s \o K) = Len(s) + Len(K) /\ Len(K) \in Nat
            /\ (s \o K)[i] = IF i <= Len(s) THEN s[i] ELSE K[i - Len(s)]
        <5>1. /\ Len(s \o K) = Len(s) + Len(K)
              /\ \A m \in 1..(Len(s) + Len(K)) :
                   (s \o K)[m] = IF m <= Len(s) THEN s[m] ELSE K[m - Len(s)]
          BY <2>2, <2>5, ConcatProperties
        <5>2. Len(K) \in Nat /\ i \in 1..(Len(s) + Len(K))
          BY <2>2, <5>1, LenProperties
        <5> QED BY <5>1, <5>2
      <4>2. CASE i = 1
        BY <2>1, <2>5, <4>1, <4>2
      <4>3. CASE i # 1
        <5>1. (s \o K)[i] = K[i - 1] /\ i - 1 \in 1..Len(K)
          BY <2>5, <4>1, <4>3
        <5>2. PICK k \in b..(c - 1) : K[i - 1] = path[k]
          BY <2>2, <5>1
        <5>3. k \in 1..c
          BY <1>1, <2>1
        <5> QED BY <5>1, <5>2, <5>3
      <4> QED BY <4>2, <4>3
    <3>3. PICK k \in 1..c : (s \o K)[i] = path[k]
      BY <3>2
    <3>4. k \in 1..n /\ l \in 1..n /\ k # l
      BY <1>1, <2>1
    <3> QED BY <2>7, <3>1, <3>3, <3>4
  <2> DEFINE v == s \o K
  <2> HIDE DEF v
  <2>11. v \in Seq(EntryRec) /\ Within(v, path) /\ Distinct(v) /\ \A i \in 1..Len(v), j \in 1..Len(F) : v[i].id # F[j].id
    BY <2>9, <2>10 DEF v
  <2>12. Within(v \o F, path) /\ Distinct(v \o F)
    BY <2>3, <2>11, ConcatParts
  <2> QED BY <1>2, <1>4, <2>12 DEF v, s
<1> QED BY <1>3, <1>4

LEMMA ContextOnce ==
  ASSUME NEW es, Tree(es), NEW n \in Nat
  PROVE  Within(Context(es, n), es) /\ Distinct(Context(es, n))
<1> DEFINE path == Path(es, n)
           k == ContextEntries(path)
<1>1. Tree(path) /\ \A i \in 1..Len(path) : \E l \in 1..Len(es) : es[l] = path[i]
  BY PathFilter, PathElements
<1> HIDE DEF path
<1>2. k \in Seq(EntryRec) /\ Within(k, path) /\ Distinct(k)
  BY <1>1, ContextEntriesIs, ContextEntriesOnce
<1> HIDE DEF k
<1>3. VisibleOf(k) = Filter(k, Seen)
  BY <1>2, VisibleFilter
<1>4. Distinct(Filter(k, Seen))
  BY <1>2, DistinctFilter
<1>5. \A i \in 1..Len(Filter(k, Seen)) :
        Filter(k, Seen)[i] \in Seen /\ \E l \in 1..Len(k) : k[l] = Filter(k, Seen)[i]
  BY <1>2, FilterElements
<1>6. Within(Filter(k, Seen), es)
  <2> SUFFICES ASSUME NEW i \in 1..Len(Filter(k, Seen))
               PROVE  \E l \in 1..Len(es) : es[l] = Filter(k, Seen)[i]
    BY DEF Within
  <2>1. PICK l \in 1..Len(k) : k[l] = Filter(k, Seen)[i]
    BY <1>5
  <2>2. PICK m \in 1..Len(path) : path[m] = k[l]
    BY <1>2 DEF Within
  <2> QED BY <1>1, <2>1, <2>2
<1> QED BY <1>3, <1>4, <1>6 DEF Context, k, path

(* The transcript is the context without the answers taken out.            *)
Shown(gone) == {e \in EntryRec : e.id \notin gone}

Sees(ms, ctx, gone) ==
  /\ ms = IdSeq(Filter(ctx, Shown(gone)))
  /\ \A i \in 1..Len(ctx) : ctx[i].id \in gone => ctx[i].type \in Answers

LEMMA SeesIs ==
  ASSUME NEW es, Tree(es), NEW n \in Nat, NEW ms, NEW gone
  PROVE  LET ctx == Context(es, n)
         IN  Sees(ms, ctx, gone) <=>
               /\ ms = IdSeq(Select(ctx, {i \in DOMAIN ctx : ctx[i].id \notin gone}))
               /\ \A i \in DOMAIN ctx : ctx[i].id \in gone => ctx[i].type \in Answers
<1> DEFINE ctx == Context(es, n)
<1>1. ctx \in Seq(EntryRec)
  BY ContextType
<1> HIDE DEF ctx
<1>2. DOMAIN ctx = 1..Len(ctx) /\ \A i \in DOMAIN ctx : ctx[i] \in EntryRec
  BY <1>1, LenProperties, ElementOfSeq
<1>3. {i \in DOMAIN ctx : ctx[i].id \notin gone} = {i \in DOMAIN ctx : ctx[i] \in Shown(gone)}
  BY <1>2 DEF Shown
<1>4. Select(ctx, {i \in DOMAIN ctx : ctx[i].id \notin gone}) = Filter(ctx, Shown(gone))
  BY <1>3 DEF Filter
<1> QED BY <1>2, <1>4 DEF Sees, ctx

(* The property of the model, in these words, before and after a step.     *)
LEMMA AgentSees ==
  ASSUME LogInv
  PROVE  AgentSeesSession <=> Sees(messages, Context(entries, leaf), dropped)
<1>1. leaf \in Nat /\ Tree(entries)
  BY SessionLogAssumption DEF LogInv
<1> QED BY <1>1, SeesIs DEF AgentSeesSession

LEMMA AgentSeesThen ==
  ASSUME LogInv'
  PROVE  AgentSeesSession' <=> Sees(messages', Context(entries', leaf'), dropped')
<1>1. leaf' \in Nat /\ Tree(entries')
  BY SessionLogAssumption DEF LogInv
<1> QED BY <1>1, SeesIs DEF AgentSeesSession

LEMMA SeesAll ==
  ASSUME NEW ctx \in Seq(EntryRec)
  PROVE  Sees(IdSeq(ctx), ctx, {})
<1>1. Shown({}) = EntryRec
  BY DEF Shown
<1>2. Filter(ctx, EntryRec) = ctx
  BY FilterAll
<1> QED BY <1>1, <1>2 DEF Sees

(* A shown message is appended to both.                                    *)
LEMMA SeesMore ==
  ASSUME NEW ctx \in Seq(EntryRec), NEW gone, NEW ms, Sees(ms, ctx, gone),
         NEW e \in EntryRec, e.id \notin gone
  PROVE  Sees(Append(ms, e.id), Append(ctx, e), gone)
<1>1. /\ Len(ctx) \in Nat /\ Len(Append(ctx, e)) = Len(ctx) + 1 /\ Append(ctx, e)[Len(ctx) + 1] = e
      /\ \A i \in 1..Len(ctx) : Append(ctx, e)[i] = ctx[i]
  BY AppendProperties, LenProperties
<1>2. e \in Shown(gone)
  BY DEF Shown
<1>3. Filter(Append(ctx, e), Shown(gone)) = Append(Filter(ctx, Shown(gone)), e) /\ Filter(ctx, Shown(gone)) \in Seq(EntryRec)
  BY <1>2, FilterAppend, FilterInSeq
<1>4. IdSeq(Append(Filter(ctx, Shown(gone)), e)) = Append(IdSeq(Filter(ctx, Shown(gone))), e.id)
  BY <1>3, IdSeqAppend
<1>5. \A i \in 1..Len(Append(ctx, e)) : i \in 1..Len(ctx) \/ i = Len(ctx) + 1
  BY <1>1
<1>6. \A i \in 1..Len(Append(ctx, e)) :
        Append(ctx, e)[i].id \in gone => Append(ctx, e)[i].type \in Answers
  BY <1>1, <1>5 DEF Sees
<1> QED BY <1>3, <1>4, <1>6 DEF Sees

(* An answer at the end is taken out of the one, and hidden in the other.  *)
LEMMA SeesLess ==
  ASSUME NEW es, Tree(es), NEW ctx \in Seq(EntryRec), Within(ctx, es), Distinct(ctx),
         NEW gone, NEW ms, Sees(ms, ctx, gone), EndsInAnswer(es, ms)
  PROVE  /\ Sees(Front(ms), ctx, gone \cup {Last(ms)})
         /\ \E k \in 1..Len(es) : es[k].id = Last(ms)
<1> DEFINE s == Filter(ctx, Shown(gone))
           q == Front(s)
           x == Last(s)
<1>1. s \in Seq(EntryRec) /\ ms = IdSeq(s) /\ ms # <<>>
  BY FilterInSeq DEF Sees, EndsInAnswer
<1>2. Distinct(s) /\ \A i \in 1..Len(s) : \E k \in 1..Len(ctx) : ctx[k] = s[i]
  BY DistinctFilter, FilterElements
<1>3. \A P, R : Filter(Filter(ctx, P), R) = Filter(ctx, P \cap R)
  BY FilterTwice
<1> HIDE DEF s
<1>4. s # <<>>
  <2>1. IdSeq(<<>>) = <<>>
    BY DEF IdSeq
  <2> QED BY <1>1, <2>1
<1>5. /\ q \in Seq(EntryRec) /\ x \in EntryRec /\ s = Append(q, x) /\ x = s[Len(s)] /\ Len(s) \in 1..Len(s)
  <2>1. /\ q \in Seq(EntryRec) /\ x \in EntryRec /\ s = Append(q, x) /\ x = s[Len(s)]
        /\ Len(s) = Len(q) + 1 /\ Len(q) \in Nat
    BY <1>1, <1>4, FrontLast
  <2> HIDE DEF q, x
  <2> QED BY <2>1
<1> HIDE DEF q, x
<1>6. Front(ms) = IdSeq(q) /\ Last(ms) = x.id
  <2>1. ms = Append(IdSeq(q), x.id) /\ IdSeq(q) \in Seq(Nat) /\ x.id \in Nat
    BY <1>1, <1>5, IdSeqAppend, EntryIds
  <2> QED BY <2>1, FrontAppend
<1>7. PICK k \in 1..Len(ctx) : ctx[k] = x
  BY <1>2, <1>5
<1>8. PICK l \in 1..Len(es) : es[l] = x
  BY <1>7 DEF Within
<1>9. x.type \in Answers
  <2>1. Entry(es, es[l].id) = es[l]
    BY EntryOfId
  <2> QED BY <1>6, <1>8, <2>1 DEF EndsInAnswer
<1> DEFINE A == Shown(gone)
           B == Shown({x.id})
           C == Shown(gone \cup {x.id})
<1>10. C = A \cap B /\ x \notin B
  BY DEF Shown
<1>11. \A i \in 1..Len(q) : q[i] \in B <=> q[i] \in EntryRec
  <2>1. \A i \in 1..Len(q) : q[i].id # x.id
    BY <1>2, <1>5, DistinctAppend
  <2>2. \A i \in 1..Len(q) : q[i] \in EntryRec
    BY <1>5, ElementOfSeq
  <2> QED BY <2>1, <2>2 DEF Shown
<1> HIDE DEF A, B, C
<1>12. Filter(q, B) = Filter(q, EntryRec)
  BY <1>5, <1>11, FilterSame
<1>13. Filter(q, EntryRec) = q
  BY <1>5, FilterAll
<1>14. Filter(s, B) = q
  <2>1. Filter(Append(q, x), B) = Filter(q, B)
    BY <1>5, <1>10, FilterAppend
  <2> QED BY <1>5, <1>12, <1>13, <2>1
<1>15. Filter(ctx, C) = q
  <2>1. Filter(Filter(ctx, A), B) = Filter(ctx, A \cap B)
    BY <1>3
  <2>2. Filter(ctx, A) = s
    BY DEF s, A
  <2> QED BY <1>10, <1>14, <2>1, <2>2
<1>16. ASSUME NEW i \in 1..Len(ctx), ctx[i].id \in gone \cup {x.id} PROVE ctx[i].type \in Answers
  <2>1. CASE ctx[i].id \in gone
    BY <2>1 DEF Sees
  <2>2. CASE ctx[i].id = x.id
    <3>1. i = k
      BY <1>7, <2>2 DEF Distinct
    <3> QED BY <1>7, <1>9, <3>1
  <2> QED BY <1>16, <2>1, <2>2
<1>17. Sees(Front(ms), ctx, gone \cup {Last(ms)})
  BY <1>6, <1>15, <1>16 DEF Sees, C
<1> QED BY <1>6, <1>8, <1>17

-----------------------------------------------------------------------------
(* What every action keeps                                                 *)

Inv == LogInv /\ ControlInv /\ FileInv /\ AgentSeesSession

LEMMA FreshContext ==
  ASSUME LogInv, NEW e, Fresh(e), AddEntry(e), e.type # "compaction"
  PROVE  /\ Context(entries', leaf') =
              IF Visible(e) THEN Append(Context(entries, e.parent), e) ELSE Context(entries, e.parent)
         /\ Context(entries, e.parent) \in Seq(EntryRec)
<1>1. entries' = Append(entries, e) /\ leaf' = e.id
  BY AddEntryLog
<1>2. e \in EntryRec /\ Tree(entries) /\ Tree(Append(entries, e)) /\ e.parent \in Nat
  BY FreshAppends
<1> QED BY <1>1, <1>2, ContextAppend, ContextType

Logged == LogInv' /\ FileInv' /\ flushed' \in BOOLEAN /\ DroppedInv' /\ AgentSeesSession' /\ next <= next'

LEMMA SameDropped ==
  ASSUME DroppedInv, dropped' = dropped, next \in Nat, next' \in Nat, next <= next'
  PROVE  DroppedInv'
<1>1. \A n \in dropped : n \in Nat
  BY SessionLogAssumption DEF DroppedInv
<1> QED BY <1>1 DEF DroppedInv

(* A message of the conversation.                                          *)
LEMMA MessageKeeps ==
  ASSUME Inv, NEW type \in EntryTypes \ {"compaction", "meta", "label"}, AddMessage(type), UNCHANGED tears
  PROVE  Logged
<1>1. PICK e : e = NewEntry(leaf, type, 0, {})
  OBVIOUS
<1>2. AddEntry(e) /\ messages' = Append(messages, next) /\ dropped' = dropped /\ next <= MaxEntries
  BY <1>1 DEF AddMessage, AddEntry
<1>3. Fresh(e) /\ e.type = type /\ e.parent = leaf /\ e.id = next
  <2>1. leaf \in 0..MaxEntries /\ leaf < next /\ 0 \in 0..MaxEntries /\ 0 < next /\ {} \in SUBSET (1..MaxEntries)
    BY SessionLogAssumption DEF Inv, LogInv
  <2> QED BY <1>1, <1>2, <2>1, FreshEntry DEF Inv, Fresh
<1>4. LogInv' /\ next < next' /\ next \in Nat /\ next' = next + 1
  BY <1>2, <1>3, AddEntryLog DEF Inv, LogInv
<1>5. FileInv' /\ flushed' \in BOOLEAN
  BY <1>2, <1>3, AddEntryFile DEF Inv, ControlInv
<1>6. Visible(e) /\ e.type # "compaction" /\ e \in EntryRec
  BY <1>3 DEF Visible, Fresh
<1>7. Context(entries', leaf') = Append(Context(entries, leaf), e) /\ Context(entries, leaf) \in Seq(EntryRec)
  BY <1>2, <1>3, <1>6, FreshContext DEF Inv
<1>8. DroppedInv'
  BY <1>2, <1>4, SameDropped DEF Inv, ControlInv
<1>9. e.id \notin dropped
  <2>1. next \notin dropped
    BY <1>4 DEF Inv, ControlInv, DroppedInv
  <2> QED BY <1>3, <2>1
<1>10. Sees(messages, Context(entries, leaf), dropped)
  BY AgentSees DEF Inv
<1>11. Sees(Append(messages, e.id), Append(Context(entries, leaf), e), dropped)
  BY <1>6, <1>7, <1>9, <1>10, SeesMore
<1>12. AgentSeesSession'
  BY <1>2, <1>3, <1>4, <1>7, <1>11, AgentSeesThen
<1> QED BY <1>4, <1>5, <1>8, <1>12 DEF Logged

(* An entry beside the conversation.                                       *)
LEMMA AsideKeeps ==
  ASSUME Inv, NEW type \in {"meta", "label"}, NEW ref \in 0..MaxEntries, ref < next,
         NEW covers \in SUBSET (1..MaxEntries),
         AddEntry(NewEntry(leaf, type, ref, covers)), UNCHANGED <<messages, dropped, tears>>
  PROVE  Logged
<1>1. PICK e : e = NewEntry(leaf, type, ref, covers)
  OBVIOUS
<1>2. AddEntry(e) /\ messages' = messages /\ dropped' = dropped /\ next <= MaxEntries
  BY <1>1 DEF AddEntry
<1>3. Fresh(e) /\ e.type = type /\ e.parent = leaf /\ e.id = next
  <2>1. leaf \in 0..MaxEntries /\ leaf < next /\ type \in EntryTypes
    BY DEF Inv, LogInv, EntryTypes
  <2> QED BY <1>1, <1>2, <2>1, FreshEntry DEF Inv, Fresh
<1>4. LogInv' /\ next < next' /\ next \in Nat /\ next' = next + 1
  BY <1>2, <1>3, AddEntryLog DEF Inv, LogInv
<1>5. FileInv' /\ flushed' \in BOOLEAN
  BY <1>2, <1>3, AddEntryFile DEF Inv, ControlInv
<1>6. ~ Visible(e) /\ e.type # "compaction"
  BY <1>3 DEF Visible
<1>7. Context(entries', leaf') = Context(entries, leaf)
  BY <1>2, <1>3, <1>6, FreshContext DEF Inv
<1>8. DroppedInv'
  BY <1>2, <1>4, SameDropped DEF Inv, ControlInv
<1>9. Sees(messages, Context(entries, leaf), dropped)
  BY AgentSees DEF Inv
<1>10. AgentSeesSession'
  BY <1>2, <1>4, <1>7, <1>9, AgentSeesThen
<1> QED BY <1>4, <1>5, <1>8, <1>10 DEF Logged

(* What is read off the session leaves it as it is.                        *)
LEMMA StaySame ==
  ASSUME Inv, UNCHANGED <<entries, leaf, flushed, file, messages, dropped, next, tears, lost>>
  PROVE  Logged
<1>1. LogInv' /\ next' = next /\ next \in Nat
  BY DEF Inv, LogInv
<1>2. FileInv' /\ flushed' \in BOOLEAN
  BY DEF Inv, ControlInv, FileInv, FileIsMemory
<1>3. AgentSeesSession'
  BY DEF Inv, AgentSeesSession
<1>4. DroppedInv'
  BY DEF Inv, ControlInv, DroppedInv
<1> QED BY <1>1, <1>2, <1>3, <1>4 DEF Logged

(* The transcript that is rebuilt from the session, ...                    *)
LEMMA RebuiltSees ==
  ASSUME LogInv', NEW remove, NEW ms, ms = IdSeq(Context(entries', leaf')),
         remove => EndsInAnswer(entries', ms), Rebuilt(ms, remove)
  PROVE  DroppedInv' /\ AgentSeesSession'
<1> DEFINE ctx == Context(entries', leaf')
<1>1. leaf' \in Nat /\ Tree(entries') /\ next' \in Nat
  BY SessionLogAssumption DEF LogInv
<1>2. ctx \in Seq(EntryRec) /\ Within(ctx, entries') /\ Distinct(ctx)
  BY <1>1, ContextType, ContextOnce
<1> HIDE DEF ctx
<1>3. Sees(ms, ctx, {})
  BY <1>2, SeesAll DEF ctx
<1>4. CASE messages' = ms /\ dropped' = {}
  <2>1. AgentSeesSession'
    BY <1>3, <1>4, AgentSeesThen DEF ctx
  <2> QED BY <1>4, <2>1 DEF DroppedInv
<1>5. CASE remove /\ messages' = Front(ms) /\ dropped' = {Last(ms)}
  <2>1. /\ Sees(Front(ms), ctx, {} \cup {Last(ms)})
        /\ \E k \in 1..Len(entries') : entries'[k].id = Last(ms)
    BY <1>1, <1>2, <1>3, <1>5, SeesLess
  <2>2. Last(ms) \in 1..MaxEntries /\ Last(ms) < next'
    <3>1. PICK k \in 1..Len(entries') : entries'[k].id = Last(ms)
      BY <2>1
    <3> QED BY <1>1, <3>1, TreeTypes, EntryIds DEF LogInv
  <2>3. {} \cup {Last(ms)} = {Last(ms)}
    OBVIOUS
  <2>4. AgentSeesSession'
    BY <1>5, <2>1, <2>3, AgentSeesThen DEF ctx
  <2> QED BY <1>5, <2>2, <2>4 DEF DroppedInv
<1> QED BY <1>4, <1>5 DEF Rebuilt

(* ... and the one that an answer is taken out of.                         *)
LEMMA RemoveKeeps ==
  ASSUME Inv, RemoveAnswer
  PROVE  Logged
<1> DEFINE ctx == Context(entries, leaf)
<1>1. /\ EndsInAnswer(entries, messages) /\ messages' = Front(messages)
      /\ dropped' = dropped \cup {Last(messages)}
      /\ UNCHANGED <<entries, leaf, flushed, file, next, tears, lost>>
  BY DEF RemoveAnswer
<1>2. LogInv' /\ LogInv /\ leaf \in Nat /\ Tree(entries) /\ next \in Nat /\ next' = next
  BY <1>1, SessionLogAssumption DEF Inv, LogInv
<1>3. FileInv' /\ flushed' \in BOOLEAN
  BY <1>1 DEF Inv, ControlInv, FileInv, FileIsMemory
<1>4. ctx \in Seq(EntryRec) /\ Within(ctx, entries) /\ Distinct(ctx)
  BY <1>2, ContextType, ContextOnce
<1>5. Sees(messages, ctx, dropped)
  BY AgentSees DEF Inv
<1>6. Context(entries', leaf') = ctx
  BY <1>1
<1> HIDE DEF ctx
<1>7. /\ Sees(Front(messages), ctx, dropped \cup {Last(messages)})
      /\ \E k \in 1..Len(entries) : entries[k].id = Last(messages)
  BY <1>1, <1>2, <1>4, <1>5, SeesLess
<1>8. AgentSeesSession'
  BY <1>1, <1>2, <1>6, <1>7, AgentSeesThen
<1>9. Last(messages) \in 1..MaxEntries /\ Last(messages) < next
  <2>1. PICK k \in 1..Len(entries) : entries[k].id = Last(messages)
    BY <1>7
  <2> QED BY <1>2, <2>1, TreeTypes, EntryIds DEF LogInv
<1>10. DroppedInv'
  BY <1>1, <1>2, <1>9 DEF Inv, ControlInv, DroppedInv
<1> QED BY <1>2, <1>3, <1>8, <1>10 DEF Logged

LEMMA InvInit == Init => Inv
<1> SUFFICES ASSUME Init PROVE Inv
  OBVIOUS
<1> USE DEF Init
<1>1. Tree(entries) /\ \A i \in 1..Len(entries) : entries[i].id < next
  BY TreeEmpty, EmptySeq
<1>2. LogInv
  BY <1>1, SessionLogAssumption DEF LogInv
<1>3. ControlInv
  <2>1. NoComp \in Comps /\ NoComp.ref = 0
    BY SessionLogAssumption DEF NoComp, Comps
  <2>2. /\ comp = NoComp /\ next = 1 /\ turn \in Turns /\ pending \in BOOLEAN /\ flushed \in BOOLEAN
        /\ DroppedInv
    BY DEF Turns, DroppedInv
  <2>3. comp.ref < next
    BY <2>1, <2>2
  <2> QED BY <2>1, <2>2, <2>3 DEF ControlInv
<1>4. FileInv
  <2>1. /\ flushed = FALSE /\ file = NoFile /\ lost = {} /\ tears = 0
        /\ file \notin {<<OpenLine>>, VoidFile} /\ ~ EndsWith(file, TornLine) /\ ~ EndsWith(file, OpenLine)
    BY NoLines
  <2>2. ~ HasAnswer(entries)
    BY DEF HasAnswer
  <2>3. IsFiniteSet(lost) /\ Cardinality(lost) = 0
    BY <2>1, FS_EmptySet
  <2>4. Cardinality(lost) <= 2 * tears /\ tears \in Nat
    BY <2>1, <2>3
  <2> HIDE DEF Init
  <2> QED BY <2>1, <2>2, <2>3, <2>4 DEF FileInv, FileIsMemory, Counted
<1>5. AgentSeesSession
  <2>1. 0 \notin IdsOf(<<>>)
    BY DEF IdsOf
  <2>2. Path(<<>>, 0) = <<>>
    BY <2>1, TreeEmpty, PathNone
  <2>3. Compactions(<<>>) = {}
    BY DEF Compactions
  <2>4. ContextEntries(<<>>) = <<>>
    BY <2>3 DEF ContextEntries, LastCompaction
  <2>5. VisibleOf(<<>>) = <<>>
    BY SelectEmpty DEF VisibleOf
  <2>6. Context(<<>>, 0) = <<>>
    BY <2>2, <2>4, <2>5 DEF Context
  <2>7. IdSeq(<<>>) = <<>> /\ <<>> \in Seq(EntryRec)
    BY DEF IdSeq
  <2>8. Sees(<<>>, <<>>, {})
    BY <2>7, SeesAll
  <2> QED BY <1>2, <2>6, <2>8, AgentSees
<1> QED BY <1>2, <1>3, <1>4, <1>5 DEF Inv

-----------------------------------------------------------------------------
(* What a compaction prepares                                              *)

(* The kept entries begin at a cut point or at entries that are not shown  *)
(* right before one.                                                       *)
LEMMA CutIs ==
  ASSUME NEW path, Tree(path), NEW reached \in Nat, CutPoints(path) # {}
  PROVE  LET b == BoundaryStart(path)
             k == CutIndex(path, reached)
         IN  /\ k \in b..Len(path) /\ k \in 1..Len(path)
             /\ \E cut \in k..Len(path) : /\ path[cut].type \in CutTypes
                                          /\ \A j \in k..(cut - 1) : ~ Visible(path[j])
<1> DEFINE b == BoundaryStart(path)
           n == Len(path)
           P == CutPoints(path)
           after == {c \in P : reached # 0 /\ c >= reached}
           cut == IF after = {} THEN Min(P) ELSE Min(after)
           B == {i \in b..cut : \A k \in i..(cut - 1) : ~Visible(path[k])}
<1>1. n \in Nat /\ b \in 1..(n + 1)
  BY TreeTypes, BoundaryStartIs
<1>2. P = {i \in b..n : path[i].type \in CutTypes}
  BY DEF CutPoints
<1>3. CutIndex(path, reached) = Min(B)
  BY DEF CutIndex
<1> HIDE DEF b, P
<1>4. P \subseteq Nat /\ after \subseteq P
  BY <1>1, <1>2
<1>5. cut \in P
  <2> HIDE DEF after
  <2>1. Min(P) \in P
    BY <1>4, Smallest DEF P
  <2>2. after # {} => Min(after) \in after
    <3>1. after \subseteq Nat
      BY <1>4
    <3> QED BY <3>1, Smallest
  <2> QED BY <1>4, <2>1, <2>2
<1> HIDE DEF cut, after
<1>6. cut \in b..n /\ path[cut].type \in CutTypes
  BY <1>2, <1>5
<1>7. cut \in B
  <2>1. cut \in b..cut
    BY <1>1, <1>6
  <2>2. \A k \in cut..(cut - 1) : ~Visible(path[k])
    BY <1>1, <1>6
  <2> QED BY <2>1, <2>2
<1>8. B \subseteq Nat
  BY <1>1
<1>9. Min(B) \in B
  <2> HIDE DEF B
  <2> QED BY <1>7, <1>8, Smallest
<1> DEFINE k == Min(B)
<1>10. k \in b..cut /\ \A j \in k..(cut - 1) : ~Visible(path[j])
  <2> HIDE DEF k
  <2>1. k \in B
    BY <1>9 DEF k
  <2> QED BY <2>1
<1> HIDE DEF k, B
<1>11. k \in b..n /\ k \in 1..n /\ cut \in k..n
  BY <1>1, <1>6, <1>10
<1>12. CutIndex(path, reached) = k
  BY <1>3 DEF k, B
<1> QED BY <1>6, <1>10, <1>11, <1>12 DEF b

LEMMA MessagesInType ==
  ASSUME NEW path, Tree(path), NEW a \in Nat \ {0}, NEW z \in Nat, z <= Len(path) + 1
  PROVE  MessagesIn(path, a, z) \subseteq 1..MaxEntries
<1>1. Len(path) \in Nat /\ \A i \in 1..Len(path) : path[i].id \in 1..MaxEntries
  BY TreeTypes, EntryIds
<1>2. \A j \in a..(z - 1) : j \in 1..Len(path)
  BY <1>1
<1> QED BY <1>1, <1>2 DEF MessagesIn

(* The summary is made from all the messages between the boundary and the  *)
(* cut, and from nothing but messages of the session.                      *)
LEMMA CoverIs ==
  ASSUME NEW path, Tree(path), NEW k \in BoundaryStart(path)..Len(path)
  PROVE  /\ MessagesIn(path, BoundaryStart(path), k) \subseteq SummaryCover(path, k)
         /\ SummaryCover(path, k) \subseteq 1..MaxEntries
<1> DEFINE b == BoundaryStart(path)
           n == Len(path)
           s == TurnStart(path, k)
           H == History(path, k)
           T == TurnPrefix(path, k)
           C == PreviousCover(path)
<1>1. n \in Nat /\ b \in 1..(n + 1)
  BY TreeTypes, BoundaryStartIs
<1> HIDE DEF b
<1>2. b \in Nat \ {0} /\ k \in b..n /\ k \in Nat /\ k <= n + 1
  BY <1>1 DEF b
<1>3. s = 0 \/ s \in b..k
  <2> DEFINE starts == {i \in b..k : path[i].type \in TurnStarts}
  <2>1. s = IF path[k].type \in TurnStarts \/ starts = {} THEN 0 ELSE Max(starts)
    BY DEF TurnStart, b
  <2>2. starts \subseteq 1..k /\ starts \subseteq b..k
    BY <1>2
  <2> HIDE DEF starts
  <2>3. starts # {} => Max(starts) \in starts
    BY <1>2, <2>2, Greatest
  <2> QED BY <2>1, <2>2, <2>3
<1>4. H = MessagesIn(path, b, IF s = 0 THEN k ELSE s)
  BY DEF History, b
<1>5. T = IF s = 0 THEN {} ELSE MessagesIn(path, s, k)
  BY DEF TurnPrefix
<1>6. SummaryCover(path, k) = IF T # {} /\ H = {} THEN T ELSE H \cup C \cup T
  BY DEF SummaryCover
<1> HIDE DEF s, H, T, C
<1>7. H \cup T = MessagesIn(path, b, k)
  <2>1. CASE s = 0
    BY <1>4, <1>5, <2>1
  <2>2. CASE s # 0
    <3>1. s \in b..k
      BY <1>3, <2>2
    <3>2. \A j \in b..(k - 1) : j \in b..(s - 1) \/ j \in s..(k - 1)
      BY <1>2, <3>1
    <3>3. \A j : j \in b..(s - 1) \/ j \in s..(k - 1) => j \in b..(k - 1)
      BY <1>2, <3>1
    <3>4. MessagesIn(path, b, s) \cup MessagesIn(path, s, k) = MessagesIn(path, b, k)
      BY <3>2, <3>3 DEF MessagesIn
    <3> QED BY <1>4, <1>5, <2>2, <3>4
  <2> QED BY <2>1, <2>2
<1>8. MessagesIn(path, b, k) \subseteq 1..MaxEntries
  BY <1>2, MessagesInType
<1>9. C \subseteq 1..MaxEntries
  <2> DEFINE c == LastCompaction(path)
  <2>1. C = IF c = 0 THEN {} ELSE path[c].covers
    BY DEF PreviousCover, C
  <2>2. c \in 0..n
    BY BoundaryStartIs
  <2> HIDE DEF c
  <2>3. c # 0 => path[c] \in EntryRec
    BY <1>1, <2>2, TreeTypes
  <2> QED BY <2>1, <2>3 DEF EntryRec
<1>10. MessagesIn(path, b, k) \subseteq SummaryCover(path, k)
  BY <1>6, <1>7
<1>11. SummaryCover(path, k) \subseteq 1..MaxEntries
  BY <1>6, <1>7, <1>8, <1>9
<1> QED BY <1>10, <1>11 DEF b

-----------------------------------------------------------------------------
(* One step                                                                *)

LEMMA PreparedType ==
  ASSUME Inv, NEW reached \in Nat, NEW retry \in BOOLEAN, StartCompaction(reached, retry)
  PROVE  comp' \in Comps /\ comp'.ref < next
<1> DEFINE path == Path(entries, leaf)
           k == CutIndex(path, reached)
<1>1. leaf \in Nat /\ Tree(entries)
  BY SessionLogAssumption DEF Inv, LogInv
<1>2. Tree(path) /\ \A i \in 1..Len(path) : \E j \in 1..Len(entries) : entries[j] = path[i]
  BY <1>1, PathFilter, PathElements
<1>3. /\ comp' = [ref |-> path[k].id, covers |-> SummaryCover(path, k), retry |-> retry]
      /\ CutPoints(path) # {}
  BY DEF StartCompaction, CanCompact
<1> HIDE DEF path
<1>4. k \in BoundaryStart(path)..Len(path) /\ k \in 1..Len(path)
  BY <1>2, <1>3, CutIs
<1> HIDE DEF k
<1>5. SummaryCover(path, k) \subseteq 1..MaxEntries
  BY <1>2, <1>4, CoverIs
<1>6. path[k].id \in 0..MaxEntries /\ path[k].id < next
  <2>1. PICK j \in 1..Len(entries) : entries[j] = path[k]
    BY <1>2, <1>4
  <2>2. entries[j].id < next /\ entries[j] \in EntryRec
    BY <1>1, TreeTypes DEF Inv, LogInv
  <2> QED BY <2>1, <2>2, EntryIds, SessionLogAssumption
<1> QED BY <1>3, <1>5, <1>6 DEF Comps

(* The summary of the compaction or of the branch that is left.            *)
LEMMA SummaryKeeps ==
  ASSUME LogInv, FileInv, flushed \in BOOLEAN, NEW e, Fresh(e), AddEntry(e), UNCHANGED tears,
         NEW remove, NEW ms, ms = IdSeq(Context(entries', leaf')),
         remove => EndsInAnswer(entries', ms), Rebuilt(ms, remove)
  PROVE  Logged
<1>1. LogInv' /\ next < next' /\ next \in Nat /\ next' = next + 1
  BY AddEntryLog DEF LogInv
<1>2. FileInv' /\ flushed' \in BOOLEAN
  BY AddEntryFile
<1>3. DroppedInv' /\ AgentSeesSession'
  BY <1>1, RebuiltSees
<1> QED BY <1>1, <1>2, <1>3 DEF Logged

LEMMA NewLeafType ==
  ASSUME LogInv, NEW target \in IdsOf(entries)
  PROVE  NewLeaf(target) \in 0..MaxEntries /\ NewLeaf(target) < next
<1>1. PICK i \in 1..Len(entries) : entries[i].id = target /\ Entry(entries, target) = entries[i]
  BY IdOfEntry DEF LogInv
<1>2. entries[i] \in EntryRec /\ entries[i].id < next /\ entries[i].parent < entries[i].id
  BY TreeTypes DEF LogInv
<1>3. NewLeaf(target) = entries[i].parent \/ NewLeaf(target) = target
  BY <1>1 DEF NewLeaf
<1>4. next \in Nat
  BY DEF LogInv
<1> QED BY <1>1, <1>2, <1>3, <1>4, EntryIds, SessionLogAssumption

LEMMA InvNext == Inv /\ [Next]_vars => Inv'
<1> SUFFICES ASSUME Inv, [Next]_vars PROVE Inv'
  OBVIOUS
<1> DEFINE Same == UNCHANGED <<entries, leaf, flushed, file, messages, dropped, next, tears, lost>>
<1>1. /\ LogInv /\ FileInv /\ AgentSeesSession /\ turn \in Turns /\ pending \in BOOLEAN /\ flushed \in BOOLEAN
      /\ comp \in Comps /\ comp.ref < next
      /\ leaf \in 0..MaxEntries /\ leaf < next /\ next \in Nat /\ Tree(entries)
  BY DEF Inv, ControlInv, LogInv
<1>2. ASSUME Logged, turn' \in Turns, pending' \in BOOLEAN, comp' = comp PROVE Inv'
  <2>1. comp'.ref < next'
    BY <1>1, <1>2 DEF LogInv, Logged, Comps
  <2> QED BY <1>1, <1>2, <2>1 DEF Inv, ControlInv, Logged
<1>3. ASSUME Same PROVE Logged
  BY <1>1, <1>3, StaySame
<1>4. NoComp \in Comps /\ NoComp.ref = 0
  BY SessionLogAssumption DEF NoComp, Comps
<1>5. ASSUME Logged, turn' = turn, pending' = pending, comp' = NoComp PROVE Inv'
  <2>1. comp'.ref < next'
    BY <1>4, <1>5 DEF LogInv, Logged
  <2> QED BY <1>1, <1>4, <1>5, <2>1 DEF Inv, ControlInv, Logged
<1>6. ASSUME NEW type \in {"user", "call", "toolResult", "assistant", "bash"}, AddMessage(type), UNCHANGED tears
      PROVE  Logged
  <2>1. type \in EntryTypes \ {"compaction", "meta", "label"}
    BY DEF EntryTypes, CutTypes, TurnStarts, Answers
  <2> QED BY <1>6, <2>1, MessageKeeps
<1>7. ASSUME LogInv', ControlInv', FileInv', messages' = IdSeq(Context(entries', leaf')), dropped' = {}
      PROVE  Inv'
  <2>1. Rebuilt(messages', FALSE)
    BY <1>7 DEF Rebuilt
  <2>2. AgentSeesSession'
    BY <1>7, <2>1, RebuiltSees
  <2> QED BY <1>7, <2>2 DEF Inv
<1>8. CASE Prompt
  <2>1. AddMessage("user") /\ turn' \in Turns /\ UNCHANGED <<pending, comp, tears>>
    BY <1>8 DEF Prompt, Turns
  <2>2. Logged
    BY <1>6, <2>1
  <2> QED BY <1>1, <1>2, <2>1, <2>2
<1>9. CASE CallTool
  <2>1. AddMessage("call") /\ turn' \in Turns /\ UNCHANGED <<pending, comp, tears>>
    BY <1>9 DEF CallTool, Turns
  <2>2. Logged
    BY <1>6, <2>1
  <2> QED BY <1>1, <1>2, <2>1, <2>2
<1>10. CASE ToolEnds
  <2>1. AddMessage("toolResult") /\ turn' \in Turns /\ UNCHANGED <<pending, comp, tears>>
    BY <1>10 DEF ToolEnds, Turns
  <2>2. Logged
    BY <1>6, <2>1
  <2> QED BY <1>1, <1>2, <2>1, <2>2
<1>11. CASE Answer
  <2>1. AddMessage("assistant") /\ turn' \in Turns /\ UNCHANGED <<pending, comp, tears>>
    BY <1>11 DEF Answer, Turns
  <2>2. Logged
    BY <1>6, <2>1
  <2> QED BY <1>1, <1>2, <2>1, <2>2
<1>12. CASE Continue
  <2>1. Same /\ turn' \in Turns /\ UNCHANGED <<pending, comp>>
    BY <1>12 DEF Continue, Turns
  <2>2. Logged
    BY <1>3, <2>1
  <2> QED BY <1>1, <1>2, <2>1, <2>2
<1>13. CASE Settle
  <2>1. turn' \in Turns /\ pending' \in BOOLEAN /\ UNCHANGED <<comp, tears>>
    BY <1>13 DEF Settle, Turns
  <2>2. AddMessage("bash") \/ Same
    BY <1>13 DEF Settle
  <2>3. Logged
    <3>1. CASE AddMessage("bash")
      BY <1>6, <2>1, <3>1
    <3>2. CASE Same
      BY <1>3, <3>2
    <3> QED BY <2>2, <3>1, <3>2
  <2> QED BY <1>2, <2>1, <2>3
<1>14. CASE RecordBash
  <2>1. turn' \in Turns /\ pending' \in BOOLEAN /\ UNCHANGED <<comp, tears>>
    BY <1>1, <1>14 DEF RecordBash
  <2>2. AddMessage("bash") \/ Same
    BY <1>14 DEF RecordBash
  <2>3. Logged
    <3>1. CASE AddMessage("bash")
      BY <1>6, <2>1, <3>1
    <3>2. CASE Same
      BY <1>3, <3>2
    <3> QED BY <2>2, <3>1, <3>2
  <2> QED BY <1>2, <2>1, <2>3
<1>15. CASE RecordMeta
  <2>1. /\ AddEntry(NewEntry(leaf, "meta", 0, {})) /\ UNCHANGED <<messages, dropped, tears>>
        /\ turn' = turn /\ pending' = pending /\ comp' = comp
    BY <1>15 DEF RecordMeta
  <2>2. 0 \in 0..MaxEntries /\ 0 < next /\ {} \in SUBSET (1..MaxEntries) /\ "meta" \in {"meta", "label"}
    BY <1>1, SessionLogAssumption
  <2>3. Logged
    BY <2>1, <2>2, AsideKeeps
  <2> QED BY <1>1, <1>2, <2>1, <2>3
<1>16. ASSUME NEW target \in {leaf} \cup Labelled(entries), Label(target) PROVE Inv'
  <2> DEFINE covers == IF target \in Labelled(entries) THEN {} ELSE {target}
  <2>1. /\ AddEntry(NewEntry(leaf, "label", target, covers)) /\ UNCHANGED <<messages, dropped, tears>>
        /\ turn' = turn /\ pending' = pending /\ comp' = comp /\ target \in IdsOf(entries)
    BY <1>16 DEF Label
  <2>2. target \in 1..MaxEntries /\ target < next
    <3>1. PICK i \in 1..Len(entries) : entries[i].id = target
      BY <1>1, <2>1, IdOfEntry
    <3> QED BY <1>1, <3>1, TreeTypes, EntryIds DEF LogInv
  <2>3. target \in 0..MaxEntries /\ covers \in SUBSET (1..MaxEntries) /\ "label" \in {"meta", "label"}
    BY <2>2, SessionLogAssumption
  <2> HIDE DEF covers
  <2>4. Logged
    BY <2>1, <2>2, <2>3, AsideKeeps
  <2> QED BY <1>1, <1>2, <2>1, <2>4
<1>17. ASSUME NEW reached \in 0..MaxEntries, NEW retry \in BOOLEAN, StartCompaction(reached, retry) PROVE Inv'
  <2>1. Same /\ turn' = turn /\ pending' = pending
    BY <1>17 DEF StartCompaction
  <2>2. Logged
    BY <1>3, <2>1
  <2>3. reached \in Nat
    BY SessionLogAssumption
  <2>4. comp' \in Comps /\ comp'.ref < next
    BY <1>17, <2>3, PreparedType
  <2> QED BY <1>1, <2>1, <2>2, <2>4 DEF Inv, ControlInv, Logged
<1>18. CASE CompactionEnds
  <2>1. /\ AddEntry(NewEntry(leaf, "compaction", comp.ref, comp.covers)) /\ comp' = NoComp
        /\ Rebuilt(IdSeq(Context(entries', leaf')),
                   comp.retry /\ EndsInAnswer(entries', IdSeq(Context(entries', leaf'))))
        /\ turn' = turn /\ pending' = pending /\ tears' = tears
    BY <1>18 DEF CompactionEnds
  <2>2. next <= MaxEntries
    BY <2>1 DEF AddEntry
  <2>3. comp.ref \in 0..MaxEntries /\ comp.covers \in SUBSET (1..MaxEntries) /\ "compaction" \in EntryTypes
    BY <1>1 DEF EntryTypes, Comps
  <2>4. Fresh(NewEntry(leaf, "compaction", comp.ref, comp.covers))
    BY <1>1, <2>2, <2>3, FreshEntry
  <2>5. Logged
    BY <1>1, <2>1, <2>4, SummaryKeeps
  <2> QED BY <1>5, <2>1, <2>5
<1>19. CASE CompactionFails
  <2>1. Same /\ turn' = turn /\ pending' = pending /\ comp' = NoComp
    BY <1>19 DEF CompactionFails
  <2>2. Logged
    BY <1>3, <2>1
  <2> QED BY <1>5, <2>1, <2>2
<1>20. ASSUME NEW target \in 1..MaxEntries, Navigate(target) PROVE Inv'
  <2>1. /\ target \in IdsOf(entries) /\ leaf' = NewLeaf(target)
        /\ messages' = IdSeq(Context(entries, leaf')) /\ dropped' = {}
        /\ UNCHANGED <<entries, flushed, file, turn, pending, comp, next, tears, lost>>
    BY <1>20 DEF Navigate
  <2>2. leaf' \in 0..MaxEntries /\ leaf' < next
    BY <1>1, <2>1, NewLeafType
  <2>3. LogInv' /\ messages' = IdSeq(Context(entries', leaf'))
    BY <1>1, <2>1, <2>2 DEF LogInv
  <2>4. FileInv'
    BY <1>1, <2>1 DEF FileInv, FileIsMemory
  <2>5. ControlInv'
    BY <1>1, <2>1 DEF ControlInv, DroppedInv
  <2> QED BY <1>7, <2>1, <2>3, <2>4, <2>5
<1>21. ASSUME NEW target \in 1..MaxEntries, NavigateWithSummary(target) PROVE Inv'
  <2>1. /\ target \in IdsOf(entries) /\ AddEntry(NewEntry(NewLeaf(target), "branchSummary", 0, {}))
        /\ Rebuilt(IdSeq(Context(entries', leaf')), FALSE)
        /\ UNCHANGED <<turn, pending, comp, tears>>
    BY <1>21 DEF NavigateWithSummary, Rebuilt
  <2>2. next <= MaxEntries
    BY <2>1 DEF AddEntry
  <2>3. NewLeaf(target) \in 0..MaxEntries /\ NewLeaf(target) < next
    BY <1>1, <2>1, NewLeafType
  <2>4. "branchSummary" \in EntryTypes /\ 0 \in 0..MaxEntries /\ 0 < next /\ {} \in SUBSET (1..MaxEntries)
    BY <1>1, SessionLogAssumption DEF EntryTypes, CutTypes, TurnStarts
  <2>5. Fresh(NewEntry(NewLeaf(target), "branchSummary", 0, {}))
    BY <1>1, <2>2, <2>3, <2>4, FreshEntry
  <2>6. Logged
    BY <1>1, <2>1, <2>5, SummaryKeeps
  <2> QED BY <1>1, <1>2, <2>1, <2>6
<1>22. ASSUME NEW target \in 1..MaxEntries, Fork(target) PROVE Inv'
  <2>1. LogInv' /\ ControlInv' /\ FileInv'
    BY <1>1, <1>22, ForkKeeps DEF Inv
  <2>2. messages' = IdSeq(Context(entries', leaf')) /\ dropped' = {}
    BY <1>22 DEF Fork, StartSession
  <2> QED BY <1>7, <2>1, <2>2
<1>23. CASE NewSession
  <2>1. LogInv' /\ ControlInv' /\ FileInv'
    BY <1>1, <1>23, NewSessionKeeps
  <2>2. messages' = IdSeq(Context(entries', leaf')) /\ dropped' = {}
    BY <1>23 DEF NewSession, StartSession
  <2> QED BY <1>7, <2>1, <2>2
<1>24. CASE Crash
  <2>1. LogInv' /\ ControlInv' /\ FileInv'
    BY <1>1, <1>24, CrashKeeps DEF Inv
  <2>2. messages' = IdSeq(Context(entries', leaf')) /\ dropped' = {}
    BY <1>24 DEF Crash, Reload, StartSession
  <2> QED BY <1>7, <2>1, <2>2
<1>25. ASSUME NEW k \in 0..MaxEntries, NEW tail \in Tails, CrashInWrite(k, tail) PROVE Inv'
  <2>1. LogInv' /\ ControlInv' /\ FileInv'
    BY <1>1, <1>25, CrashInWriteKeeps DEF Inv
  <2>2. messages' = IdSeq(Context(entries', leaf')) /\ dropped' = {}
    <3>1. \E f, gone : Reload(f, gone)
      BY <1>25 DEF CrashInWrite, CutAppend
    <3>2. PICK f, gone : Reload(f, gone)
      BY <3>1
    <3>3. CASE f \in {NoFile, VoidFile}
      BY <3>2, <3>3 DEF Reload, StartSession
    <3>4. CASE f \notin {NoFile, VoidFile}
      BY <3>2, <3>4 DEF Reload, StartSession
    <3> QED BY <3>3, <3>4
  <2> QED BY <1>7, <2>1, <2>2
<1>26. CASE Steer
  <2>1. AddMessage("user") /\ turn' \in Turns /\ UNCHANGED <<pending, comp, tears>>
    BY <1>26 DEF Steer, Turns
  <2>2. Logged
    BY <1>6, <2>1
  <2> QED BY <1>1, <1>2, <2>1, <2>2
<1>27. CASE RemoveAnswer
  <2>1. Logged
    BY <1>27, RemoveKeeps
  <2>2. turn' = turn /\ pending' = pending /\ comp' = comp
    BY <1>27 DEF RemoveAnswer
  <2> QED BY <1>1, <1>2, <2>1, <2>2
<1>28. CASE UNCHANGED vars
  <2>1. Same /\ turn' = turn /\ pending' = pending /\ comp' = comp
    BY <1>28 DEF vars
  <2>2. Logged
    BY <1>3, <2>1
  <2> QED BY <1>1, <1>2, <2>1, <2>2
<1> HIDE DEF Same
<1> QED
  BY <1>8, <1>9, <1>10, <1>11, <1>12, <1>13, <1>14, <1>15, <1>16, <1>17, <1>18, <1>19,
     <1>20, <1>21, <1>22, <1>23, <1>24, <1>25, <1>26, <1>27, <1>28 DEF Next, Tails

LEMMA InvAlways == Spec => []Inv
BY InvInit, InvNext, PTL DEF Spec

(* In every state, for any number of entries, forks, crashes and lines cut *)
(* off: a reader of the file finds the entries of the session in order,    *)
(* except those whose lines were joined, two at most for each cut write,   *)
(* unless the write that was cut is that of the header.                    *)
THEOREM FileIsMemoryAlways == Spec => []FileIsMemory
<1>1. Inv => FileIsMemory
  BY DEF Inv, FileInv
<1> QED BY <1>1, InvAlways, PTL

(* The transcript of the agent is the context of the session's leaf,       *)
(* without the failed answers taken out of it since it was last rebuilt.   *)
THEOREM AgentSeesSessionAlways == Spec => []AgentSeesSession
<1>1. Inv => AgentSeesSession
  BY DEF Inv
<1> QED BY <1>1, InvAlways, PTL

(* The types of the session's state, and the bounds on its numbers.        *)
THEOREM SessionTypes == Spec => []TypeOK
<1>1. ASSUME Inv PROVE TypeOK
  <2>1. \A i \in DOMAIN entries : entries[i] \in EntryRec
    BY <1>1, TreeTypes DEF Inv, LogInv
  <2> QED BY <1>1, <2>1 DEF Inv, LogInv, ControlInv, DroppedInv, TypeOK, EntryRec
<1> QED BY <1>1, InvAlways, PTL

-----------------------------------------------------------------------------
(* The messages of a context                                               *)

LEMMA IdSeqIs ==
  ASSUME NEW s \in Seq(EntryRec)
  PROVE  IdSeq(s) \in Seq(Nat) /\ Len(IdSeq(s)) = Len(s) /\ \A i \in 1..Len(s) : IdSeq(s)[i] = s[i].id
<1>1. /\ Len(s) \in Nat /\ DOMAIN s = 1..Len(s) /\ \A i \in 1..Len(s) : s[i].id \in Nat
  BY LenProperties, ElementOfSeq, EntryIds
<1>2. IdSeq(s) = [i \in 1..Len(s) |-> s[i].id]
  BY <1>1 DEF IdSeq
<1> QED BY <1>1, <1>2

LEMMA IdSeqConcat ==
  ASSUME NEW s \in Seq(EntryRec), NEW t \in Seq(EntryRec)
  PROVE  IdSeq(s \o t) = IdSeq(s) \o IdSeq(t)
<1> DEFINE n == Len(s)
           m == Len(t)
           u == IdSeq(s)
           v == IdSeq(t)
           w == IdSeq(s \o t)
           x == u \o v
<1>1. n \in Nat /\ m \in Nat
  BY LenProperties
<1>2. /\ s \o t \in Seq(EntryRec) /\ Len(s \o t) = n + m
      /\ \A i \in 1..(n + m) : (s \o t)[i] = IF i <= n THEN s[i] ELSE t[i - n]
  BY ConcatProperties
<1>3. /\ u \in Seq(Nat) /\ Len(u) = n /\ \A i \in 1..n : u[i] = s[i].id
      /\ v \in Seq(Nat) /\ Len(v) = m /\ \A i \in 1..m : v[i] = t[i].id
  BY IdSeqIs
<1>4. w \in Seq(Nat) /\ Len(w) = n + m /\ \A i \in 1..(n + m) : w[i] = (s \o t)[i].id
  BY <1>2, IdSeqIs
<1> HIDE DEF u, v, w
<1>5. /\ x \in Seq(Nat) /\ Len(x) = n + m
      /\ \A i \in 1..(n + m) : x[i] = IF i <= n THEN u[i] ELSE v[i - n]
  <2>1. u \in Seq(Nat) /\ v \in Seq(Nat) /\ Len(u) = n /\ Len(v) = m
    BY <1>3
  <2>2. /\ x \in Seq(Nat) /\ Len(x) = Len(u) + Len(v)
        /\ \A i \in 1..(Len(u) + Len(v)) : x[i] = IF i <= Len(u) THEN u[i] ELSE v[i - Len(u)]
    BY <2>1, ConcatProperties
  <2> QED BY <2>1, <2>2
<1> HIDE DEF x
<1>6. ASSUME NEW i \in 1..(n + m) PROVE w[i] = x[i]
  <2> DEFINE st == s \o t
  <2>1. w[i] = st[i].id /\ st[i] = (IF i <= n THEN s[i] ELSE t[i - n]) /\ x[i] = IF i <= n THEN u[i] ELSE v[i - n]
    BY <1>2, <1>4, <1>5
  <2> HIDE DEF st
  <2>2. CASE i <= n
    <3>1. i \in 1..n
      BY <1>1, <2>2
    <3> QED BY <1>3, <2>1, <2>2, <3>1
  <2>3. CASE ~ (i <= n)
    <3>1. i - n \in 1..m
      BY <1>1, <2>3
    <3> QED BY <1>3, <2>1, <2>3, <3>1
  <2> QED BY <2>2, <2>3
<1>7. w = x
  BY <1>4, <1>5, <1>6, SeqEqual
<1> QED BY <1>7 DEF u, v, w, x

LEMMA FilterOne ==
  ASSUME NEW S, NEW e \in S, NEW P
  PROVE  Filter(<<e>>, P) = IF e \in P THEN <<e>> ELSE <<>>
<1>1. <<>> \in Seq(S) /\ Append(<<>>, e) = <<e>>
  BY EmptySeq
<1>2. Filter(Append(<<>>, e), P) = IF e \in P THEN Append(Filter(<<>>, P), e) ELSE Filter(<<>>, P)
  BY <1>1, FilterAppend
<1> QED BY <1>1, <1>2, FilterEmpty

(* Splitting a part of a sequence in two.                                  *)
LEMMA SubSeqSplit ==
  ASSUME NEW S, NEW s \in Seq(S), NEW a \in 1..(Len(s) + 1), NEW k \in (a - 1)..Len(s)
  PROVE  SubSeq(s, a, k) \o SubSeq(s, k + 1, Len(s)) = SubSeq(s, a, Len(s))
<1>1. Len(s) \in Nat /\ Len(s) \in k..Len(s)
  BY LenProperties
<1> QED BY <1>1, ConcatAdjacentSubSeq

(* The messages of a context are those from the boundary on.               *)
LEMMA SpokenFrom ==
  ASSUME NEW path, Tree(path)
  PROVE  Filter(ContextEntries(path), Spoken) = Filter(SubSeq(path, BoundaryStart(path), Len(path)), Spoken)
<1> DEFINE c == LastCompaction(path)
           b == BoundaryStart(path)
           n == Len(path)
           K == SubSeq(path, b, c - 1)
           F == SubSeq(path, c + 1, n)
           one == <<path[c]>>
<1>1. path \in Seq(EntryRec) /\ n \in Nat
  BY TreeTypes
<1>2. /\ c \in 0..n
      /\ c = 0 => b = 1
      /\ c # 0 => b \in 1..(c + 1) /\ b # c
      /\ b \in 1..(n + 1)
  BY BoundaryStartIs
<1>3. ContextEntries(path) = IF c = 0 THEN path ELSE one \o K \o F
  BY ContextEntriesIs
<1>4. c # 0 => path[c].type = "compaction"
  BY <1>1, LastCompactionIs
<1> HIDE DEF c, b
<1>5. CASE c = 0
  <2>1. SubSeq(path, 1, n) = path
    BY <1>1, SubSeqFull
  <2> QED BY <1>2, <1>3, <1>5, <2>1 DEF b
<1>6. CASE c # 0
  <2>1. c \in 1..n /\ path[c] \in EntryRec
    BY <1>1, <1>2, <1>6, ElementOfSeq
  <2>2. one \in Seq(EntryRec) /\ path[c] \notin Spoken
    BY <1>4, <1>6, <2>1 DEF Spoken, Message
  <2>3. K \in Seq(EntryRec) /\ F \in Seq(EntryRec)
    <3>1. b \in Nat \ {0} /\ c - 1 \in Nat /\ c - 1 <= n /\ c + 1 \in Nat \ {0}
      BY <1>1, <1>2, <2>1
    <3> QED BY <1>1, <3>1, SubSeqType
  <2>4. Filter(one, Spoken) = <<>>
    BY <2>1, <2>2, FilterOne
  <2> DEFINE FK == Filter(K, Spoken)
             FF == Filter(F, Spoken)
  <2>5. FK \in Seq(EntryRec) /\ FF \in Seq(EntryRec)
    BY <2>3, FilterInSeq
  <2> HIDE DEF one, K, F
  <2>6. Filter(one \o K \o F, Spoken) = FK \o FF
    <3> DEFINE oK == one \o K
    <3>1. oK \in Seq(EntryRec)
      BY <2>2, <2>3, ConcatProperties
    <3>2. Filter(oK \o F, Spoken) = Filter(oK, Spoken) \o FF
      <4> HIDE DEF oK
      <4> QED BY <2>3, <3>1, FilterConcat
    <3>3. Filter(one \o K, Spoken) = Filter(one, Spoken) \o FK
      BY <2>2, <2>3, FilterConcat
    <3>4. <<>> \o FK = FK
      BY <2>5, ConcatEmptySeq
    <3> QED BY <2>4, <3>2, <3>3, <3>4
  <2>7. CASE b = c + 1
    <3>1. K = <<>>
      <4>1. b \in Int /\ c - 1 \in Int /\ c - 1 < b
        BY <1>2, <2>1, <2>7
      <4> QED BY <4>1, SubSeqEmpty DEF K
    <3>2. FK = <<>>
      BY <3>1, FilterEmpty
    <3>3. FK \o FF = FF
      BY <2>5, <3>2, ConcatEmptySeq
    <3>4. SubSeq(path, b, n) = F
      BY <2>7 DEF F
    <3> HIDE DEF FK, FF
    <3> QED BY <1>3, <1>6, <2>6, <3>3, <3>4 DEF b, FF
  <2>8. CASE b \in 1..(c - 1)
    <3>1. SubSeq(path, b, n) = K \o SubSeq(path, c, n)
      <4>1. b \in 1..(n + 1) /\ c - 1 \in (b - 1)..n /\ (c - 1) + 1 = c
        BY <1>1, <2>1, <2>8
      <4>2. SubSeq(path, b, c - 1) \o SubSeq(path, (c - 1) + 1, n) = SubSeq(path, b, n)
        BY <1>1, <4>1, SubSeqSplit
      <4> QED BY <4>1, <4>2 DEF K
    <3>2. SubSeq(path, c, n) = one \o F
      <4>1. n \in c..n
        BY <1>1, <2>1
      <4> QED BY <1>1, <2>1, <4>1, SubSeqRecursiveFirst DEF one, F
    <3> DEFINE oF == one \o F
    <3>3. oF \in Seq(EntryRec) /\ oF = SubSeq(path, c, n)
      BY <2>2, <2>3, <3>2, ConcatProperties
    <3>4. Filter(K \o oF, Spoken) = FK \o Filter(oF, Spoken)
      <4> HIDE DEF oF
      <4>1. oF \in Seq(EntryRec) /\ K \in Seq(EntryRec)
        BY <2>3, <3>3
      <4> QED BY <4>1, FilterConcat
    <3>5. Filter(oF, Spoken) = Filter(one, Spoken) \o FF
      BY <2>2, <2>3, FilterConcat
    <3>6. <<>> \o FF = FF
      BY <2>5, ConcatEmptySeq
    <3> HIDE DEF FK, FF, oF
    <3>7. Filter(SubSeq(path, b, n), Spoken) = FK \o FF
      BY <2>4, <3>1, <3>3, <3>4, <3>5, <3>6
    <3> QED BY <1>3, <1>6, <2>6, <3>7 DEF b
  <2>9. b = c + 1 \/ b \in 1..(c - 1)
    BY <1>2, <1>6, <2>1
  <2> QED BY <2>7, <2>8, <2>9
<1> QED BY <1>5, <1>6

LEMMA TalkFilter ==
  ASSUME NEW s \in Seq(EntryRec)
  PROVE  Talk(s) = IdSeq(Filter(s, Spoken))
<1>1. DOMAIN s = 1..Len(s) /\ \A i \in DOMAIN s : s[i] \in EntryRec
  BY LenProperties, ElementOfSeq
<1>2. {i \in DOMAIN s : Message(s[i])} = {i \in DOMAIN s : s[i] \in Spoken}
  BY <1>1 DEF Spoken
<1> QED BY <1>2 DEF Talk, Filter

LEMMA TalkIs ==
  ASSUME NEW es, Tree(es), NEW m \in Nat
  PROVE  LET path == Path(es, m)
         IN  Talk(Context(es, m)) = IdSeq(Filter(SubSeq(path, BoundaryStart(path), Len(path)), Spoken))
<1> DEFINE path == Path(es, m)
           k == ContextEntries(path)
<1>1. Tree(path)
  BY PathFilter
<1> HIDE DEF path
<1>2. k \in Seq(EntryRec)
  BY <1>1, ContextEntriesIs
<1>3. Filter(k, Spoken) = Filter(SubSeq(path, BoundaryStart(path), Len(path)), Spoken)
  BY <1>1, SpokenFrom
<1> HIDE DEF k
<1>4. Filter(k, Seen) \in Seq(EntryRec) /\ VisibleOf(k) = Filter(k, Seen)
  BY <1>2, FilterInSeq, VisibleFilter
<1>5. Filter(Filter(k, Seen), Spoken) = Filter(k, Seen \cap Spoken)
  BY <1>2, FilterTwice
<1>6. Seen \cap Spoken = Spoken
  BY DEF Seen, Spoken, Message
<1>7. Talk(Filter(k, Seen)) = IdSeq(Filter(Filter(k, Seen), Spoken))
  BY <1>4, TalkFilter
<1> QED BY <1>3, <1>4, <1>5, <1>6, <1>7 DEF Context, path, k

-----------------------------------------------------------------------------
(* Compaction                                                              *)

(* The prepared compaction still fits the path it will be appended to:     *)
(* what lies between the boundary and its first kept entry is summarised.  *)
Prepared(path, c) ==
  \E k \in BoundaryStart(path)..Len(path) :
     path[k].id = c.ref /\ MessagesIn(path, BoundaryStart(path), k) \subseteq c.covers

CompactionInv ==
  comp # NoComp => turn \in {"idle", "ended"} /\ Prepared(Path(entries, leaf), comp)

LEMMA PreparedAppend ==
  ASSUME NEW path, NEW e \in EntryRec, Tree(path), Tree(Append(path, e)), e.type # "compaction",
         NEW c, Prepared(path, c)
  PROVE  Prepared(Append(path, e), c)
<1> DEFINE t == Append(path, e)
           b == BoundaryStart(path)
           n == Len(path)
<1>1. n \in Nat /\ Len(t) = n + 1 /\ \A i \in 1..n : t[i] = path[i]
  BY TreeTypes, AppendProperties
<1>2. BoundaryStart(t) = b /\ b \in 1..(n + 1)
  BY BoundaryStartAppend, BoundaryStartIs
<1>3. PICK k \in b..n : path[k].id = c.ref /\ MessagesIn(path, b, k) \subseteq c.covers
  BY DEF Prepared
<1> HIDE DEF b, t
<1>4. \A j \in b..(k - 1) : j \in 1..n /\ t[j] = path[j]
  BY <1>1, <1>2, <1>3
<1>5. {j \in b..(k - 1) : Message(t[j])} = {j \in b..(k - 1) : Message(path[j])}
  BY <1>4
<1>6. MessagesIn(t, b, k) = MessagesIn(path, b, k)
  BY <1>4, <1>5 DEF MessagesIn
<1>7. k \in b..Len(t) /\ t[k] = path[k]
  BY <1>1, <1>2, <1>3
<1> QED BY <1>2, <1>3, <1>6, <1>7 DEF Prepared, t

(* An entry beside the compaction that is under way.                       *)
LEMMA PreparedGrows ==
  ASSUME LogInv, NEW e, Fresh(e), AddEntry(e), e.type # "compaction", e.parent = leaf,
         Prepared(Path(entries, leaf), comp), comp' = comp
  PROVE  Prepared(Path(entries', leaf'), comp')
<1> DEFINE path == Path(entries, leaf)
<1>1. entries' = Append(entries, e) /\ leaf' = e.id
  BY AddEntryLog
<1>2. e \in EntryRec /\ Tree(entries) /\ Tree(Append(entries, e)) /\ e.parent \in Nat /\ e.id \in Nat
  BY FreshAppends
<1>3. Path(entries', leaf') = Append(path, e)
  BY <1>1, <1>2, PathAppendNew
<1>4. Tree(path) /\ Tree(Append(path, e))
  <2>1. Tree(path)
    BY <1>2, PathFilter
  <2>2. Tree(Path(Append(entries, e), e.id))
    BY <1>2, PathFilter
  <2> QED BY <1>1, <1>3, <2>1, <2>2
<1> HIDE DEF path
<1>5. Prepared(path, comp)
  BY DEF path
<1>6. Prepared(Append(path, e), comp)
  BY <1>2, <1>4, <1>5, PreparedAppend
<1>7. comp' = comp
  OBVIOUS
<1> QED BY <1>3, <1>6, <1>7

LEMMA NewEntryFresh ==
  ASSUME Inv, NEW type \in EntryTypes, NEW ref \in 0..MaxEntries, ref < next,
         NEW covers \in SUBSET (1..MaxEntries), AddEntry(NewEntry(leaf, type, ref, covers))
  PROVE  LET e == NewEntry(leaf, type, ref, covers)
         IN  Fresh(e) /\ e.type = type /\ e.parent = leaf /\ e.ref = ref /\ e.covers = covers
<1>1. next <= MaxEntries /\ leaf \in 0..MaxEntries /\ leaf < next
  BY DEF AddEntry, Inv, LogInv
<1> QED BY <1>1, FreshEntry DEF Inv

LEMMA CompactionStart ==
  ASSUME Inv, NEW reached \in Nat, NEW retry \in BOOLEAN, StartCompaction(reached, retry)
  PROVE  turn' \in {"idle", "ended"} /\ Prepared(Path(entries', leaf'), comp')
<1> DEFINE path == Path(entries, leaf)
           k == CutIndex(path, reached)
<1>1. leaf \in Nat /\ Tree(entries) /\ Tree(path)
  <2>1. leaf \in Nat /\ Tree(entries)
    BY SessionLogAssumption DEF Inv, LogInv
  <2> QED BY <2>1, PathFilter
<1>2. /\ comp' = [ref |-> path[k].id, covers |-> SummaryCover(path, k), retry |-> retry]
      /\ CutPoints(path) # {} /\ turn' \in {"idle", "ended"} /\ Path(entries', leaf') = path
  BY DEF StartCompaction, CanCompact
<1> HIDE DEF path
<1>3. k \in BoundaryStart(path)..Len(path)
  BY <1>1, <1>2, CutIs
<1> HIDE DEF k
<1>4. MessagesIn(path, BoundaryStart(path), k) \subseteq SummaryCover(path, k)
  BY <1>1, <1>3, CoverIs
<1>5. Prepared(path, [ref |-> path[k].id, covers |-> SummaryCover(path, k), retry |-> retry])
  BY <1>3, <1>4 DEF Prepared
<1> QED BY <1>2, <1>5

LEMMA CompactionNext ==
  ASSUME Serial, Inv, CompactionInv, [Next]_vars
  PROVE  CompactionInv'
<1> SUFFICES ASSUME comp' # NoComp
             PROVE  turn' \in {"idle", "ended"} /\ Prepared(Path(entries', leaf'), comp')
  BY DEF CompactionInv
<1>1. /\ leaf \in 0..MaxEntries /\ leaf < next /\ next \in Nat /\ LogInv /\ Tree(entries)
      /\ 0 \in 0..MaxEntries /\ 0 < next /\ {} \in SUBSET (1..MaxEntries)
  BY SessionLogAssumption DEF Inv, LogInv
<1>2. ASSUME comp' = comp PROVE turn \in {"idle", "ended"} /\ Prepared(Path(entries, leaf), comp)
  BY <1>2 DEF CompactionInv
<1>3. ASSUME NEW type \in EntryTypes \ {"compaction"}, NEW ref \in 0..MaxEntries, ref < next,
             NEW covers \in SUBSET (1..MaxEntries), AddEntry(NewEntry(leaf, type, ref, covers)), comp' = comp
      PROVE  Prepared(Path(entries', leaf'), comp')
  <2>1. PICK e : e = NewEntry(leaf, type, ref, covers)
    OBVIOUS
  <2>2. Fresh(e) /\ e.type = type /\ e.parent = leaf
    BY <1>3, <2>1, NewEntryFresh
  <2>3. AddEntry(e)
    BY <1>3, <2>1
  <2> QED BY <1>1, <1>2, <1>3, <2>2, <2>3, PreparedGrows
<1>4. ASSUME UNCHANGED <<entries, leaf, turn, comp>>
      PROVE  turn' \in {"idle", "ended"} /\ Prepared(Path(entries', leaf'), comp')
  BY <1>2, <1>4
<1>5. {"bash", "meta", "label"} \subseteq EntryTypes \ {"compaction"}
  BY DEF EntryTypes, CutTypes, TurnStarts
<1>6. CASE Prompt
  BY <1>6 DEF Prompt
<1>7. CASE CallTool
  BY <1>2, <1>7 DEF CallTool
<1>8. CASE ToolEnds
  BY <1>2, <1>8 DEF ToolEnds
<1>9. CASE Answer
  BY <1>2, <1>9 DEF Answer
<1>10. CASE Continue
  BY <1>10 DEF Continue
<1>11. CASE Settle
  BY <1>11 DEF Settle
<1>12. CASE RecordBash
  <2>1. comp' = comp /\ turn' = turn
    BY <1>12 DEF RecordBash
  <2>2. CASE turn = "idle"
    <3>1. AddEntry(NewEntry(leaf, "bash", 0, {}))
      BY <1>12, <2>2 DEF RecordBash, AddMessage
    <3> QED BY <1>1, <1>2, <1>3, <1>5, <2>1, <3>1
  <2>3. CASE turn # "idle"
    <3>1. UNCHANGED <<entries, leaf>>
      BY <1>12, <2>3 DEF RecordBash
    <3> QED BY <1>4, <2>1, <3>1
  <2> QED BY <2>2, <2>3
<1>13. CASE RecordMeta
  <2>1. AddEntry(NewEntry(leaf, "meta", 0, {})) /\ comp' = comp /\ turn' = turn
    BY <1>13 DEF RecordMeta
  <2> QED BY <1>1, <1>2, <1>3, <1>5, <2>1
<1>14. ASSUME NEW target \in {leaf} \cup Labelled(entries), Label(target)
       PROVE  turn' \in {"idle", "ended"} /\ Prepared(Path(entries', leaf'), comp')
  <2> DEFINE covers == IF target \in Labelled(entries) THEN {} ELSE {target}
  <2>1. /\ AddEntry(NewEntry(leaf, "label", target, covers))
        /\ turn' = turn /\ comp' = comp /\ target \in IdsOf(entries)
    BY <1>14 DEF Label
  <2>2. target \in 1..MaxEntries /\ target < next
    <3>1. PICK i \in 1..Len(entries) : entries[i].id = target
      BY <1>1, <2>1, IdOfEntry
    <3> QED BY <1>1, <3>1, TreeTypes, EntryIds DEF LogInv
  <2>3. target \in 0..MaxEntries /\ covers \in SUBSET (1..MaxEntries)
    BY <2>2, SessionLogAssumption
  <2> HIDE DEF covers
  <2>4. Prepared(Path(entries', leaf'), comp')
    BY <1>3, <1>5, <2>1, <2>2, <2>3
  <2> QED BY <1>2, <2>1, <2>4
<1>15. ASSUME NEW reached \in 0..MaxEntries, NEW retry \in BOOLEAN, StartCompaction(reached, retry)
       PROVE  turn' \in {"idle", "ended"} /\ Prepared(Path(entries', leaf'), comp')
  <2>1. reached \in Nat
    BY SessionLogAssumption
  <2> QED BY <1>15, <2>1, CompactionStart
<1>16. CASE CompactionEnds \/ CompactionFails
  BY <1>16 DEF CompactionEnds, CompactionFails
<1>17. ASSUME NEW target \in 1..MaxEntries, Navigate(target) \/ NavigateWithSummary(target) \/ Fork(target)
       PROVE  FALSE
  BY <1>17 DEF Navigate, NavigateWithSummary, Fork, StartSession, MayMove
<1>18. CASE NewSession \/ Crash
  BY <1>18 DEF NewSession, Crash, Reload, StartSession
<1>19. ASSUME NEW k \in 0..MaxEntries, NEW tail \in Tails, CrashInWrite(k, tail) PROVE FALSE
  <2>1. \E f, gone : Reload(f, gone)
    BY <1>19 DEF CrashInWrite, CutAppend
  <2> QED BY <2>1 DEF Reload, StartSession
<1>20. CASE Steer
  BY <1>2, <1>20 DEF Steer
<1>21. CASE RemoveAnswer
  BY <1>21 DEF RemoveAnswer
<1>22. CASE UNCHANGED vars
  BY <1>4, <1>22 DEF vars
<1> QED
  BY <1>6, <1>7, <1>8, <1>9, <1>10, <1>11, <1>12, <1>13, <1>14, <1>15, <1>16, <1>17, <1>18, <1>19, <1>20, <1>21, <1>22 DEF Next, Tails

LEMMA BoundaryOfSummary ==
  ASSUME NEW path, NEW e \in EntryRec, Tree(path), Tree(Append(path, e)), e.type = "compaction",
         NEW k \in 1..Len(path), path[k].id = e.ref
  PROVE  BoundaryStart(Append(path, e)) = k
<1> DEFINE t == Append(path, e)
           n == Len(path)
<1>1. /\ n \in Nat /\ t \in Seq(EntryRec) /\ Len(t) = n + 1 /\ t[n + 1] = e
      /\ \A i \in 1..n : t[i] = path[i]
  BY TreeTypes, AppendProperties
<1>2. Tree(t)
  OBVIOUS
<1> HIDE DEF t
<1>3. LastCompaction(t) = n + 1
  <2>1. n + 1 \in 0..Len(t) /\ t[n + 1].type = "compaction" /\ \A i \in 1..Len(t) : ~ (i > n + 1)
    BY <1>1
  <2> QED BY <1>1, <2>1, LastCompactionUnique
<1>4. k \in 1..Len(t) /\ t[k].id = e.ref
  BY <1>1
<1>5. Boundary(t, e.ref) = k
  BY <1>2, <1>4, BoundaryAt
<1> QED BY <1>1, <1>3, <1>5 DEF BoundaryStart, t

(* Cutting the first elements off.                                         *)
LEMMA ConcatTail ==
  ASSUME NEW S, NEW u \in Seq(S), NEW v \in Seq(S)
  PROVE  /\ Len(u \o v) - Len(v) = Len(u) /\ Len(u) \in Nat
         /\ SubSeq(u \o v, Len(u) + 1, Len(u \o v)) = v
         /\ \A i \in 1..Len(u) : (u \o v)[i] = u[i]
<1> DEFINE w == u \o v
           r == SubSeq(w, Len(u) + 1, Len(w))
<1>1. /\ Len(u) \in Nat /\ Len(v) \in Nat /\ w \in Seq(S) /\ Len(w) = Len(u) + Len(v)
      /\ \A i \in 1..(Len(u) + Len(v)) : w[i] = IF i <= Len(u) THEN u[i] ELSE v[i - Len(u)]
  BY ConcatProperties, LenProperties
<1> HIDE DEF w
<1>2. /\ r \in Seq(S)
      /\ Len(r) = IF Len(u) + 1 <= Len(w) THEN Len(w) - (Len(u) + 1) + 1 ELSE 0
      /\ \A i \in 1..(Len(w) - (Len(u) + 1) + 1) : r[i] = w[(Len(u) + 1) + i - 1]
  BY <1>1, SubSeqType
<1> HIDE DEF r
<1>3. Len(r) = Len(v)
  BY <1>1, <1>2
<1>4. \A i \in 1..Len(v) : r[i] = v[i]
  <2> SUFFICES ASSUME NEW i \in 1..Len(v) PROVE r[i] = v[i]
    OBVIOUS
  <2>1. r[i] = w[Len(u) + i]
    BY <1>1, <1>2
  <2>2. Len(u) + i \in 1..(Len(u) + Len(v)) /\ ~ (Len(u) + i <= Len(u)) /\ (Len(u) + i) - Len(u) = i
    BY <1>1
  <2>3. w[Len(u) + i] = v[i]
    BY <1>1, <2>2
  <2> QED BY <2>1, <2>3
<1>5. r = v
  BY <1>2, <1>3, <1>4, SeqEqual
<1>6. \A i \in 1..Len(u) : i \in 1..(Len(u) + Len(v)) /\ i <= Len(u)
  BY <1>1
<1> QED BY <1>1, <1>5, <1>6 DEF r, w

(* Appending a summary that is prepared for this path drops the messages   *)
(* before its first kept entry, which it summarises, and no others.        *)
LEMMA SummaryCuts ==
  ASSUME NEW path, NEW e \in EntryRec, Tree(path), Tree(Append(path, e)), e.type = "compaction",
         Prepared(path, e)
  PROVE  LET t   == Append(path, e)
             old == IdSeq(Filter(SubSeq(path, BoundaryStart(path), Len(path)), Spoken))
             new == IdSeq(Filter(SubSeq(t, BoundaryStart(t), Len(t)), Spoken))
         IN  \E A \in Seq(Nat) : old = A \o new /\ new \in Seq(Nat) /\ \A i \in 1..Len(A) : A[i] \in e.covers
<1> DEFINE t == Append(path, e)
           n == Len(path)
           b == BoundaryStart(path)
<1>1. n \in Nat /\ path \in Seq(EntryRec) /\ Len(t) = n + 1 /\ t \in Seq(EntryRec)
  BY TreeTypes, AppendProperties
<1>2. b \in 1..(n + 1)
  BY BoundaryStartIs
<1>3. PICK k \in b..n : path[k].id = e.ref /\ MessagesIn(path, b, k) \subseteq e.covers
  BY DEF Prepared
<1>4. k \in 1..n
  BY <1>1, <1>2, <1>3
<1>5. BoundaryStart(t) = k
  BY <1>3, <1>4, BoundaryOfSummary
<1> DEFINE K == SubSeq(path, k, n)
           C == SubSeq(path, b, k - 1)
           FK == Filter(K, Spoken)
           FC == Filter(C, Spoken)
<1>6. SubSeq(t, k, n + 1) = Append(K, e)
  <2>1. k \in 1..(n + 1)
    BY <1>1, <1>4
  <2> QED BY <1>1, <2>1, SubSeqAppendEnd
<1> HIDE DEF b, t
<1>7. K \in Seq(EntryRec)
  BY <1>1, <1>4, SubSeqType
<1>8. /\ C \in Seq(EntryRec)
      /\ Len(C) = IF b <= k - 1 THEN (k - 1) - b + 1 ELSE 0
      /\ \A i \in 1..((k - 1) - b + 1) : C[i] = path[b + i - 1]
  <2>1. b \in Nat \ {0} /\ k - 1 \in Nat /\ k - 1 <= Len(path)
    BY <1>1, <1>2, <1>4
  <2> QED BY <1>1, <2>1, SubSeqType
<1>9. SubSeq(path, b, n) = C \o K
  <2>1. b \in 1..(n + 1) /\ k - 1 \in (b - 1)..n /\ (k - 1) + 1 = k
    BY <1>1, <1>2, <1>3
  <2>2. SubSeq(path, b, k - 1) \o SubSeq(path, (k - 1) + 1, n) = SubSeq(path, b, n)
    BY <1>1, <2>1, SubSeqSplit
  <2> QED BY <2>1, <2>2
<1> HIDE DEF C, K
<1>10. Filter(Append(K, e), Spoken) = FK
  <2>1. e \notin Spoken
    BY DEF Spoken, Message
  <2>2. Filter(Append(K, e), Spoken) = IF e \in Spoken THEN Append(FK, e) ELSE FK
    BY <1>7, FilterAppend
  <2> QED BY <2>1, <2>2
<1>11. Filter(C \o K, Spoken) = FC \o FK
  BY <1>7, <1>8, FilterConcat
<1>12. /\ FC \in Seq(EntryRec) /\ FK \in Seq(EntryRec)
       /\ \A i \in 1..Len(FC) : FC[i] \in Spoken /\ \E j \in 1..Len(C) : C[j] = FC[i]
  BY <1>7, <1>8, FilterElements
<1> HIDE DEF FC, FK
<1> DEFINE A == IdSeq(FC)
           new == IdSeq(FK)
<1>13. A \in Seq(Nat) /\ new \in Seq(Nat) /\ Len(A) = Len(FC) /\ \A i \in 1..Len(FC) : A[i] = FC[i].id
  BY <1>12, IdSeqIs
<1>14. IdSeq(FC \o FK) = A \o new
  BY <1>12, IdSeqConcat
<1>15. ASSUME NEW i \in 1..Len(A) PROVE A[i] \in e.covers
  <2>1. i \in 1..Len(FC) /\ A[i] = FC[i].id
    BY <1>13
  <2>2. PICK j \in 1..Len(C) : C[j] = FC[i]
    BY <1>12, <2>1
  <2>3. b + j - 1 \in b..(k - 1) /\ C[j] = path[b + j - 1]
    BY <1>2, <1>4, <1>8
  <2>4. Message(path[b + j - 1])
    BY <1>12, <2>1, <2>2, <2>3 DEF Spoken
  <2>5. path[b + j - 1].id \in MessagesIn(path, b, k)
    BY <2>3, <2>4 DEF MessagesIn
  <2> QED BY <1>3, <2>1, <2>2, <2>3, <2>5
<1> HIDE DEF A, new
<1>16. IdSeq(Filter(SubSeq(path, b, n), Spoken)) = A \o new
  BY <1>9, <1>11, <1>14
<1>17. IdSeq(Filter(SubSeq(t, BoundaryStart(t), Len(t)), Spoken)) = new
  BY <1>1, <1>5, <1>6, <1>10 DEF new
<1> QED BY <1>13, <1>15, <1>16, <1>17 DEF b, t

(* The summary arrives.                                                    *)
LEMMA CompactionCuts ==
  ASSUME Inv, CompactionInv, CompactionEnds
  PROVE  LET old == Talk(Context(entries, leaf))
             new == Talk(Context(entries', leaf'))
             cut == Len(old) - Len(new)
         IN  /\ cut >= 0
             /\ new = SubSeq(old, cut + 1, Len(old))
             /\ \A i \in 1..cut : old[i] \in comp.covers
<1>1. /\ LogInv /\ leaf \in Nat /\ comp.ref < next
      /\ comp.ref \in 0..MaxEntries /\ comp.covers \in SUBSET (1..MaxEntries)
  BY SessionLogAssumption DEF Inv, LogInv, ControlInv, Comps
<1>2. PICK e : e = NewEntry(leaf, "compaction", comp.ref, comp.covers)
  OBVIOUS
<1>3. Fresh(e) /\ e.type = "compaction" /\ e.parent = leaf /\ e.ref = comp.ref /\ e.covers = comp.covers
  <2>1. "compaction" \in EntryTypes /\ comp.ref \in 0..MaxEntries /\ comp.covers \in SUBSET (1..MaxEntries)
    BY <1>1 DEF EntryTypes
  <2>2. AddEntry(NewEntry(leaf, "compaction", comp.ref, comp.covers))
    BY DEF CompactionEnds
  <2> QED BY <1>1, <1>2, <2>1, <2>2, NewEntryFresh
<1>4. AddEntry(e)
  BY <1>2 DEF CompactionEnds
<1>5. entries' = Append(entries, e) /\ leaf' = e.id
  BY <1>1, <1>3, <1>4, AddEntryLog
<1>6. e \in EntryRec /\ Tree(entries) /\ Tree(Append(entries, e)) /\ e.id \in Nat
  BY <1>1, <1>3, FreshAppends
<1> DEFINE path == Path(entries, leaf)
           t == Append(path, e)
<1>7. Path(entries', leaf') = t
  BY <1>3, <1>5, <1>6, PathAppendNew
<1>8. Tree(path) /\ Tree(t)
  <2>1. Tree(path)
    BY <1>1, <1>6, PathFilter
  <2>2. Tree(Path(Append(entries, e), e.id))
    BY <1>6, PathFilter
  <2> QED BY <1>5, <1>7, <2>1, <2>2
<1>9. Prepared(path, e)
  <2>1. Prepared(path, comp)
    BY DEF CompactionInv, CompactionEnds
  <2> HIDE DEF path
  <2> QED BY <1>3, <2>1 DEF Prepared
<1> DEFINE old == IdSeq(Filter(SubSeq(path, BoundaryStart(path), Len(path)), Spoken))
           new == IdSeq(Filter(SubSeq(t, BoundaryStart(t), Len(t)), Spoken))
<1>10. Talk(Context(entries, leaf)) = old
  BY <1>1, <1>6, TalkIs
<1>11. Talk(Context(entries', leaf')) = new
  <2>1. Talk(Context(entries', leaf')) =
          IdSeq(Filter(SubSeq(Path(entries', leaf'), BoundaryStart(Path(entries', leaf')), Len(Path(entries', leaf'))), Spoken))
    BY <1>5, <1>6, TalkIs
  <2> QED BY <1>7, <2>1
<1> HIDE DEF path
<1>12. PICK A \in Seq(Nat) : old = A \o new /\ new \in Seq(Nat) /\ \A i \in 1..Len(A) : A[i] \in e.covers
  BY <1>6, <1>8, <1>9, <1>3, SummaryCuts
<1> HIDE DEF old, new
<1>13. /\ Len(old) - Len(new) = Len(A) /\ Len(A) \in Nat
       /\ SubSeq(old, Len(A) + 1, Len(old)) = new
       /\ \A i \in 1..Len(A) : old[i] = A[i]
  BY <1>12, ConcatTail
<1>14. /\ Len(old) - Len(new) >= 0
       /\ new = SubSeq(old, (Len(old) - Len(new)) + 1, Len(old))
       /\ \A i \in 1..(Len(old) - Len(new)) : old[i] \in comp.covers
  BY <1>3, <1>12, <1>13
<1> QED BY <1>10, <1>11, <1>14

LEMMA CompactionInvAlways ==
  ASSUME Serial PROVE Spec => [](Inv /\ CompactionInv)
<1>1. Init => Inv /\ CompactionInv
  BY InvInit DEF Init, CompactionInv
<1>2. Inv /\ CompactionInv /\ [Next]_vars => (Inv /\ CompactionInv)'
  BY InvNext, CompactionNext
<1> QED BY <1>1, <1>2, PTL DEF Spec

(* When nobody prompts or moves the leaf while a summary is awaited: the   *)
(* compaction keeps a suffix of the messages the agent had and its summary *)
(* was made from all the others, however many entries were recorded        *)
(* between the cut and the answer of the model.                            *)
THEOREM CompactionKeepsSuffixAlways ==
  ASSUME Serial PROVE Spec => CompactionKeepsSuffix
<1> DEFINE Cuts == LET old == Talk(Context(entries, leaf))
                       new == Talk(Context(entries', leaf'))
                       cut == Len(old) - Len(new)
                   IN  /\ cut >= 0
                       /\ new = SubSeq(old, cut + 1, Len(old))
                       /\ \A i \in 1..cut : old[i] \in comp.covers
           Holds == comp # NoComp /\ next' # next /\ comp' = NoComp => Cuts
<1>1. ASSUME Inv, CompactionInv, [Next]_vars PROVE Holds
  <2> SUFFICES ASSUME comp # NoComp, next' # next, comp' = NoComp PROVE Cuts
    OBVIOUS
  <2>1. CASE CompactionEnds
    BY <1>1, <2>1, CompactionCuts
  <2>2. ASSUME ~CompactionEnds PROVE FALSE
    <3>1. CASE Prompt \/ Steer \/ RemoveAnswer \/ Continue \/ Settle
      BY <3>1 DEF Prompt, Steer, RemoveAnswer, Continue, Settle
    <3>2. CASE CallTool \/ ToolEnds \/ Answer \/ RecordBash \/ RecordMeta
      BY <3>2 DEF CallTool, ToolEnds, Answer, RecordBash, RecordMeta
    <3>3. ASSUME NEW id, Label(id) \/ Navigate(id) \/ NavigateWithSummary(id) \/ Fork(id) PROVE FALSE
      BY <3>3 DEF Label, Navigate, NavigateWithSummary, Fork, MayMove
    <3>4. ASSUME NEW reached, NEW retry, StartCompaction(reached, retry) PROVE FALSE
      BY <3>4 DEF StartCompaction
    <3>5. CASE CompactionFails
      BY <3>5 DEF CompactionFails
    <3>6. CASE NewSession \/ Crash
      BY <3>6 DEF NewSession, Crash
    <3>7. ASSUME NEW k, NEW tail, CrashInWrite(k, tail) PROVE FALSE
      BY <3>7 DEF CrashInWrite
    <3>8. CASE UNCHANGED vars
      BY <3>8 DEF vars
    <3> QED BY <1>1, <2>2, <3>1, <3>2, <3>3, <3>4, <3>5, <3>6, <3>7, <3>8 DEF Next
  <2> QED BY <2>1, <2>2
<1>2. [][Holds]_vars => CompactionKeepsSuffix
  BY PTL DEF CompactionKeepsSuffix, Holds, Cuts
<1> QED BY <1>1, <1>2, CompactionInvAlways, PTL DEF Spec

-----------------------------------------------------------------------------
(* Tool results and their calls.  What follows is about the numbers of the *)
(* entries on a path, which are in order of age.                           *)

(* On the path A the call y answers for the result x: nothing visible is   *)
(* between them, no line of the stretch is missing from the file unless    *)
(* that of the result is, and no compaction of the path begins to keep     *)
(* entries in the middle of it.                                            *)
AnsweredBy(es, A, gone, x, y) ==
  /\ y < x /\ Entry(es, y).type = "call"
  /\ \A z \in A :
       /\ y < z /\ z < x => ~ Visible(Entry(es, z))
       /\ y <= z /\ z <= x => x \in gone \/ z \notin gone
       /\ y < z /\ z <= x => \A q \in A : Entry(es, q).type = "compaction" => Entry(es, q).ref # z

Sound(es, n, gone) ==
  LET A == Ancestors(es, n)
  IN  \A x \in A : Entry(es, x).type = "toolResult" => \E y \in A : AnsweredBy(es, A, gone, x, y)

(* The path ends with a call that waits for its result.                    *)
Waiting(es, n, gone) ==
  LET A == Ancestors(es, n)
  IN  \E y \in A : /\ Entry(es, y).type = "call"
                   /\ \A z \in A : /\ y < z => ~ Visible(Entry(es, z))
                                   /\ y <= z => z \notin gone

(* The first visible entry from ref on is one a summary may be cut at.     *)
CutAt(es, n, ref) ==
  LET A == Ancestors(es, n)
  IN  \E c \in A : /\ ref <= c /\ Entry(es, c).type \in CutTypes
                   /\ \A z \in A : ref <= z /\ z < c => ~ Visible(Entry(es, z))

(* The last line of the file has its end.                                  *)
Closed(f) == ~ EndsWith(f, TornLine) /\ ~ EndsWith(f, OpenLine)

(* When the file cannot be read at all, the result to come is lost too.    *)
ResultsInv ==
  /\ \A n \in Nat : Sound(entries, n, lost)
  /\ turn = "calling" => Waiting(entries, leaf, IF file = VoidFile THEN {} ELSE lost)
  /\ comp # NoComp => CutAt(entries, leaf, comp.ref)
  /\ turn # "idle" => Closed(file)

LEMMA TypesApart ==
  /\ \A e \in EntryRec : e.type \in CutTypes \cup {"toolResult", "compaction"} <=> Visible(e)
  /\ "toolResult" \notin CutTypes /\ "compaction" \notin CutTypes /\ "call" \in CutTypes
  /\ "call" \in EntryTypes /\ CutTypes \subseteq EntryTypes
BY DEF EntryRec, EntryTypes, CutTypes, TurnStarts, Answers, Visible

(* The path to a new entry.                                                *)
LEMMA AncestorsNew ==
  ASSUME NEW es, NEW e \in EntryRec, Tree(es), Tree(Append(es, e))
  PROVE  LET t == Append(es, e)
             A == Ancestors(es, e.parent)
         IN  /\ Ancestors(t, e.id) = {e.id} \cup A /\ Entry(t, e.id) = e
             /\ \A z \in A : z \in IdsOf(es) /\ z \in Nat /\ z < e.id /\ Entry(t, z) = Entry(es, z)
             /\ \A n \in Nat : n # e.id => Ancestors(t, n) = Ancestors(es, n)
<1> DEFINE t == Append(es, e)
           A == Ancestors(es, e.parent)
<1>1. e.id \in Nat /\ e.parent \in Nat /\ e.parent < e.id
  BY EntryIds, TreeAppend, TreeTypes
<1>2. /\ IdsOf(t) = IdsOf(es) \cup {e.id} /\ Entry(t, e.id) = e
      /\ \A n \in IdsOf(es) : n < e.id /\ Entry(t, n) = Entry(es, n)
  BY IdsAppend
<1>3. Tree(t)
  OBVIOUS
<1>4. \A n \in Nat : n < e.id => Ancestors(t, n) = Ancestors(es, n)
  BY AncestorsAppend
<1> HIDE DEF t
<1>5. Ancestors(t, e.id) = {e.id} \cup Ancestors(t, Entry(t, e.id).parent)
  BY <1>1, <1>2, <1>3, AncestorsStep
<1>6. Ancestors(t, e.id) = {e.id} \cup A
  BY <1>1, <1>2, <1>4, <1>5
<1>7. \A z \in A : z \in IdsOf(es) /\ z \in Nat /\ z < e.id /\ Entry(t, z) = Entry(es, z)
  BY <1>1, <1>2, AncestorsOlder
<1>8. ASSUME NEW n \in Nat, n # e.id PROVE Ancestors(t, n) = Ancestors(es, n)
  <2>1. CASE n < e.id
    BY <1>4, <2>1
  <2>2. CASE ~ (n < e.id)
    <3>1. n \notin IdsOf(t) /\ n \notin IdsOf(es)
      BY <1>1, <1>2, <1>8, <2>2
    <3> QED BY <1>3, <3>1, AncestorsStep
  <2> QED BY <2>1, <2>2
<1> QED BY <1>2, <1>6, <1>7, <1>8 DEF t

(* Nor does the loss of the last line that is left.                        *)
LEMMA SoundLoses ==
  ASSUME NEW es, Tree(es), NEW n \in Nat, NEW gone, Sound(es, n, gone), NEW m \in Nat,
         \A z \in IdsOf(es) : z \in gone \/ z <= m
  PROVE  Sound(es, n, gone \cup {m})
<1> DEFINE A == Ancestors(es, n)
<1>1. \A x \in A : Entry(es, x).type = "toolResult" => \E y \in A : AnsweredBy(es, A, gone, x, y)
  BY DEF Sound
<1>2. \A z \in A : z \in IdsOf(es) /\ z \in Nat
  BY AncestorsOlder
<1> HIDE DEF A
<1>3. ASSUME NEW x \in A, NEW y \in A, AnsweredBy(es, A, gone, x, y)
      PROVE  AnsweredBy(es, A, gone \cup {m}, x, y)
  <2>1. ASSUME NEW z \in A, y <= z, z <= x, x \notin gone \cup {m} PROVE z \notin gone \cup {m}
    <3>1. z \notin gone /\ x < m
      BY <1>2, <1>3, <2>1 DEF AnsweredBy
    <3> QED BY <1>2, <2>1, <3>1
  <2> QED BY <1>3, <2>1 DEF AnsweredBy
<1> QED BY <1>1, <1>3 DEF Sound, A

(* A new entry cuts no result from its call.                               *)
LEMMA SoundAppend ==
  ASSUME NEW es, NEW e \in EntryRec, Tree(es), Tree(Append(es, e)), NEW gone, NEW left,
         gone \subseteq left, left \subseteq gone \cup {e.id},
         e.type = "toolResult" => Waiting(es, e.parent, IF e.id \in left THEN {} ELSE left),
         e.type = "compaction" => CutAt(es, e.parent, e.ref),
         \A n \in Nat : Sound(es, n, gone)
  PROVE  \A n \in Nat : Sound(Append(es, e), n, left)
<1> DEFINE t == Append(es, e)
           A == Ancestors(es, e.parent)
           B == Ancestors(t, e.id)
<1>1. /\ B = {e.id} \cup A /\ Entry(t, e.id) = e
      /\ \A z \in A : z \in IdsOf(es) /\ z \in Nat /\ z < e.id /\ Entry(t, z) = Entry(es, z)
      /\ \A n \in Nat : n # e.id => Ancestors(t, n) = Ancestors(es, n)
  BY AncestorsNew
<1>2. e.id \in Nat /\ e.parent \in Nat /\ e.ref \in Nat
  BY EntryIds
<1>3. \A n \in IdsOf(es) : n < e.id /\ Entry(t, n) = Entry(es, n)
  BY IdsAppend
<1> HIDE DEF t
<1>4. ASSUME NEW n \in Nat, n # e.id PROVE Sound(t, n, left)
  <2> DEFINE C == Ancestors(es, n)
  <2>1. Ancestors(t, n) = C
    BY <1>1, <1>4
  <2>2. \A z \in C : z \in IdsOf(es) /\ z \in Nat /\ z < e.id /\ Entry(t, z) = Entry(es, z)
    BY <1>3, AncestorsOlder
  <2>3. \A x \in C : Entry(es, x).type = "toolResult" => \E y \in C : AnsweredBy(es, C, gone, x, y)
    BY DEF Sound
  <2> HIDE DEF C
  <2>4. ASSUME NEW x \in C, NEW y \in C, AnsweredBy(es, C, gone, x, y) PROVE AnsweredBy(t, C, left, x, y)
    BY <1>2, <2>2, <2>4 DEF AnsweredBy
  <2> QED BY <2>1, <2>2, <2>3, <2>4 DEF Sound
<1>5. \A x \in A : Entry(es, x).type = "toolResult" => \E y \in A : AnsweredBy(es, A, gone, x, y)
  BY <1>2 DEF Sound
<1>6. CASE e.type = "toolResult"
  <2>1. PICK y \in A : /\ Entry(es, y).type = "call"
                       /\ \A z \in A : /\ y < z => ~ Visible(Entry(es, z))
                                       /\ y <= z => e.id \in left \/ z \notin left
    <3>1. CASE e.id \in left
      <4>1. Waiting(es, e.parent, {})
        BY <1>6, <3>1
      <4> QED BY <3>1, <4>1 DEF Waiting
    <3>2. CASE e.id \notin left
      <4>1. Waiting(es, e.parent, left)
        BY <1>6, <3>2
      <4> QED BY <3>2, <4>1 DEF Waiting
    <3> QED BY <3>1, <3>2
  <2>2. \A q \in A : Entry(es, q) \in EntryRec /\ Entry(es, q).ref \in Nat /\ Entry(es, q).ref < q
    <3> SUFFICES ASSUME NEW q \in A
                 PROVE  Entry(es, q) \in EntryRec /\ Entry(es, q).ref \in Nat /\ Entry(es, q).ref < q
      OBVIOUS
    <3>1. PICK i \in 1..Len(es) : es[i].id = q /\ Entry(es, q) = es[i]
      BY <1>1, IdOfEntry
    <3> QED BY <3>1, TreeTypes
  <2> HIDE DEF A, B
  <2>3. \A q \in A : Entry(es, q).type = "compaction" => q < y
    <3> SUFFICES ASSUME NEW q \in A, Entry(es, q).type = "compaction" PROVE q < y
      OBVIOUS
    <3>1. Visible(Entry(es, q)) /\ q # y
      BY <2>1 DEF Visible
    <3> QED BY <1>1, <2>1, <3>1
  <2>4. AnsweredBy(t, B, left, e.id, y)
    <3>1. y < e.id /\ Entry(t, y).type = "call"
      BY <1>1, <2>1
    <3>2. \A z \in B : y < z /\ z < e.id => ~ Visible(Entry(t, z))
      BY <1>1, <1>2, <2>1
    <3>3. \A z \in B : y <= z /\ z <= e.id => e.id \in left \/ z \notin left
      BY <1>1, <1>2, <2>1
    <3>4. \A q \in B : Entry(t, q).type = "compaction" => q \in A /\ Entry(t, q) = Entry(es, q)
      BY <1>1, <1>6
    <3>5. ASSUME NEW z \in B, y < z, NEW q \in B, Entry(t, q).type = "compaction"
          PROVE  Entry(t, q).ref # z
      <4>1. q \in A /\ Entry(t, q) = Entry(es, q)
        BY <3>4, <3>5
      <4>2. q < y /\ Entry(es, q).ref < q /\ Entry(es, q).ref \in Nat /\ q \in Nat /\ y \in Nat /\ z \in Nat
        BY <1>1, <1>2, <2>2, <2>3, <3>5, <4>1
      <4> QED BY <3>5, <4>1, <4>2
    <3> QED BY <3>1, <3>2, <3>3, <3>5 DEF AnsweredBy
  <2>5. ASSUME NEW x \in A, NEW w \in A, AnsweredBy(es, A, gone, x, w) PROVE AnsweredBy(t, B, left, x, w)
    <3>1. x < e.id /\ x \in Nat /\ w \in Nat /\ \A z \in B : z <= x => z \in A
      BY <1>1, <1>2
    <3>2. \A q \in B : Entry(t, q).type = "compaction" => q \in A
      BY <1>1, <1>6
    <3>3. w < x /\ Entry(t, w).type = "call"
      BY <1>1, <2>5 DEF AnsweredBy
    <3>4. ASSUME NEW z \in B
          PROVE  /\ w < z /\ z < x => ~ Visible(Entry(t, z))
                 /\ w <= z /\ z <= x => x \in left \/ z \notin left
                 /\ w < z /\ z <= x => \A q \in B : Entry(t, q).type = "compaction" => Entry(t, q).ref # z
      <4>1. CASE z \in A
        BY <1>1, <1>6, <2>5, <3>2, <4>1 DEF AnsweredBy
      <4>2. CASE z \notin A
        <5>1. z = e.id
          BY <1>1, <4>2
        <5> QED BY <1>2, <3>1, <5>1
      <4> QED BY <4>1, <4>2
    <3> QED BY <3>3, <3>4 DEF AnsweredBy
  <2>6. ASSUME NEW x \in B, Entry(t, x).type = "toolResult" PROVE \E w \in B : AnsweredBy(t, B, left, x, w)
    <3>1. CASE x = e.id
      BY <1>1, <2>1, <2>4, <3>1
    <3>2. CASE x # e.id
      <4>1. x \in A /\ Entry(es, x).type = "toolResult"
        BY <1>1, <2>6, <3>2
      <4>2. PICK w \in A : AnsweredBy(es, A, gone, x, w)
        BY <1>5, <4>1
      <4> QED BY <1>1, <2>5, <4>1, <4>2
    <3> QED BY <3>1, <3>2
  <2>7. Sound(t, e.id, left)
    BY <2>6 DEF Sound, B
  <2> QED BY <1>4, <2>7 DEF t
<1>7. CASE e.type # "toolResult"
  <2> HIDE DEF A, B
  <2>1. ASSUME NEW x \in A, Entry(es, x).type = "toolResult", NEW w \in A, AnsweredBy(es, A, gone, x, w)
        PROVE  AnsweredBy(t, B, left, x, w)
    <3>1. x < e.id /\ x \in Nat /\ w \in Nat /\ \A z \in B : z <= x => z \in A
      BY <1>1, <1>2
    <3>2. w < x /\ Entry(t, w).type = "call"
      BY <1>1, <2>1 DEF AnsweredBy
    <3>3. ASSUME e.type = "compaction", NEW z \in A, w < z, z <= x PROVE e.ref # z
      <4>1. PICK c \in A : /\ e.ref <= c /\ Entry(es, c).type \in CutTypes
                           /\ \A v \in A : e.ref <= v /\ v < c => ~ Visible(Entry(es, v))
        BY <3>3 DEF CutAt, A
      <4>2. Visible(Entry(es, c)) /\ Visible(Entry(es, x)) /\ c # x
        BY <2>1, <4>1, TypesApart DEF Visible, CutTypes, TurnStarts, Answers
      <4>3. c \in Nat /\ z \in Nat
        BY <1>1
      <4> SUFFICES ASSUME e.ref = z PROVE FALSE
        OBVIOUS
      <4>4. ~ (x < c)
        BY <3>1, <3>3, <4>1, <4>2, <4>3
      <4>5. c < x /\ w < c
        BY <3>1, <3>3, <4>1, <4>2, <4>3, <4>4
      <4> QED BY <2>1, <4>2, <4>5 DEF AnsweredBy
    <3>4. ASSUME NEW z \in B
          PROVE  /\ w < z /\ z < x => ~ Visible(Entry(t, z))
                 /\ w <= z /\ z <= x => x \in left \/ z \notin left
                 /\ w < z /\ z <= x => \A q \in B : Entry(t, q).type = "compaction" => Entry(t, q).ref # z
      <4>1. CASE z \in A
        <5>1. w < z /\ z < x => ~ Visible(Entry(t, z))
          BY <1>1, <2>1, <4>1 DEF AnsweredBy
        <5>2. w <= z /\ z <= x => x \in left \/ z \notin left
          BY <1>1, <2>1, <4>1 DEF AnsweredBy
        <5>3. ASSUME w < z, z <= x, NEW q \in B, Entry(t, q).type = "compaction" PROVE Entry(t, q).ref # z
          <6>1. CASE q \in A
            BY <1>1, <2>1, <4>1, <5>3, <6>1 DEF AnsweredBy
          <6>2. CASE q \notin A
            BY <1>1, <3>3, <4>1, <5>3, <6>2
          <6> QED BY <6>1, <6>2
        <5> QED BY <5>1, <5>2, <5>3
      <4>2. CASE z \notin A
        <5>1. z = e.id
          BY <1>1, <4>2
        <5> QED BY <1>2, <3>1, <5>1
      <4> QED BY <4>1, <4>2
    <3> QED BY <3>2, <3>4 DEF AnsweredBy
  <2>2. ASSUME NEW x \in B, Entry(t, x).type = "toolResult" PROVE \E y \in B : AnsweredBy(t, B, left, x, y)
    <3>1. x \in A /\ Entry(es, x).type = "toolResult"
      BY <1>1, <1>7, <2>2
    <3>2. PICK w \in A : AnsweredBy(es, A, gone, x, w)
      BY <1>5, <3>1
    <3> QED BY <1>1, <2>1, <3>1, <3>2
  <2>3. Sound(t, e.id, left)
    BY <2>2 DEF Sound, B
  <2> QED BY <1>4, <2>3 DEF t
<1> QED BY <1>6, <1>7 DEF t

(* Some of the entries of a tree: paths end where an entry is missing.     *)
PartOf(part, es) ==
  /\ Tree(es) /\ Tree(part)
  /\ \A n \in IdsOf(part) : n \in IdsOf(es) /\ Entry(part, n) = Entry(es, n)

LEMMA PartAncestors ==
  ASSUME NEW es, NEW part, PartOf(part, es), NEW n \in Nat
  PROVE  /\ Ancestors(part, n) \subseteq Ancestors(es, n) \cap IdsOf(part)
         /\ \A x \in Ancestors(part, n), y \in Ancestors(es, n) :
              /\ y <= x
              /\ \A z \in Ancestors(es, n) : y <= z /\ z <= x => z \in IdsOf(part)
              => y \in Ancestors(part, n)
<1> DEFINE P(m) == Ancestors(part, m)
           A(m) == Ancestors(es, m)
           In(m)  == P(m) \subseteq A(m) \cap IdsOf(part)
           Run(m, x, y) == \A z \in A(m) : y <= z /\ z <= x => z \in IdsOf(part)
           Up(m)  == \A x \in P(m), y \in A(m) : y <= x /\ Run(m, x, y) => y \in P(m)
           Q == {m \in Nat : In(m) /\ Up(m)}
<1>1. /\ Tree(es) /\ Tree(part)
      /\ \A m \in IdsOf(part) : m \in IdsOf(es) /\ Entry(part, m) = Entry(es, m)
  BY DEF PartOf
<1>2. \A m \in Nat : P(m) = IF m \notin IdsOf(part) THEN {} ELSE {m} \cup P(Entry(part, m).parent)
  BY <1>1, AncestorsStep
<1>3. \A m \in Nat : A(m) = IF m \notin IdsOf(es) THEN {} ELSE {m} \cup A(Entry(es, m).parent)
  BY <1>1, AncestorsStep
<1>4. \A m \in Nat : \A k \in A(m) : k \in IdsOf(es) /\ k \in Nat /\ k <= m
  BY <1>1, AncestorsOlder
<1>5. \A m \in IdsOf(es) : m \in Nat /\ Entry(es, m).parent \in Nat /\ Entry(es, m).parent < m
  BY <1>1, IdOfEntry
<1> HIDE DEF P, A
<1>6. ASSUME NEW m \in Nat, \A k \in 0..(m - 1) : k \in Q PROVE m \in Q
  <2>1. CASE m \notin IdsOf(part)
    <3>1. P(m) = {}
      BY <1>2, <2>1
    <3> QED BY <3>1
  <2>2. CASE m \in IdsOf(part)
    <3> DEFINE p == Entry(es, m).parent
    <3>1. m \in IdsOf(es) /\ p \in Nat /\ p < m /\ p \in 0..(m - 1)
      BY <1>1, <1>5, <2>2
    <3>2. P(m) = {m} \cup P(p) /\ A(m) = {m} \cup A(p)
      BY <1>1, <1>2, <1>3, <2>2, <3>1
    <3>3. In(p) /\ Up(p)
      BY <1>6, <3>1
    <3> HIDE DEF p
    <3>4. In(m)
      BY <2>2, <3>2, <3>3
    <3>5. ASSUME NEW x \in P(m), NEW y \in A(m), y <= x, Run(m, x, y) PROVE y \in P(m)
      <4>1. y = m \/ y \in A(p)
        BY <3>2
      <4>2. CASE y \in A(p)
        <5>1. y \in Nat /\ y <= p
          BY <1>4, <3>1, <4>2
        <5>2. CASE x \in P(p)
          <6>1. Run(p, x, y)
            BY <3>2, <3>5
          <6> QED BY <3>2, <3>3, <3>5, <4>2, <5>2, <6>1
        <5>3. CASE x \notin P(p)
          <6>1. x = m
            BY <3>2, <5>3
          <6>2. p \in A(p)
            BY <1>3, <3>1, <4>2
          <6>3. p \in IdsOf(part)
            BY <3>1, <3>2, <3>5, <5>1, <6>1, <6>2
          <6>4. p \in P(p)
            BY <1>2, <3>1, <6>3
          <6>5. Run(p, p, y)
            BY <1>4, <3>1, <3>2, <3>5, <6>1
          <6> QED BY <3>2, <3>3, <4>2, <5>1, <6>4, <6>5
        <5> QED BY <5>2, <5>3
      <4> QED BY <3>2, <4>1, <4>2
    <3> QED BY <3>4, <3>5
  <2> QED BY <2>1, <2>2
<1>7. Nat \subseteq Q
  <2> HIDE DEF Q
  <2> QED BY <1>6, StrongInduction
<1> QED BY <1>7 DEF P, A

(* What is lost was never between a call and its result.                   *)
LEMMA SoundPart ==
  ASSUME NEW es, NEW part, PartOf(part, es), NEW n \in Nat, NEW gone, NEW left, left \subseteq gone,
         \A x \in IdsOf(part) : x \notin gone,
         \A x \in IdsOf(part), z \in IdsOf(es) : z <= x => z \in gone \/ z \in IdsOf(part),
         Sound(es, n, gone)
  PROVE  Sound(part, n, left)
<1> DEFINE P == Ancestors(part, n)
           A == Ancestors(es, n)
<1>1. /\ P \subseteq A \cap IdsOf(part)
      /\ \A x \in P, y \in A : y <= x /\ (\A z \in A : y <= z /\ z <= x => z \in IdsOf(part)) => y \in P
  BY PartAncestors
<1>2. \A m \in IdsOf(part) : m \in IdsOf(es) /\ Entry(part, m) = Entry(es, m)
  BY DEF PartOf
<1>3. \A k \in A : k \in IdsOf(es) /\ k \in Nat
  BY AncestorsOlder DEF PartOf
<1>4. \A x \in A : Entry(es, x).type = "toolResult" => \E y \in A : AnsweredBy(es, A, gone, x, y)
  BY DEF Sound
<1> HIDE DEF P, A
<1>5. ASSUME NEW x \in P, Entry(part, x).type = "toolResult" PROVE \E y \in P : AnsweredBy(part, P, left, x, y)
  <2>1. x \in A /\ x \in IdsOf(part) /\ x \in Nat /\ Entry(es, x).type = "toolResult"
    BY <1>1, <1>2, <1>3, <1>5
  <2>2. PICK y \in A : AnsweredBy(es, A, gone, x, y)
    BY <1>4, <2>1
  <2>3. \A z \in A : y <= z /\ z <= x => z \in IdsOf(part)
    <3>1. x \notin gone
      BY <2>1
    <3>2. ASSUME NEW z \in A, y <= z, z <= x PROVE z \in IdsOf(part)
      <4>1. z \notin gone /\ z \in IdsOf(es)
        BY <1>3, <2>2, <3>1, <3>2 DEF AnsweredBy
      <4> QED BY <2>1, <3>2, <4>1
    <3> QED BY <3>2
  <2>4. y \in P
    <3>1. y \in Nat /\ y < x
      BY <1>3, <2>2 DEF AnsweredBy
    <3> QED BY <1>1, <2>1, <2>3, <3>1
  <2>5. \A z \in P : z \in A /\ Entry(part, z) = Entry(es, z) /\ z \notin left
    BY <1>1, <1>2
  <2>6. AnsweredBy(part, P, left, x, y)
    BY <2>2, <2>4, <2>5 DEF AnsweredBy
  <2> QED BY <2>4, <2>6
<1> QED BY <1>5 DEF Sound, P

(* Dropping the entries of a tree that do not pass, or those after one.    *)
LEMMA PartFilter ==
  ASSUME NEW es, Tree(es), NEW gone
  PROVE  LET part == InOrder(es, IdsOf(es) \ gone)
         IN  /\ PartOf(part, es)
             /\ \A z \in IdsOf(es) : z \in gone \/ z \in IdsOf(part)
             /\ \A x \in IdsOf(part) : x \notin gone
<1> DEFINE S == IdsOf(es) \ gone
           W == WithId(S)
           part == Filter(es, W)
<1>1. es \in Seq(EntryRec) /\ InOrder(es, S) = part
  BY TreeTypes, InOrderFilter
<1>2. Tree(part)
  BY TreeFilter
<1> HIDE DEF W
<1>3. /\ \A i \in 1..Len(part) : part[i] \in W /\ \E k \in 1..Len(es) : es[k] = part[i]
      /\ \A k \in 1..Len(es) : es[k] \in W => \E i \in 1..Len(part) : part[i] = es[k]
  BY <1>1, FilterElements
<1> HIDE DEF part
<1>4. ASSUME NEW n \in IdsOf(part) PROVE n \in IdsOf(es) /\ Entry(part, n) = Entry(es, n) /\ n \notin gone
  <2>1. PICK i \in 1..Len(part) : part[i].id = n /\ Entry(part, n) = part[i]
    BY <1>2, IdOfEntry
  <2>2. part[i] \in W /\ \E k \in 1..Len(es) : es[k] = part[i]
    BY <1>3, <2>1
  <2>3. PICK k \in 1..Len(es) : es[k] = part[i]
    BY <2>2
  <2>4. es[k].id \in IdsOf(es) /\ Entry(es, es[k].id) = es[k]
    BY EntryOfId
  <2>5. part[i].id \notin gone
    BY <2>2 DEF W, WithId
  <2> QED BY <2>1, <2>3, <2>4, <2>5
<1>5. ASSUME NEW z \in IdsOf(es), z \notin gone PROVE z \in IdsOf(part)
  <2>1. PICK k \in 1..Len(es) : es[k].id = z
    BY IdOfEntry
  <2>2. es[k] \in W
    BY <1>5, <2>1, TreeTypes DEF W, WithId
  <2>3. PICK i \in 1..Len(part) : part[i] = es[k]
    BY <1>3, <2>2
  <2> QED BY <1>2, <2>1, <2>3, EntryOfId
<1> QED BY <1>1, <1>2, <1>4, <1>5 DEF PartOf

LEMMA PartPrefix ==
  ASSUME NEW es, Tree(es), NEW k \in 0..Len(es)
  PROVE  LET part == SubSeq(es, 1, k)
         IN  PartOf(part, es) /\ \A x \in IdsOf(part), z \in IdsOf(es) : z <= x => z \in IdsOf(part)
<1> DEFINE part == SubSeq(es, 1, k)
<1>1. Tree(part) /\ Len(part) = k /\ \A i \in 1..k : part[i] = es[i]
  BY TreePrefix
<1> HIDE DEF part
<1>2. Len(es) \in Nat /\ \A i \in 1..k : i \in 1..Len(es)
  BY TreeTypes
<1>3. ASSUME NEW n \in IdsOf(part)
      PROVE  \E i \in 1..k : es[i].id = n /\ n \in IdsOf(es) /\ Entry(part, n) = Entry(es, n)
  <2>1. PICK i \in 1..Len(part) : part[i].id = n /\ Entry(part, n) = part[i]
    BY <1>1, IdOfEntry
  <2>2. i \in 1..k /\ es[i] = part[i] /\ i \in 1..Len(es)
    BY <1>1, <1>2, <2>1
  <2>3. es[i].id \in IdsOf(es) /\ Entry(es, es[i].id) = es[i]
    BY <2>2, EntryOfId
  <2> QED BY <2>1, <2>2, <2>3
<1>4. ASSUME NEW x \in IdsOf(part), NEW z \in IdsOf(es), z <= x PROVE z \in IdsOf(part)
  <2>1. PICK i \in 1..k : es[i].id = x
    BY <1>3
  <2>2. PICK j \in 1..Len(es) : es[j].id = z
    BY IdOfEntry
  <2>3. j <= i
    <3>1. i \in 1..Len(es) /\ es[i].id \in Nat /\ es[j].id \in Nat /\ i \in Nat /\ j \in Nat
      BY <1>2, <2>1, TreeTypes
    <3>2. i < j => es[i].id < es[j].id
      BY <3>1 DEF Tree
    <3> QED BY <1>4, <2>1, <2>2, <3>1, <3>2
  <2>4. j \in 1..Len(part) /\ part[j] = es[j]
    BY <1>1, <1>2, <2>1, <2>3
  <2> QED BY <1>1, <2>2, <2>4, EntryOfId
<1> QED BY <1>1, <1>3, <1>4 DEF PartOf, part

(* In one unbroken chain the path to an entry is all that is older.        *)
LEMMA ChainedAncestors ==
  ASSUME NEW es, Tree(es), Chained(es), NEW n \in IdsOf(es)
  PROVE  Ancestors(es, n) = {m \in IdsOf(es) : m <= n}
<1> DEFINE A(m) == Ancestors(es, m)
           Older(i) == {m \in IdsOf(es) : m <= es[i].id}
           Q == {i \in Nat : i + 1 \in 1..Len(es) => A(es[i + 1].id) = Older(i + 1)}
<1>1. /\ Len(es) \in Nat
      /\ \A i \in 1..Len(es) : /\ es[i].id \in Nat \ {0} /\ es[i].id \in IdsOf(es)
                               /\ Entry(es, es[i].id) = es[i]
                               /\ es[i].parent = IF i = 1 THEN 0 ELSE es[i - 1].id
  BY TreeTypes, EntryOfId DEF Chained
<1>2. \A m \in IdsOf(es) : \E j \in 1..Len(es) : es[j].id = m
  BY IdOfEntry
<1>3. \A i, j \in 1..Len(es) : i < j => es[i].id < es[j].id
  BY DEF Tree
<1>4. \A m \in Nat : A(m) = IF m \notin IdsOf(es) THEN {} ELSE {m} \cup A(Entry(es, m).parent)
  BY AncestorsStep
<1> HIDE DEF A
<1>5. ASSUME NEW i \in 1..Len(es), NEW m \in IdsOf(es)
      PROVE  m <= es[i].id <=> m = es[i].id \/ (i # 1 /\ m <= es[i - 1].id)
  <2>1. PICK j \in 1..Len(es) : es[j].id = m
    BY <1>2
  <2>2. CASE j = i
    BY <1>1, <2>1, <2>2
  <2>3. CASE j < i
    <3>1. i - 1 \in 1..Len(es) /\ (j = i - 1 \/ j < i - 1)
      BY <1>1, <2>3
    <3>2. es[i - 1].id < es[i].id
      BY <1>3, <3>1
    <3>3. es[j].id = es[i - 1].id \/ es[j].id < es[i - 1].id
      BY <1>3, <3>1
    <3>4. es[i].id \in Nat /\ es[i - 1].id \in Nat /\ es[j].id \in Nat /\ i # 1
      BY <1>1, <2>3, <3>1
    <3> QED BY <2>1, <3>2, <3>3, <3>4
  <2>4. CASE i < j
    <3>1. es[i].id < es[j].id
      BY <1>3, <2>4
    <3>2. i # 1 => i - 1 \in 1..Len(es) /\ es[i - 1].id < es[i].id
      BY <1>1, <1>3
    <3> QED BY <1>1, <2>1, <3>1, <3>2
  <2> QED BY <1>1, <2>2, <2>3, <2>4
<1>6. 0 \in Q
  <2> SUFFICES ASSUME 1 \in 1..Len(es) PROVE A(es[1].id) = Older(1)
    OBVIOUS
  <2>1. A(0) = {}
    <3>1. 0 \notin IdsOf(es)
      BY <1>1, <1>2
    <3> QED BY <1>4, <3>1
  <2>2. A(es[1].id) = {es[1].id}
    BY <1>1, <1>4, <2>1
  <2> QED BY <1>1, <1>5, <2>2
<1>7. ASSUME NEW i \in Nat, i \in Q PROVE i + 1 \in Q
  <2> DEFINE j == i + 1
  <2> SUFFICES ASSUME j + 1 \in 1..Len(es) PROVE A(es[j + 1].id) = Older(j + 1)
    OBVIOUS
  <2>1. j \in 1..Len(es) /\ j + 1 # 1 /\ (j + 1) - 1 = j
    BY <1>1
  <2>2. A(es[j].id) = Older(j)
    BY <1>7, <2>1
  <2> HIDE DEF j
  <2>3. es[j + 1].parent = es[j].id
    BY <1>1, <2>1
  <2>4. A(es[j + 1].id) = {es[j + 1].id} \cup Older(j)
    BY <1>1, <1>4, <2>2, <2>3
  <2>5. \A m \in IdsOf(es) : m <= es[j + 1].id <=> m = es[j + 1].id \/ m <= es[j].id
    BY <1>5, <2>1
  <2> QED BY <1>1, <2>4, <2>5
<1>8. Nat \subseteq Q
  <2> HIDE DEF Q
  <2> QED BY <1>6, <1>7, Induction
<1>9. PICK k \in 1..Len(es) : es[k].id = n
  BY <1>2
<1>10. k - 1 \in Nat /\ (k - 1) + 1 = k
  BY <1>1
<1>11. A(es[k].id) = Older(k)
  BY <1>8, <1>10
<1> QED BY <1>9, <1>11 DEF A

(* The entries of a fork: those of the path that are no labels, and new    *)
(* labels.                                                                 *)
LEMMA ForkEntries ==
  ASSUME NEW saved, Tree(saved), NEW n0 \in Nat, NEW nx \in 1..(MaxEntries + 1),
         \A i \in 1..Len(saved) : saved[i].id < nx,
         LastId(Branched(saved, n0, nx)) <= MaxEntries
  PROVE  LET A == Ancestors(saved, n0)
             B == Branched(saved, n0, nx)
         IN  /\ \A n \in IdsOf(B) :
                  \/ /\ n \in A
                     /\ Entry(B, n).type = Entry(saved, n).type /\ Entry(B, n).ref = Entry(saved, n).ref
                  \/ Entry(B, n).type = "label" /\ n >= nx
             /\ \A y \in A : y < nx /\ (Entry(saved, y).type # "label" => y \in IdsOf(B))
<1> DEFINE path == Path(saved, n0)
           A == Ancestors(saved, n0)
           W == WithoutLabels(path)
           R == Rechained(path)
           T == Labelled(saved) \cap IdsOf(R)
           O == InOrder(R, T)
           L == Relabelled(R, T, nx)
           B == Branched(saved, n0, nx)
<1>1. /\ B = R \o L /\ Tree(B) /\ Chained(B) /\ L \in Seq(EntryRec) /\ Len(L) = Len(O)
      /\ Tree(R) /\ O = Filter(R, WithId(T)) /\ \A i \in 1..Len(R) : R[i].id < nx
      /\ \A i \in 1..Len(L) : /\ L[i].id = nx + i - 1 /\ L[i].type = "label"
                              /\ L[i].ref = O[i].id /\ L[i].covers = {O[i].id}
      /\ \A i \in 1..Len(B) : B[i].id < nx \/ B[i].id <= LastId(B)
  BY BranchedIs, ZenonT(60)
<1>2. path = Filter(saved, WithId(A)) /\ Tree(path)
  BY PathFilter
<1>3. /\ W = Filter(path, Plain) /\ Tree(W) /\ Len(R) = Len(W)
      /\ \A i \in 1..Len(W) : R[i].id = W[i].id /\ R[i].type = W[i].type /\ R[i].ref = W[i].ref
  BY <1>2, RechainedIs
<1> DEFINE I == WithId(A)
<1>11. path = Filter(saved, I) /\ Tree(B)
  BY <1>1, <1>2
<1>4. saved \in Seq(EntryRec) /\ path \in Seq(EntryRec) /\ Len(R) \in Nat /\ R \in Seq(EntryRec) /\ Len(L) \in Nat
  BY <1>1, <1>2, TreeTypes, LenProperties
<1> HIDE DEF I, W, R, L, B, path, T, O
<1>5. \A x : (\E i \in 1..Len(path) : path[i] = x) <=> x \in I /\ \E k \in 1..Len(saved) : saved[k] = x
  <2>1. saved \in Seq(EntryRec)
    BY <1>4
  <2>2. \A x : (\E i \in 1..Len(Filter(saved, I)) : Filter(saved, I)[i] = x)
                  <=> x \in I /\ \E k \in 1..Len(saved) : saved[k] = x
    BY <2>1, FilterHas
  <2> QED BY <1>11, <2>2
<1>6. \A x : (\E i \in 1..Len(W) : W[i] = x) <=> x \in Plain /\ \E k \in 1..Len(path) : path[k] = x
  <2>1. path \in Seq(EntryRec)
    BY <1>4
  <2>2. \A x : (\E i \in 1..Len(Filter(path, Plain)) : Filter(path, Plain)[i] = x)
                  <=> x \in Plain /\ \E k \in 1..Len(path) : path[k] = x
    BY <2>1, FilterHas
  <2> QED BY <1>3, <2>2
<1>7. \A x : (\E i \in 1..Len(W) : W[i] = x) <=> x \in Plain /\ x \in I /\ \E k \in 1..Len(saved) : saved[k] = x
  BY <1>5, <1>6
<1>8. /\ Len(B) = Len(R) + Len(L)
      /\ \A i \in 1..(Len(R) + Len(L)) : B[i] = IF i <= Len(R) THEN R[i] ELSE L[i - Len(R)]
  <2>1. R \in Seq(EntryRec) /\ L \in Seq(EntryRec) /\ B = R \o L
    BY <1>1, <1>4
  <2>2. /\ Len(R \o L) = Len(R) + Len(L)
        /\ \A i \in 1..(Len(R) + Len(L)) : (R \o L)[i] = IF i <= Len(R) THEN R[i] ELSE L[i - Len(R)]
    BY <2>1, ConcatProperties
  <2> QED BY <2>1, <2>2
<1>9. ASSUME NEW n \in IdsOf(B)
      PROVE  \/ /\ n \in A
                /\ Entry(B, n).type = Entry(saved, n).type /\ Entry(B, n).ref = Entry(saved, n).ref
             \/ Entry(B, n).type = "label" /\ n >= nx
  <2>1. PICK i \in 1..Len(B) : B[i].id = n /\ Entry(B, n) = B[i]
    BY <1>11, IdOfEntry
  <2>2. CASE i <= Len(R)
    <3>1. i \in 1..Len(W) /\ B[i] = R[i]
      BY <1>3, <1>4, <1>8, <2>1, <2>2
    <3>2. W[i] \in I /\ \E k \in 1..Len(saved) : saved[k] = W[i]
      BY <1>7, <3>1
    <3>3. PICK k \in 1..Len(saved) : saved[k] = W[i]
      BY <3>2
    <3>4. n = saved[k].id /\ n \in A
      BY <1>3, <2>1, <3>1, <3>2, <3>3 DEF I, WithId
    <3>5. Entry(saved, n) = saved[k]
      BY <3>4, EntryOfId
    <3> QED BY <1>3, <2>1, <3>1, <3>3, <3>4, <3>5
  <2>3. CASE ~ (i <= Len(R))
    <3>1. i - Len(R) \in 1..Len(L) /\ B[i] = L[i - Len(R)]
      BY <1>4, <1>8, <2>1, <2>3
    <3>2. Entry(B, n).type = "label" /\ n = nx + (i - Len(R)) - 1
      BY <1>1, <2>1, <3>1
    <3>3. n >= nx
      BY <1>4, <3>1, <3>2
    <3> QED BY <3>2, <3>3
  <2> QED BY <2>2, <2>3
<1>10. ASSUME NEW y \in A
       PROVE  y < nx /\ (Entry(saved, y).type # "label" => y \in IdsOf(B))
  <2>1. y \in IdsOf(saved)
    BY AncestorsOlder
  <2>2. PICK k \in 1..Len(saved) : saved[k].id = y /\ Entry(saved, y) = saved[k]
    BY <2>1, IdOfEntry
  <2>3. y < nx
    BY <2>2
  <2>4. ASSUME Entry(saved, y).type # "label" PROVE y \in IdsOf(B)
    <3>1. saved[k] \in EntryRec
      BY TreeTypes
    <3>2. saved[k] \in Plain /\ saved[k] \in I
      BY <2>2, <2>4, <3>1 DEF Plain, I, WithId
    <3>3. PICK i \in 1..Len(W) : W[i] = saved[k]
      BY <1>7, <3>2
    <3>4. i \in 1..Len(B) /\ B[i] = R[i] /\ R[i].id = y
      BY <1>3, <1>4, <1>8, <2>2, <3>3
    <3> QED BY <1>1, <3>4, EntryOfId
  <2> QED BY <2>3, <2>4
<1> QED BY <1>9, <1>10 DEF B

LEMMA ForkSound ==
  ASSUME NEW saved, Tree(saved), NEW n0 \in Nat, NEW nx \in 1..(MaxEntries + 1),
         \A i \in 1..Len(saved) : saved[i].id < nx,
         LastId(Branched(saved, n0, nx)) <= MaxEntries,
         NEW gone, Sound(saved, n0, gone), NEW n \in Nat
  PROVE  Sound(Branched(saved, n0, nx), n, {})
<1> DEFINE B == Branched(saved, n0, nx)
           A == Ancestors(saved, n0)
           C == Ancestors(B, n)
<1>1. Tree(B) /\ Chained(B)
  BY BranchedIs
<1>2. /\ \A m \in IdsOf(B) :
            \/ /\ m \in A
               /\ Entry(B, m).type = Entry(saved, m).type /\ Entry(B, m).ref = Entry(saved, m).ref
            \/ Entry(B, m).type = "label" /\ m >= nx
      /\ \A y \in A : y < nx /\ (Entry(saved, y).type # "label" => y \in IdsOf(B))
  BY ForkEntries
<1>3. nx \in Nat /\ \A y \in A : y \in Nat
  BY AncestorsOlder, SessionLogAssumption
<1>4. \A x \in A : Entry(saved, x).type = "toolResult" => \E y \in A : AnsweredBy(saved, A, gone, x, y)
  BY DEF Sound
<1> HIDE DEF B
<1>5. C \subseteq IdsOf(B) /\ \A x \in C, y \in IdsOf(B) : y <= x => y \in C
  <2>1. \A m \in IdsOf(B) : m \in Nat
    BY <1>1, IdOfEntry
  <2>2. CASE n \in IdsOf(B)
    BY <1>1, <2>1, <2>2, ChainedAncestors
  <2>3. CASE n \notin IdsOf(B)
    BY <1>1, <2>3, AncestorsStep
  <2> QED BY <2>2, <2>3
<1> HIDE DEF A, C
<1>6. ASSUME NEW x \in C, Entry(B, x).type = "toolResult" PROVE \E y \in C : AnsweredBy(B, C, {}, x, y)
  <2>1. x \in A /\ Entry(saved, x).type = "toolResult"
    BY <1>2, <1>5, <1>6
  <2>2. PICK y \in A : AnsweredBy(saved, A, gone, x, y)
    BY <1>4, <2>1
  <2>3. y \in IdsOf(B) /\ y < x /\ Entry(B, y).type = "call" /\ y \in Nat /\ x \in Nat /\ x < nx
    BY <1>2, <1>3, <2>1, <2>2 DEF AnsweredBy
  <2>4. y \in C
    BY <1>5, <2>3
  <2>5. \A z \in C : z <= x => z \in A /\ Entry(B, z).type = Entry(saved, z).type
    BY <1>2, <1>3, <1>5, <2>3, <1>1, IdOfEntry
  <2>6. \A q \in C : Entry(B, q).type = "compaction" =>
          q \in A /\ Entry(saved, q).type = "compaction" /\ Entry(saved, q).ref = Entry(B, q).ref
    BY <1>2, <1>5
  <2>7. \A z \in C : z \in Nat
    BY <1>1, <1>5, IdOfEntry
  <2>8. \A z \in C : y < z /\ z < x => ~ Visible(Entry(B, z))
    BY <2>2, <2>3, <2>5, <2>7 DEF AnsweredBy, Visible
  <2>9. \A z \in C : y < z /\ z <= x => \A q \in C : Entry(B, q).type = "compaction" => Entry(B, q).ref # z
    BY <2>2, <2>3, <2>5, <2>6, <2>7 DEF AnsweredBy
  <2>10. AnsweredBy(B, C, {}, x, y)
    BY <2>3, <2>8, <2>9 DEF AnsweredBy
  <2> QED BY <2>4, <2>10
<1> QED BY <1>6 DEF Sound, B, C

(* A path as a sequence, and as the numbers of its entries.                *)
LEMMA PathIds ==
  ASSUME NEW es, Tree(es), NEW n \in Nat
  PROVE  LET path == Path(es, n)
             A    == Ancestors(es, n)
         IN  /\ \A i \in 1..Len(path) : path[i].id \in A /\ Entry(es, path[i].id) = path[i]
             /\ \A z \in A : \E i \in 1..Len(path) : path[i].id = z /\ path[i] = Entry(es, z)
<1> DEFINE path == Path(es, n)
           A    == Ancestors(es, n)
           I    == WithId(A)
<1>1. es \in Seq(EntryRec) /\ path = Filter(es, I)
  BY TreeTypes, PathFilter
<1> HIDE DEF I, path
<1>2. \A x : (\E i \in 1..Len(path) : path[i] = x) <=> x \in I /\ \E k \in 1..Len(es) : es[k] = x
  <2>1. \A x : (\E i \in 1..Len(Filter(es, I)) : Filter(es, I)[i] = x)
                  <=> x \in I /\ \E k \in 1..Len(es) : es[k] = x
    BY <1>1, FilterHas
  <2> QED BY <1>1, <2>1
<1>3. ASSUME NEW i \in 1..Len(path) PROVE path[i].id \in A /\ Entry(es, path[i].id) = path[i]
  <2>1. path[i] \in I
    BY <1>2
  <2>2. PICK k \in 1..Len(es) : es[k] = path[i]
    BY <1>2
  <2>3. Entry(es, es[k].id) = es[k]
    BY EntryOfId
  <2> QED BY <2>1, <2>2, <2>3 DEF I, WithId
<1>4. ASSUME NEW z \in A PROVE \E i \in 1..Len(path) : path[i].id = z /\ path[i] = Entry(es, z)
  <2>1. z \in IdsOf(es)
    BY AncestorsOlder
  <2>2. PICK k \in 1..Len(es) : es[k].id = z /\ Entry(es, z) = es[k]
    BY <2>1, IdOfEntry
  <2>3. es[k] \in I
    BY <2>2, TreeTypes DEF I, WithId
  <2>4. PICK i \in 1..Len(path) : path[i] = es[k]
    BY <1>2, <2>3
  <2> QED BY <2>2, <2>4
<1> QED BY <1>3, <1>4 DEF path

(* Nothing more is lost, or only the last entry that was left.             *)
Loses(gone) ==
  \/ gone = lost
  \/ \E m \in Nat : gone = lost \cup {m} /\ \A z \in IdsOf(entries) : z \in lost \/ z <= m

LEMMA SoundLost ==
  ASSUME Tree(entries), NEW gone, Loses(gone), NEW n \in Nat, Sound(entries, n, lost)
  PROVE  Sound(entries, n, gone)
<1>1. CASE gone = lost
  BY <1>1
<1>2. CASE gone # lost
  <2>1. PICK m \in Nat : gone = lost \cup {m} /\ \A z \in IdsOf(entries) : z \in lost \/ z <= m
    BY <1>2 DEF Loses
  <2>2. Sound(entries, n, lost \cup {m})
    BY <2>1, SoundLoses
  <2> QED BY <2>1, <2>2
<1> QED BY <1>1, <1>2

(* After any append the file's last line has its end.  The entry behind    *)
(* which it was missing is lost, the last one that was left.               *)
LEMMA AppendCloses ==
  ASSUME LogInv, FileInv, flushed \in BOOLEAN, NEW e, Fresh(e), AddEntry(e)
  PROVE  /\ Closed(file') /\ e.id \notin lost
         /\ Closed(file) => \/ lost' = lost /\ file # VoidFile /\ file' # VoidFile
                            \/ lost' = lost \cup {e.id} /\ file = VoidFile /\ file' = VoidFile
         /\ \E gone : Loses(gone) /\ (lost' = gone \/ lost' = gone \cup {e.id})
<1> DEFINE es == Append(entries, e)
<1>1. /\ file' = IF flushed THEN WithLine(file, e) ELSE IF HasAnswer(es) THEN es ELSE file
      /\ lost' = IF flushed THEN lost \cup Joined(file, e) ELSE lost
  BY DEF AddEntry, Persist
<1>2. /\ e \in EntryRec /\ e \in Lines /\ e.id \notin lost /\ es \in Seq(EntryRec)
      /\ e # TornLine /\ e # OpenLine
  <2>1. e \in EntryRec /\ e.id = next /\ next \in Nat /\ Tree(es)
    BY FreshAppends DEF Fresh, LogInv
  <2>2. e.id \notin lost
    BY <2>1 DEF FileInv
  <2> HIDE DEF es
  <2> QED BY <2>1, <2>2, LineTypes, TreeTypes
<1> HIDE DEF es
<1>3. CASE ~ flushed
  <2>1. Closed(es)
    BY <1>2, EntriesEnd, LineTypes DEF Closed
  <2>2. es # VoidFile
    BY <1>2, EntriesEnd, NoLines
  <2> QED BY <1>1, <1>2, <1>3, <2>1, <2>2, NoLines DEF FileInv, Closed, Loses
<1>4. CASE flushed /\ EndsWith(file, TornLine)
  <2>1. file \in Seq(Lines) /\ ~ EndsWith(file, OpenLine)
    BY <1>4, NoLines, LineTypes DEF FileInv, EndsWith
  <2>2. Front(file) \in Seq(Lines) /\ file' = Append(Front(file), GarbledLine) /\ lost' = lost \cup {e.id}
    BY <1>1, <1>4, <2>1, EndsWithLast DEF WithLine, Joined
  <2>3. Closed(file')
    BY <2>2, EndsWithAppend, LineTypes DEF Closed
  <2> QED BY <1>2, <1>4, <2>2, <2>3 DEF Closed, Loses
<1>5. CASE flushed /\ file \in {<<OpenLine>>, VoidFile}
  <2>1. ~ EndsWith(file, TornLine)
    <3>1. ~ EndsWith(<<OpenLine>>, TornLine)
      BY LineTypes DEF EndsWith
    <3> QED BY <1>5, <3>1, NoLines
  <2>2. file' = VoidFile
    BY <1>1, <1>5, <2>1 DEF WithLine
  <2>3. Joined(file, e) = {e.id}
    <3>1. CASE file = <<OpenLine>>
      <4>1. Len(file) = 1 /\ DOMAIN file = 1..1 /\ EndsWith(file, OpenLine)
        BY <3>1 DEF EndsWith
      <4>2. {file[i].id : i \in (DOMAIN file) \cap {Len(file) - 1}} = {}
        BY <4>1
      <4> QED BY <4>1, <4>2 DEF Joined
    <3>2. CASE file = VoidFile
      BY <3>2, NoLines DEF Joined
    <3> QED BY <1>5, <3>1, <3>2
  <2>4. lost' = lost \cup {e.id}
    BY <1>1, <1>5, <2>3
  <2>5. Closed(file')
    BY <2>2, NoLines DEF Closed
  <2>6. Closed(file) => file = VoidFile
    <3>1. EndsWith(<<OpenLine>>, OpenLine)
      BY DEF EndsWith
    <3> QED BY <1>5, <3>1 DEF Closed
  <2> QED BY <1>2, <2>2, <2>4, <2>5, <2>6 DEF Loses
<1>6. CASE flushed /\ EndsWith(file, OpenLine) /\ file # <<OpenLine>>
  <2> DEFINE p == Front(Front(file))
             x == file[Len(file) - 1]
  <2>1. file # VoidFile /\ Len(file) - 1 \in DOMAIN file /\ p \in Seq(Lines) /\ x.id \in Nat
    BY <1>6, LastSaved
  <2>2. \A z \in IdsOf(entries) : z \in lost \/ z <= x.id
    BY <1>6, LastSaved
  <2>3. ~ EndsWith(file, TornLine)
    BY <1>6, LineTypes DEF EndsWith
  <2>4. file' = Append(p, GarbledLine)
    BY <1>1, <1>6, <2>1, <2>3 DEF WithLine
  <2>5. lost' = (lost \cup {x.id}) \cup {e.id}
    <3>1. (DOMAIN file) \cap {Len(file) - 1} = {Len(file) - 1}
      BY <2>1
    <3>2. {file[i].id : i \in {Len(file) - 1}} = {x.id}
      OBVIOUS
    <3>3. Joined(file, e) = {e.id} \cup {x.id}
      BY <1>6, <3>1, <3>2 DEF Joined
    <3> QED BY <1>1, <1>6, <3>3
  <2> HIDE DEF p, x
  <2>6. Closed(file')
    BY <2>1, <2>4, EndsWithAppend, LineTypes DEF Closed
  <2>7. PICK gone : gone = lost \cup {x.id}
    OBVIOUS
  <2>8. lost' = gone \cup {e.id}
    BY <2>5, <2>7
  <2>9. Loses(gone)
    BY <2>1, <2>2, <2>7 DEF Loses
  <2> QED BY <1>2, <1>6, <2>6, <2>8, <2>9 DEF Closed
<1>7. CASE flushed /\ ~ EndsWith(file, TornLine) /\ ~ EndsWith(file, OpenLine) /\ file # VoidFile
  <2>1. file \in Seq(Lines) /\ file # <<OpenLine>>
    <3>1. EndsWith(<<OpenLine>>, OpenLine)
      BY DEF EndsWith
    <3> QED BY <1>7, <3>1 DEF FileInv
  <2>2. file' = Append(file, e) /\ lost' = lost
    BY <1>1, <1>7, <2>1 DEF WithLine, Joined
  <2>3. file' \in Seq(Lines) /\ ~ EndsWith(file', TornLine) /\ ~ EndsWith(file', OpenLine)
    BY <1>2, <2>1, <2>2, EndsWithAppend
  <2>4. Closed(file') /\ file' # VoidFile
    BY <2>3, NoLines DEF Closed
  <2> QED BY <1>2, <1>7, <2>2, <2>4 DEF Loses
<1> QED BY <1>3, <1>4, <1>5, <1>6, <1>7

(* Entries appended while the agent works or a summary is awaited.         *)
LEMMA ResultsGrow ==
  ASSUME Inv, ResultsInv, NEW e, Fresh(e), AddEntry(e),
         e.type = "toolResult" => turn = "calling" /\ e.parent = leaf,
         e.type = "compaction" => comp # NoComp /\ e.ref = comp.ref /\ e.parent = leaf
  PROVE  /\ \A n \in Nat : Sound(entries', n, lost')
         /\ Closed(file') /\ e.id \notin lost
         /\ turn # "idle" => \/ lost' = lost /\ file # VoidFile /\ file' # VoidFile
                             \/ lost' = lost \cup {e.id} /\ file = VoidFile /\ file' = VoidFile
<1>1. /\ LogInv /\ FileInv /\ flushed \in BOOLEAN
  BY DEF Inv, ControlInv
<1>2. /\ e \in EntryRec /\ Tree(entries) /\ Tree(Append(entries, e)) /\ entries' = Append(entries, e)
  BY <1>1, FreshAppends, AddEntryLog
<1>3. /\ Closed(file') /\ e.id \notin lost
      /\ turn # "idle" => \/ lost' = lost /\ file # VoidFile /\ file' # VoidFile
                          \/ lost' = lost \cup {e.id} /\ file = VoidFile /\ file' = VoidFile
  BY <1>1, AppendCloses DEF ResultsInv
<1>4. PICK gone : Loses(gone) /\ (lost' = gone \/ lost' = gone \cup {e.id})
  BY <1>1, AppendCloses
<1>5. \A n \in Nat : Sound(entries, n, gone)
  BY <1>2, <1>4, SoundLost DEF ResultsInv
<1>6. e.type = "compaction" => CutAt(entries, e.parent, e.ref)
  BY DEF ResultsInv
<1> DEFINE left == lost'
           but  == IF e.id \in left THEN {} ELSE left
<1>7. e.type = "toolResult" => Waiting(entries, e.parent, but)
  BY <1>3 DEF ResultsInv
<1>8. gone \subseteq left /\ left \subseteq gone \cup {e.id}
  BY <1>4
<1>9. \A n \in Nat : Sound(Append(entries, e), n, left)
  <2> HIDE DEF left
  <2>1. e.type = "toolResult" => Waiting(entries, e.parent, IF e.id \in left THEN {} ELSE left)
    BY <1>7
  <2> QED BY <1>2, <1>5, <1>6, <1>8, <2>1, SoundAppend
<1> QED BY <1>2, <1>3, <1>9

LEMMA WaitingGrows ==
  ASSUME NEW es, NEW e \in EntryRec, Tree(es), Tree(Append(es, e)), NEW gone, e.id \notin gone,
         \/ e.type = "call"
         \/ ~ Visible(e) /\ Waiting(es, e.parent, gone)
  PROVE  Waiting(Append(es, e), e.id, gone)
<1> DEFINE t == Append(es, e)
           A == Ancestors(es, e.parent)
           B == Ancestors(t, e.id)
<1>1. /\ B = {e.id} \cup A /\ Entry(t, e.id) = e /\ e.id \in Nat
      /\ \A z \in A : z \in IdsOf(es) /\ z \in Nat /\ z < e.id /\ Entry(t, z) = Entry(es, z)
  BY AncestorsNew, EntryIds
<1> HIDE DEF t, B
<1>2. CASE e.type = "call"
  <2>1. \A z \in B : ~ (e.id < z) /\ (e.id <= z => z \notin gone)
    <3> HIDE DEF A
    <3> QED BY <1>1
  <2>2. \E y \in B : /\ Entry(t, y).type = "call"
                     /\ \A z \in B : /\ y < z => ~ Visible(Entry(t, z))
                                     /\ y <= z => z \notin gone
    BY <1>1, <1>2, <2>1
  <2> QED BY <2>2 DEF Waiting, t, B
<1>3. CASE ~ Visible(e) /\ Waiting(es, e.parent, gone)
  <2>1. PICK y \in A : /\ Entry(es, y).type = "call"
                       /\ \A z \in A : /\ y < z => ~ Visible(Entry(es, z))
                                       /\ y <= z => z \notin gone
    BY <1>3 DEF Waiting
  <2> HIDE DEF A
  <2>2. \A z \in B : /\ y < z => ~ Visible(Entry(t, z))
                     /\ y <= z => z \notin gone
    BY <1>1, <1>3, <2>1
  <2>3. y \in B /\ Entry(t, y).type = "call"
    BY <1>1, <2>1
  <2>4. \E v \in B : /\ Entry(t, v).type = "call"
                     /\ \A z \in B : /\ v < z => ~ Visible(Entry(t, z))
                                     /\ v <= z => z \notin gone
    BY <2>2, <2>3
  <2> QED BY <2>4 DEF Waiting, t, B
<1> QED BY <1>2, <1>3

LEMMA CutGrows ==
  ASSUME NEW es, NEW e \in EntryRec, Tree(es), Tree(Append(es, e)), NEW ref, CutAt(es, e.parent, ref)
  PROVE  CutAt(Append(es, e), e.id, ref)
<1> DEFINE t == Append(es, e)
           A == Ancestors(es, e.parent)
           B == Ancestors(t, e.id)
<1>1. /\ B = {e.id} \cup A /\ Entry(t, e.id) = e /\ e.id \in Nat
      /\ \A z \in A : z \in IdsOf(es) /\ z \in Nat /\ z < e.id /\ Entry(t, z) = Entry(es, z)
  BY AncestorsNew, EntryIds
<1> HIDE DEF t, B
<1>2. PICK c \in A : /\ ref <= c /\ Entry(es, c).type \in CutTypes
                     /\ \A z \in A : ref <= z /\ z < c => ~ Visible(Entry(es, z))
  BY DEF CutAt
<1> HIDE DEF A
<1>3. \A z \in B : ref <= z /\ z < c => ~ Visible(Entry(t, z))
  BY <1>1, <1>2
<1>4. c \in B /\ ref <= c /\ Entry(t, c).type \in CutTypes
  BY <1>1, <1>2
<1>5. \E v \in B : /\ ref <= v /\ Entry(t, v).type \in CutTypes
                   /\ \A z \in B : ref <= z /\ z < v => ~ Visible(Entry(t, z))
  BY <1>3, <1>4
<1> QED BY <1>5 DEF CutAt, t, B

(* What a summary is prepared for is a place where it may be cut.          *)
LEMMA CutStarts ==
  ASSUME Inv, NEW reached \in Nat, NEW retry \in BOOLEAN, StartCompaction(reached, retry)
  PROVE  CutAt(entries', leaf', comp'.ref)
<1> DEFINE path == Path(entries, leaf)
           A == Ancestors(entries, leaf)
           k == CutIndex(path, reached)
<1>1. leaf \in Nat /\ Tree(entries) /\ Tree(path)
  <2>1. leaf \in Nat /\ Tree(entries)
    BY SessionLogAssumption DEF Inv, LogInv
  <2> QED BY <2>1, PathFilter
<1>2. comp' = [ref |-> path[k].id, covers |-> SummaryCover(path, k), retry |-> retry] /\ CutPoints(path) # {}
      /\ entries' = entries /\ leaf' = leaf
  BY DEF StartCompaction, CanCompact
<1>3. /\ \A i \in 1..Len(path) : path[i].id \in A /\ Entry(entries, path[i].id) = path[i]
      /\ \A z \in A : \E i \in 1..Len(path) : path[i].id = z /\ path[i] = Entry(entries, z)
  BY <1>1, PathIds
<1> HIDE DEF path
<1>4. /\ k \in BoundaryStart(path)..Len(path) /\ k \in 1..Len(path)
      /\ \E cut \in k..Len(path) : /\ path[cut].type \in CutTypes
                                   /\ \A j \in k..(cut - 1) : ~ Visible(path[j])
  BY <1>1, <1>2, CutIs
<1> HIDE DEF k, A
<1>5. PICK cut \in k..Len(path) : path[cut].type \in CutTypes /\ \A j \in k..(cut - 1) : ~ Visible(path[j])
  BY <1>4
<1>6. /\ Len(path) \in Nat
      /\ \A i, j \in 1..Len(path) : i < j => path[i].id < path[j].id
      /\ \A i \in 1..Len(path) : path[i].id \in Nat
  BY <1>1, TreeTypes DEF Tree
<1>7. cut \in 1..Len(path) /\ k \in Nat /\ cut \in Nat
  BY <1>4, <1>5, <1>6
<1>8. path[k].id <= path[cut].id
  BY <1>4, <1>5, <1>6, <1>7
<1>9. ASSUME NEW z \in A, path[k].id <= z, z < path[cut].id PROVE ~ Visible(Entry(entries, z))
  <2>1. PICK j \in 1..Len(path) : path[j].id = z /\ path[j] = Entry(entries, z)
    BY <1>3
  <2>2. ~ (j < k)
    <3>1. j < k => path[j].id < path[k].id
      BY <1>4, <1>6
    <3>2. path[j].id \in Nat /\ path[k].id \in Nat
      BY <1>4, <1>6
    <3> QED BY <1>9, <2>1, <3>1, <3>2
  <2>3. j < cut
    <3>1. cut < j => path[cut].id < path[j].id
      BY <1>6, <1>7
    <3>2. path[j].id \in Nat /\ path[cut].id \in Nat /\ j \in Nat
      BY <1>6, <1>7
    <3> QED BY <1>7, <1>9, <2>1, <3>1, <3>2
  <2>4. j \in k..(cut - 1)
    BY <1>7, <2>2, <2>3
  <2> QED BY <1>5, <2>1, <2>4
<1>10. path[cut].id \in A /\ Entry(entries, path[cut].id).type \in CutTypes
  BY <1>3, <1>5, <1>7
<1>11. CutAt(entries, leaf, path[k].id)
  BY <1>8, <1>9, <1>10 DEF CutAt, A
<1> QED BY <1>2, <1>11

LEMMA ResultsAppend ==
  ASSUME Inv, ResultsInv, NEW e, Fresh(e), AddEntry(e),
         e.type = "toolResult" => turn = "calling" /\ e.parent = leaf,
         e.type = "compaction" => comp # NoComp /\ e.ref = comp.ref /\ e.parent = leaf,
         turn' = "calling" => \/ e.type = "call" /\ turn = "running"
                              \/ ~ Visible(e) /\ turn = "calling" /\ e.parent = leaf,
         comp' # NoComp => comp' = comp /\ e.parent = leaf
  PROVE  ResultsInv'
<1>1. LogInv
  BY DEF Inv
<1>2. /\ \A n \in Nat : Sound(entries', n, lost')
      /\ Closed(file') /\ e.id \notin lost
      /\ turn # "idle" => \/ lost' = lost /\ file # VoidFile /\ file' # VoidFile
                          \/ lost' = lost \cup {e.id} /\ file = VoidFile /\ file' = VoidFile
  BY ResultsGrow
<1>3. /\ e \in EntryRec /\ Tree(entries) /\ Tree(Append(entries, e))
      /\ entries' = Append(entries, e) /\ leaf' = e.id
  BY <1>1, FreshAppends, AddEntryLog
<1>4. ASSUME turn' = "calling" PROVE Waiting(entries', leaf', IF file' = VoidFile THEN {} ELSE lost')
  <2> DEFINE gone == IF file = VoidFile THEN {} ELSE lost
  <2>1. (IF file' = VoidFile THEN {} ELSE lost') = gone /\ e.id \notin gone
    BY <1>2, <1>4
  <2>2. e.type = "call" \/ (~ Visible(e) /\ Waiting(entries, e.parent, gone))
    BY <1>4 DEF ResultsInv
  <2>3. e.id \notin gone
    BY <2>1
  <2> HIDE DEF gone
  <2>4. Waiting(Append(entries, e), e.id, gone)
    BY <1>3, <2>2, <2>3, WaitingGrows
  <2> QED BY <1>3, <2>1, <2>4
<1>5. ASSUME comp' # NoComp PROVE CutAt(entries', leaf', comp'.ref)
  <2>1. CutAt(entries, e.parent, comp.ref)
    BY <1>5 DEF ResultsInv
  <2>2. CutAt(Append(entries, e), e.id, comp.ref)
    <3> DEFINE r == comp.ref
    <3>1. CutAt(entries, e.parent, r)
      BY <2>1
    <3> HIDE DEF r
    <3>2. CutAt(Append(entries, e), e.id, r)
      BY <1>3, <3>1, CutGrows
    <3> QED BY <3>2 DEF r
  <2> QED BY <1>3, <1>5, <2>2
<1> QED BY <1>2, <1>4, <1>5 DEF ResultsInv

LEMMA ResultsStay ==
  ASSUME ResultsInv, UNCHANGED <<entries, leaf, file, lost>>,
         turn' = "calling" => turn = "calling", turn' # "idle" => turn # "idle",
         comp' # NoComp => comp' = comp
  PROVE  ResultsInv'
BY DEF ResultsInv

(* A session that starts from a file, or anew.                             *)
LEMMA ResultsRestart ==
  ASSUME turn' = "idle", comp' = NoComp, \A n \in Nat : Sound(entries', n, lost')
  PROVE  ResultsInv'
BY DEF ResultsInv

LEMMA SoundEmpty ==
  ASSUME NEW n \in Nat, NEW gone PROVE Sound(<<>>, n, gone)
<1>1. n \notin IdsOf(<<>>)
  BY DEF IdsOf
<1>2. Ancestors(<<>>, n) = {}
  BY <1>1, TreeEmpty, AncestorsStep
<1> QED BY <1>2 DEF Sound

LEMMA ResultsFork ==
  ASSUME Inv, ResultsInv, NEW target \in 1..MaxEntries, Fork(target)
  PROVE  ResultsInv'
<1> DEFINE saved == Readable(file)
           es    == Branched(saved, target, next)
<1>1. LogInv /\ FileInv /\ flushed \in BOOLEAN
  BY DEF Inv, ControlInv
<1>2. /\ flushed /\ Tree(saved) /\ target \in IdsOf(saved)
      /\ next \in 1..(MaxEntries + 1) /\ \A i \in 1..Len(saved) : saved[i].id < next
      /\ LastId(es) <= MaxEntries
  BY <1>1, ForkOrigin
<1>3. /\ entries' = es /\ lost' = {} /\ turn' = "idle" /\ comp' = NoComp
  BY DEF Fork, StartSession
<1>4. saved = InOrder(entries, IdsOf(entries) \ lost) /\ Tree(entries)
  BY <1>1, <1>2 DEF FileInv, FileIsMemory, LogInv
<1>5. /\ PartOf(saved, entries) /\ \A z \in IdsOf(entries) : z \in lost \/ z \in IdsOf(saved)
      /\ \A x \in IdsOf(saved) : x \notin lost
  BY <1>4, PartFilter
<1> HIDE DEF saved
<1>6. target \in Nat
  OBVIOUS
<1>7. Sound(entries, target, lost)
  BY <1>6 DEF ResultsInv
<1>8. Sound(saved, target, lost)
  BY <1>5, <1>6, <1>7, SoundPart
<1>9. \A n \in Nat : Sound(es, n, {})
  BY <1>2, <1>6, <1>8, ForkSound
<1> HIDE DEF es
<1>10. \A n \in Nat : Sound(entries', n, lost')
  BY <1>3, <1>9
<1> QED BY <1>3, <1>10, ResultsRestart

LEMMA ResultsCrash ==
  ASSUME Inv, ResultsInv, NEW f, NEW gone, Reload(f, gone),
         \/ f \in {NoFile, VoidFile}
         \/ Loses(gone) /\ Readable(f) = InOrder(entries, IdsOf(entries) \ gone)
         \/ gone = {} /\ lost = {} /\ \E k \in 0..Len(entries) : Readable(f) = SubSeq(entries, 1, k)
  PROVE  ResultsInv'
<1> DEFINE part == Readable(f)
<1>1. Tree(entries)
  BY DEF Inv, LogInv
<1>2. turn' = "idle" /\ comp' = NoComp
  BY DEF Reload, StartSession
<1>3. CASE f \in {NoFile, VoidFile}
  <2>1. entries' = <<>>
    BY <1>3 DEF Reload, StartSession
  <2> QED BY <1>2, <2>1, SoundEmpty, ResultsRestart
<1>4. CASE f \notin {NoFile, VoidFile}
  <2>1. entries' = part /\ lost' = gone
    BY <1>4 DEF Reload, StartSession
  <2>2. /\ PartOf(part, entries) /\ \A x \in IdsOf(part) : x \notin gone
        /\ \A x \in IdsOf(part), z \in IdsOf(entries) : z <= x => z \in gone \/ z \in IdsOf(part)
        /\ Loses(gone)
    <3>1. CASE Loses(gone) /\ part = InOrder(entries, IdsOf(entries) \ gone)
      <4> HIDE DEF part
      <4> QED BY <1>1, <3>1, PartFilter
    <3>2. CASE gone = {} /\ lost = {} /\ \E k \in 0..Len(entries) : part = SubSeq(entries, 1, k)
      <4>1. PICK k \in 0..Len(entries) : part = SubSeq(entries, 1, k)
        BY <3>2
      <4> HIDE DEF part
      <4>2. /\ PartOf(SubSeq(entries, 1, k), entries)
            /\ \A x \in IdsOf(SubSeq(entries, 1, k)), z \in IdsOf(entries) : z <= x => z \in IdsOf(SubSeq(entries, 1, k))
        BY <1>1, PartPrefix
      <4> QED BY <3>2, <4>1, <4>2 DEF Loses
    <3> QED BY <1>4, <3>1, <3>2
  <2> HIDE DEF part
  <2>3. \A n \in Nat : Sound(entries, n, gone)
    BY <1>1, <2>2, SoundLost DEF ResultsInv
  <2>4. \A n \in Nat : Sound(part, n, gone)
    BY <2>2, <2>3, SoundPart
  <2> QED BY <1>2, <2>1, <2>4, ResultsRestart
<1> QED BY <1>3, <1>4

(* A session that is read again from its file, as it is or with a line     *)
(* that was cut off.                                                       *)
LEMMA ResultsCut ==
  ASSUME Inv, ResultsInv, flushed, NEW whole \in BOOLEAN, CutAppend(whole)
  PROVE  ResultsInv'
<1>1. /\ LogInv /\ FileInv /\ Readable(file) = InOrder(entries, IdsOf(entries) \ lost)
      /\ file = VoidFile \/ file \in Seq(Lines)
  BY DEF Inv, FileInv, FileIsMemory
<1>2. CASE EndsWith(file, OpenLine) /\ Len(file) = 1
  <2>1. Reload(VoidFile, lost)
    BY <1>2 DEF CutAppend
  <2> QED BY <2>1, ResultsCrash
<1>3. CASE EndsWith(file, OpenLine) /\ Len(file) # 1
  <2> DEFINE p == Front(Front(file))
             x == file[Len(file) - 1]
             f == Append(p, TornLine)
             gone == lost \cup {x.id}
  <2>1. Reload(f, gone)
    BY <1>3 DEF CutAppend
  <2>2. file # <<OpenLine>>
    BY <1>3
  <2>3. x.id \in Nat /\ p \in Seq(Lines) /\ \A z \in IdsOf(entries) : z \in lost \/ z <= x.id
    BY <1>1, <1>3, <2>2, LastSaved
  <2>4. Readable(p) = InOrder(entries, IdsOf(entries) \ gone)
    BY <1>1, <1>3, <2>2, LastSaved
  <2> HIDE DEF p, x
  <2>5. Loses(gone)
    BY <2>3 DEF Loses
  <2>6. Readable(f) = Readable(p)
    BY <2>3, LineTypes, ReadableAppend
  <2> HIDE DEF f, gone
  <2> QED BY <2>1, <2>4, <2>5, <2>6, ResultsCrash
<1>4. CASE ~ EndsWith(file, OpenLine)
  <2> DEFINE x == IF whole THEN OpenLine ELSE TornLine
             f == Append(file, x)
  <2>1. Reload(f, lost) /\ file # VoidFile
    BY <1>4 DEF CutAppend
  <2>2. x \in Lines /\ x \notin EntryRec
    BY LineTypes
  <2> HIDE DEF x
  <2>3. Readable(f) = Readable(file)
    BY <1>1, <2>1, <2>2, ReadableAppend
  <2> HIDE DEF f
  <2> QED BY <1>1, <2>1, <2>3, ResultsCrash DEF Loses
<1> QED BY <1>2, <1>3, <1>4

LEMMA ResultsNext ==
  ASSUME Serial, Inv, CompactionInv, ResultsInv, [Next]_vars
  PROVE  ResultsInv'
<1>1. /\ leaf \in 0..MaxEntries /\ leaf < next /\ next \in Nat /\ LogInv /\ FileInv /\ Tree(entries)
      /\ 0 \in 0..MaxEntries /\ 0 < next /\ {} \in SUBSET (1..MaxEntries)
  BY SessionLogAssumption DEF Inv, LogInv
<1>2. \A e \in EntryRec : e.type \in {"meta", "label"} => ~ Visible(e)
  BY DEF Visible
<1>3. /\ {"user", "call", "toolResult", "assistant", "bash", "meta", "label", "compaction", "branchSummary"}
             \subseteq EntryTypes
      /\ \A s \in {"user", "call", "assistant", "bash", "meta", "label", "branchSummary"} :
           s # "toolResult" /\ s # "compaction"
  BY DEF EntryTypes, CutTypes, TurnStarts, Answers
(* An entry at the leaf, of a type and with a reference. *)
<1>4. ASSUME NEW type \in EntryTypes, NEW ref \in 0..MaxEntries, ref < next,
             NEW covers \in SUBSET (1..MaxEntries), AddEntry(NewEntry(leaf, type, ref, covers)),
             type = "toolResult" => turn = "calling",
             type = "compaction" => comp # NoComp /\ ref = comp.ref,
             turn' = "calling" => \/ type = "call" /\ turn = "running"
                                  \/ type \in {"meta", "label"} /\ turn = "calling",
             comp' # NoComp => comp' = comp
      PROVE  ResultsInv'
  <2>1. PICK e : e = NewEntry(leaf, type, ref, covers)
    OBVIOUS
  <2>2. Fresh(e) /\ e.type = type /\ e.parent = leaf /\ e.ref = ref
    BY <1>4, <2>1, NewEntryFresh
  <2>3. AddEntry(e) /\ e \in EntryRec
    BY <1>4, <2>1, <2>2 DEF Fresh
  <2>4. type \in {"meta", "label"} => ~ Visible(e)
    BY <1>2, <2>2, <2>3
  <2> QED BY <1>4, <2>2, <2>3, <2>4, ResultsAppend
<1>5. CASE Prompt
  <2>1. AddEntry(NewEntry(leaf, "user", 0, {})) /\ turn' = "running" /\ comp' = comp
    BY <1>5 DEF Prompt, AddMessage
  <2> QED BY <1>1, <1>3, <1>4, <2>1
<1>6. CASE CallTool
  <2>1. AddEntry(NewEntry(leaf, "call", 0, {})) /\ turn = "running" /\ comp' = comp
    BY <1>6 DEF CallTool, AddMessage
  <2> QED BY <1>1, <1>3, <1>4, <2>1
<1>7. CASE ToolEnds
  <2>1. AddEntry(NewEntry(leaf, "toolResult", 0, {})) /\ turn = "calling" /\ turn' = "running" /\ comp' = comp
    BY <1>7 DEF ToolEnds, AddMessage
  <2> QED BY <1>1, <1>3, <1>4, <2>1
<1>8. CASE Answer
  <2>1. AddEntry(NewEntry(leaf, "assistant", 0, {})) /\ turn' = "ended" /\ comp' = comp
    BY <1>8 DEF Answer, AddMessage
  <2> QED BY <1>1, <1>3, <1>4, <2>1
<1>9. CASE Continue \/ RemoveAnswer
  <2>1. /\ UNCHANGED <<entries, leaf, file, lost, comp>>
        /\ (turn = "ended" /\ turn' = "running") \/ turn' = turn
    BY <1>9 DEF Continue, RemoveAnswer
  <2> QED BY <2>1, ResultsStay
<1>24. CASE Steer
  <2>1. AddEntry(NewEntry(leaf, "user", 0, {})) /\ turn' = "running" /\ comp' = comp
    BY <1>24 DEF Steer, AddMessage
  <2> QED BY <1>1, <1>3, <1>4, <2>1
<1>10. CASE Settle
  <2>1. turn' = "idle" /\ comp' = comp /\ turn = "ended"
    BY <1>10 DEF Settle
  <2>2. CASE pending
    <3>1. AddEntry(NewEntry(leaf, "bash", 0, {}))
      BY <1>10, <2>2 DEF Settle, AddMessage
    <3> QED BY <1>1, <1>3, <1>4, <2>1, <3>1
  <2>3. CASE ~ pending
    <3>1. UNCHANGED <<entries, leaf, file, lost>>
      BY <1>10, <2>3 DEF Settle
    <3> QED BY <2>1, <3>1, ResultsStay
  <2> QED BY <2>2, <2>3
<1>11. CASE RecordBash
  <2>1. comp' = comp /\ turn' = turn
    BY <1>11 DEF RecordBash
  <2>2. CASE turn = "idle"
    <3>1. AddEntry(NewEntry(leaf, "bash", 0, {}))
      BY <1>11, <2>2 DEF RecordBash, AddMessage
    <3> QED BY <1>1, <1>3, <1>4, <2>1, <2>2, <3>1
  <2>3. CASE turn # "idle"
    <3>1. UNCHANGED <<entries, leaf, file, lost>>
      BY <1>11, <2>3 DEF RecordBash
    <3> QED BY <2>1, <3>1, ResultsStay
  <2> QED BY <2>2, <2>3
<1>12. CASE RecordMeta
  <2>1. AddEntry(NewEntry(leaf, "meta", 0, {})) /\ comp' = comp /\ turn' = turn
    BY <1>12 DEF RecordMeta
  <2> QED BY <1>1, <1>3, <1>4, <2>1
<1>13. ASSUME NEW target \in {leaf} \cup Labelled(entries), Label(target) PROVE ResultsInv'
  <2> DEFINE covers == IF target \in Labelled(entries) THEN {} ELSE {target}
  <2>1. /\ AddEntry(NewEntry(leaf, "label", target, covers))
        /\ turn' = turn /\ comp' = comp /\ target \in IdsOf(entries)
    BY <1>13 DEF Label
  <2>2. target \in 1..MaxEntries /\ target < next
    <3>1. PICK i \in 1..Len(entries) : entries[i].id = target
      BY <1>1, <2>1, IdOfEntry
    <3> QED BY <1>1, <3>1, TreeTypes, EntryIds DEF LogInv
  <2>3. target \in 0..MaxEntries /\ covers \in SUBSET (1..MaxEntries)
    BY <2>2, SessionLogAssumption
  <2> HIDE DEF covers
  <2> QED BY <1>3, <1>4, <2>1, <2>2, <2>3
<1>14. ASSUME NEW reached \in 0..MaxEntries, NEW retry \in BOOLEAN, StartCompaction(reached, retry) PROVE ResultsInv'
  <2>1. UNCHANGED <<entries, leaf, file, lost, turn>>
    BY <1>14 DEF StartCompaction
  <2>2. CutAt(entries', leaf', comp'.ref)
    <3>1. reached \in Nat
      BY SessionLogAssumption
    <3> QED BY <1>14, <3>1, CutStarts
  <2>3. \A n \in Nat : Sound(entries', n, lost')
    BY <2>1 DEF ResultsInv
  <2>4. turn' = "calling" => Waiting(entries', leaf', IF file' = VoidFile THEN {} ELSE lost')
    BY <2>1 DEF ResultsInv
  <2>5. turn' # "idle" => Closed(file')
    BY <2>1 DEF ResultsInv
  <2> QED BY <2>2, <2>3, <2>4, <2>5 DEF ResultsInv
<1>15. CASE CompactionEnds
  <2>1. AddEntry(NewEntry(leaf, "compaction", comp.ref, comp.covers)) /\ comp # NoComp /\ comp' = NoComp /\ turn' = turn
    BY <1>15 DEF CompactionEnds
  <2>2. comp.ref \in 0..MaxEntries /\ comp.covers \in SUBSET (1..MaxEntries) /\ comp.ref < next
    BY DEF Inv, ControlInv, Comps
  <2>3. turn \in {"idle", "ended"}
    BY <2>1 DEF CompactionInv
  <2>4. "compaction" \in EntryTypes /\ "compaction" # "toolResult" /\ turn' # "calling"
    BY <1>3, <2>1, <2>3
  <2> QED BY <1>4, <2>1, <2>2, <2>4
<1>16. CASE CompactionFails
  <2>1. UNCHANGED <<entries, leaf, file, lost, turn>> /\ comp' = NoComp
    BY <1>16 DEF CompactionFails
  <2> QED BY <2>1, ResultsStay
<1>17. ASSUME NEW target \in 1..MaxEntries, Navigate(target) PROVE ResultsInv'
  <2>1. UNCHANGED <<entries, file, lost, turn, comp>> /\ turn = "idle" /\ comp = NoComp
    BY <1>17 DEF Navigate, MayMove
  <2>2. \A n \in Nat : Sound(entries', n, lost')
    BY <2>1 DEF ResultsInv
  <2> QED BY <2>1, <2>2, ResultsRestart
<1>18. ASSUME NEW target \in 1..MaxEntries, NavigateWithSummary(target) PROVE ResultsInv'
  <2> DEFINE parent == NewLeaf(target)
  <2>1. /\ AddEntry(NewEntry(parent, "branchSummary", 0, {})) /\ target \in IdsOf(entries)
        /\ turn' = turn /\ comp' = comp /\ turn = "idle" /\ comp = NoComp
    BY <1>18 DEF NavigateWithSummary, MayMove
  <2>2. parent \in 0..MaxEntries /\ parent < next
    BY <1>1, <2>1, NewLeafType
  <2> HIDE DEF parent
  <2>3. next <= MaxEntries
    BY <2>1 DEF AddEntry
  <2>4. PICK e : e = NewEntry(parent, "branchSummary", 0, {})
    OBVIOUS
  <2>5. Fresh(e) /\ e.type = "branchSummary"
    BY <1>1, <1>3, <2>2, <2>3, <2>4, FreshEntry
  <2>6. AddEntry(e) /\ e.type # "toolResult" /\ e.type # "compaction" /\ turn' # "calling" /\ comp' = NoComp
    BY <1>3, <2>1, <2>4, <2>5
  <2> QED BY <2>5, <2>6, ResultsAppend
<1>19. ASSUME NEW target \in 1..MaxEntries, Fork(target) PROVE ResultsInv'
  BY <1>19, ResultsFork
<1>20. CASE NewSession
  <2>1. entries' = <<>> /\ turn' = "idle" /\ comp' = NoComp
    BY <1>20 DEF NewSession, StartSession
  <2> QED BY <2>1, SoundEmpty, ResultsRestart
<1>21. CASE Crash
  <2>1. Reload(file, lost) /\ flushed \in BOOLEAN
    BY <1>21 DEF Crash, Inv, ControlInv
  <2>2. CASE flushed
    <3>1. Readable(file) = InOrder(entries, IdsOf(entries) \ lost)
      BY <1>1, <2>2 DEF FileInv, FileIsMemory
    <3> QED BY <2>1, <3>1, ResultsCrash DEF Loses
  <2>3. CASE ~ flushed
    BY <1>1, <2>1, <2>3, ResultsCrash DEF FileInv
  <2> QED BY <2>1, <2>2, <2>3
<1>22. ASSUME NEW k \in 0..MaxEntries, NEW tail \in Tails, CrashInWrite(k, tail) PROVE ResultsInv'
  <2>1. CASE flushed
    <3>1. PICK whole \in BOOLEAN : CutAppend(whole)
      BY <1>22, <2>1 DEF CrashInWrite
    <3> QED BY <2>1, <3>1, ResultsCut
  <2>2. CASE ~ flushed
    <3> DEFINE es == SubSeq(entries, 1, k)
               f  == es \o tail
    <3>1. Reload(f, lost) /\ k \in 0..Len(entries) /\ lost = {}
      BY <1>1, <1>22, <2>2 DEF CrashInWrite, FileInv
    <3>2. Tree(es)
      BY <1>1, <3>1, TreePrefix
    <3> HIDE DEF es
    <3>3. es \in Seq(Lines) /\ Readable(es) = es
      BY <3>2, TreeTypes, EntriesEnd
    <3>4. Readable(f) = es
      <4>1. CASE tail = <<>>
        BY <3>3, <4>1, ConcatEmptySeq
      <4>2. ASSUME NEW l \in {TornLine, OpenLine}, tail = <<l>> PROVE Readable(f) = es
        <5>1. f = Append(es, l) /\ l \in Lines /\ l \notin EntryRec
          BY <3>3, <4>2, LineTypes
        <5> HIDE DEF f
        <5> QED BY <3>3, <5>1, ReadableAppend
      <4> QED BY <4>1, <4>2 DEF Tails
    <3>5. \E j \in 0..Len(entries) : Readable(f) = SubSeq(entries, 1, j)
      BY <3>1, <3>4 DEF es
    <3> HIDE DEF f
    <3> QED BY <3>1, <3>5, ResultsCrash
  <2> QED BY <2>1, <2>2 DEF Inv, ControlInv
<1>23. CASE UNCHANGED vars
  BY <1>23, ResultsStay DEF vars
<1> QED
  BY <1>5, <1>6, <1>7, <1>8, <1>9, <1>10, <1>11, <1>12, <1>13, <1>14, <1>15, <1>16, <1>17, <1>18, <1>19, <1>20, <1>21, <1>22, <1>23, <1>24 DEF Next, Tails

(* From the numbers back to the sequences.                                 *)
Answered(s, k, i) == s[k].type = "call" /\ \A j \in (k + 1)..(i - 1) : ~ Visible(s[j])

Paired(s) ==
  \A i \in 1..Len(s) : s[i].type = "toolResult" => \E k \in 1..(i - 1) : Answered(s, k, i)

LEMMA PairedConcat ==
  ASSUME NEW s \in Seq(EntryRec), NEW t \in Seq(EntryRec), Paired(s), Paired(t)
  PROVE  Paired(s \o t)
<1> DEFINE n == Len(s)
           m == Len(t)
           w == s \o t
<1>1. n \in Nat /\ m \in Nat
  BY LenProperties
<1>2. /\ w \in Seq(EntryRec) /\ Len(w) = n + m
      /\ \A i \in 1..(n + m) : w[i] = IF i <= n THEN s[i] ELSE t[i - n]
  BY ConcatProperties
<1> HIDE DEF w
<1> SUFFICES ASSUME NEW i \in 1..(n + m), w[i].type = "toolResult"
             PROVE  \E k \in 1..(i - 1) : Answered(w, k, i)
  BY <1>2 DEF Paired, w
<1>3. CASE i <= n
  <2>1. i \in 1..n /\ s[i].type = "toolResult"
    BY <1>1, <1>2, <1>3
  <2>2. PICK k \in 1..(i - 1) : s[k].type = "call" /\ \A j \in (k + 1)..(i - 1) : ~ Visible(s[j])
    BY <2>1 DEF Paired, Answered
  <2>3. \A j \in 1..i : w[j] = s[j]
    BY <1>1, <1>2, <2>1
  <2>4. k \in 1..i /\ \A j \in (k + 1)..(i - 1) : j \in 1..i
    BY <2>1, <2>2
  <2> QED BY <2>2, <2>3, <2>4 DEF Answered
<1>4. CASE ~ (i <= n)
  <2> DEFINE r == i - n
  <2>1. r \in 1..m /\ w[i] = t[r] /\ t[r].type = "toolResult" /\ i = r + n
    BY <1>1, <1>2, <1>4
  <2> HIDE DEF r
  <2>2. PICK k \in 1..(r - 1) : t[k].type = "call" /\ \A j \in (k + 1)..(r - 1) : ~ Visible(t[j])
    BY <2>1 DEF Paired, Answered
  <2>3. ASSUME NEW j \in 1..m PROVE w[j + n] = t[j]
    <3>1. j + n \in 1..(n + m) /\ ~ (j + n <= n) /\ (j + n) - n = j
      BY <1>1
    <3> QED BY <1>2, <3>1
  <2>4. k + n \in 1..(i - 1) /\ w[k + n] = t[k]
    BY <1>1, <2>1, <2>2, <2>3
  <2>5. ASSUME NEW j \in ((k + n) + 1)..(i - 1) PROVE ~ Visible(w[j])
    <3>1. j - n \in (k + 1)..(r - 1) /\ j - n \in 1..m /\ (j - n) + n = j
      BY <1>1, <2>1, <2>2
    <3>2. w[j] = t[j - n]
      BY <2>3, <3>1
    <3> QED BY <2>2, <3>1, <3>2
  <2> QED BY <2>2, <2>4, <2>5 DEF Answered
<1> QED BY <1>3, <1>4

(* The last element that passes is the last of the filtered sequence.      *)
LEMMA FilterLast ==
  ASSUME NEW S, NEW P, NEW s \in Seq(S), NEW k \in 1..Len(s), s[k] \in P,
         \A j \in (k + 1)..Len(s) : s[j] \notin P
  PROVE  LET F == Filter(s, P) IN Len(F) \in 1..Len(F) /\ F[Len(F)] = s[k]
<1> DEFINE Ends(q) == \A i \in 1..Len(q) : q[i] \in P /\ (\A j \in (i + 1)..Len(q) : q[j] \notin P)
                        => Len(Filter(q, P)) \in 1..Len(Filter(q, P)) /\ Filter(q, P)[Len(Filter(q, P))] = q[i]
           Q == {q \in Seq(S) : Ends(q)}
<1>1. <<>> \in Q
  BY EmptySeq
<1>2. ASSUME NEW q \in Seq(S), NEW e \in S, q \in Q PROVE Append(q, e) \in Q
  <2> DEFINE t == Append(q, e)
             F == Filter(q, P)
             G == Filter(t, P)
             n == Len(q)
  <2>1. n \in Nat /\ t \in Seq(S) /\ Len(t) = n + 1 /\ t[n + 1] = e /\ \A i \in 1..n : t[i] = q[i]
    BY AppendProperties, LenProperties
  <2>2. G = IF e \in P THEN Append(F, e) ELSE F
    BY FilterAppend
  <2>3. F \in Seq(S)
    BY FilterInSeq
  <2>4. \A i \in 1..n : q[i] \in P /\ (\A j \in (i + 1)..n : q[j] \notin P) => Len(F) \in 1..Len(F) /\ F[Len(F)] = q[i]
    BY <1>2
  <2> HIDE DEF t, F, G
  <2>5. ASSUME NEW i \in 1..(n + 1), t[i] \in P, \A j \in (i + 1)..(n + 1) : t[j] \notin P
        PROVE  Len(G) \in 1..Len(G) /\ G[Len(G)] = t[i]
    <3>1. CASE e \in P
      <4>1. i = n + 1
        BY <2>1, <2>5, <3>1
      <4>2. Len(F) \in Nat /\ Len(G) = Len(F) + 1 /\ G[Len(F) + 1] = e
        BY <2>2, <2>3, <3>1, AppendProperties, LenProperties
      <4> QED BY <2>1, <4>1, <4>2
    <3>2. CASE e \notin P
      <4>1. i \in 1..n /\ t[i] = q[i] /\ q[i] \in P
        BY <2>1, <2>5, <3>2
      <4>2. \A j \in (i + 1)..n : q[j] \notin P
        BY <2>1, <2>5, <4>1
      <4> QED BY <2>2, <2>4, <3>2, <4>1, <4>2
    <3> QED BY <3>1, <3>2
  <2>6. Ends(t)
    BY <2>1, <2>5 DEF G
  <2> QED BY <2>1, <2>6 DEF t
<1>3. Seq(S) \subseteq Q
  <2> HIDE DEF Q
  <2> QED BY <1>1, <1>2, SeqInduction
<1>4. Ends(s)
  BY <1>3
<1> QED BY <1>4

LEMMA PairedFilter ==
  ASSUME NEW s \in Seq(EntryRec), Paired(s)
  PROVE  LET F == Filter(s, Seen)
         IN  \A i \in 1..Len(F) : F[i].type = "toolResult" => i > 1 /\ F[i - 1].type = "call"
<1> DEFINE Neat(f) == \A i \in 1..Len(f) : f[i].type = "toolResult" => i > 1 /\ f[i - 1].type = "call"
           Q == {q \in Seq(EntryRec) : Paired(q) => Neat(Filter(q, Seen))}
<1>1. <<>> \in Q
  BY FilterEmpty, EmptySeq
<1>2. ASSUME NEW q \in Seq(EntryRec), NEW e \in EntryRec, q \in Q PROVE Append(q, e) \in Q
  <2> DEFINE t == Append(q, e)
             F == Filter(q, Seen)
             G == Filter(t, Seen)
             n == Len(q)
  <2>1. n \in Nat /\ t \in Seq(EntryRec) /\ Len(t) = n + 1 /\ t[n + 1] = e /\ \A i \in 1..n : t[i] = q[i]
    BY AppendProperties, LenProperties
  <2>2. G = IF e \in Seen THEN Append(F, e) ELSE F
    BY FilterAppend
  <2>3. F \in Seq(EntryRec) /\ Len(F) \in Nat
    BY FilterInSeq, LenProperties
  <2>4. Paired(q) => Neat(F)
    BY <1>2
  <2> HIDE DEF t, F, G
  <2> SUFFICES ASSUME Paired(t) PROVE Neat(G)
    BY <2>1 DEF G, t
  <2>5. Paired(q)
    <3> SUFFICES ASSUME NEW i \in 1..n, q[i].type = "toolResult"
                 PROVE  \E k \in 1..(i - 1) : Answered(q, k, i)
      BY DEF Paired
    <3>1. i \in 1..Len(t) /\ t[i].type = "toolResult"
      BY <2>1
    <3>2. PICK k \in 1..(i - 1) : t[k].type = "call" /\ \A j \in (k + 1)..(i - 1) : ~ Visible(t[j])
      BY <3>1 DEF Paired, Answered
    <3>3. k \in 1..n /\ \A j \in (k + 1)..(i - 1) : j \in 1..n
      BY <2>1
    <3> QED BY <2>1, <3>2, <3>3 DEF Answered
  <2>6. CASE e \notin Seen
    BY <2>2, <2>4, <2>5, <2>6
  <2>7. CASE e \in Seen /\ e.type # "toolResult"
    <3>1. Len(G) = Len(F) + 1 /\ G[Len(F) + 1] = e /\ \A i \in 1..Len(F) : G[i] = F[i]
      BY <2>2, <2>3, <2>7, AppendProperties
    <3>2. ASSUME NEW i \in 1..Len(G), G[i].type = "toolResult" PROVE i > 1 /\ G[i - 1].type = "call"
      <4>1. i \in 1..Len(F) /\ F[i].type = "toolResult"
        BY <2>3, <2>7, <3>1, <3>2
      <4>2. i > 1 /\ F[i - 1].type = "call"
        BY <2>4, <2>5, <4>1
      <4>3. i - 1 \in 1..Len(F)
        BY <2>3, <4>1, <4>2
      <4> QED BY <3>1, <4>2, <4>3
    <3> QED BY <3>2
  <2>8. CASE e \in Seen /\ e.type = "toolResult"
    <3>1. Len(G) = Len(F) + 1 /\ G[Len(F) + 1] = e /\ \A i \in 1..Len(F) : G[i] = F[i]
      BY <2>2, <2>3, <2>8, AppendProperties
    <3>2. PICK k \in 1..n : t[k].type = "call" /\ \A j \in (k + 1)..n : ~ Visible(t[j])
      <4>1. n + 1 \in 1..Len(t) /\ t[n + 1].type = "toolResult" /\ (n + 1) - 1 = n
        BY <2>1, <2>8
      <4>2. \E k \in 1..((n + 1) - 1) : Answered(t, k, n + 1)
        BY <4>1 DEF Paired
      <4> QED BY <4>1, <4>2 DEF Answered
    <3>3. q[k].type = "call" /\ q[k] \in Seen
      <4>1. q[k] \in EntryRec /\ q[k].type = "call"
        BY <2>1, <3>2, ElementOfSeq
      <4> QED BY <4>1 DEF Seen, Visible
    <3>4. \A j \in (k + 1)..n : q[j] \notin Seen
      <4>1. \A j \in (k + 1)..n : j \in 1..n
        BY <2>1
      <4> QED BY <2>1, <3>2, <4>1 DEF Seen
    <3>5. Len(F) \in 1..Len(F) /\ F[Len(F)] = q[k]
      BY <3>3, <3>4, FilterLast DEF F
    <3>6. ASSUME NEW i \in 1..Len(G), G[i].type = "toolResult" PROVE i > 1 /\ G[i - 1].type = "call"
      <4>1. CASE i = Len(F) + 1
        <5>1. i - 1 = Len(F) /\ i > 1
          BY <2>3, <3>5, <4>1
        <5> QED BY <3>1, <3>3, <3>5, <5>1
      <4>2. CASE i # Len(F) + 1
        <5>1. i \in 1..Len(F) /\ F[i].type = "toolResult"
          BY <2>3, <3>1, <3>6, <4>2
        <5>2. i > 1 /\ F[i - 1].type = "call"
          BY <2>4, <2>5, <5>1
        <5>3. i - 1 \in 1..Len(F)
          BY <2>3, <5>1, <5>2
        <5> QED BY <3>1, <5>2, <5>3
      <4> QED BY <4>1, <4>2
    <3> QED BY <3>6
  <2> QED BY <2>6, <2>7, <2>8
<1>3. Seq(EntryRec) \subseteq Q
  <2> HIDE DEF Q
  <2> QED BY <1>1, <1>2, SeqInduction
<1>4. Neat(Filter(s, Seen))
  BY <1>3
<1> QED BY <1>4

LEMMA PairedPart ==
  ASSUME NEW s \in Seq(EntryRec), NEW a \in Nat \ {0}, NEW z \in Nat, z <= Len(s),
         \A i \in a..z : s[i].type = "toolResult" => \E k \in a..(i - 1) : Answered(s, k, i)
  PROVE  Paired(SubSeq(s, a, z))
<1> DEFINE r == SubSeq(s, a, z)
<1>1. /\ Len(r) = IF a <= z THEN z - a + 1 ELSE 0
      /\ \A i \in 1..(z - a + 1) : r[i] = s[a + i - 1]
  BY SubSeqType
<1> HIDE DEF r
<1> SUFFICES ASSUME NEW i \in 1..Len(r), r[i].type = "toolResult"
             PROVE  \E k \in 1..(i - 1) : Answered(r, k, i)
  BY DEF Paired, r
<1>2. Len(r) = z - a + 1 /\ i \in 1..(z - a + 1)
  BY <1>1
<1> DEFINE x == a + i - 1
<1>3. x \in a..z /\ s[x].type = "toolResult" /\ i = x - a + 1
  BY <1>1, <1>2
<1> HIDE DEF x
<1>4. PICK k \in a..(x - 1) : s[k].type = "call" /\ \A j \in (k + 1)..(x - 1) : ~ Visible(s[j])
  BY <1>3 DEF Answered
<1> DEFINE l == k - a + 1
<1>5. l \in 1..(i - 1) /\ l \in 1..(z - a + 1) /\ a + l - 1 = k
  BY <1>2, <1>3
<1>6. r[l].type = "call"
  BY <1>1, <1>4, <1>5
<1>7. ASSUME NEW j \in (l + 1)..(i - 1) PROVE ~ Visible(r[j])
  <2>1. j \in 1..(z - a + 1) /\ a + j - 1 \in (k + 1)..(x - 1)
    BY <1>2, <1>3, <1>5
  <2> QED BY <1>1, <1>4, <2>1
<1> HIDE DEF l
<1> QED BY <1>5, <1>6, <1>7 DEF Answered

(* A path on which no compaction begins to keep entries between a call and *)
(* its result.                                                             *)
Tied(path) ==
  \A i \in 1..Len(path) : path[i].type = "toolResult" =>
    \E k \in 1..(i - 1) :
      /\ Answered(path, k, i)
      /\ \A j \in (k + 1)..i, q \in 1..Len(path) :
           path[q].type = "compaction" => path[q].ref # path[j].id

LEMMA PathTied ==
  ASSUME NEW es, Tree(es), NEW n \in Nat, NEW gone, Sound(es, n, gone)
  PROVE  Tied(Path(es, n))
<1> DEFINE path == Path(es, n)
           A == Ancestors(es, n)
<1>1. /\ \A i \in 1..Len(path) : path[i].id \in A /\ Entry(es, path[i].id) = path[i]
      /\ \A z \in A : \E i \in 1..Len(path) : path[i].id = z /\ path[i] = Entry(es, z)
  BY PathIds
<1>2. Tree(path)
  BY PathFilter
<1>3. \A x \in A : Entry(es, x).type = "toolResult" => \E y \in A : AnsweredBy(es, A, gone, x, y)
  BY DEF Sound
<1> HIDE DEF path, A
<1>4. /\ Len(path) \in Nat
      /\ \A i, j \in 1..Len(path) : i < j => path[i].id < path[j].id
      /\ \A i \in 1..Len(path) : path[i].id \in Nat
  BY <1>2, TreeTypes DEF Tree
<1> SUFFICES ASSUME NEW i \in 1..Len(path), path[i].type = "toolResult"
             PROVE  \E k \in 1..(i - 1) :
                      /\ Answered(path, k, i)
                      /\ \A j \in (k + 1)..i, q \in 1..Len(path) :
                           path[q].type = "compaction" => path[q].ref # path[j].id
  BY DEF Tied, path
<1> DEFINE x == path[i].id
<1>5. x \in A /\ Entry(es, x) = path[i] /\ x \in Nat
  BY <1>1, <1>4
<1>6. PICK y \in A : AnsweredBy(es, A, gone, x, y)
  BY <1>3, <1>5
<1>7. PICK k \in 1..Len(path) : path[k].id = y /\ path[k] = Entry(es, y)
  BY <1>1
<1>8. k < i
  <2>1. i < k => path[i].id < path[k].id
    BY <1>4
  <2>2. y < x /\ y \in Nat
    BY <1>4, <1>6, <1>7 DEF AnsweredBy
  <2> QED BY <1>4, <1>5, <1>7, <2>1, <2>2
<1>9. k \in 1..(i - 1) /\ path[k].type = "call"
  BY <1>4, <1>6, <1>7, <1>8 DEF AnsweredBy
<1>10. ASSUME NEW j \in (k + 1)..i
       PROVE  /\ path[j].id \in A /\ Entry(es, path[j].id) = path[j] /\ y < path[j].id /\ path[j].id <= x
              /\ j # i => path[j].id < x
  <2>1. j \in 1..Len(path) /\ k < j /\ (j = i \/ j < i)
    BY <1>4, <1>7
  <2>2. path[k].id < path[j].id /\ (j < i => path[j].id < path[i].id) /\ path[j].id \in Nat
    BY <1>4, <2>1
  <2> QED BY <1>1, <1>5, <1>7, <2>1, <2>2
<1> HIDE DEF x
<1>11. ASSUME NEW j \in (k + 1)..(i - 1) PROVE ~ Visible(path[j])
  <2>1. j \in (k + 1)..i /\ j # i
    BY <1>4, <1>7
  <2> QED BY <1>6, <1>10, <2>1 DEF AnsweredBy
<1>12. ASSUME NEW j \in (k + 1)..i, NEW q \in 1..Len(path), path[q].type = "compaction"
       PROVE  path[q].ref # path[j].id
  <2>1. path[q].id \in A /\ Entry(es, path[q].id) = path[q]
    BY <1>1
  <2> QED BY <1>6, <1>10, <1>12, <2>1 DEF AnsweredBy
<1> QED BY <1>9, <1>11, <1>12 DEF Answered

(* What the model is sent of such a path has every result behind its call. *)
LEMMA ContextPaired ==
  ASSUME NEW path, Tree(path), Tied(path)
  PROVE  Paired(ContextEntries(path))
<1> DEFINE c == LastCompaction(path)
           b == BoundaryStart(path)
           n == Len(path)
           K == SubSeq(path, b, c - 1)
           F == SubSeq(path, c + 1, n)
           one == <<path[c]>>
<1>1. path \in Seq(EntryRec) /\ n \in Nat
  BY TreeTypes
<1>2. /\ c \in 0..n
      /\ c # 0 => b \in 1..(c + 1) /\ b # c
  BY BoundaryStartIs
<1>3. ContextEntries(path) = IF c = 0 THEN path ELSE one \o K \o F
  BY ContextEntriesIs
<1>4. c # 0 => path[c].type = "compaction"
  BY <1>1, LastCompactionIs
<1>5. c # 0 /\ b <= c - 1 => path[b].id = path[c].ref
  <2> SUFFICES ASSUME c # 0, b <= c - 1 PROVE path[b].id = path[c].ref
    OBVIOUS
  <2> DEFINE d == Boundary(path, path[c].ref)
  <2>1. b = IF d = 0 THEN c + 1 ELSE d
    BY DEF BoundaryStart
  <2>2. d = 0 \/ path[d].id = path[c].ref
    BY BoundaryIs
  <2> HIDE DEF b, c, d
  <2>3. ASSUME d = 0 PROVE FALSE
    <3>1. b = c + 1
      BY <2>1, <2>3
    <3>2. c \in Nat
      BY <1>1, <1>2
    <3> QED BY <3>1, <3>2
  <2> QED BY <2>1, <2>2, <2>3
<1> HIDE DEF c, b
<1>6. ASSUME NEW i \in 1..n, path[i].type = "toolResult"
      PROVE  \E k \in 1..(i - 1) :
               /\ Answered(path, k, i)
               /\ \A j \in (k + 1)..i, q \in 1..n : path[q].type = "compaction" => path[q].ref # path[j].id
  BY <1>6 DEF Tied
<1>7. CASE c = 0
  BY <1>3, <1>6, <1>7 DEF Paired
<1>8. CASE c # 0
  <2>1. c \in 1..n /\ path[c] \in EntryRec /\ path[c].type = "compaction" /\ Visible(path[c])
    BY <1>1, <1>2, <1>4, <1>8, ElementOfSeq DEF Visible
  <2>2. b \in Nat \ {0} /\ c - 1 \in Nat /\ c - 1 <= n /\ c + 1 \in Nat \ {0}
    BY <1>1, <1>2, <2>1
  <2>3. K \in Seq(EntryRec) /\ F \in Seq(EntryRec) /\ one \in Seq(EntryRec)
    BY <1>1, <2>1, <2>2, SubSeqType
  <2>4. Paired(K)
    <3> SUFFICES ASSUME NEW i \in b..(c - 1), path[i].type = "toolResult"
                 PROVE  \E k \in b..(i - 1) : Answered(path, k, i)
      BY <1>1, <2>2, PairedPart
    <3>1. i \in 1..n
      BY <2>1, <2>2
    <3>2. PICK k \in 1..(i - 1) :
            /\ Answered(path, k, i)
            /\ \A j \in (k + 1)..i, q \in 1..n : path[q].type = "compaction" => path[q].ref # path[j].id
      BY <1>6, <3>1
    <3>3. path[b].id = path[c].ref
      BY <1>5, <1>8, <2>2
    <3>4. b \notin (k + 1)..i
      BY <2>1, <3>2, <3>3
    <3>5. k \in b..(i - 1)
      BY <2>2, <3>4
    <3> QED BY <3>2, <3>5
  <2>5. Paired(F)
    <3> SUFFICES ASSUME NEW i \in (c + 1)..n, path[i].type = "toolResult"
                 PROVE  \E k \in (c + 1)..(i - 1) : Answered(path, k, i)
      BY <1>1, <2>2, PairedPart
    <3>1. i \in 1..n
      BY <2>1
    <3>2. PICK k \in 1..(i - 1) : Answered(path, k, i)
      BY <1>6, <3>1
    <3>3. ~ (k < c) /\ k # c
      BY <2>1, <3>1, <3>2 DEF Answered
    <3>4. k \in (c + 1)..(i - 1)
      BY <2>1, <3>3
    <3> QED BY <3>2, <3>4
  <2>6. Paired(one)
    <3>1. \A i \in 1..Len(one) : one[i] = path[c]
      OBVIOUS
    <3> QED BY <2>1, <3>1 DEF Paired
  <2> DEFINE oK == one \o K
  <2> HIDE DEF one, K, F
  <2>7. Paired(oK) /\ oK \in Seq(EntryRec)
    BY <2>3, <2>4, <2>6, PairedConcat, ConcatProperties
  <2>8. Paired(oK \o F)
    <3> HIDE DEF oK
    <3> QED BY <2>3, <2>5, <2>7, PairedConcat
  <2> QED BY <1>3, <1>8, <2>8
<1> QED BY <1>7, <1>8

LEMMA ResultsAlways ==
  ASSUME Serial PROVE Spec => [](Inv /\ CompactionInv /\ ResultsInv)
<1>1. Init => Inv /\ CompactionInv /\ ResultsInv
  <2> SUFFICES ASSUME Init PROVE Inv /\ CompactionInv /\ ResultsInv
    OBVIOUS
  <2>1. Inv /\ CompactionInv
    BY InvInit DEF Init, CompactionInv
  <2>2. entries = <<>> /\ turn = "idle" /\ comp = NoComp
    BY DEF Init
  <2> QED BY <2>1, <2>2, SoundEmpty DEF ResultsInv
<1>2. Inv /\ CompactionInv /\ ResultsInv /\ [Next]_vars => (Inv /\ CompactionInv /\ ResultsInv)'
  BY InvNext, CompactionNext, ResultsNext
<1> QED BY <1>1, <1>2, PTL DEF Spec

(* When nobody prompts or moves the leaf while a summary is awaited, and   *)
(* nobody moves it during a turn: however many compactions, forks,         *)
(* navigations, deaths and torn lines there were, every tool result the    *)
(* model is sent stands right behind the call it answers.                  *)
THEOREM NoOrphanResultsAlways ==
  ASSUME Serial PROVE Spec => []NoOrphanResults
<1>1. ASSUME Inv, ResultsInv PROVE NoOrphanResults
  <2> DEFINE path == Path(entries, leaf)
             k == ContextEntries(path)
  <2>1. leaf \in Nat /\ Tree(entries)
    BY <1>1, SessionLogAssumption DEF Inv, LogInv
  <2>2. Tree(path)
    BY <2>1, PathFilter
  <2>3. Tied(path)
    BY <1>1, <2>1, PathTied DEF ResultsInv
  <2> HIDE DEF path
  <2>4. Paired(k) /\ k \in Seq(EntryRec)
    BY <2>2, <2>3, ContextPaired, ContextEntriesIs
  <2> HIDE DEF k
  <2>5. Context(entries, leaf) = Filter(k, Seen)
    BY <2>4, VisibleFilter DEF Context, k, path
  <2>6. \A i \in 1..Len(Filter(k, Seen)) : Filter(k, Seen)[i].type = "toolResult" =>
          i > 1 /\ Filter(k, Seen)[i - 1].type = "call"
    BY <2>4, PairedFilter
  <2>7. DOMAIN Context(entries, leaf) = 1..Len(Context(entries, leaf))
    BY <2>1, ContextType, LenProperties
  <2> QED BY <2>5, <2>6, <2>7 DEF NoOrphanResults
<1> QED BY <1>1, ResultsAlways, PTL

-----------------------------------------------------------------------------
(* A fork                                                                  *)

(* Sequences whose entries differ in nothing that P or a reader of the     *)
(* identifiers can tell.                                                   *)
LEMMA FilterAlike ==
  ASSUME NEW P, NEW s \in Seq(EntryRec), NEW t \in Seq(EntryRec), Len(s) = Len(t),
         \A i \in 1..Len(s) : s[i].id = t[i].id /\ (s[i] \in P <=> t[i] \in P)
  PROVE  IdSeq(Filter(s, P)) = IdSeq(Filter(t, P))
<1> DEFINE Like(q, r) == Len(q) = Len(r) /\ \A i \in 1..Len(q) : q[i].id = r[i].id /\ (q[i] \in P <=> r[i] \in P)
           Q == {q \in Seq(EntryRec) : \A r \in Seq(EntryRec) :
                   Like(q, r) => IdSeq(Filter(q, P)) = IdSeq(Filter(r, P))}
<1>1. <<>> \in Q
  <2>1. \A r \in Seq(EntryRec) : Len(<<>>) = Len(r) => r = <<>>
    BY EmptySeq
  <2>2. <<>> \in Seq(EntryRec)
    BY EmptySeq
  <2> QED BY <2>1, <2>2
<1>2. ASSUME NEW q \in Seq(EntryRec), NEW e \in EntryRec, q \in Q PROVE Append(q, e) \in Q
  <2> DEFINE v == Append(q, e)
             n == Len(q)
  <2>1. n \in Nat /\ v \in Seq(EntryRec) /\ Len(v) = n + 1 /\ v[n + 1] = e /\ \A i \in 1..n : v[i] = q[i]
    BY AppendProperties, LenProperties
  <2> SUFFICES ASSUME NEW r \in Seq(EntryRec), Like(v, r)
               PROVE  IdSeq(Filter(v, P)) = IdSeq(Filter(r, P))
    BY <2>1
  <2>14. Len(r) = n + 1
    <3>1. Len(v) = Len(r)
      OBVIOUS
    <3> HIDE DEF v
    <3> QED BY <2>1, <3>1
  <2>2. r # <<>>
    <3>1. Len(<<>>) = 0
      BY EmptySeq
    <3> HIDE DEF v
    <3> QED BY <2>1, <2>14, <3>1
  <2>3. PICK u \in Seq(EntryRec), f \in EntryRec : r = Append(u, f)
    BY <2>2, SequenceEmptyOrAppend
  <2>4. Len(u) \in Nat /\ Len(r) = Len(u) + 1 /\ r[Len(u) + 1] = f /\ \A i \in 1..Len(u) : r[i] = u[i]
    BY <2>3, AppendProperties, LenProperties
  <2>5. Len(u) = n
    <3> HIDE DEF v
    <3> QED BY <2>1, <2>4, <2>14
  <2>6. Like(q, u)
    <3> HIDE DEF v
    <3> QED BY <2>1, <2>4, <2>5
  <2>7. e.id = f.id /\ (e \in P <=> f \in P)
    <3> HIDE DEF v
    <3> QED BY <2>1, <2>4, <2>5
  <2>8. IdSeq(Filter(q, P)) = IdSeq(Filter(u, P))
    BY <1>2, <2>6
  <2>9. Filter(v, P) = IF e \in P THEN Append(Filter(q, P), e) ELSE Filter(q, P)
    BY FilterAppend
  <2>10. Filter(r, P) = IF f \in P THEN Append(Filter(u, P), f) ELSE Filter(u, P)
    BY <2>3, FilterAppend
  <2> DEFINE FQ == Filter(q, P)
             FU == Filter(u, P)
  <2>11. FQ \in Seq(EntryRec) /\ FU \in Seq(EntryRec)
    BY FilterInSeq
  <2> HIDE DEF FQ, FU, v
  <2>12. CASE e \in P
    <3>1. IdSeq(Append(FQ, e)) = Append(IdSeq(FQ), e.id) /\ IdSeq(Append(FU, f)) = Append(IdSeq(FU), f.id)
      BY <2>11, IdSeqAppend
    <3>2. IdSeq(FQ) = IdSeq(FU)
      BY <2>8 DEF FQ, FU
    <3>3. Filter(v, P) = Append(FQ, e) /\ Filter(r, P) = Append(FU, f)
      BY <2>7, <2>9, <2>10, <2>12 DEF FQ, FU
    <3> QED BY <2>7, <3>1, <3>2, <3>3
  <2>13. CASE e \notin P
    BY <2>7, <2>8, <2>9, <2>10, <2>13
  <2> QED BY <2>12, <2>13
<1>3. Seq(EntryRec) \subseteq Q
  <2> HIDE DEF Q
  <2> QED BY <1>1, <1>2, SeqInduction
<1> QED BY <1>3

(* The number from which on the messages of a path are shown: that of the  *)
(* first entry kept by its last compaction, or of the compaction itself.   *)
ShownFrom(path, r) ==
  \/ r = 0 /\ \A i \in 1..Len(path) : path[i].type # "compaction"
  \/ \E c \in 1..Len(path) :
       /\ path[c].type = "compaction"
       /\ \A i \in 1..Len(path) : path[i].type = "compaction" => path[i].id <= path[c].id
       /\ r = IF \E i \in 1..Len(path) : path[i].id = path[c].ref THEN path[c].ref ELSE path[c].id

SpokenSince(r) == {e \in Spoken : r <= e.id}

LEMMA ShownSince ==
  ASSUME NEW path, Tree(path), NEW r, ShownFrom(path, r)
  PROVE  /\ Filter(SubSeq(path, BoundaryStart(path), Len(path)), Spoken) = Filter(path, SpokenSince(r))
         /\ r \in Nat
<1> DEFINE c == LastCompaction(path)
           b == BoundaryStart(path)
           n == Len(path)
<1>1. /\ path \in Seq(EntryRec) /\ n \in Nat
      /\ \A i \in 1..n : path[i] \in EntryRec /\ path[i].id \in Nat /\ path[i].ref \in Nat /\ path[i].ref < path[i].id
      /\ \A i, j \in 1..n : i < j => path[i].id < path[j].id
  BY TreeTypes DEF Tree
<1>2. /\ c \in 0..n
      /\ c = 0 => b = 1
      /\ c # 0 => b \in 1..(c + 1) /\ b # c
      /\ b \in 1..(n + 1)
  BY BoundaryStartIs
<1>3. \A i \in 1..n : path[i].type = "compaction" => path[i] \notin Spoken
  BY DEF Spoken, Message
<1> DEFINE d == Boundary(path, path[c].ref)
<1>4. c # 0 => b = IF d = 0 THEN c + 1 ELSE d
  BY DEF BoundaryStart
<1>5. \/ d = 0 /\ \A i \in 1..n : path[i].id # path[c].ref
      \/ d \in 1..n /\ path[d].id = path[c].ref
  BY BoundaryIs
<1>6. /\ c # 0 => path[c].type = "compaction"
      /\ \A i \in 1..n : i > c => path[i].type # "compaction"
  BY <1>1, LastCompactionIs
<1> HIDE DEF c, b, d
<1>7. /\ r \in Nat
      /\ \A j \in 1..n : j < b => path[j] \notin SpokenSince(r)
      /\ \A j \in 1..n : b <= j => r <= path[j].id
  <2>1. CASE c = 0
    <3>1. r = 0
      <4>1. \A i \in 1..n : path[i].type # "compaction"
        BY <1>6, <2>1
      <4> QED BY <4>1 DEF ShownFrom
    <3> QED BY <1>1, <1>2, <2>1, <3>1
  <2>2. CASE c # 0
    <3>1. c \in 1..n /\ path[c].type = "compaction"
      BY <1>1, <1>2, <1>6, <2>2
    <3>2. PICK x \in 1..n : /\ path[x].type = "compaction"
                            /\ \A i \in 1..n : path[i].type = "compaction" => path[i].id <= path[x].id
                            /\ r = IF \E i \in 1..n : path[i].id = path[x].ref THEN path[x].ref ELSE path[x].id
      BY <3>1 DEF ShownFrom
    <3>3. x = c
      <4>1. ~ (x > c)
        BY <1>6, <3>2
      <4>2. x < c => path[x].id < path[c].id
        BY <1>1, <3>1
      <4>3. path[c].id <= path[x].id /\ path[c].id \in Nat /\ path[x].id \in Nat
        BY <1>1, <3>1, <3>2
      <4> QED BY <1>1, <3>1, <4>1, <4>2, <4>3
    <3>4. CASE d = 0
      <4>1. \A i \in 1..n : path[i].id # path[c].ref
        BY <1>5, <3>4
      <4>2. r = path[c].id /\ b = c + 1 /\ r \in Nat
        BY <1>1, <1>4, <2>2, <3>1, <3>2, <3>3, <3>4, <4>1
      <4>3. ASSUME NEW j \in 1..n, j < b PROVE path[j] \notin SpokenSince(r)
        <5>1. j = c \/ j < c
          BY <1>1, <3>1, <4>2, <4>3
        <5>2. CASE j = c
          BY <1>3, <3>1, <5>2 DEF SpokenSince
        <5>3. CASE j < c
          <6>1. path[j].id < path[c].id /\ path[j].id \in Nat
            BY <1>1, <3>1, <5>3
          <6> QED BY <4>2, <6>1 DEF SpokenSince
        <5> QED BY <5>1, <5>2, <5>3
      <4>4. ASSUME NEW j \in 1..n, b <= j PROVE r <= path[j].id
        <5>1. c < j
          BY <1>1, <3>1, <4>2, <4>4
        <5>2. path[c].id < path[j].id /\ path[j].id \in Nat
          BY <1>1, <3>1, <5>1
        <5> QED BY <4>2, <5>2
      <4> QED BY <4>2, <4>3, <4>4
    <3>5. CASE d # 0
      <4>1. d \in 1..n /\ path[d].id = path[c].ref /\ b = d
        BY <1>4, <1>5, <2>2, <3>5
      <4>2. r = path[d].id /\ r \in Nat
        BY <1>1, <3>2, <3>3, <4>1
      <4>3. ASSUME NEW j \in 1..n, j < b PROVE path[j] \notin SpokenSince(r)
        <5>1. path[j].id < path[d].id /\ path[j].id \in Nat
          BY <1>1, <4>1, <4>3
        <5> QED BY <4>2, <5>1 DEF SpokenSince
      <4>4. ASSUME NEW j \in 1..n, b <= j PROVE r <= path[j].id
        <5>1. j = d \/ d < j
          BY <1>1, <4>1, <4>4
        <5>2. d < j => path[d].id < path[j].id
          BY <1>1, <4>1
        <5>3. path[j].id \in Nat
          BY <1>1
        <5> QED BY <4>2, <5>1, <5>2, <5>3
      <4> QED BY <4>2, <4>3, <4>4
    <3> QED BY <3>4, <3>5
  <2> QED BY <2>1, <2>2
<1> DEFINE P == SpokenSince(r)
           U == SubSeq(path, 1, b - 1)
           V == SubSeq(path, b, n)
<1>8. U \o V = path
  <2>1. 1 \in 1..(n + 1) /\ b - 1 \in (1 - 1)..n /\ (b - 1) + 1 = b
    BY <1>1, <1>2
  <2>2. SubSeq(path, 1, b - 1) \o SubSeq(path, (b - 1) + 1, n) = SubSeq(path, 1, n)
    BY <1>1, <2>1, SubSeqSplit
  <2>3. SubSeq(path, 1, n) = path
    BY <1>1, SubSeqFull
  <2> QED BY <2>1, <2>2, <2>3
<1>9. /\ U \in Seq(EntryRec) /\ Len(U) = b - 1
      /\ \A i \in 1..(b - 1) : U[i] = path[i]
  <2>1. 1 \in Nat \ {0} /\ b - 1 \in Nat /\ b - 1 <= n
    BY <1>1, <1>2
  <2>2. /\ U \in Seq(EntryRec)
        /\ Len(U) = IF 1 <= b - 1 THEN (b - 1) - 1 + 1 ELSE 0
        /\ \A i \in 1..((b - 1) - 1 + 1) : U[i] = path[1 + i - 1]
    BY <1>1, <2>1, SubSeqType
  <2> HIDE DEF U
  <2>3. Len(U) = b - 1
    BY <2>1, <2>2
  <2>4. ASSUME NEW i \in 1..(b - 1) PROVE U[i] = path[i]
    <3>1. i \in 1..((b - 1) - 1 + 1) /\ 1 + i - 1 = i
      BY <2>1
    <3> QED BY <2>2, <3>1
  <2> QED BY <2>2, <2>3, <2>4
<1>10. /\ V \in Seq(EntryRec)
       /\ Len(V) = IF b <= n THEN n - b + 1 ELSE 0
       /\ \A i \in 1..(n - b + 1) : V[i] = path[b + i - 1]
  <2>1. b \in Nat \ {0} /\ n \in Nat /\ n <= Len(path)
    BY <1>1, <1>2
  <2> QED BY <1>1, <2>1, SubSeqType
<1> HIDE DEF U, V
<1>11. Filter(U, P) = <<>>
  <2>1. \A i \in 1..Len(U) : U[i] \in P <=> U[i] \in {}
    <3>1. \A i \in 1..(b - 1) : i \in 1..n /\ i < b
      BY <1>1, <1>2
    <3> QED BY <1>7, <1>9, <3>1
  <2> DEFINE none == {}
  <2>2. \A i \in 1..Len(U) : U[i] \in P <=> U[i] \in none
    BY <2>1
  <2>3. EntryRec \cap none = {}
    OBVIOUS
  <2> HIDE DEF none, P
  <2>4. Filter(U, P) = Filter(U, none)
    BY <1>9, <2>2, FilterSame
  <2>5. Filter(U, none) = <<>>
    BY <1>9, <2>3, FilterNone
  <2> QED BY <2>4, <2>5
<1>12. Filter(V, P) = Filter(V, Spoken)
  <2>1. \A i \in 1..Len(V) : V[i] \in P <=> V[i] \in Spoken
    <3> SUFFICES ASSUME NEW i \in 1..Len(V) PROVE V[i] \in P <=> V[i] \in Spoken
      OBVIOUS
    <3>1. i \in 1..(n - b + 1) /\ b + i - 1 \in 1..n /\ b <= b + i - 1
      BY <1>1, <1>2, <1>10
    <3>2. r <= V[i].id
      BY <1>7, <1>10, <3>1
    <3> QED BY <3>2 DEF SpokenSince
  <2> HIDE DEF P
  <2> QED BY <1>10, <2>1, FilterSame
<1>13. Filter(U \o V, P) = Filter(U, P) \o Filter(V, P)
  <2> HIDE DEF P
  <2> QED BY <1>9, <1>10, FilterConcat
<1> DEFINE FV == Filter(V, P)
<1>14. FV \in Seq(EntryRec)
  <2> HIDE DEF P
  <2> QED BY <1>10, FilterInSeq
<1>15. <<>> \o FV = FV
  <2> HIDE DEF FV
  <2> QED BY <1>14, ConcatEmptySeq
<1>16. Filter(path, P) = FV
  BY <1>8, <1>11, <1>13, <1>15
<1> QED BY <1>7, <1>12, <1>16 DEF V, b

LEMMA ShownExists ==
  ASSUME NEW path, Tree(path)
  PROVE  LET c == LastCompaction(path)
             r == IF c = 0 THEN 0
                  ELSE IF \E i \in 1..Len(path) : path[i].id = path[c].ref THEN path[c].ref ELSE path[c].id
         IN  ShownFrom(path, r)
<1> DEFINE c == LastCompaction(path)
           n == Len(path)
<1>1. /\ path \in Seq(EntryRec) /\ n \in Nat
      /\ \A i \in 1..n : path[i].id \in Nat
      /\ \A i, j \in 1..n : i < j => path[i].id < path[j].id
  BY TreeTypes DEF Tree
<1>2. \A i \in 1..n : i > c => path[i].type # "compaction"
  BY <1>1, LastCompactionIs
<1>3. c \in 0..n
  BY <1>1, LastCompactionIs
<1>4. c # 0 => path[c].type = "compaction"
  BY <1>1, LastCompactionIs
<1> HIDE DEF c
<1>5. CASE c = 0
  <2>1. \A i \in 1..n : path[i].type # "compaction"
    BY <1>2, <1>5
  <2> QED BY <1>5, <2>1 DEF ShownFrom, c
<1>6. CASE c # 0
  <2>1. c \in 1..n /\ path[c].type = "compaction"
    BY <1>1, <1>3, <1>4, <1>6
  <2>2. ASSUME NEW i \in 1..n, path[i].type = "compaction" PROVE path[i].id <= path[c].id
    <3>1. i = c \/ i < c
      BY <1>1, <1>2, <1>3, <2>1, <2>2
    <3>2. i < c => path[i].id < path[c].id
      BY <1>1, <2>1
    <3> QED BY <1>1, <2>1, <3>1, <3>2
  <2> QED BY <1>6, <2>1, <2>2 DEF ShownFrom, c
<1> QED BY <1>5, <1>6

(* A chain is the path to its last entry.                                  *)
LEMMA ChainIsPath ==
  ASSUME NEW es, Tree(es), Chained(es)
  PROVE  Path(es, LastId(es)) = es
<1>1. es \in Seq(EntryRec) /\ LastId(es) \in Nat
  BY TreeTypes, LastIdIs
<1>2. CASE es = <<>>
  <2>1. LastId(es) \notin IdsOf(es)
    BY <1>2 DEF IdsOf
  <2> QED BY <1>1, <1>2, <2>1, PathNone
<1>3. CASE es # <<>>
  <2>1. Len(es) \in 1..Len(es) /\ LastId(es) = es[Len(es)].id /\ \A i \in 1..Len(es) : es[i].id <= LastId(es)
    BY <1>3, LastIdIs
  <2>2. LastId(es) \in IdsOf(es)
    BY <2>1, EntryOfId
  <2> DEFINE A == Ancestors(es, LastId(es))
             I == WithId(A)
  <2>3. A = {m \in IdsOf(es) : m <= LastId(es)}
    BY <2>2, ChainedAncestors
  <2>4. Path(es, LastId(es)) = Filter(es, I)
    BY <1>1, PathFilter
  <2> HIDE DEF A
  <2>5. \A i \in 1..Len(es) : es[i] \in I
    BY <2>1, <2>3, EntryOfId, TreeTypes DEF WithId
  <2> HIDE DEF I
  <2>6. es \in Seq(I)
    <3>1. \A i \in 1..Len(es) : es[i] \in I
      BY <2>5
    <3> QED BY <1>1, <3>1, LenProperties, SeqDef
  <2>7. Filter(es, I) = es
    BY <2>6, FilterAll
  <2> QED BY <2>4, <2>7
<1> QED BY <1>2, <1>3

(* What a fork keeps: the entries that are no labels, and the labels.      *)
LEMMA ForkKept ==
  ASSUME NEW saved, Tree(saved), NEW n0 \in Nat, NEW nx \in 1..(MaxEntries + 1),
         \A i \in 1..Len(saved) : saved[i].id < nx,
         LastId(Branched(saved, n0, nx)) <= MaxEntries
  PROVE  LET old == Path(saved, n0)
             B   == Branched(saved, n0, nx)
         IN  /\ IdSeq(WithoutLabels(old)) = IdSeq(WithoutLabels(B))
             /\ \A r : IdSeq(Filter(old, SpokenSince(r))) = IdSeq(Filter(B, SpokenSince(r)))
<1> DEFINE path == Path(saved, n0)
           W == WithoutLabels(path)
           R == Rechained(path)
           T == Labelled(saved) \cap IdsOf(R)
           O == InOrder(R, T)
           L == Relabelled(R, T, nx)
           B == Branched(saved, n0, nx)
<1>1. /\ B = R \o L /\ Tree(B) /\ Chained(B) /\ L \in Seq(EntryRec) /\ Len(L) = Len(O)
      /\ Tree(R) /\ O = Filter(R, WithId(T)) /\ \A i \in 1..Len(R) : R[i].id < nx
      /\ \A i \in 1..Len(L) : /\ L[i].id = nx + i - 1 /\ L[i].type = "label"
                              /\ L[i].ref = O[i].id /\ L[i].covers = {O[i].id}
      /\ \A i \in 1..Len(B) : B[i].id < nx \/ B[i].id <= LastId(B)
  BY BranchedIs, ZenonT(60)
<1>2. Tree(path)
  BY PathFilter
<1>3. /\ W = Filter(path, Plain) /\ Tree(W) /\ Len(R) = Len(W)
      /\ \A i \in 1..Len(W) : R[i].id = W[i].id /\ R[i].type = W[i].type
  BY <1>2, RechainedIs
<1>4. /\ path \in Seq(EntryRec) /\ R \in Seq(EntryRec) /\ W \in Seq(EntryRec) /\ L \in Seq(EntryRec)
      /\ B \in Seq(EntryRec) /\ B = R \o L
      /\ \A i \in 1..Len(L) : L[i].type = "label"
  BY <1>1, <1>2, <1>3, TreeTypes
<1> HIDE DEF W, R, L, B, path, T, O
<1>5. ASSUME NEW P, P \subseteq Plain PROVE Filter(B, P) = Filter(R, P)
  <2> DEFINE none == {}
             FR == Filter(R, P)
  <2>1. \A i \in 1..Len(L) : L[i] \in P <=> L[i] \in none
    BY <1>4, <1>5 DEF Plain
  <2>2. EntryRec \cap none = {}
    OBVIOUS
  <2> HIDE DEF none
  <2>3. Filter(L, P) = Filter(L, none)
    BY <1>4, <2>1, FilterSame
  <2>4. Filter(L, none) = <<>>
    BY <1>4, <2>2, FilterNone
  <2>5. Filter(R \o L, P) = Filter(R, P) \o Filter(L, P)
    <3>1. R \in Seq(EntryRec) /\ L \in Seq(EntryRec)
      BY <1>4
    <3> QED BY <3>1, FilterConcat
  <2>6. FR \in Seq(EntryRec)
    BY <1>4, FilterInSeq
  <2>7. FR \o <<>> = FR
    <3> HIDE DEF FR
    <3> QED BY <2>6, ConcatEmptySeq
  <2> QED BY <1>4, <2>3, <2>4, <2>5, <2>7
<1>6. \A i \in 1..Len(W) : W[i] \in Plain
  BY <1>3, <1>4, FilterElements
<1>7. WithoutLabels(B) = R
  <2>1. WithoutLabels(B) = Filter(B, Plain)
    BY <1>4, WithoutLabelsFilter
  <2>2. Filter(B, Plain) = Filter(R, Plain)
    BY <1>5
  <2>3. \A i \in 1..Len(R) : R[i] \in Plain
    <3>1. \A i \in 1..Len(R) : R[i] \in EntryRec
      BY <1>4, ElementOfSeq, LenProperties
    <3> QED BY <1>3, <1>6, <3>1 DEF Plain
  <2>4. R \in Seq(Plain)
    BY <1>4, <2>3, LenProperties, SeqDef
  <2>5. Filter(R, Plain) = R
    BY <2>4, FilterAll
  <2> QED BY <2>1, <2>2, <2>5
<1>8. IdSeq(W) = IdSeq(R)
  <2>1. /\ IdSeq(W) \in Seq(Nat) /\ Len(IdSeq(W)) = Len(W) /\ \A i \in 1..Len(W) : IdSeq(W)[i] = W[i].id
        /\ IdSeq(R) \in Seq(Nat) /\ Len(IdSeq(R)) = Len(R) /\ \A i \in 1..Len(R) : IdSeq(R)[i] = R[i].id
    BY <1>4, IdSeqIs
  <2> DEFINE w == IdSeq(W)
             v == IdSeq(R)
  <2>2. w \in Seq(Nat) /\ v \in Seq(Nat) /\ Len(w) = Len(v) /\ \A i \in 1..Len(w) : w[i] = v[i]
    BY <1>3, <2>1
  <2> HIDE DEF w, v
  <2>3. w = v
    BY <2>2, SeqEqual
  <2> QED BY <2>3 DEF w, v
<1>9. ASSUME NEW r PROVE IdSeq(Filter(path, SpokenSince(r))) = IdSeq(Filter(B, SpokenSince(r)))
  <2> DEFINE P == SpokenSince(r)
  <2>1. P \subseteq Plain /\ Plain \cap P = P
    BY DEF SpokenSince, Spoken, Message, Visible, Plain
  <2>2. \A i \in 1..Len(R) : R[i].id = W[i].id /\ (R[i] \in P <=> W[i] \in P)
    <3>1. \A i \in 1..Len(R) : R[i] \in EntryRec /\ W[i] \in EntryRec
      BY <1>3, <1>4, ElementOfSeq, LenProperties
    <3> QED BY <1>3, <3>1 DEF SpokenSince, Spoken, Message, Visible
  <2> HIDE DEF P
  <2>3. Filter(B, P) = Filter(R, P)
    BY <1>5, <2>1
  <2>4. IdSeq(Filter(R, P)) = IdSeq(Filter(W, P))
    BY <1>3, <1>4, <2>2, FilterAlike
  <2>5. Filter(Filter(path, Plain), P) = Filter(path, Plain \cap P)
    BY <1>4, FilterTwice
  <2> QED BY <1>3, <2>1, <2>3, <2>4, <2>5 DEF P
<1> QED BY <1>7, <1>8, <1>9 DEF W, B, path

LEMMA ForkLabels ==
  ASSUME NEW saved, Tree(saved), NEW n0 \in Nat, NEW nx \in 1..(MaxEntries + 1),
         \A i \in 1..Len(saved) : saved[i].id < nx,
         LastId(Branched(saved, n0, nx)) <= MaxEntries
  PROVE  LET B == Branched(saved, n0, nx)
         IN  Labelled(B) = Labelled(saved) \cap IdsOf(B)
<1> DEFINE path == Path(saved, n0)
           W == WithoutLabels(path)
           R == Rechained(path)
           T == Labelled(saved) \cap IdsOf(R)
           O == InOrder(R, T)
           L == Relabelled(R, T, nx)
           B == Branched(saved, n0, nx)
           I == WithId(T)
<1>1. /\ B = R \o L /\ Tree(B) /\ Chained(B) /\ L \in Seq(EntryRec) /\ Len(L) = Len(O)
      /\ Tree(R) /\ O = Filter(R, WithId(T)) /\ \A i \in 1..Len(R) : R[i].id < nx
      /\ \A i \in 1..Len(L) : /\ L[i].id = nx + i - 1 /\ L[i].type = "label"
                              /\ L[i].ref = O[i].id /\ L[i].covers = {O[i].id}
      /\ \A i \in 1..Len(B) : B[i].id < nx \/ B[i].id <= LastId(B)
  BY BranchedIs, ZenonT(60)
<1>2. Tree(path)
  BY PathFilter
<1>3. /\ W = Filter(path, Plain) /\ Tree(W) /\ Len(R) = Len(W)
      /\ \A i \in 1..Len(W) : R[i].id = W[i].id /\ R[i].type = W[i].type
  BY <1>2, RechainedIs
<1>4. /\ path \in Seq(EntryRec) /\ R \in Seq(EntryRec) /\ W \in Seq(EntryRec) /\ L \in Seq(EntryRec)
      /\ B = R \o L /\ Tree(B) /\ Tree(R) /\ Len(L) = Len(O) /\ O = Filter(R, I)
      /\ \A i \in 1..Len(L) : /\ L[i].id = nx + i - 1 /\ L[i].type = "label"
                              /\ L[i].ref = O[i].id /\ L[i].covers = {O[i].id}
      /\ Len(R) \in Nat /\ Len(L) \in Nat /\ DOMAIN B = 1..Len(B)
  BY <1>1, <1>2, <1>3, TreeTypes, LenProperties
<1>5. T = Labelled(saved) \cap IdsOf(R)
  OBVIOUS
<1> HIDE DEF W, R, L, B, path, T, O, I
<1>16. R \in Seq(EntryRec) /\ L \in Seq(EntryRec)
  BY <1>4
<1>17. Tree(R) /\ Tree(B)
  BY <1>4
<1>6. /\ Len(B) = Len(R) + Len(L)
      /\ \A i \in 1..(Len(R) + Len(L)) : B[i] = IF i <= Len(R) THEN R[i] ELSE L[i - Len(R)]
  <2>1. /\ Len(R \o L) = Len(R) + Len(L)
        /\ \A i \in 1..(Len(R) + Len(L)) : (R \o L)[i] = IF i <= Len(R) THEN R[i] ELSE L[i - Len(R)]
    BY <1>16, ConcatProperties
  <2> QED BY <1>4, <2>1
<1>18. DOMAIN B = 1..Len(B) /\ Len(R) \in Nat /\ Len(L) \in Nat /\ Len(B) \in Nat
  BY <1>4, <1>6
<1>7. ASSUME NEW i \in 1..Len(R) PROVE B[i] = R[i] /\ i \in 1..Len(B) /\ R[i].type # "label"
  <2>1. W[i] \in Plain
    BY <1>3, <1>4, FilterElements
  <2>2. i \in 1..(Len(R) + Len(L)) /\ i <= Len(R) /\ i \in 1..Len(B)
    BY <1>6, <1>18
  <2>3. B[i] = R[i]
    BY <1>6, <2>2
  <2>4. i \in 1..Len(W) /\ R[i].type = W[i].type
    BY <1>3
  <2>5. R[i] \in EntryRec /\ W[i].type # "label"
    BY <1>16, <2>1, ElementOfSeq DEF Plain
  <2> QED BY <2>2, <2>3, <2>4, <2>5
<1>8. ASSUME NEW i \in 1..Len(L)
      PROVE  /\ Len(R) + i \in 1..Len(B) /\ B[Len(R) + i] = L[i]
             /\ L[i].type = "label" /\ L[i].ref = O[i].id /\ L[i].covers # {}
  <2>1. Len(R) + i \in 1..(Len(R) + Len(L)) /\ ~ (Len(R) + i <= Len(R)) /\ (Len(R) + i) - Len(R) = i
    BY <1>4
  <2> QED BY <1>4, <1>6, <2>1
<1>9. \A j \in 1..Len(B) : j \in 1..Len(R) \/ \E i \in 1..Len(L) : j = Len(R) + i
  <2> SUFFICES ASSUME NEW j \in 1..Len(B), j \notin 1..Len(R) PROVE \E i \in 1..Len(L) : j = Len(R) + i
    OBVIOUS
  <2>1. j - Len(R) \in 1..Len(L) /\ j = Len(R) + (j - Len(R))
    BY <1>4, <1>6
  <2> QED BY <2>1
<1>10. \A x : (\E i \in 1..Len(O) : O[i] = x) <=> x \in I /\ \E k \in 1..Len(R) : R[k] = x
  <2>1. \A x : (\E i \in 1..Len(Filter(R, I)) : Filter(R, I)[i] = x)
                  <=> x \in I /\ \E k \in 1..Len(R) : R[k] = x
    BY <1>16, FilterHas
  <2> QED BY <1>4, <2>1
<1>11. \A n \in IdsOf(R) : n \in IdsOf(B)
  <2> SUFFICES ASSUME NEW n \in IdsOf(R) PROVE n \in IdsOf(B)
    OBVIOUS
  <2>1. PICK k \in 1..Len(R) : R[k].id = n
    BY <1>17, IdOfEntry
  <2>2. k \in 1..Len(B) /\ B[k].id = n
    BY <1>7, <2>1
  <2> QED BY <1>4, <2>2, EntryOfId
<1>12. \A n \in IdsOf(B) : n \in IdsOf(R) \/ n >= nx
  <2> SUFFICES ASSUME NEW n \in IdsOf(B), n \notin IdsOf(R) PROVE n >= nx
    OBVIOUS
  <2>1. PICK j \in 1..Len(B) : B[j].id = n
    BY <1>17, IdOfEntry
  <2>2. j \notin 1..Len(R)
    BY <1>4, <1>7, <2>1, EntryOfId
  <2>3. PICK i \in 1..Len(L) : j = Len(R) + i
    BY <1>9, <2>2
  <2>4. n = nx + i - 1
    BY <1>4, <1>8, <2>1, <2>3
  <2> QED BY <2>4, SessionLogAssumption
<1>13. \A t \in Labelled(saved) : t \in IdsOf(saved) /\ t < nx /\ t \in Nat
  <2> SUFFICES ASSUME NEW t \in IdsOf(saved) PROVE t < nx /\ t \in Nat
    BY DEF Labelled
  <2>1. PICK k \in 1..Len(saved) : saved[k].id = t
    BY IdOfEntry
  <2> QED BY <2>1, TreeTypes
<1>14. ASSUME NEW t \in Labelled(B) PROVE t \in Labelled(saved) \cap IdsOf(B)
  <2> DEFINE about == {i \in DOMAIN B : B[i].type = "label" /\ B[i].ref = t}
  <2>1. t \in IdsOf(B) /\ about # {}
    BY DEF Labelled
  <2>2. PICK j \in 1..Len(B) : B[j].type = "label" /\ B[j].ref = t
    BY <1>4, <2>1
  <2>3. PICK i \in 1..Len(L) : j = Len(R) + i
    BY <1>7, <1>9, <2>2
  <2>4. t = O[i].id /\ i \in 1..Len(O)
    BY <1>4, <1>8, <2>2, <2>3
  <2>5. O[i] \in I
    BY <1>10, <2>4
  <2>6. t \in T
    BY <2>4, <2>5 DEF I, WithId
  <2> QED BY <1>5, <2>1, <2>6
<1>15. ASSUME NEW t \in Labelled(saved) \cap IdsOf(B) PROVE t \in Labelled(B)
  <2> DEFINE about == {i \in DOMAIN B : B[i].type = "label" /\ B[i].ref = t}
  <2>1. t \in IdsOf(R) /\ t \in T
    <3>1. t < nx /\ t \in Nat /\ nx \in Nat
      BY <1>13, SessionLogAssumption
    <3>2. t \in IdsOf(R)
      BY <1>12, <3>1
    <3> QED BY <1>5, <3>2
  <2>2. PICK k \in 1..Len(R) : R[k].id = t
    BY <1>17, <2>1, IdOfEntry
  <2>3. R[k] \in I
    BY <1>4, <2>1, <2>2, TreeTypes DEF I, WithId
  <2>4. PICK i \in 1..Len(O) : O[i] = R[k]
    BY <1>10, <2>3
  <2>5. Len(R) + i \in about
    BY <1>4, <1>8, <2>2, <2>4
  <2>6. about \subseteq 1..Len(B) /\ about # {} /\ Len(B) \in Nat
    BY <1>18, <2>5
  <2> HIDE DEF about
  <2>7. Max(about) \in about
    BY <2>6, Greatest
  <2>8. PICK l \in 1..Len(L) : Max(about) = Len(R) + l
    BY <1>7, <1>9, <2>6, <2>7 DEF about
  <2>9. B[Max(about)].covers # {}
    BY <1>8, <2>8
  <2> QED BY <2>6, <2>9 DEF Labelled, about
<1> QED BY <1>14, <1>15 DEF B

(* The fork shows its messages from the same entry on, unless the kept     *)
(* entries of the last compaction begin at a label.                        *)
LEMMA ForkShown ==
  ASSUME NEW saved, Tree(saved), NEW n0 \in Nat, NEW nx \in 1..(MaxEntries + 1),
         \A i \in 1..Len(saved) : saved[i].id < nx,
         LastId(Branched(saved, n0, nx)) <= MaxEntries
  PROVE  LET old == Path(saved, n0)
             c   == LastCompaction(old)
             r   == IF c = 0 THEN 0
                    ELSE IF \E i \in 1..Len(old) : old[i].id = old[c].ref THEN old[c].ref ELSE old[c].id
         IN  (c = 0 \/ \A i \in DOMAIN old : old[i].id = old[c].ref => old[i].type # "label")
               => ShownFrom(Branched(saved, n0, nx), r)
<1> DEFINE old == Path(saved, n0)
           A == Ancestors(saved, n0)
           B == Branched(saved, n0, nx)
           c == LastCompaction(old)
           r == IF c = 0 THEN 0
                ELSE IF \E i \in 1..Len(old) : old[i].id = old[c].ref THEN old[c].ref ELSE old[c].id
<1>1. Tree(old)
  BY PathFilter
<1>2. Tree(B)
  BY BranchedIs
<1>3. /\ \A n \in IdsOf(B) :
            \/ /\ n \in A
               /\ Entry(B, n).type = Entry(saved, n).type /\ Entry(B, n).ref = Entry(saved, n).ref
            \/ Entry(B, n).type = "label" /\ n >= nx
      /\ \A y \in A : y < nx /\ (Entry(saved, y).type # "label" => y \in IdsOf(B))
  BY ForkEntries
<1>4. /\ \A i \in 1..Len(old) : old[i].id \in A /\ Entry(saved, old[i].id) = old[i]
      /\ \A z \in A : \E i \in 1..Len(old) : old[i].id = z /\ old[i] = Entry(saved, z)
  BY PathIds
<1>5. /\ old \in Seq(EntryRec) /\ Len(old) \in Nat /\ DOMAIN old = 1..Len(old)
      /\ \A i \in 1..Len(old) : old[i].id \in Nat /\ old[i].ref \in Nat /\ old[i].ref < old[i].id
      /\ \A i, j \in 1..Len(old) : i < j => old[i].id < old[j].id
  BY <1>1, TreeTypes DEF Tree
<1>6. /\ c \in 0..Len(old) /\ (c # 0 => old[c].type = "compaction")
      /\ \A i \in 1..Len(old) : i > c => old[i].type # "compaction"
  BY <1>5, LastCompactionIs
<1>7. /\ \A j \in 1..Len(B) : /\ B[j].id \in IdsOf(B) /\ Entry(B, B[j].id) = B[j]
                              /\ B[j].id \in Nat
  BY <1>2, EntryOfId, TreeTypes
<1>8. nx \in Nat
  BY SessionLogAssumption
<1> HIDE DEF old, A, B, c
<1>9. ASSUME NEW j \in 1..Len(B)
      PROVE  \/ \E i \in 1..Len(old) : old[i].id = B[j].id /\ old[i].type = B[j].type /\ old[i].ref = B[j].ref
             \/ B[j].type = "label" /\ B[j].id >= nx
  <2>1. B[j].id \in IdsOf(B) /\ Entry(B, B[j].id) = B[j]
    BY <1>7
  <2>2. CASE /\ B[j].id \in A
             /\ B[j].type = Entry(saved, B[j].id).type /\ B[j].ref = Entry(saved, B[j].id).ref
    BY <1>4, <2>2
  <2> QED BY <1>3, <2>1, <2>2
<1>10. ASSUME NEW i \in 1..Len(old), old[i].type # "label"
       PROVE  \E j \in 1..Len(B) : B[j].id = old[i].id /\ B[j].type = old[i].type /\ B[j].ref = old[i].ref
  <2>1. old[i].id \in A /\ Entry(saved, old[i].id) = old[i] /\ old[i].id \in IdsOf(B) /\ old[i].id < nx
    BY <1>3, <1>4, <1>10
  <2>2. PICK j \in 1..Len(B) : B[j].id = old[i].id /\ Entry(B, old[i].id) = B[j]
    BY <1>2, <2>1, IdOfEntry
  <2>3. ~ (old[i].id >= nx)
    BY <1>5, <1>8, <2>1
  <2> QED BY <1>3, <2>1, <2>2, <2>3
<1>11. ASSUME c = 0 PROVE ShownFrom(B, 0)
  <2> SUFFICES ASSUME NEW j \in 1..Len(B), B[j].type = "compaction" PROVE FALSE
    BY DEF ShownFrom
  <2>1. PICK i \in 1..Len(old) : old[i].type = "compaction"
    BY <1>9
  <2> QED BY <1>5, <1>6, <1>11, <2>1
<1>12. ASSUME c # 0, \A i \in DOMAIN old : old[i].id = old[c].ref => old[i].type # "label"
       PROVE  ShownFrom(B, r)
  <2>1. c \in 1..Len(old) /\ old[c].type = "compaction"
    BY <1>5, <1>6, <1>12
  <2>2. PICK k \in 1..Len(B) : B[k].id = old[c].id /\ B[k].type = "compaction" /\ B[k].ref = old[c].ref
    BY <1>10, <2>1
  <2>3. ASSUME NEW j \in 1..Len(B), B[j].type = "compaction" PROVE B[j].id <= B[k].id
    <3>1. PICK i \in 1..Len(old) : old[i].id = B[j].id /\ old[i].type = "compaction"
      BY <1>9, <2>3
    <3>2. i = c \/ i < c
      <4>1. ~ (i > c)
        BY <1>6, <3>1
      <4>2. i \in Nat /\ c \in Nat
        BY <2>1
      <4> QED BY <4>1, <4>2
    <3>3. i < c => old[i].id < old[c].id
      BY <1>5, <2>1
    <3>4. old[i].id \in Nat /\ old[c].id \in Nat
      BY <1>5, <2>1
    <3>5. old[i].id <= old[c].id
      <4>1. old[i].id = old[c].id \/ old[i].id < old[c].id
        BY <3>2, <3>3, Zenon
      <4>2. PICK a, b \in Nat : a = old[i].id /\ b = old[c].id
        BY <3>4, Zenon
      <4>3. a = b \/ a < b
        BY <4>1, <4>2, Zenon
      <4>4. a <= b
        <5> HIDE <4>1, <4>2, <3>3, <3>4
        <5> QED BY <4>3
      <4> QED BY <4>2, <4>4
    <3> QED BY <2>2, <3>1, <3>5
  <2>4. (\E i \in 1..Len(old) : old[i].id = old[c].ref) <=> \E j \in 1..Len(B) : B[j].id = B[k].ref
    <3>1. ASSUME NEW i \in 1..Len(old), old[i].id = old[c].ref PROVE \E j \in 1..Len(B) : B[j].id = B[k].ref
      <4>1. old[i].type # "label"
        BY <1>5, <1>12, <3>1
      <4> QED BY <1>10, <2>2, <3>1, <4>1
    <3>2. ASSUME NEW j \in 1..Len(B), B[j].id = B[k].ref PROVE \E i \in 1..Len(old) : old[i].id = old[c].ref
      <4>1. old[c].ref \in Nat /\ old[c].id \in Nat /\ old[c].ref < old[c].id /\ old[c].id < nx
        BY <1>3, <1>4, <1>5, <2>1
      <4>2. ~ (B[j].id >= nx)
        <5>1. B[j].id = old[c].ref
          BY <2>2, <3>2
        <5>2. ~ (old[c].ref >= nx)
          BY <1>8, <4>1
        <5> QED BY <5>1, <5>2
      <4> QED BY <1>9, <2>2, <3>2, <4>2
    <3> QED BY <3>1, <3>2
  <2>5. r = IF \E j \in 1..Len(B) : B[j].id = B[k].ref THEN B[k].ref ELSE B[k].id
    BY <1>12, <2>2, <2>4
  <2> HIDE DEF r
  <2> QED BY <2>2, <2>3, <2>5 DEF ShownFrom
<1> QED BY <1>11, <1>12 DEF old, B, c

(* The context of a fork.                                                  *)
LEMMA ForkTalks ==
  ASSUME NEW saved, Tree(saved), NEW n0 \in Nat, NEW nx \in 1..(MaxEntries + 1),
         \A i \in 1..Len(saved) : saved[i].id < nx,
         LastId(Branched(saved, n0, nx)) <= MaxEntries
  PROVE  LET old == Path(saved, n0)
             c   == LastCompaction(old)
             B   == Branched(saved, n0, nx)
         IN  (c = 0 \/ \A i \in DOMAIN old : old[i].id = old[c].ref => old[i].type # "label")
               => Talk(Context(B, LastId(B))) = Talk(Context(saved, n0))
<1> DEFINE old == Path(saved, n0)
           c == LastCompaction(old)
           B == Branched(saved, n0, nx)
           s == IF c = 0 THEN 0
                ELSE IF \E i \in 1..Len(old) : old[i].id = old[c].ref THEN old[c].ref ELSE old[c].id
<1> SUFFICES ASSUME c = 0 \/ \A i \in DOMAIN old : old[i].id = old[c].ref => old[i].type # "label"
             PROVE  Talk(Context(B, LastId(B))) = Talk(Context(saved, n0))
  OBVIOUS
<1>1. Tree(old)
  BY PathFilter
<1>2. ShownFrom(old, s)
  BY <1>1, ShownExists
<1>3. ShownFrom(B, s)
  BY ForkShown
<1>4. Tree(B) /\ Chained(B)
  BY BranchedIs
<1>5. \A r : IdSeq(Filter(old, SpokenSince(r))) = IdSeq(Filter(B, SpokenSince(r)))
  BY ForkKept
<1>6. Talk(Context(saved, n0)) = IdSeq(Filter(SubSeq(old, BoundaryStart(old), Len(old)), Spoken))
  BY TalkIs
<1> HIDE DEF B, s
<1>7. Path(B, LastId(B)) = B
  BY <1>4, ChainIsPath
<1>8. LastId(B) \in Nat
  BY <1>4, TreeTypes, LastIdIs
<1>9. Talk(Context(B, LastId(B))) = IdSeq(Filter(SubSeq(B, BoundaryStart(B), Len(B)), Spoken))
  <2> DEFINE p == Path(B, LastId(B))
  <2>1. Talk(Context(B, LastId(B))) = IdSeq(Filter(SubSeq(p, BoundaryStart(p), Len(p)), Spoken))
    BY <1>4, <1>8, TalkIs
  <2>2. p = B
    BY <1>7
  <2> HIDE DEF p
  <2> QED BY <2>1, <2>2
<1> HIDE DEF old
<1>10. Filter(SubSeq(old, BoundaryStart(old), Len(old)), Spoken) = Filter(old, SpokenSince(s))
  BY <1>1, <1>2, ShownSince
<1>11. Filter(SubSeq(B, BoundaryStart(B), Len(B)), Spoken) = Filter(B, SpokenSince(s))
  BY <1>3, <1>4, ShownSince
<1> QED BY <1>5, <1>6, <1>9, <1>10, <1>11

(* Whatever was recorded, lost or compacted before, in any tree: a fork    *)
(* holds the whole path to its target and the labels of its entries, and   *)
(* shows the model the same messages unless the kept entries of the last   *)
(* compaction begin at a label.                                            *)
THEOREM ForkKeepsPathAlways == Spec => ForkKeepsPath
<1> DEFINE Keeps(id) == LET saved == Readable(file)
                            old   == Path(saved, id)
                            c     == LastCompaction(old)
                        IN  /\ IdSeq(WithoutLabels(old)) = IdSeq(WithoutLabels(Path(entries', leaf')))
                            /\ Labelled(entries') = Labelled(saved) \cap IdsOf(entries')
                            /\ (c = 0 \/ \A i \in DOMAIN old : old[i].id = old[c].ref => old[i].type # "label")
                                 => Talk(Context(entries', leaf')) = Talk(Context(saved, id))
           Holds == \A id \in IdsOf(Readable(file)) : Fork(id) => Keeps(id)
<1>1. ASSUME Inv PROVE Holds
  <2> SUFFICES ASSUME NEW id \in IdsOf(Readable(file)), Fork(id) PROVE Keeps(id)
    OBVIOUS
  <2> DEFINE saved == Readable(file)
             B == Branched(saved, id, next)
  <2>1. LogInv /\ FileInv /\ flushed \in BOOLEAN
    BY <1>1 DEF Inv, ControlInv
  <2>2. flushed
    BY <2>1 DEF Fork, FileInv
  <2>3. Tree(saved) /\ id \in IdsOf(saved)
    BY <2>1, <2>2, SavedTree
  <2>4. id \in 1..MaxEntries
    <3>1. PICK i \in 1..Len(saved) : saved[i].id = id
      BY <2>3, IdOfEntry
    <3>2. saved[i] \in EntryRec
      BY <2>3, TreeTypes
    <3> QED BY <3>1, <3>2, EntryIds
  <2>5. /\ next \in 1..(MaxEntries + 1) /\ \A i \in 1..Len(saved) : saved[i].id < next
        /\ Tree(B) /\ Chained(B) /\ LastId(B) <= MaxEntries /\ id \in Nat
    BY <2>1, <2>4, ForkOrigin
  <2>6. entries' = B /\ leaf' = LastId(B)
    BY DEF Fork, StartSession
  <2> HIDE DEF saved
  <2>7. Labelled(B) = Labelled(saved) \cap IdsOf(B)
    BY <2>3, <2>5, ForkLabels
  <2>8. IdSeq(WithoutLabels(Path(saved, id))) = IdSeq(WithoutLabels(B))
    BY <2>3, <2>5, ForkKept
  <2>9. LET old == Path(saved, id)
            c   == LastCompaction(old)
        IN  (c = 0 \/ \A i \in DOMAIN old : old[i].id = old[c].ref => old[i].type # "label")
              => Talk(Context(B, LastId(B))) = Talk(Context(saved, id))
    BY <2>3, <2>5, ForkTalks
  <2> HIDE DEF B
  <2>10. Path(B, LastId(B)) = B
    BY <2>5, ChainIsPath
  <2> QED BY <2>6, <2>7, <2>8, <2>9, <2>10 DEF saved
<1>2. [][Holds]_vars => ForkKeepsPath
  BY PTL DEF ForkKeepsPath, Holds, Keeps
<1> QED BY <1>1, <1>2, InvAlways, PTL DEF Spec
=============================================================================
