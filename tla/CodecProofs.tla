---------------------------- MODULE CodecProofs ----------------------------
(***************************************************************************)
(* Facts about sequences and bytes the proofs on the batcher rest on, for  *)
(* all sizes: induction over numbers and sequences, what FlattenSeq makes  *)
(* of sequences put together, and the bytes of blocks and frames.          *)
(***************************************************************************)
EXTENDS BatchCodec, TLAPS, SequenceTheorems, WellFoundedInduction, FiniteSetTheorems

\* The order of the naturals, in the form the well-foundedness facts take.
LEMMA NatWellFounded == IsWellFoundedOn({p \in Nat \X Nat : p[1] < p[2]}, Nat)
<1>1. OpToRel(<, Nat) = {p \in Nat \X Nat : p[1] < p[2]}
    BY DEF OpToRel
<1> QED BY <1>1, NatLessThanWellFounded

-----------------------------------------------------------------------------
(* Induction.  The theorems of the library on it have an operator as a    *)
(* parameter; here the property is the set of those that have it.         *)

\* A set with 0, and with the successor of each number in it, has all numbers.
LEMMA NatInduct ==
    \A C : 0 \in C /\ (\A n \in Nat : n \in C => n + 1 \in C) => Nat \subseteq C
<1> SUFFICES ASSUME NEW C, 0 \in C, \A n \in Nat : n \in C => n + 1 \in C
             PROVE  Nat \subseteq C
    OBVIOUS
<1> DEFINE R == {p \in Nat \X Nat : p[1] < p[2]}
           T == Nat \ C
<1>1. SUFFICES ASSUME T # {} PROVE FALSE
    OBVIOUS
<1>2. T \subseteq Nat
    OBVIOUS
<1>3. PICK t \in T : \A y \in T : <<y, t>> \notin R
    <2> HIDE DEF R, T
    <2> QED BY <1>1, <1>2, NatWellFounded, WFMin DEF R
<1>4. t \in Nat /\ t # 0 /\ t \notin C
    OBVIOUS
<1>5. t - 1 \in Nat /\ (t - 1) + 1 = t
    BY <1>4
<1>6. t - 1 \notin T
    <2>1. <<t - 1, t>> \in R
        BY <1>4, <1>5
    <2> HIDE DEF R
    <2> QED BY <1>3, <2>1
<1> QED BY <1>4, <1>5, <1>6

\* A set with the empty sequence, and with every sequence in it that is longer
\* by one, has all sequences.
LEMMA SeqInduct ==
    \A T, C : <<>> \in C /\ (\A s \in Seq(T), e \in T : s \in C => Append(s, e) \in C)
                  => Seq(T) \subseteq C
<1> SUFFICES ASSUME NEW T, NEW C, <<>> \in C,
                    \A s \in Seq(T), e \in T : s \in C => Append(s, e) \in C
             PROVE  Seq(T) \subseteq C
    OBVIOUS
<1> DEFINE L == {n \in Nat : \A s \in Seq(T) : Len(s) = n => s \in C}
<1>1. 0 \in L
    <2>1. \A s \in Seq(T) : Len(s) = 0 => s = <<>>
        OBVIOUS
    <2> QED BY <2>1
<1>2. ASSUME NEW n \in Nat, n \in L PROVE n + 1 \in L
    <2> SUFFICES ASSUME NEW s \in Seq(T), Len(s) = n + 1 PROVE s \in C
        OBVIOUS
    <2>1. s # <<>>
        OBVIOUS
    <2>2. PICK u \in Seq(T), e \in T : s = Append(u, e)
        BY <2>1, SequenceEmptyOrAppend
    <2>3. Len(u) = n
        BY <2>2
    <2> QED BY <1>2, <2>2, <2>3
<1>3. Nat \subseteq L
    <2> HIDE DEF L
    <2> QED BY <1>1, <1>2, NatInduct
<1> QED BY <1>3

-----------------------------------------------------------------------------
(* Sequences joined by FlattenSeq. *)

\* f is what FlattenSeq computes for each initial part of s.
Joins(f, s) ==
    f = [i \in 1 .. Len(s) |-> IF i = 1 THEN s[i] ELSE f[i - 1] \o s[i]]

\* FlattenSeq takes the value of that function for the whole of s.
LEMMA FlattenIs ==
    \A s : Len(s) # 0 => FlattenSeq(s) = (CHOOSE f : Joins(f, s))[Len(s)]
BY DEF FlattenSeq, Joins

\* Nothing is joined to nothing.
LEMMA FlattenEmpty == FlattenSeq(<<>>) = <<>>
BY DEF FlattenSeq

\* Its value for an initial part.
LEMMA JoinsAt ==
    \A f, s : Joins(f, s) =>
        \A i \in 1 .. Len(s) : f[i] = IF i = 1 THEN s[i] ELSE f[i - 1] \o s[i]
<1> SUFFICES ASSUME NEW f, NEW s, Joins(f, s), NEW i \in 1 .. Len(s)
             PROVE  f[i] = IF i = 1 THEN s[i] ELSE f[i - 1] \o s[i]
    OBVIOUS
<1> DEFINE g == [j \in 1 .. Len(s) |-> IF j = 1 THEN s[j] ELSE f[j - 1] \o s[j]]
<1>1. f = g
    BY DEF Joins
<1>2. g[i] = IF i = 1 THEN s[i] ELSE f[i - 1] \o s[i]
    OBVIOUS
<1> HIDE DEF g
<1> QED BY <1>1, <1>2

\* Two such functions agree where both sequences are the same.
LEMMA JoinsAgree ==
    \A f, g, s, t : \A n \in Nat :
        /\ Joins(f, s) /\ Joins(g, t)
        /\ Len(s) \in Nat /\ Len(t) \in Nat /\ n <= Len(s) /\ n <= Len(t)
        /\ \A i \in 1 .. n : s[i] = t[i]
        => \A i \in 1 .. n : f[i] = g[i]
<1> SUFFICES ASSUME NEW f, NEW g, NEW s, NEW t, NEW n \in Nat,
                    Joins(f, s), Joins(g, t),
                    Len(s) \in Nat, Len(t) \in Nat, n <= Len(s), n <= Len(t),
                    \A i \in 1 .. n : s[i] = t[i]
             PROVE  \A i \in 1 .. n : f[i] = g[i]
    OBVIOUS
<1> DEFINE C == {i \in Nat : i \in 1 .. n => f[i] = g[i]}
<1>1. 0 \in C
    OBVIOUS
<1>2. ASSUME NEW i \in Nat, i \in C PROVE i + 1 \in C
    <2> SUFFICES ASSUME i + 1 \in 1 .. n PROVE f[i + 1] = g[i + 1]
        OBVIOUS
    <2>1. /\ f[i + 1] = IF i + 1 = 1 THEN s[i + 1] ELSE f[i + 1 - 1] \o s[i + 1]
          /\ g[i + 1] = IF i + 1 = 1 THEN t[i + 1] ELSE g[i + 1 - 1] \o t[i + 1]
        <3>1. i + 1 \in 1 .. Len(s) /\ i + 1 \in 1 .. Len(t)
            OBVIOUS
        <3> QED BY <3>1, JoinsAt
    <2>2. s[i + 1] = t[i + 1] /\ i + 1 - 1 = i
        OBVIOUS
    <2>3. CASE i = 0
        BY <2>1, <2>2, <2>3
    <2>4. CASE i # 0
        <3>1. f[i] = g[i]
            BY <1>2, <2>4
        <3> QED BY <2>1, <2>2, <2>4, <3>1
    <2> QED BY <2>3, <2>4
<1>3. Nat \subseteq C
    <2> HIDE DEF C
    <2> QED BY <1>1, <1>2, NatInduct
<1> QED BY <1>3

\* There is such a function for every sequence.
LEMMA JoinsExist ==
    \A T : \A s \in Seq(T) : \E f : Joins(f, s)
<1> SUFFICES ASSUME NEW T PROVE \A s \in Seq(T) : \E f : Joins(f, s)
    OBVIOUS
<1> DEFINE C == {s \in Seq(T) : \E f : Joins(f, s)}
<1>1. <<>> \in C
    <2>1. Joins([i \in 1 .. 0 |-> 0], <<>>)
        BY DEF Joins
    <2> QED BY <2>1
<1>2. ASSUME NEW s \in Seq(T), NEW e \in T, s \in C PROVE Append(s, e) \in C
    <2> DEFINE n == Len(s)
               t == Append(s, e)
    <2>1. PICK f : Joins(f, s)
        BY <1>2
    <2> DEFINE g == [i \in 1 .. n + 1 |->
                        IF i = n + 1 THEN (IF n = 0 THEN e ELSE f[n] \o e) ELSE f[i]]
    <2>2. /\ n \in Nat /\ Len(t) = n + 1 /\ t \in Seq(T)
          /\ t[n + 1] = e /\ \A i \in 1 .. n : t[i] = s[i]
        OBVIOUS
    <2>3. ASSUME NEW i \in 1 .. n + 1
          PROVE  g[i] = IF i = 1 THEN t[i] ELSE g[i - 1] \o t[i]
        <3>1. CASE i = n + 1
            <4>1. CASE n = 0
                BY <2>2, <3>1, <4>1
            <4>2. CASE n # 0
                <5>1. g[i - 1] = f[n] /\ g[i] = f[n] \o e
                    BY <2>2, <3>1, <4>2
                <5>2. i # 1 /\ t[i] = e
                    BY <2>2, <3>1, <4>2
                <5> HIDE DEF g, t
                <5> QED BY <5>1, <5>2
            <4> QED BY <4>1, <4>2
        <3>2. CASE i # n + 1
            <4>1. i \in 1 .. n
                BY <2>2, <3>2
            <4>2. f[i] = IF i = 1 THEN s[i] ELSE f[i - 1] \o s[i]
                BY <2>1, <4>1 DEF Joins
            <4>3. g[i] = f[i] /\ (i # 1 => g[i - 1] = f[i - 1])
                BY <2>2, <3>2, <4>1
            <4> QED BY <2>2, <4>1, <4>2, <4>3
        <3> QED BY <3>1, <3>2
    <2>4. Joins(g, t)
        <3>1. g = [i \in 1 .. n + 1 |-> g[i]]
            OBVIOUS
        <3> HIDE DEF g, t
        <3>2. g = [i \in 1 .. n + 1 |-> IF i = 1 THEN t[i] ELSE g[i - 1] \o t[i]]
            BY <2>3, <3>1
        <3> QED BY <2>2, <3>2 DEF Joins
    <2> HIDE DEF g
    <2> QED BY <2>2, <2>4
<1>3. Seq(T) \subseteq C
    <2> HIDE DEF C
    <2> QED BY <1>1, <1>2, SeqInduct
<1> QED BY <1>3

\* What is appended to the parts comes last in the whole.
LEMMA FlattenAppend ==
    \A S : \A s \in Seq(Seq(S)), e \in Seq(S) :
        FlattenSeq(Append(s, e)) = FlattenSeq(s) \o e
<1> SUFFICES ASSUME NEW S, NEW s \in Seq(Seq(S)), NEW e \in Seq(S)
             PROVE  FlattenSeq(Append(s, e)) = FlattenSeq(s) \o e
    OBVIOUS
<1> DEFINE n == Len(s)
           t == Append(s, e)
           g == CHOOSE f : Joins(f, t)
           h == CHOOSE f : Joins(f, s)
<1>1. /\ n \in Nat /\ Len(t) = n + 1 /\ t \in Seq(Seq(S))
      /\ t[n + 1] = e /\ \A i \in 1 .. n : t[i] = s[i]
    OBVIOUS
<1> HIDE DEF t
<1>2. Joins(g, t)
    BY <1>1, JoinsExist
<1>3. Joins(h, s)
    BY JoinsExist
<1>4. FlattenSeq(t) = g[n + 1]
    BY <1>1, FlattenIs
<1> HIDE DEF g, h
<1>5. g[n + 1] = IF n + 1 = 1 THEN t[n + 1] ELSE g[n + 1 - 1] \o t[n + 1]
    <2>1. n + 1 \in 1 .. Len(t)
        BY <1>1
    <2> QED BY <1>2, <2>1, JoinsAt
<1>6. CASE n = 0
    <2>1. s = <<>>
        BY <1>6
    <2>2. FlattenSeq(s) \o e = e
        BY <2>1, FlattenEmpty
    <2> QED BY <1>1, <1>4, <1>5, <1>6, <2>2 DEF t
<1>7. CASE n # 0
    <2>1. FlattenSeq(s) = h[n]
        BY <1>7, FlattenIs DEF h
    <2>2. \A i \in 1 .. n : s[i] = t[i]
        BY <1>1
    <2>3. \A i \in 1 .. n : h[i] = g[i]
        <3>1. n <= Len(s) /\ n <= Len(t) /\ Len(s) \in Nat /\ Len(t) \in Nat
            BY <1>1
        <3>2. n \in Nat
            BY <1>1
        <3> HIDE DEF n
        <3> QED BY <1>2, <1>3, <2>2, <3>1, <3>2, JoinsAgree
    <2>4. n \in 1 .. n /\ n + 1 - 1 = n
        <3>1. n \in Nat
            BY <1>1
        <3> HIDE DEF n
        <3> QED BY <1>7, <3>1
    <2>5. h[n] = g[n]
        BY <2>3, <2>4
    <2> QED BY <1>1, <1>4, <1>5, <1>7, <2>1, <2>4, <2>5 DEF t
<1> QED BY <1>6, <1>7

\* The whole is a sequence of what the parts are sequences of.
LEMMA FlattenType == \A S : \A s \in Seq(Seq(S)) : FlattenSeq(s) \in Seq(S)
<1> SUFFICES ASSUME NEW S PROVE \A s \in Seq(Seq(S)) : FlattenSeq(s) \in Seq(S)
    OBVIOUS
<1> DEFINE P(s) == FlattenSeq(s) \in Seq(S)
           C == {s \in Seq(Seq(S)) : P(s)}
<1>1. P(<<>>)
    <2>1. <<>> \in Seq(S)
        OBVIOUS
    <2> QED BY <2>1, FlattenEmpty
<1>2. ASSUME NEW s \in Seq(Seq(S)), NEW e \in Seq(S), P(s) PROVE P(Append(s, e))
    <2>1. FlattenSeq(Append(s, e)) = FlattenSeq(s) \o e
        BY FlattenAppend
    <2>2. FlattenSeq(s) \o e \in Seq(S)
        BY <1>2
    <2> QED BY <2>1, <2>2
<1> HIDE DEF P
<1>3. <<>> \in C
    BY <1>1
<1>4. ASSUME NEW s \in Seq(Seq(S)), NEW e \in Seq(S), s \in C PROVE Append(s, e) \in C
    BY <1>2, <1>4
<1>5. Seq(Seq(S)) \subseteq C
    <2> HIDE DEF C
    <2> QED BY <1>3, <1>4, SeqInduct
<1>6. \A s \in Seq(Seq(S)) : P(s)
    BY <1>5
<1> QED BY <1>6 DEF P

\* The lemma of the library, for sequences that are not named.
LEMMA ConcatThree == \A S : \A s, t, u \in Seq(S) : (s \o t) \o u = s \o (t \o u)
<1>1. ASSUME NEW S, NEW s \in Seq(S), NEW t \in Seq(S), NEW u \in Seq(S)
      PROVE  (s \o t) \o u = s \o (t \o u)
    BY ConcatAssociative, SMTT(30)
<1> QED BY <1>1

\* Two lists of parts one after the other.
LEMMA FlattenConcat ==
    \A S : \A s, t \in Seq(Seq(S)) : FlattenSeq(s \o t) = FlattenSeq(s) \o FlattenSeq(t)
<1> SUFFICES ASSUME NEW S, NEW s \in Seq(Seq(S))
             PROVE  \A t \in Seq(Seq(S)) : FlattenSeq(s \o t) = FlattenSeq(s) \o FlattenSeq(t)
    OBVIOUS
<1> DEFINE P(t) == FlattenSeq(s \o t) = FlattenSeq(s) \o FlattenSeq(t)
           C == {t \in Seq(Seq(S)) : P(t)}
<1>0. FlattenSeq(s) \in Seq(S)
    BY FlattenType
<1>1. P(<<>>)
    <2>1. s \o <<>> = s /\ FlattenSeq(s) \o <<>> = FlattenSeq(s)
        BY <1>0, ConcatEmptySeq
    <2>2. FlattenSeq(s \o <<>>) = FlattenSeq(s) \o <<>>
        BY <2>1
    <2> QED BY <2>2, FlattenEmpty
<1>2. ASSUME NEW t \in Seq(Seq(S)), NEW e \in Seq(S), P(t) PROVE P(Append(t, e))
    <2>1. s \o Append(t, e) = Append(s \o t, e) /\ s \o t \in Seq(Seq(S))
        BY SMTT(30)
    <2>2. FlattenSeq(s \o Append(t, e)) = FlattenSeq(s \o t) \o e
        BY <2>1, FlattenAppend
    <2>3. FlattenSeq(s \o t) = FlattenSeq(s) \o FlattenSeq(t)
        BY <1>2
    <2>4. FlattenSeq(t) \in Seq(S)
        BY FlattenType
    <2>5. (FlattenSeq(s) \o FlattenSeq(t)) \o e = FlattenSeq(s) \o (FlattenSeq(t) \o e)
        BY <1>0, <2>4, ConcatAssociative, SMTT(30)
    <2>6. FlattenSeq(Append(t, e)) = FlattenSeq(t) \o e
        BY FlattenAppend
    <2> QED BY <2>2, <2>3, <2>5, <2>6
<1> HIDE DEF P
<1>3. <<>> \in C
    BY <1>1
<1>4. ASSUME NEW t \in Seq(Seq(S)), NEW e \in Seq(S), t \in C PROVE Append(t, e) \in C
    BY <1>2, <1>4
<1>5. Seq(Seq(S)) \subseteq C
    <2> HIDE DEF C
    <2> QED BY <1>3, <1>4, SeqInduct
<1>6. \A t \in Seq(Seq(S)) : P(t)
    BY <1>5
<1> QED BY <1>6 DEF P

\* The parts of a list that is longer by one.
LEMMA AppendAt ==
    \A T : \A s \in Seq(T), e \in T :
        /\ Append(s, e) \in Seq(T) /\ Len(s) \in Nat /\ Len(Append(s, e)) = Len(s) + 1
        /\ DOMAIN s = 1 .. Len(s) /\ DOMAIN Append(s, e) = 1 .. Len(s) + 1
        /\ Append(s, e)[Len(s) + 1] = e
        /\ \A k \in 1 .. Len(s) : Append(s, e)[k] = s[k]
OBVIOUS

\* A list is known by its last part and by those in front of it.
LEMMA IsAppend ==
    \A T : \A s, v \in Seq(T), e \in T :
        /\ Len(v) = Len(s) + 1
        /\ v[Len(s) + 1] = e
        /\ \A j \in 1 .. Len(s) : v[j] = s[j]
        => v = Append(s, e)
<1> SUFFICES ASSUME NEW T, NEW s \in Seq(T), NEW v \in Seq(T), NEW e \in T,
                    Len(v) = Len(s) + 1, v[Len(s) + 1] = e,
                    \A j \in 1 .. Len(s) : v[j] = s[j]
             PROVE  v = Append(s, e)
    OBVIOUS
<1> DEFINE u == Append(s, e)
<1>1. /\ u \in Seq(T) /\ Len(s) \in Nat /\ Len(u) = Len(s) + 1
      /\ u[Len(s) + 1] = e
      /\ \A k \in 1 .. Len(s) : u[k] = s[k]
    BY AppendAt
<1> HIDE DEF u
<1>2. ASSUME NEW j \in 1 .. Len(v) PROVE v[j] = u[j]
    <2>1. CASE j = Len(s) + 1
        BY <1>1, <2>1
    <2>2. CASE j # Len(s) + 1
        <3>1. j \in 1 .. Len(s)
            BY <1>1, <2>2
        <3> QED BY <1>1, <3>1
    <2> QED BY <2>1, <2>2
<1>3. v = u
    BY <1>1, <1>2, SeqEqual
<1> QED BY <1>3 DEF u

\* A part of a list that is longer by one, replaced.
LEMMA ReplaceInAppend ==
    \A T : \A s \in Seq(T), e, y \in T : \A k \in 1 .. Len(s) + 1 :
        ReplaceAt(Append(s, e), k, y) =
            IF k = Len(s) + 1 THEN Append(s, y) ELSE Append(ReplaceAt(s, k, y), e)
<1> SUFFICES ASSUME NEW T, NEW s \in Seq(T), NEW e \in T, NEW y \in T,
                    NEW k \in 1 .. Len(s) + 1
             PROVE  ReplaceAt(Append(s, e), k, y) =
                        IF k = Len(s) + 1 THEN Append(s, y)
                        ELSE Append(ReplaceAt(s, k, y), e)
    OBVIOUS
<1> DEFINE t == Append(s, e)
           v == ReplaceAt(t, k, y)
<1>1. /\ Len(t) = Len(s) + 1 /\ Len(s) \in Nat /\ t \in Seq(T)
      /\ t[Len(s) + 1] = e
      /\ \A j \in 1 .. Len(s) : t[j] = s[j]
    BY AppendAt
<1> HIDE DEF t
<1>2. /\ v \in Seq(T) /\ Len(v) = Len(s) + 1
      /\ \A j \in 1 .. Len(s) + 1 : v[j] = IF j = k THEN y ELSE t[j]
    BY <1>1, ExceptSeq DEF ReplaceAt
<1> HIDE DEF v
<1>3. Len(s) + 1 \in 1 .. Len(s) + 1 /\ \A j \in 1 .. Len(s) : j \in 1 .. Len(s) + 1
    BY <1>1
<1>4. CASE k = Len(s) + 1
    <2>1. v[Len(s) + 1] = y
        BY <1>2, <1>3, <1>4
    <2>2. \A j \in 1 .. Len(s) : v[j] = s[j]
        BY <1>1, <1>2, <1>3, <1>4
    <2>3. v = Append(s, y)
        BY <1>2, <2>1, <2>2, IsAppend
    <2> QED BY <1>4, <2>3 DEF v, t
<1>5. CASE k # Len(s) + 1
    <2> DEFINE r == ReplaceAt(s, k, y)
    <2>1. k \in 1 .. Len(s)
        BY <1>1, <1>5
    <2>2. /\ r \in Seq(T) /\ Len(r) = Len(s)
          /\ \A j \in 1 .. Len(s) : r[j] = IF j = k THEN y ELSE s[j]
        BY <2>1, ExceptSeq DEF ReplaceAt
    <2> HIDE DEF r
    <2>3. v[Len(s) + 1] = e
        BY <1>1, <1>2, <1>3, <1>5
    <2>4. ASSUME NEW j \in 1 .. Len(s) PROVE v[j] = r[j]
        <3>1. v[j] = IF j = k THEN y ELSE t[j]
            BY <1>2, <1>3
        <3>2. t[j] = s[j] /\ r[j] = IF j = k THEN y ELSE s[j]
            BY <1>1, <2>2
        <3> QED BY <3>1, <3>2
    <2>5. v = Append(r, e)
        BY <1>2, <2>2, <2>3, <2>4, IsAppend
    <2> QED BY <1>5, <2>5 DEF v, t, r
<1> QED BY <1>4, <1>5

\* Empty parts make an empty whole.
LEMMA FlattenNothing ==
    \A S : \A s \in Seq(Seq(S)) :
        (\A k \in 1 .. Len(s) : s[k] = <<>>) => FlattenSeq(s) = <<>>
<1> SUFFICES ASSUME NEW S
             PROVE  \A s \in Seq(Seq(S)) :
                        (\A k \in 1 .. Len(s) : s[k] = <<>>) => FlattenSeq(s) = <<>>
    OBVIOUS
<1> DEFINE P(s) == (\A k \in 1 .. Len(s) : s[k] = <<>>) => FlattenSeq(s) = <<>>
           C == {s \in Seq(Seq(S)) : P(s)}
<1>1. P(<<>>)
    BY FlattenEmpty
<1>2. ASSUME NEW s \in Seq(Seq(S)), NEW e \in Seq(S), P(s) PROVE P(Append(s, e))
    <2> DEFINE t == Append(s, e)
    <2>1. /\ Len(t) = Len(s) + 1 /\ Len(s) \in Nat
          /\ t[Len(s) + 1] = e
          /\ \A k \in 1 .. Len(s) : t[k] = s[k]
        BY AppendAt
    <2>2. FlattenSeq(t) = FlattenSeq(s) \o e
        BY FlattenAppend
    <2> HIDE DEF t
    <2>3. ASSUME \A k \in 1 .. Len(t) : t[k] = <<>> PROVE FlattenSeq(t) = <<>>
        <3>1. e = <<>>
            BY <2>1, <2>3
        <3>2. \A k \in 1 .. Len(s) : s[k] = <<>>
            BY <2>1, <2>3
        <3>3. FlattenSeq(s) = <<>>
            BY <1>2, <3>2
        <3> QED BY <2>2, <3>1, <3>3
    <2>4. P(t)
        BY <2>3
    <2> QED BY <2>4 DEF t
<1> HIDE DEF P
<1>3. <<>> \in C
    BY <1>1
<1>4. ASSUME NEW s \in Seq(Seq(S)), NEW e \in Seq(S), s \in C PROVE Append(s, e) \in C
    BY <1>2, <1>4
<1>5. Seq(Seq(S)) \subseteq C
    <2> HIDE DEF C
    <2> QED BY <1>3, <1>4, SeqInduct
<1>6. \A s \in Seq(Seq(S)) : P(s)
    BY <1>5
<1> QED BY <1>6 DEF P

\* When the parts in front are empty, what the k-th part begins with is what
\* the whole begins with.
LEMMA FlattenHead ==
    \A S : \A x, y \in Seq(S) : \A s \in Seq(Seq(S)) : \A k \in 1 .. Len(s) :
        (\A j \in 1 .. k - 1 : s[j] = <<>>) /\ s[k] = x \o y
            => FlattenSeq(s) = x \o FlattenSeq(ReplaceAt(s, k, y))
<1> SUFFICES ASSUME NEW S, NEW x \in Seq(S), NEW y \in Seq(S)
             PROVE  \A s \in Seq(Seq(S)) : \A k \in 1 .. Len(s) :
                        (\A j \in 1 .. k - 1 : s[j] = <<>>) /\ s[k] = x \o y
                            => FlattenSeq(s) = x \o FlattenSeq(ReplaceAt(s, k, y))
    OBVIOUS
<1> DEFINE at(s, k) == k \in 1 .. Len(s) /\ (\A j \in 1 .. k - 1 : s[j] = <<>>)
                          /\ s[k] = x \o y
           P(s) == \A k : at(s, k) => FlattenSeq(s) = x \o FlattenSeq(ReplaceAt(s, k, y))
           C == {s \in Seq(Seq(S)) : P(s)}
<1>1. P(<<>>)
    OBVIOUS
<1>2. ASSUME NEW s \in Seq(Seq(S)), NEW e \in Seq(S), P(s) PROVE P(Append(s, e))
    <2> DEFINE t == Append(s, e)
    <2>1. /\ Len(t) = Len(s) + 1 /\ Len(s) \in Nat /\ t \in Seq(Seq(S))
          /\ DOMAIN s = 1 .. Len(s) /\ DOMAIN t = 1 .. Len(s) + 1
          /\ t[Len(s) + 1] = e
          /\ \A k \in 1 .. Len(s) : t[k] = s[k]
        BY AppendAt
    <2>2. FlattenSeq(t) = FlattenSeq(s) \o e
        BY FlattenAppend
    <2>5. \A k \in 1 .. Len(s) + 1 :
              ReplaceAt(t, k, y) =
                  IF k = Len(s) + 1 THEN Append(s, y) ELSE Append(ReplaceAt(s, k, y), e)
        <3> DEFINE T == Seq(S)
        <3>1. s \in Seq(T) /\ e \in T /\ y \in T
            OBVIOUS
        <3> HIDE DEF T
        <3> QED BY <3>1, ReplaceInAppend
    <2> HIDE DEF t
    <2>3. ASSUME NEW k, at(t, k)
          PROVE  FlattenSeq(t) = x \o FlattenSeq(ReplaceAt(t, k, y))
        <3>1. CASE k = Len(s) + 1
            <4>1. FlattenSeq(s) = <<>>
                <5>1. \A j \in 1 .. Len(s) : s[j] = <<>>
                    BY <2>1, <2>3, <3>1
                <5> QED BY <5>1, FlattenNothing
            <4>2. FlattenSeq(t) = x \o y
                <5>1. e = x \o y
                    BY <2>1, <2>3, <3>1
                <5> QED BY <2>2, <4>1, <5>1
            <4>3. ReplaceAt(t, k, y) = Append(s, y)
                BY <2>5, <3>1, <2>1
            <4>4. FlattenSeq(Append(s, y)) = y
                <5>1. FlattenSeq(Append(s, y)) = FlattenSeq(s) \o y
                    BY FlattenAppend
                <5> QED BY <4>1, <5>1
            <4> QED BY <4>2, <4>3, <4>4
        <3>2. CASE k # Len(s) + 1
            <4> DEFINE r == ReplaceAt(s, k, y)
            <4>1. k \in 1 .. Len(s)
                BY <2>1, <2>3, <3>2
            <4>2. at(s, k)
                <5>1. \A j \in 1 .. k - 1 : j \in 1 .. Len(s) /\ t[j] = <<>>
                    BY <2>1, <2>3, <4>1, SMTT(30)
                <5>2. \A j \in 1 .. k - 1 : s[j] = <<>>
                    BY <2>1, <5>1
                <5>3. s[k] = x \o y
                    BY <2>1, <2>3, <4>1
                <5> QED BY <4>1, <5>2, <5>3
            <4>3. FlattenSeq(s) = x \o FlattenSeq(r)
                BY <1>2, <4>2
            <4>4. /\ r \in Seq(Seq(S)) /\ Len(r) = Len(s)
                  /\ \A j \in 1 .. Len(s) : r[j] = IF j = k THEN y ELSE s[j]
                BY <2>1, <4>1, ExceptSeq DEF ReplaceAt
            <4>5. ReplaceAt(t, k, y) = Append(r, e)
                <5>1. k \in 1 .. Len(s) + 1
                    BY <2>1, <4>1
                <5> QED BY <3>2, <5>1, <2>5
            <4>6. FlattenSeq(Append(r, e)) = FlattenSeq(r) \o e /\ FlattenSeq(r) \in Seq(S)
                <5> HIDE DEF r
                <5> QED BY <4>4, FlattenAppend, FlattenType
            <4> HIDE DEF r
            <4>7. (x \o FlattenSeq(r)) \o e = x \o (FlattenSeq(r) \o e)
                BY <4>6, ConcatAssociative, SMTT(30)
            <4> QED BY <2>2, <4>3, <4>5, <4>6, <4>7
        <3> QED BY <3>1, <3>2
    <2>4. P(t)
        BY <2>3
    <2> QED BY <2>4 DEF t
<1>3. \A s \in Seq(Seq(S)) : P(s)
    <2> HIDE DEF P
    <2>3. <<>> \in C
        BY <1>1
    <2>4. ASSUME NEW s \in Seq(Seq(S)), NEW e \in Seq(S), s \in C PROVE Append(s, e) \in C
        BY <1>2, <2>4
    <2>5. Seq(Seq(S)) \subseteq C
        <3> HIDE DEF C
        <3> QED BY <2>3, <2>4, SeqInduct
    <2> QED BY <2>5
<1> QED BY <1>3

\* The second of two sequences, cut from the two.
LEMMA SecondPart ==
    \A S : \A x, y \in Seq(S) : SubSeq(x \o y, Len(x) + 1, Len(x \o y)) = y
<1> SUFFICES ASSUME NEW S, NEW x \in Seq(S), NEW y \in Seq(S)
             PROVE  SubSeq(x \o y, Len(x) + 1, Len(x \o y)) = y
    OBVIOUS
<1> DEFINE z == x \o y
           w == SubSeq(z, Len(x) + 1, Len(z))
<1>1. /\ Len(x) \in Nat /\ Len(y) \in Nat /\ Len(z) = Len(x) + Len(y)
      /\ \A k \in 1 .. Len(y) : z[Len(x) + k] = y[k]
      /\ z \in Seq(S)
    <2>1. z \in Seq(S) /\ Len(x) \in Nat /\ Len(y) \in Nat
        OBVIOUS
    <2>2. Len(z) = Len(x) + Len(y)
          /\ \A k \in 1 .. Len(x) + Len(y) : z[k] = IF k <= Len(x) THEN x[k] ELSE y[k - Len(x)]
        BY ConcatProperties
    <2> HIDE DEF z
    <2>3. ASSUME NEW k \in 1 .. Len(y) PROVE z[Len(x) + k] = y[k]
        <3>1. Len(x) + k \in 1 .. Len(x) + Len(y) /\ ~ (Len(x) + k <= Len(x)) /\ Len(x) + k - Len(x) = k
            BY <2>1
        <3> QED BY <2>2, <3>1
    <2> QED BY <2>1, <2>2, <2>3
<1> HIDE DEF z
<1>2. \A j \in Len(x) + 1 .. Len(z) : z[j] \in S
    BY <1>1
<1>3. w = [k \in 1 .. Len(y) |-> z[Len(x) + k]]
    <2>1. Len(z) - (Len(x) + 1) + 1 = Len(y)
        BY <1>1
    <2>2. \A k \in 1 .. Len(y) : Len(x) + 1 + k - 1 = Len(x) + k
        BY <1>1
    <2>3. w = [k \in 1 .. Len(z) - (Len(x) + 1) + 1 |-> z[Len(x) + 1 + k - 1]]
        BY <1>1, <1>2, <2>1, SubSeqProperties
    <2> HIDE DEF w
    <2> QED BY <2>1, <2>2, <2>3
<1>4. w \in Seq(S) /\ Len(w) = Len(y) /\ \A k \in 1 .. Len(y) : w[k] = y[k]
    <2>1. w \in Seq(S)
        BY <1>1, <1>2, SubSeqProperties
    <2> HIDE DEF w
    <2>2. DOMAIN w = 1 .. Len(y)
        BY <1>3
    <2> QED BY <1>1, <1>3, <2>1, <2>2
<1> HIDE DEF w
<1>5. w = y
    BY <1>4, SeqEqual
<1> QED BY <1>5 DEF w, z

\* Where the members of two sequences put together come from.
LEMMA ConcatAt ==
    ASSUME NEW S, NEW x \in Seq(S), NEW y \in Seq(S)
    PROVE  /\ x \o y \in Seq(S) /\ Len(x) \in Nat /\ Len(y) \in Nat
           /\ Len(x \o y) = Len(x) + Len(y) /\ DOMAIN (x \o y) = 1 .. Len(x) + Len(y)
           /\ \A k \in 1 .. Len(x) : (x \o y)[k] = x[k]
           /\ \A k \in 1 .. Len(y) : (x \o y)[Len(x) + k] = y[k]
           /\ \A k \in 1 .. Len(x) + Len(y) :
                 \/ k \in 1 .. Len(x)
                 \/ k - Len(x) \in 1 .. Len(y) /\ k = Len(x) + (k - Len(x))
<1> DEFINE z == x \o y
<1>1. z \in Seq(S) /\ Len(x) \in Nat /\ Len(y) \in Nat
    OBVIOUS
<1>2. Len(z) = Len(x) + Len(y)
      /\ \A k \in 1 .. Len(x) + Len(y) : z[k] = IF k <= Len(x) THEN x[k] ELSE y[k - Len(x)]
    BY ConcatProperties
<1> HIDE DEF z
<1>3. DOMAIN z = 1 .. Len(x) + Len(y)
    BY <1>1, <1>2
<1>4. ASSUME NEW k \in 1 .. Len(x) PROVE z[k] = x[k]
    BY <1>1, <1>2
<1>5. ASSUME NEW k \in 1 .. Len(y) PROVE z[Len(x) + k] = y[k]
    <2>1. /\ Len(x) + k \in 1 .. Len(x) + Len(y) /\ ~ (Len(x) + k <= Len(x))
          /\ Len(x) + k - Len(x) = k
        BY <1>1
    <2> QED BY <1>2, <2>1
<1>6. ASSUME NEW k \in 1 .. Len(x) + Len(y)
      PROVE  \/ k \in 1 .. Len(x)
             \/ k - Len(x) \in 1 .. Len(y) /\ k = Len(x) + (k - Len(x))
    BY <1>1
<1>7. /\ z \in Seq(S) /\ Len(x) \in Nat /\ Len(y) \in Nat
      /\ Len(z) = Len(x) + Len(y) /\ DOMAIN z = 1 .. Len(x) + Len(y)
      /\ \A k \in 1 .. Len(x) : z[k] = x[k]
      /\ \A k \in 1 .. Len(y) : z[Len(x) + k] = y[k]
    BY <1>1, <1>2, <1>3, <1>4, <1>5
<1> QED BY <1>6, <1>7 DEF z

\* Where a member of a flattened sequence comes from.
LEMMA FlattenMembers ==
    \A S : \A s \in Seq(Seq(S)) : \A j \in DOMAIN FlattenSeq(s) :
        \E n \in DOMAIN s : \E i \in DOMAIN s[n] : FlattenSeq(s)[j] = s[n][i]
<1> SUFFICES ASSUME NEW S
             PROVE  \A s \in Seq(Seq(S)) : \A j \in DOMAIN FlattenSeq(s) :
                        \E n \in DOMAIN s : \E i \in DOMAIN s[n] : FlattenSeq(s)[j] = s[n][i]
    OBVIOUS
<1> DEFINE P(s) == \A j \in DOMAIN FlattenSeq(s) :
                       \E n \in DOMAIN s : \E i \in DOMAIN s[n] : FlattenSeq(s)[j] = s[n][i]
           C == {s \in Seq(Seq(S)) : P(s)}
<1>1. P(<<>>)
    <2>1. DOMAIN <<>> = {}
        OBVIOUS
    <2> QED BY <2>1, FlattenEmpty
<1>2. ASSUME NEW s \in Seq(Seq(S)), NEW e \in Seq(S), P(s) PROVE P(Append(s, e))
    <2> DEFINE a == FlattenSeq(s)
               t == Append(s, e)
               b == FlattenSeq(t)
    <2>1. b = a \o e /\ a \in Seq(S)
        BY FlattenAppend, FlattenType
    <2>2. /\ Len(s) \in Nat /\ DOMAIN s = 1 .. Len(s) /\ DOMAIN t = 1 .. Len(s) + 1
          /\ t[Len(s) + 1] = e /\ \A k \in 1 .. Len(s) : t[k] = s[k]
        BY AppendAt
    <2>3. /\ Len(a) \in Nat /\ DOMAIN a = 1 .. Len(a) /\ DOMAIN e = 1 .. Len(e)
          /\ DOMAIN b = 1 .. Len(a) + Len(e)
          /\ \A k \in 1 .. Len(a) : b[k] = a[k]
          /\ \A k \in 1 .. Len(e) : b[Len(a) + k] = e[k]
          /\ \A k \in 1 .. Len(a) + Len(e) :
                \/ k \in 1 .. Len(a)
                \/ k - Len(a) \in 1 .. Len(e) /\ k = Len(a) + (k - Len(a))
        <3>1. a \in Seq(S) /\ e \in Seq(S)
            BY <2>1
        <3> HIDE DEF a, b
        <3>2. DOMAIN a = 1 .. Len(a) /\ DOMAIN e = 1 .. Len(e)
            BY <3>1
        <3>3. DOMAIN b = 1 .. Len(a) + Len(e)
            BY ONLY <2>1, <3>1, ConcatAt
        <3>4. \A k \in 1 .. Len(a) : b[k] = a[k]
            BY ONLY <2>1, <3>1, ConcatAt
        <3>5. \A k \in 1 .. Len(e) : b[Len(a) + k] = e[k]
            BY ONLY <2>1, <3>1, ConcatAt
        <3>6. Len(a) \in Nat /\ Len(e) \in Nat
            BY <3>1
        <3>7. \A k \in 1 .. Len(a) + Len(e) :
                \/ k \in 1 .. Len(a)
                \/ k - Len(a) \in 1 .. Len(e) /\ k = Len(a) + (k - Len(a))
            BY ONLY <3>6
        <3> QED BY <3>2, <3>3, <3>4, <3>5, <3>6, <3>7
    <2>4. P(s)
        BY <1>2
    <2>5. \A j \in DOMAIN a : \E n \in DOMAIN s : \E i \in DOMAIN s[n] : a[j] = s[n][i]
        BY <2>4
    <2> HIDE DEF a, b, t, P
    <2>6. ASSUME NEW j \in DOMAIN b PROVE \E n \in DOMAIN t : \E i \in DOMAIN t[n] : b[j] = t[n][i]
        <3>1. CASE j \in 1 .. Len(a)
            <4>1. PICK n \in DOMAIN s : \E i \in DOMAIN s[n] : a[j] = s[n][i]
                BY <2>3, <2>5, <3>1
            <4>2. n \in DOMAIN t /\ t[n] = s[n]
                BY <2>2, <4>1
            <4>3. b[j] = a[j]
                BY <2>3, <3>1
            <4> QED BY <4>1, <4>2, <4>3
        <3>2. CASE j - Len(a) \in 1 .. Len(e) /\ j = Len(a) + (j - Len(a))
            <4>1. b[j] = e[j - Len(a)] /\ j - Len(a) \in DOMAIN e
                BY <2>3, <3>2
            <4>2. Len(s) + 1 \in DOMAIN t
                BY <2>2
            <4> QED BY <2>2, <4>1, <4>2
        <3>3. j \in 1 .. Len(a) + Len(e)
            BY <2>3
        <3> QED BY <2>3, <3>1, <3>2, <3>3
    <2> QED BY <2>6 DEF P, b, t
<1> HIDE DEF P
<1>3. <<>> \in C /\ \A s \in Seq(Seq(S)), e \in Seq(S) : s \in C => Append(s, e) \in C
    <2>1. <<>> \in Seq(Seq(S)) /\ \A s \in Seq(Seq(S)), e \in Seq(S) : Append(s, e) \in Seq(Seq(S))
        OBVIOUS
    <2> QED BY <1>1, <1>2, <2>1
<1>4. Seq(Seq(S)) \subseteq C
    <2> HIDE DEF C
    <2> QED BY <1>3, SeqInduct, Zenon
<1> QED BY <1>4 DEF P

-----------------------------------------------------------------------------
(* The bytes of blocks and frames. *)

\* Parts of which only the last holds anything.
LEMMA FlattenLast ==
    \A S : \A s \in Seq(Seq(S)) :
        Len(s) # 0 /\ (\A j \in 1 .. Len(s) - 1 : s[j] = <<>>)
            => FlattenSeq(s) = s[Len(s)]
<1> SUFFICES ASSUME NEW S, NEW s \in Seq(Seq(S)), Len(s) # 0,
                    \A j \in 1 .. Len(s) - 1 : s[j] = <<>>
             PROVE  FlattenSeq(s) = s[Len(s)]
    OBVIOUS
<1>1. s # <<>>
    OBVIOUS
<1>2. PICK u \in Seq(Seq(S)), e \in Seq(S) : s = Append(u, e)
    BY <1>1, SequenceEmptyOrAppend
<1>3. /\ Len(s) = Len(u) + 1 /\ Len(u) \in Nat /\ s[Len(u) + 1] = e
      /\ \A k \in 1 .. Len(u) : s[k] = u[k]
    BY <1>2, AppendAt
<1>4. FlattenSeq(u) = <<>>
    <2>1. ASSUME NEW k \in 1 .. Len(u) PROVE u[k] = <<>>
        <3>1. k \in 1 .. Len(s) - 1
            BY <1>3
        <3> QED BY <1>3, <3>1
    <2> QED BY <2>1, FlattenNothing
<1>5. FlattenSeq(s) = FlattenSeq(u) \o e
    BY <1>2, FlattenAppend
<1> QED BY <1>3, <1>4, <1>5

\* One part is the whole.
LEMMA FlattenOne == \A S : \A e \in Seq(S) : FlattenSeq(<<e>>) = e
<1> SUFFICES ASSUME NEW S, NEW e \in Seq(S) PROVE FlattenSeq(<<e>>) = e
    OBVIOUS
<1>1. <<e>> = Append(<<>>, e) /\ <<>> \in Seq(Seq(S)) /\ <<>> \o e = e
    OBVIOUS
<1>2. FlattenSeq(Append(<<>>, e)) = FlattenSeq(<<>>) \o e
    BY <1>1, FlattenAppend
<1> QED BY <1>1, <1>2, FlattenEmpty

\* What the batcher sends; the batch transaction carries no other frame.
Frames == [chan : Nat \ {0}, num : Nat, data : Seq(Block), isLast : BOOLEAN]

DataParts(fs) == [k \in DOMAIN fs |-> fs[k].data]

\* The data of one list of frames after another.
LEMMA DataOfConcat ==
    \A fs, gs \in Seq(Frames) :
        /\ DataOf(fs) \in Seq(Block)
        /\ DataOf(fs \o gs) = DataOf(fs) \o DataOf(gs)
<1> SUFFICES ASSUME NEW fs \in Seq(Frames), NEW gs \in Seq(Frames)
             PROVE  /\ DataOf(fs) \in Seq(Block)
                    /\ DataOf(fs \o gs) = DataOf(fs) \o DataOf(gs)
    OBVIOUS
<1>1. ASSUME NEW hs \in Seq(Frames)
      PROVE  /\ DataParts(hs) \in Seq(Seq(Block))
             /\ Len(DataParts(hs)) = Len(hs)
             /\ \A k \in 1 .. Len(hs) : DataParts(hs)[k] = hs[k].data
    <2>1. DOMAIN hs = 1 .. Len(hs) /\ Len(hs) \in Nat
        OBVIOUS
    <2>2. \A k \in 1 .. Len(hs) : hs[k] \in Frames
        OBVIOUS
    <2>3. \A k \in 1 .. Len(hs) : hs[k].data \in Seq(Block)
        BY <2>2 DEF Frames
    <2> QED BY <2>1, <2>3 DEF DataParts
<1>2. DataParts(fs \o gs) = DataParts(fs) \o DataParts(gs)
    <2> DEFINE u == DataParts(fs \o gs)
               v == DataParts(fs) \o DataParts(gs)
               T == Seq(Block)
    <2>1. fs \o gs \in Seq(Frames) /\ Len(fs \o gs) = Len(fs) + Len(gs)
          /\ \A k \in 1 .. Len(fs) + Len(gs) :
                (fs \o gs)[k] = IF k <= Len(fs) THEN fs[k] ELSE gs[k - Len(fs)]
        BY ConcatProperties
    <2>2. u \in Seq(T) /\ Len(u) = Len(fs) + Len(gs)
          /\ \A k \in 1 .. Len(fs) + Len(gs) : u[k] = (fs \o gs)[k].data
        BY <1>1, <2>1
    <2>3. v \in Seq(T) /\ Len(v) = Len(fs) + Len(gs)
          /\ \A k \in 1 .. Len(fs) + Len(gs) :
                v[k] = IF k <= Len(fs) THEN DataParts(fs)[k] ELSE DataParts(gs)[k - Len(fs)]
        <3> DEFINE p == DataParts(fs)
                   r == DataParts(gs)
        <3>1. p \in Seq(T) /\ r \in Seq(T) /\ Len(p) = Len(fs) /\ Len(r) = Len(gs)
            BY <1>1
        <3> HIDE DEF T, p, r
        <3>2. /\ p \o r \in Seq(T) /\ Len(p \o r) = Len(p) + Len(r)
              /\ \A k \in 1 .. Len(p) + Len(r) :
                    (p \o r)[k] = IF k <= Len(p) THEN p[k] ELSE r[k - Len(p)]
            BY <3>1, ConcatProperties
        <3>3. v = p \o r
            BY DEF p, r
        <3> HIDE DEF v
        <3>4. /\ v \in Seq(T) /\ Len(v) = Len(fs) + Len(gs)
              /\ \A k \in 1 .. Len(fs) + Len(gs) :
                    v[k] = IF k <= Len(fs) THEN p[k] ELSE r[k - Len(fs)]
            BY <3>1, <3>2, <3>3
        <3> QED BY <3>4 DEF p, r
    <2>4. Len(fs) \in Nat /\ Len(gs) \in Nat
        OBVIOUS
    <2> HIDE DEF u, v, T
    <2>5. ASSUME NEW k \in 1 .. Len(u) PROVE u[k] = v[k]
        <3>1. k \in 1 .. Len(fs) + Len(gs)
            BY <2>2
        <3>2. CASE k <= Len(fs)
            <4>1. k \in 1 .. Len(fs)
                BY <3>1, <3>2, <2>4
            <4> QED BY <1>1, <2>1, <2>2, <2>3, <3>1, <3>2, <4>1
        <3>3. CASE ~ (k <= Len(fs))
            <4>1. k - Len(fs) \in 1 .. Len(gs)
                BY <3>1, <3>3, <2>4
            <4> QED BY <1>1, <2>1, <2>2, <2>3, <3>1, <3>3, <4>1, ZenonT(40)
        <3> QED BY <3>2, <3>3
    <2>6. Len(u) = Len(v)
        BY <2>2, <2>3
    <2>7. u = v
        BY <2>2, <2>3, <2>5, <2>6, SeqEqual
    <2> QED BY <2>7 DEF u, v
<1>3. \A hs : DataOf(hs) = FlattenSeq(DataParts(hs))
    BY DEF DataOf, DataParts
<1> QED BY <1>1, <1>2, <1>3, FlattenConcat, FlattenType

\* No frames, no data.
LEMMA DataOfNone == DataOf(<<>>) = <<>>
<1>1. [k \in DOMAIN <<>> |-> <<>>[k].data] = <<>>
    OBVIOUS
<1> QED BY <1>1, FlattenEmpty DEF DataOf

\* One more frame.
LEMMA DataOfAppend ==
    \A fs \in Seq(Frames), f \in Frames : DataOf(Append(fs, f)) = DataOf(fs) \o f.data
<1> SUFFICES ASSUME NEW fs \in Seq(Frames), NEW f \in Frames
             PROVE  DataOf(Append(fs, f)) = DataOf(fs) \o f.data
    OBVIOUS
<1>1. <<f>> \in Seq(Frames) /\ Append(fs, f) = fs \o <<f>>
    BY AppendIsConcat
<1>2. DataOf(<<f>>) = f.data
    <2> DEFINE parts == [k \in DOMAIN <<f>> |-> <<f>>[k].data]
    <2>1. f.data \in Seq(Block)
        BY DEF Frames
    <2>2. parts = <<f.data>>
        OBVIOUS
    <2> HIDE DEF parts
    <2>3. FlattenSeq(parts) = f.data
        BY <2>1, <2>2, FlattenOne
    <2> QED BY <2>3 DEF DataOf, parts
<1>3. DataOf(fs \o <<f>>) = DataOf(fs) \o DataOf(<<f>>)
    BY <1>1, DataOfConcat
<1> QED BY <1>1, <1>2, <1>3

\* The bytes of a block.
LEMMA BytesType ==
    \A b \in Block : Bytes(b) \in Seq(Block) /\ Len(Bytes(b)) = PrefixSize + Size[b]
BY CodecAssumption DEF CodecAssumption, Bytes

BlockParts(bs) == [k \in DOMAIN bs |-> Bytes(bs[k])]

\* The bytes of one list of blocks after another.
LEMMA PackedConcat ==
    \A bs, cs \in Seq(Block) :
        /\ Packed(bs) \in Seq(Block)
        /\ Packed(bs \o cs) = Packed(bs) \o Packed(cs)
<1> SUFFICES ASSUME NEW bs \in Seq(Block), NEW cs \in Seq(Block)
             PROVE  /\ Packed(bs) \in Seq(Block)
                    /\ Packed(bs \o cs) = Packed(bs) \o Packed(cs)
    OBVIOUS
<1>1. ASSUME NEW ds \in Seq(Block)
      PROVE  /\ BlockParts(ds) \in Seq(Seq(Block))
             /\ Len(BlockParts(ds)) = Len(ds)
             /\ \A k \in 1 .. Len(ds) : BlockParts(ds)[k] = Bytes(ds[k])
    <2>1. DOMAIN ds = 1 .. Len(ds) /\ Len(ds) \in Nat
        OBVIOUS
    <2>2. \A k \in 1 .. Len(ds) : ds[k] \in Block
        OBVIOUS
    <2>3. \A k \in 1 .. Len(ds) : Bytes(ds[k]) \in Seq(Block)
        BY <2>2, BytesType
    <2> QED BY <2>1, <2>3 DEF BlockParts
<1>2. BlockParts(bs \o cs) = BlockParts(bs) \o BlockParts(cs)
    <2> DEFINE u == BlockParts(bs \o cs)
               v == BlockParts(bs) \o BlockParts(cs)
               T == Seq(Block)
    <2>1. bs \o cs \in Seq(Block) /\ Len(bs \o cs) = Len(bs) + Len(cs)
          /\ \A k \in 1 .. Len(bs) + Len(cs) :
                (bs \o cs)[k] = IF k <= Len(bs) THEN bs[k] ELSE cs[k - Len(bs)]
        BY ConcatProperties
    <2>2. u \in Seq(T) /\ Len(u) = Len(bs) + Len(cs)
          /\ \A k \in 1 .. Len(bs) + Len(cs) : u[k] = Bytes((bs \o cs)[k])
        BY <1>1, <2>1
    <2>3. v \in Seq(T) /\ Len(v) = Len(bs) + Len(cs)
          /\ \A k \in 1 .. Len(bs) + Len(cs) :
                v[k] = IF k <= Len(bs) THEN BlockParts(bs)[k] ELSE BlockParts(cs)[k - Len(bs)]
        <3> DEFINE p == BlockParts(bs)
                   r == BlockParts(cs)
        <3>1. p \in Seq(T) /\ r \in Seq(T) /\ Len(p) = Len(bs) /\ Len(r) = Len(cs)
            BY <1>1
        <3> HIDE DEF T, p, r
        <3>2. /\ p \o r \in Seq(T) /\ Len(p \o r) = Len(p) + Len(r)
              /\ \A k \in 1 .. Len(p) + Len(r) :
                    (p \o r)[k] = IF k <= Len(p) THEN p[k] ELSE r[k - Len(p)]
            BY <3>1, ConcatProperties
        <3>3. v = p \o r
            BY DEF p, r
        <3> HIDE DEF v
        <3>4. /\ v \in Seq(T) /\ Len(v) = Len(bs) + Len(cs)
              /\ \A k \in 1 .. Len(bs) + Len(cs) :
                    v[k] = IF k <= Len(bs) THEN p[k] ELSE r[k - Len(bs)]
            BY <3>1, <3>2, <3>3
        <3> QED BY <3>4 DEF p, r
    <2>4. Len(bs) \in Nat /\ Len(cs) \in Nat
        OBVIOUS
    <2> HIDE DEF u, v, T
    <2>5. ASSUME NEW k \in 1 .. Len(u) PROVE u[k] = v[k]
        <3>1. k \in 1 .. Len(bs) + Len(cs)
            BY <2>2
        <3>2. CASE k <= Len(bs)
            <4>1. k \in 1 .. Len(bs)
                BY <3>1, <3>2, <2>4
            <4> QED BY <1>1, <2>1, <2>2, <2>3, <3>1, <3>2, <4>1
        <3>3. CASE ~ (k <= Len(bs))
            <4>1. k - Len(bs) \in 1 .. Len(cs)
                BY <3>1, <3>3, <2>4
            <4> QED BY <1>1, <2>1, <2>2, <2>3, <3>1, <3>3, <4>1
        <3> QED BY <3>2, <3>3
    <2>6. Len(u) = Len(v)
        BY <2>2, <2>3
    <2>7. u = v
        BY <2>2, <2>3, <2>5, <2>6, SeqEqual
    <2> QED BY <2>7 DEF u, v
<1>3. \A ds : Packed(ds) = FlattenSeq(BlockParts(ds))
    BY DEF Packed, BlockParts
<1> QED BY <1>1, <1>2, <1>3, FlattenConcat, FlattenType

\* No blocks, no bytes.
LEMMA PackedNone == Packed(<<>>) = <<>>
<1>1. [k \in DOMAIN <<>> |-> Bytes(<<>>[k])] = <<>>
    OBVIOUS
<1> QED BY <1>1, FlattenEmpty DEF Packed

\* One more block.
LEMMA PackedAppend ==
    \A bs \in Seq(Block), b \in Block : Packed(Append(bs, b)) = Packed(bs) \o Bytes(b)
<1> SUFFICES ASSUME NEW bs \in Seq(Block), NEW b \in Block
             PROVE  Packed(Append(bs, b)) = Packed(bs) \o Bytes(b)
    OBVIOUS
<1>1. <<b>> \in Seq(Block) /\ Append(bs, b) = bs \o <<b>>
    BY AppendIsConcat
<1>2. Packed(<<b>>) = Bytes(b)
    <2> DEFINE parts == [k \in DOMAIN <<b>> |-> Bytes(<<b>>[k])]
    <2>1. Bytes(b) \in Seq(Block)
        BY BytesType
    <2>2. parts = <<Bytes(b)>>
        OBVIOUS
    <2> HIDE DEF parts
    <2>3. FlattenSeq(parts) = Bytes(b)
        BY <2>1, <2>2, FlattenOne
    <2> QED BY <2>3 DEF Packed, parts
<1>3. Packed(bs \o <<b>>) = Packed(bs) \o Packed(<<b>>)
    BY <1>1, PackedConcat
<1> QED BY <1>1, <1>2, <1>3

\* A set without elements, or with one, as a sequence.
LEMMA SetToSeqSmall ==
    /\ SetToSeq({}) = <<>>
    /\ \A x : SetToSeq({x}) = <<x>>
<1>1. SetToSeq({}) = <<>>
    <2>1. Cardinality({}) = 0
        BY FS_EmptySet
    <2>2. <<>> \in [1 .. 0 -> {}] /\ \A f \in [1 .. 0 -> {}] : f = <<>>
        OBVIOUS
    <2>3. IsInjective(<<>>)
        BY DEF IsInjective
    <2> QED BY <2>1, <2>2, <2>3 DEF SetToSeq
<1>2. ASSUME NEW x PROVE SetToSeq({x}) = <<x>>
    <2>1. Cardinality({x}) = 1
        BY FS_Singleton
    <2>2. <<x>> \in [1 .. 1 -> {x}] /\ \A f \in [1 .. 1 -> {x}] : f = <<x>>
        OBVIOUS
    <2>3. IsInjective(<<x>>)
        BY DEF IsInjective
    <2> QED BY <2>1, <2>2, <2>3 DEF SetToSeq
<1> QED BY <1>1, <1>2
=============================================================================
