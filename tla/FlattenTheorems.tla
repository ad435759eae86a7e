--------------------------- MODULE FlattenTheorems ---------------------------
(***************************************************************************)
(* Facts about FlattenSeq of the community modules, which is defined by     *)
(* recursion over the sequence.  The induction is a least counterexample:   *)
(* a nonempty set of natural numbers has a smallest element.                *)
(***************************************************************************)
EXTENDS Integers, Sequences, SequencesExt, SequenceTheorems, WellFoundedInduction, TLAPS

Smaller == {pair \in Nat \X Nat : pair[1] < pair[2]}

(* Less-than on the natural numbers has no infinite descent. *)
LEMMA SmallerIsWellFounded == IsWellFoundedOn(Smaller, Nat)
  BY NatLessThanWellFounded DEF OpToRel, Smaller

(* A nonempty set of natural numbers has a least element. *)
LEMMA LeastNatural ==
    ASSUME NEW T, T \subseteq Nat, T # {}
    PROVE  \E x \in T : \A y \in T : x <= y
<1>1. PICK x \in T : \A y \in T : <<y, x>> \notin Smaller
  BY WFMin, SmallerIsWellFounded
<1>2. ASSUME NEW y \in T PROVE x <= y
  <2>1. ~(<<y, x>> \in {pair \in Nat \X Nat : pair[1] < pair[2]})
    BY <1>1 DEF Smaller
  <2>2. x \in Nat /\ y \in Nat
    OBVIOUS
  <2>3. QED
    BY <2>1, <2>2
<1>3. QED
  BY <1>2

-----------------------------------------------------------------------------
(* What is flat after the first n sequences of s, as FlattenSeq computes it. *)
FlattensTo(f, n, s) ==
    \A i \in 1 .. n : f[i] = IF i = 1 THEN s[i] ELSE f[i - 1] \o s[i]

(* The recursion determines its values. *)
LEMMA FlattensToOne ==
    ASSUME NEW s, NEW n \in Nat, NEW f, NEW g, FlattensTo(f, n, s), FlattensTo(g, n, s)
    PROVE  \A i \in 1 .. n : f[i] = g[i]
<1> DEFINE T == {i \in 1 .. n : f[i] # g[i]}
<1>1. ASSUME T # {} PROVE FALSE
  <2>1. PICK m \in T : \A i \in T : m <= i
    <3>1. T \subseteq Nat
      OBVIOUS
    <3>2. QED
      BY <3>1, <1>1, LeastNatural
  <2>2. m \in 1 .. n /\ f[m] # g[m]
    BY <2>1
  <2>3. CASE m = 1
    BY <2>2, <2>3 DEF FlattensTo
  <2>4. CASE m # 1
    <3>1. m - 1 \in 1 .. n /\ m - 1 \notin T
      BY <2>1, <2>2, <2>4
    <3>2. f[m - 1] = g[m - 1]
      BY <3>1
    <3>3. QED
      BY <2>2, <2>4, <3>2 DEF FlattensTo
  <2>5. QED
    BY <2>3, <2>4
<1>2. QED
  BY <1>1

(* And it has some. *)
LEMMA FlattensToSome ==
    ASSUME NEW S, NEW s \in Seq(Seq(S)), NEW n \in 0 .. Len(s)
    PROVE  \E f \in [1 .. n -> Seq(S)] : FlattensTo(f, n, s)
<1> DEFINE T == {k \in 0 .. Len(s) : ~\E f \in [1 .. k -> Seq(S)] : FlattensTo(f, k, s)}
<1>1. ASSUME T # {} PROVE FALSE
  <2>1. PICK m \in T : \A k \in T : m <= k
    <3>1. T \subseteq Nat
      OBVIOUS
    <3>2. QED
      BY <3>1, <1>1, LeastNatural
  <2>2. m \in 0 .. Len(s) /\ m # 0
    <3>1. [i \in 1 .. 0 |-> <<>>] \in [1 .. 0 -> Seq(S)]
      <4>1. 1 .. 0 = {}
        OBVIOUS
      <4>2. QED
        BY <4>1
    <3>2. FlattensTo([i \in 1 .. 0 |-> <<>>], 0, s)
      BY DEF FlattensTo
    <3>3. \E f \in [1 .. 0 -> Seq(S)] : FlattensTo(f, 0, s)
      BY <3>1, <3>2
    <3>4. 0 \notin T
      BY <3>3
    <3>5. QED
      BY <2>1, <3>4
  <2>3. m - 1 \in 0 .. Len(s) /\ m - 1 \notin T
    <3>1. m - 1 \in 0 .. Len(s) /\ ~(m <= m - 1)
      BY <2>2
    <3>2. QED
      BY <2>1, <3>1
  <2>4. PICK f \in [1 .. m - 1 -> Seq(S)] : FlattensTo(f, m - 1, s)
    BY <2>3
  <2>5. s[m] \in Seq(S) /\ (m # 1 => f[m - 1] \in Seq(S))
    BY <2>2, <2>4
  <2> DEFINE last == IF m = 1 THEN s[m] ELSE f[m - 1] \o s[m]
             g == [i \in 1 .. m |-> IF i = m THEN last ELSE f[i]]
  <2>6. last \in Seq(S)
    BY <2>5
  <2> HIDE DEF last
  <2>7. g \in [1 .. m -> Seq(S)]
    BY <2>2, <2>4, <2>6
  <2>8. FlattensTo(g, m, s)
    <3> SUFFICES ASSUME NEW i \in 1 .. m
                 PROVE  g[i] = IF i = 1 THEN s[i] ELSE g[i - 1] \o s[i]
      BY DEF FlattensTo
    <3>1. CASE i = m
      <4>1. g[m] = last /\ (m # 1 => g[m - 1] = f[m - 1])
        BY <2>2
      <4>2. QED
        BY <3>1, <4>1 DEF last
    <3>2. CASE i # m
      <4>1. i \in 1 .. m - 1 /\ g[i] = f[i] /\ (i # 1 => g[i - 1] = f[i - 1])
        BY <2>2, <3>2
      <4>2. f[i] = IF i = 1 THEN s[i] ELSE f[i - 1] \o s[i]
        BY <4>1, <2>4 DEF FlattensTo
      <4>3. QED
        BY <4>1, <4>2
    <3>3. QED
      BY <3>1, <3>2
  <2>9. m \notin T
    BY <2>7, <2>8
  <2>10. QED
    BY <2>1, <2>9
<1>2. QED
  BY <1>1

(* FlattenSeq is the last of these values. *)
LEMMA FlattenSeqIs ==
    ASSUME NEW S, NEW s \in Seq(Seq(S)), NEW f, FlattensTo(f, Len(s), s)
    PROVE  FlattenSeq(s) = IF s = <<>> THEN <<>> ELSE f[Len(s)]
<1>1. CASE s = <<>>
  BY <1>1 DEF FlattenSeq
<1>2. CASE s # <<>>
  <2>1. Len(s) \in Nat \ {0}
    BY <1>2
  <2> DEFINE Fixed(g) ==
        g = [i \in 1 .. Len(s) |-> IF i = 1 THEN s[i] ELSE g[i - 1] \o s[i]]
  <2>2. PICK h \in [1 .. Len(s) -> Seq(S)] : FlattensTo(h, Len(s), s)
    BY FlattensToSome
  <2>3. Fixed(h)
    BY <2>2 DEF FlattensTo
  <2> DEFINE c == CHOOSE g : Fixed(g)
  <2>4. Fixed(c)
    BY <2>3
  <2>5. FlattenSeq(s) = c[Len(s)]
    BY <2>1 DEF FlattenSeq
  <2>6. FlattensTo(c, Len(s), s)
    <3> HIDE DEF c
    <3>1. \A i \in 1 .. Len(s) :
            c[i] = [j \in 1 .. Len(s) |-> IF j = 1 THEN s[j] ELSE c[j - 1] \o s[j]][i]
      BY <2>4
    <3>2. QED
      BY <3>1 DEF FlattensTo
  <2>7. c[Len(s)] = f[Len(s)]
    <3> HIDE DEF c
    <3>1. QED
      BY <2>1, <2>6, FlattensToOne
  <2>8. QED
    BY <1>2, <2>5, <2>7
<1>3. QED
  BY <1>1, <1>2

-----------------------------------------------------------------------------
(* Flattening nothing gives nothing. *)
THEOREM FlattenNothing == FlattenSeq(<<>>) = <<>>
  BY DEF FlattenSeq

(* Flattening sequences over a set gives a sequence over it. *)
THEOREM FlattenType ==
    ASSUME NEW S, NEW s \in Seq(Seq(S))
    PROVE  FlattenSeq(s) \in Seq(S)
<1>1. Len(s) \in 0 .. Len(s)
  OBVIOUS
<1>2. PICK f \in [1 .. Len(s) -> Seq(S)] : FlattensTo(f, Len(s), s)
  BY <1>1, FlattensToSome
<1>3. FlattenSeq(s) = IF s = <<>> THEN <<>> ELSE f[Len(s)]
  BY <1>2, FlattenSeqIs
<1>4. s # <<>> => Len(s) \in 1 .. Len(s)
  OBVIOUS
<1>5. QED
  BY <1>2, <1>3, <1>4

(* One sequence more is appended to what is flat. *)
THEOREM FlattenAppend ==
    ASSUME NEW S, NEW s \in Seq(Seq(S)), NEW x \in Seq(S)
    PROVE  FlattenSeq(Append(s, x)) = FlattenSeq(s) \o x
<1> DEFINE t == Append(s, x)
           n == Len(s)
<1>1. /\ n \in Nat /\ t \in Seq(Seq(S)) /\ Len(t) = n + 1 /\ t # <<>>
      /\ \A i \in 1 .. n : t[i] = s[i]
      /\ t[n + 1] = x
  <2>1. n \in Nat /\ t \in Seq(Seq(S)) /\ Len(t) = n + 1
    OBVIOUS
  <2>2. t # <<>>
    <3>1. Len(t) # 0 /\ Len(<<>>) = 0
      BY <2>1
    <3>2. QED
      BY <3>1
  <2>3. (\A i \in 1 .. n : t[i] = s[i]) /\ t[n + 1] = x
    <3>1. x \in Seq(S) /\ s \in Seq(Seq(S))
      OBVIOUS
    <3>2. QED
      BY <3>1
  <2>4. QED
    BY <2>1, <2>2, <2>3
<1> HIDE DEF t, n
<1>2. PICK f \in [1 .. n + 1 -> Seq(S)] : FlattensTo(f, n + 1, t)
  <2>1. Len(t) \in 0 .. Len(t)
    BY <1>1
  <2>2. QED
    BY <1>1, <2>1, FlattensToSome
<1>3. FlattenSeq(t) = f[n + 1]
  BY <1>1, <1>2, FlattenSeqIs
<1>4. FlattensTo(f, n, s)
  <2> SUFFICES ASSUME NEW i \in 1 .. n
               PROVE  f[i] = IF i = 1 THEN s[i] ELSE f[i - 1] \o s[i]
    BY DEF FlattensTo
  <2>1. i \in 1 .. n + 1 /\ t[i] = s[i]
    BY <1>1
  <2>2. QED
    BY <2>1, <1>2 DEF FlattensTo
<1>5. FlattenSeq(s) = IF s = <<>> THEN <<>> ELSE f[n]
  BY <1>4, FlattenSeqIs DEF n
<1>6. f[n + 1] = IF n + 1 = 1 THEN x ELSE f[n] \o x
  <2>1. PICK k \in 1 .. n + 1 : k = n + 1
    BY <1>1
  <2>2. f[k] = IF k = 1 THEN t[k] ELSE f[k - 1] \o t[k]
    BY <1>2 DEF FlattensTo
  <2>3. k - 1 = n
    BY <1>1, <2>1
  <2>4. f[k] = IF k = 1 THEN t[k] ELSE f[n] \o t[k]
    BY <2>2, <2>3
  <2>5. QED
    BY <1>1, <2>1, <2>4
<1>7. CASE n = 0
  <2>1. s = <<>> /\ <<>> \o x = x
    BY <1>7 DEF n
  <2>2. QED
    BY <1>3, <1>5, <1>6, <1>7, <2>1 DEF t
<1>8. CASE n # 0
  <2>1. s # <<>> /\ n + 1 # 1
    BY <1>1, <1>8 DEF n
  <2>2. QED
    BY <1>3, <1>5, <1>6, <2>1 DEF t
<1>9. QED
  BY <1>7, <1>8

(* One sequence is flat already. *)
THEOREM FlattenOne ==
    ASSUME NEW S, NEW x \in Seq(S)
    PROVE  FlattenSeq(<<x>>) = x
<1>1. <<>> \in Seq(Seq(S)) /\ Append(<<>>, x) = <<x>> /\ <<>> \o x = x
  OBVIOUS
<1>2. QED
  BY <1>1, FlattenAppend, FlattenNothing

(* Flattening goes over concatenation. *)
THEOREM FlattenConcat ==
    ASSUME NEW S, NEW s \in Seq(Seq(S)), NEW t \in Seq(Seq(S))
    PROVE  FlattenSeq(s \o t) = FlattenSeq(s) \o FlattenSeq(t)
<1> DEFINE UpTo(k) == [i \in 1 .. k |-> t[i]]
           T == {k \in 0 .. Len(t) : FlattenSeq(s \o UpTo(k)) # FlattenSeq(s) \o FlattenSeq(UpTo(k))}
<1>1. ASSUME T # {} PROVE FALSE
  <2>1. PICK m \in T : \A k \in T : m <= k
    <3>1. T \subseteq Nat
      OBVIOUS
    <3>2. QED
      BY <3>1, <1>1, LeastNatural
  <2>2. m \in 0 .. Len(t) /\ FlattenSeq(s \o UpTo(m)) # FlattenSeq(s) \o FlattenSeq(UpTo(m))
    BY <2>1
  <2>3. m # 0
    <3>1. UpTo(0) = <<>>
      OBVIOUS
    <3>2. s \o <<>> = s /\ FlattenSeq(s) \o <<>> = FlattenSeq(s)
      BY FlattenType
    <3>3. QED
      BY <2>2, <3>1, <3>2, FlattenNothing
  <2>4. m - 1 \in 0 .. Len(t) /\ ~(m <= m - 1)
    BY <2>2, <2>3
  <2>5. FlattenSeq(s \o UpTo(m - 1)) = FlattenSeq(s) \o FlattenSeq(UpTo(m - 1))
    <3>1. m - 1 \notin T
      BY <2>1, <2>4
    <3>2. QED
      BY <2>4, <3>1
  <2> DEFINE f == UpTo(m - 1)
             x == t[m]
  <2>6. f \in Seq(Seq(S)) /\ x \in Seq(S)
    BY <2>2, <2>3
  <2>7. UpTo(m) = Append(f, x)
    BY <2>2, <2>3
  <2> HIDE DEF f, x, UpTo, T
  <2>8. s \o UpTo(m) = Append(s \o f, x) /\ s \o f \in Seq(Seq(S))
    BY <2>6, <2>7
  <2>9. FlattenSeq(s \o UpTo(m)) = FlattenSeq(s \o f) \o x
    BY <2>6, <2>8, FlattenAppend
  <2>10. FlattenSeq(UpTo(m)) = FlattenSeq(f) \o x
    BY <2>6, <2>7, FlattenAppend
  <2>11. FlattenSeq(s) \in Seq(S) /\ FlattenSeq(f) \in Seq(S)
    BY <2>6, FlattenType
  <2>12. (FlattenSeq(s) \o FlattenSeq(f)) \o x = FlattenSeq(s) \o (FlattenSeq(f) \o x)
    BY <2>6, <2>11, ConcatAssociative
  <2>13. QED
    BY <2>2, <2>5, <2>9, <2>10, <2>12 DEF f
<1>2. UpTo(Len(t)) = t /\ Len(t) \in 0 .. Len(t)
  OBVIOUS
<1>3. QED
  BY <1>1, <1>2

(* Nothing comes of sequences that are all empty. *)
THEOREM FlattenEmpties ==
    ASSUME NEW S, NEW s \in Seq(Seq(S)), \A i \in 1 .. Len(s) : s[i] = <<>>
    PROVE  FlattenSeq(s) = <<>>
<1> DEFINE UpTo(k) == [i \in 1 .. k |-> s[i]]
           T == {k \in 0 .. Len(s) : FlattenSeq(UpTo(k)) # <<>>}
<1>1. ASSUME T # {} PROVE FALSE
  <2>1. PICK m \in T : \A k \in T : m <= k
    <3>1. T \subseteq Nat
      OBVIOUS
    <3>2. QED
      BY <3>1, <1>1, LeastNatural
  <2>2. m \in 0 .. Len(s) /\ FlattenSeq(UpTo(m)) # <<>>
    BY <2>1
  <2>3. m # 0
    <3>1. UpTo(0) = <<>>
      OBVIOUS
    <3>2. QED
      BY <2>2, <3>1, FlattenNothing
  <2>4. m - 1 \in 0 .. Len(s) /\ ~(m <= m - 1)
    BY <2>2, <2>3
  <2>5. FlattenSeq(UpTo(m - 1)) = <<>>
    <3>1. m - 1 \notin T
      BY <2>1, <2>4
    <3>2. QED
      BY <2>4, <3>1
  <2> DEFINE f == UpTo(m - 1)
  <2>6. f \in Seq(Seq(S)) /\ s[m] = <<>> /\ <<>> \in Seq(S)
    BY <2>2, <2>3
  <2>7. UpTo(m) = Append(f, <<>>)
    BY <2>2, <2>3, <2>6
  <2> HIDE DEF f, UpTo, T
  <2>8. FlattenSeq(UpTo(m)) = FlattenSeq(f) \o <<>>
    BY <2>6, <2>7, FlattenAppend
  <2>9. QED
    BY <2>2, <2>5, <2>8 DEF f
<1>2. UpTo(Len(s)) = s /\ Len(s) \in 0 .. Len(s)
  OBVIOUS
<1>3. QED
  BY <1>1, <1>2

(* The first element comes from the first sequence that has one.             *)
THEOREM FlattenFirst ==
    ASSUME NEW S, NEW s \in Seq(Seq(S)), NEW k \in 1 .. Len(s), s[k] # <<>>,
           \A i \in 1 .. k - 1 : s[i] = <<>>
    PROVE  FlattenSeq(s) # <<>> /\ FlattenSeq(s)[1] = s[k][1]
<1> DEFINE front == [i \in 1 .. k - 1 |-> s[i]]
           rest == [i \in 1 .. Len(s) - k |-> s[i + k]]
           upto == Append(front, s[k])
<1>0. Len(s) \in Nat /\ k \in Nat /\ k >= 1 /\ k <= Len(s) /\ s[k] \in Seq(S)
  OBVIOUS
<1>1. /\ front \in Seq(Seq(S)) /\ rest \in Seq(Seq(S))
      /\ Len(front) = k - 1 /\ Len(rest) = Len(s) - k
      /\ \A i \in 1 .. Len(front) : front[i] = <<>>
  <2>1. k - 1 \in Nat /\ Len(s) - k \in Nat
    BY <1>0
  <2>2. (\A i \in 1 .. k - 1 : s[i] \in Seq(S)) /\ \A i \in 1 .. Len(s) - k : s[i + k] \in Seq(S)
    BY <1>0
  <2>3. front \in Seq(Seq(S)) /\ Len(front) = k - 1
    BY <2>1, <2>2
  <2>4. rest \in Seq(Seq(S)) /\ Len(rest) = Len(s) - k
    BY <2>1, <2>2
  <2>5. QED
    BY <2>3, <2>4
<1>2. upto \in Seq(Seq(S)) /\ Len(upto) = k
  BY <1>0, <1>1
<1>3. s = upto \o rest
  <2>1. \A i \in 1 .. k : upto[i] = s[i]
    <3>1. \A i \in 1 .. k - 1 : upto[i] = s[i]
      BY <1>1
    <3>2. upto[k] = s[k]
      BY <1>1
    <3>3. QED
      BY <1>0, <3>1, <3>2
  <2>2. \A i \in 1 .. Len(s) - k : rest[i] = s[i + k]
    OBVIOUS
  <2> HIDE DEF upto, rest, front
  <2>3. upto \o rest \in Seq(Seq(S)) /\ Len(upto \o rest) = Len(upto) + Len(rest)
    <3> DEFINE Sq == Seq(S)
    <3>1. upto \in Seq(Sq) /\ rest \in Seq(Sq)
      BY <1>1, <1>2
    <3> HIDE DEF Sq
    <3>2. upto \o rest \in Seq(Sq) /\ Len(upto \o rest) = Len(upto) + Len(rest)
      BY <3>1
    <3>3. QED
      BY <3>2 DEF Sq
  <2>4. \A i \in 1 .. Len(upto) + Len(rest) :
          (upto \o rest)[i] = IF i <= Len(upto) THEN upto[i] ELSE rest[i - Len(upto)]
    BY <1>1, <1>2, ConcatProperties
  <2>5. ASSUME NEW i \in 1 .. Len(s) PROVE (upto \o rest)[i] = s[i]
    <3>1. (upto \o rest)[i] = IF i <= k THEN upto[i] ELSE rest[i - k]
      <4>1. k + (Len(s) - k) = Len(s)
        BY <1>0
      <4>2. Len(upto) + Len(rest) = Len(s)
        BY <1>1, <1>2, <4>1
      <4>3. i \in 1 .. Len(upto) + Len(rest)
        BY <4>2
      <4>4. (upto \o rest)[i] = IF i <= Len(upto) THEN upto[i] ELSE rest[i - Len(upto)]
        BY <2>4, <4>3, Zenon
      <4>5. QED
        BY <1>2, <4>4
    <3>2. CASE i <= k
      BY <1>0, <2>1, <3>1, <3>2
    <3>3. CASE ~(i <= k)
      <4>1. i - k \in 1 .. Len(s) - k /\ (i - k) + k = i
        BY <1>0, <3>3
      <4>2. rest[i - k] = s[(i - k) + k]
        BY <2>2, <4>1
      <4>3. QED
        BY <3>1, <3>3, <4>1, <4>2
    <3>4. QED
      BY <3>2, <3>3
  <2>6. Len(upto \o rest) = Len(s)
    BY <1>0, <1>1, <1>2, <2>3
  <2>7. QED
    BY <2>3, <2>5, <2>6, SeqEqual
<1> HIDE DEF front, rest
<1>4. FlattenSeq(front) = <<>>
  BY <1>1, FlattenEmpties
<1>5. FlattenSeq(upto) = FlattenSeq(front) \o s[k]
  BY <1>0, <1>1, FlattenAppend
<1>6. FlattenSeq(upto) = s[k]
  BY <1>1, <1>4, <1>5
<1>7. FlattenSeq(s) = s[k] \o FlattenSeq(rest)
  BY <1>1, <1>2, <1>3, <1>6, FlattenConcat
<1>8. FlattenSeq(rest) \in Seq(S)
  BY <1>1, FlattenType
<1>9. Len(s[k]) \in Nat /\ Len(s[k]) # 0
  BY <1>1
<1>10. QED
  BY <1>1, <1>7, <1>8, <1>9
-----------------------------------------------------------------------------
(* h puts a sequence in the place of every element of t.                     *)
Spread(h, t) == FlattenSeq([i \in 1 .. Len(t) |-> h[t[i]]])

(* The sequences that h puts in. *)
LEMMA SpreadParts ==
    ASSUME NEW D, NEW S, NEW h \in [D -> Seq(S)], NEW t \in Seq(D)
    PROVE  [i \in 1 .. Len(t) |-> h[t[i]]] \in Seq(Seq(S))
<1>1. \A i \in 1 .. Len(t) : h[t[i]] \in Seq(S)
  OBVIOUS
<1>2. QED
  BY <1>1

(* Nothing spreads to nothing. *)
THEOREM SpreadNothing ==
    ASSUME NEW h
    PROVE  Spread(h, <<>>) = <<>>
<1>1. [i \in 1 .. Len(<<>>) |-> h[<<>>[i]]] = <<>>
  OBVIOUS
<1>2. QED
  BY <1>1, FlattenNothing DEF Spread

(* What comes out is over the set that h's sequences are over. *)
THEOREM SpreadType ==
    ASSUME NEW D, NEW S, NEW h \in [D -> Seq(S)], NEW t \in Seq(D)
    PROVE  Spread(h, t) \in Seq(S)
<1> DEFINE parts == [i \in 1 .. Len(t) |-> h[t[i]]]
<1>1. parts \in Seq(Seq(S))
  BY SpreadParts
<1> HIDE DEF parts
<1>2. FlattenSeq(parts) \in Seq(S)
  BY <1>1, FlattenType
<1>3. QED
  BY <1>2 DEF Spread, parts

(* Spreading goes over concatenation. *)
THEOREM SpreadConcat ==
    ASSUME NEW D, NEW S, NEW h \in [D -> Seq(S)], NEW t \in Seq(D), NEW u \in Seq(D)
    PROVE  Spread(h, t \o u) = Spread(h, t) \o Spread(h, u)
<1> DEFINE Parts(v) == [i \in 1 .. Len(v) |-> h[v[i]]]
<1>1. Parts(t) \in Seq(Seq(S)) /\ Parts(u) \in Seq(Seq(S))
  BY SpreadParts
<1>2. Parts(t \o u) = Parts(t) \o Parts(u)
  OBVIOUS
<1>3. QED
  BY <1>1, <1>2, FlattenConcat DEF Spread

(* The same, with t and u in the formula. *)
GoesOver(h, D) ==
    \A t \in Seq(D) : \A u \in Seq(D) : Spread(h, t \o u) = Spread(h, t) \o Spread(h, u)

(* Every function to sequences goes over concatenation. *)
LEMMA SpreadGoesOver ==
    ASSUME NEW D, NEW S, NEW h \in [D -> Seq(S)]
    PROVE  GoesOver(h, D)
  BY SpreadConcat DEF GoesOver

(* One element more. *)
THEOREM SpreadAppend ==
    ASSUME NEW D, NEW S, NEW h \in [D -> Seq(S)], NEW t \in Seq(D), NEW x \in D
    PROVE  Spread(h, Append(t, x)) = Spread(h, t) \o h[x]
<1> DEFINE Parts(v) == [i \in 1 .. Len(v) |-> h[v[i]]]
<1>1. Parts(t) \in Seq(Seq(S)) /\ h[x] \in Seq(S)
  BY SpreadParts
<1>2. Parts(Append(t, x)) = Append(Parts(t), h[x])
  OBVIOUS
<1>3. QED
  BY <1>1, <1>2, FlattenAppend DEF Spread

(* One element spreads to its sequence. *)
THEOREM SpreadOne ==
    ASSUME NEW D, NEW S, NEW h \in [D -> Seq(S)], NEW x \in D
    PROVE  Spread(h, <<x>>) = h[x]
<1>1. h[x] \in Seq(S) /\ [i \in 1 .. Len(<<x>>) |-> h[<<x>>[i]]] = <<h[x]>>
  OBVIOUS
<1>2. QED
  BY <1>1, FlattenOne DEF Spread

(* Spreading by g and then by h is spreading by both. *)
Combines(both, h, g, D) ==
    \A t \in Seq(D) : Spread(h, Spread(g, t)) = Spread(both, t)

(* Spreading twice is spreading once what the second makes of the first.     *)
THEOREM SpreadTwice ==
    ASSUME NEW D, NEW M, NEW S, NEW g \in [D -> Seq(M)], NEW h \in [M -> Seq(S)],
           NEW both \in [D -> Seq(S)], \A u \in D : both[u] = Spread(h, g[u])
    PROVE  Combines(both, h, g, D)
<1> SUFFICES ASSUME NEW t \in Seq(D)
             PROVE  Spread(h, Spread(g, t)) = Spread(both, t)
  BY DEF Combines
<1> DEFINE UpTo(k) == [i \in 1 .. k |-> t[i]]
           T == {k \in 0 .. Len(t) : Spread(h, Spread(g, UpTo(k))) # Spread(both, UpTo(k))}
<1>1. ASSUME T # {} PROVE FALSE
  <2>1. PICK m \in T : \A k \in T : m <= k
    <3>1. T \subseteq Nat
      OBVIOUS
    <3>2. QED
      BY <3>1, <1>1, LeastNatural
  <2>2. m \in 0 .. Len(t) /\ Spread(h, Spread(g, UpTo(m))) # Spread(both, UpTo(m))
    BY <2>1
  <2>3. m # 0
    <3>1. UpTo(0) = <<>>
      OBVIOUS
    <3>2. QED
      BY <2>2, <3>1, SpreadNothing
  <2>4. m - 1 \in 0 .. Len(t) /\ ~(m <= m - 1)
    BY <2>2, <2>3
  <2>5. Spread(h, Spread(g, UpTo(m - 1))) = Spread(both, UpTo(m - 1))
    <3>1. m - 1 \notin T
      BY <2>1, <2>4
    <3>2. QED
      BY <2>4, <3>1
  <2> DEFINE f == UpTo(m - 1)
             x == t[m]
  <2>6. f \in Seq(D) /\ x \in D
    BY <2>2, <2>3
  <2>7. UpTo(m) = Append(f, x)
    BY <2>2, <2>3
  <2>8. both[x] = Spread(h, g[x])
    BY <2>6
  <2> HIDE DEF f, x, UpTo, T
  <2>9. Spread(g, UpTo(m)) = Spread(g, f) \o g[x]
    BY <2>6, <2>7, SpreadAppend
  <2>10. Spread(g, f) \in Seq(M) /\ g[x] \in Seq(M)
    BY <2>6, SpreadType
  <2>11. Spread(h, Spread(g, UpTo(m))) = Spread(h, Spread(g, f)) \o Spread(h, g[x])
    <3>1. GoesOver(h, M)
      BY SpreadGoesOver
    <3>2. QED
      BY <2>9, <2>10, <3>1 DEF GoesOver
  <2>12. Spread(both, UpTo(m)) = Spread(both, f) \o both[x]
    BY <2>6, <2>7, SpreadAppend
  <2>13. QED
    BY <2>2, <2>5, <2>8, <2>11, <2>12 DEF f
<1>2. UpTo(Len(t)) = t /\ Len(t) \in 0 .. Len(t)
  OBVIOUS
<1>3. QED
  BY <1>1, <1>2

(* Every element in its own place changes nothing. *)
THEOREM SpreadSame ==
    ASSUME NEW D, NEW h, NEW t \in Seq(D), \A u \in D : h[u] = <<u>>
    PROVE  Spread(h, t) = t
<1> DEFINE one == [u \in D |-> <<u>>]
           UpTo(k) == [i \in 1 .. k |-> t[i]]
           T == {k \in 0 .. Len(t) : Spread(one, UpTo(k)) # UpTo(k)}
<1>1. one \in [D -> Seq(D)]
  OBVIOUS
<1>2. ASSUME T # {} PROVE FALSE
  <2>1. PICK m \in T : \A k \in T : m <= k
    <3>1. T \subseteq Nat
      OBVIOUS
    <3>2. QED
      BY <3>1, <1>2, LeastNatural
  <2>2. m \in 0 .. Len(t) /\ Spread(one, UpTo(m)) # UpTo(m)
    BY <2>1
  <2>3. m # 0
    <3>1. UpTo(0) = <<>>
      OBVIOUS
    <3>2. QED
      BY <2>2, <3>1, SpreadNothing
  <2>4. m - 1 \in 0 .. Len(t) /\ ~(m <= m - 1)
    BY <2>2, <2>3
  <2>5. Spread(one, UpTo(m - 1)) = UpTo(m - 1)
    <3>1. m - 1 \notin T
      BY <2>1, <2>4
    <3>2. QED
      BY <2>4, <3>1
  <2> DEFINE f == UpTo(m - 1)
             x == t[m]
  <2>6. f \in Seq(D) /\ x \in D
    BY <2>2, <2>3
  <2>7. UpTo(m) = Append(f, x)
    BY <2>2, <2>3
  <2>8. one[x] = <<x>>
    BY <2>6
  <2> HIDE DEF f, x, UpTo, T, one
  <2>9. Spread(one, UpTo(m)) = Spread(one, f) \o one[x]
    BY <1>1, <2>6, <2>7, SpreadAppend
  <2>10. f \o <<x>> = Append(f, x)
    BY <2>6
  <2>11. QED
    BY <2>2, <2>5, <2>7, <2>8, <2>9, <2>10 DEF f
<1>3. UpTo(Len(t)) = t /\ Len(t) \in 0 .. Len(t)
  OBVIOUS
<1>4. Spread(one, t) = t
  BY <1>2, <1>3
<1>5. [i \in 1 .. Len(t) |-> h[t[i]]] = [i \in 1 .. Len(t) |-> one[t[i]]]
  OBVIOUS
<1>6. QED
  BY <1>4, <1>5 DEF Spread
=============================================================================
