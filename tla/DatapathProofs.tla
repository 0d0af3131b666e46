--------------------------- MODULE DatapathProofs ---------------------------
(***************************************************************************)
(* What the operators of Datapath return, for any tables: the lemmas that  *)
(* the proofs about ProbeRun rest on.  Sequences are built by recursive    *)
(* functions, for which induction is over a set of naturals.               *)
(***************************************************************************)
EXTENDS Datapath, FiniteSetTheorems, FunctionTheorems, SequenceTheorems, TLAPS

-----------------------------------------------------------------------------
(* Naturals                                                                  *)

\* Every set of naturals that is not empty has a least member.
LEMMA LeastNatural ==
    ASSUME NEW S \in SUBSET Nat, S # {}
    PROVE  /\ Min(S) \in S
           /\ \A y \in S : Min(S) <= y
<1>1. PICK x \in S : \A y \in S : ~(<<y, x>> \in OpToRel(<, Nat))
  BY NatLessThanWellFounded, WFMin
<1>2. \A y \in S : x <= y
  <2> SUFFICES ASSUME NEW y \in S, y < x PROVE FALSE
    BY SMT
  <2>1. <<y, x>> \in OpToRel(<, Nat)
    BY DEF OpToRel
  <2> QED BY <1>1, <2>1
<1> QED BY <1>2 DEF Min

\* Induction, over a set: one with 0 and the successor of each of its members has all naturals.
LEMMA AllNaturals ==
    ASSUME NEW T, 0 \in T, \A n \in Nat : n \in T => n + 1 \in T
    PROVE  Nat \subseteq T
<1> DEFINE Rest == Nat \ T
<1> SUFFICES ASSUME Rest # {} PROVE FALSE
  OBVIOUS
<1>1. Min(Rest) \in Rest /\ \A y \in Rest : Min(Rest) <= y
  BY LeastNatural
<1>2. PICK n \in Rest : \A y \in Rest : n <= y
  BY <1>1
<1> HIDE DEF Rest
<1>3. n \in Nat /\ n # 0 /\ n \notin T
  BY DEF Rest
<1>4. n - 1 \in Nat /\ n - 1 \in T
  BY <1>2, <1>3 DEF Rest
<1>5. (n - 1) + 1 \in T
  BY <1>4
<1> QED BY <1>3, <1>5

\* f is what a value for 0 and a step from k to k + 1 compute, for the naturals to n.
Computes(f, T, base, step, n) ==
    /\ f \in [0 .. n -> T]
    /\ f[0] = base
    /\ \A k \in 1 .. n : f[k] = step[<<k - 1, f[k - 1]>>]

\* There is one.
LEMMA Recursion ==
    ASSUME NEW T, NEW base \in T, NEW step \in [Nat \X T -> T], NEW n \in Nat
    PROVE  \E f : Computes(f, T, base, step, n)
<1> DEFINE D == {m \in Nat : \E f : Computes(f, T, base, step, m)}
<1>1. 0 \in D
  <2> DEFINE f == [k \in 0 .. 0 |-> base]
  <2>1. Computes(f, T, base, step, 0)
    BY DEF Computes
  <2> QED BY <2>1
<1>2. ASSUME NEW m \in Nat, m \in D PROVE m + 1 \in D
  <2>1. PICK f : Computes(f, T, base, step, m)
    BY <1>2
  <2> DEFINE g == [k \in 0 .. m + 1 |-> IF k = m + 1 THEN step[<<m, f[m]>>] ELSE f[k]]
  <2>2. step[<<m, f[m]>>] \in T
    BY <2>1 DEF Computes
  <2>3. g \in [0 .. m + 1 -> T]
    BY <2>1, <2>2 DEF Computes
  <2>4. g[0] = base
    BY <2>1 DEF Computes
  <2>5. ASSUME NEW k \in 1 .. m + 1 PROVE g[k] = step[<<k - 1, g[k - 1]>>]
    <3>1. CASE k = m + 1
      <4>1. k \in 0 .. m + 1 /\ k - 1 = m /\ m \in 0 .. m + 1 /\ m # m + 1
        BY <3>1
      <4>2. g[k] = step[<<m, f[m]>>] /\ g[m] = f[m]
        BY <3>1, <4>1
      <4> QED BY <4>1, <4>2
    <3>2. CASE k # m + 1
      <4>1. k \in 1 .. m /\ k - 1 \in 0 .. m /\ k - 1 # m + 1
        BY <3>2
      <4>2. g[k] = f[k] /\ g[k - 1] = f[k - 1]
        BY <3>2, <4>1
      <4> QED BY <2>1, <4>1, <4>2 DEF Computes
    <3> QED BY <3>1, <3>2
  <2> HIDE DEF g
  <2>6. Computes(g, T, base, step, m + 1)
    BY <2>3, <2>4, <2>5 DEF Computes
  <2> QED BY <2>6
<1>3. Nat \subseteq D
  <2> HIDE DEF D
  <2> QED BY <1>1, <1>2, AllNaturals
<1> QED BY <1>3

-----------------------------------------------------------------------------
(* Parts of a sequence                                                       *)

\* What is appended is all that is new.
LEMMA AppendedRange ==
    ASSUME NEW T, NEW s \in Seq(T), NEW e \in T
    PROVE  Range(Append(s, e)) = Range(s) \cup {e}
<1>1. /\ Append(s, e) \in Seq(T) /\ Len(Append(s, e)) = Len(s) + 1 /\ Len(s) \in Nat
      /\ Append(s, e)[Len(s) + 1] = e
      /\ \A i \in 1 .. Len(s) : Append(s, e)[i] = s[i]
  OBVIOUS
<1>2. DOMAIN Append(s, e) = 1 .. Len(s) + 1 /\ DOMAIN s = 1 .. Len(s)
  BY <1>1
<1>3. 1 .. Len(s) + 1 = (1 .. Len(s)) \cup {Len(s) + 1}
  BY <1>1
<1> QED BY <1>1, <1>2, <1>3 DEF Range

\* What At computes, from the elements of s to the k-th one, is f[k].
Takes(f, T, s, places) ==
    /\ f \in [0 .. Len(s) -> Seq(T)]
    /\ f[0] = <<>>
    /\ \A k \in 1 .. Len(s) :
          f[k] = IF k \in places THEN Append(f[k - 1], s[k]) ELSE f[k - 1]
    /\ At(s, places) = f[Len(s)]

\* It is defined.
LEMMA AtIsDefined ==
    ASSUME NEW T, NEW s \in Seq(T), NEW places
    PROVE  \E f : Takes(f, T, s, places)
<1> DEFINE Body(f, k) == IF k \in places THEN Append(f[k - 1], s[k]) ELSE f[k - 1]
           Taken(f) == f = [k \in 0 .. Len(s) |-> IF k = 0 THEN <<>> ELSE Body(f, k)]
           step == [x \in Nat \X Seq(T) |->
                       IF x[1] + 1 \in places /\ x[1] + 1 \in 1 .. Len(s)
                       THEN Append(x[2], s[x[1] + 1]) ELSE x[2]]
<1>1. Len(s) \in Nat
  OBVIOUS
<1>2. step \in [Nat \X Seq(T) -> Seq(T)]
  <2> SUFFICES ASSUME NEW k \in Nat, NEW r \in Seq(T)
               PROVE  (IF k + 1 \in places /\ k + 1 \in 1 .. Len(s)
                       THEN Append(r, s[k + 1]) ELSE r) \in Seq(T)
    OBVIOUS
  <2> QED OBVIOUS
<1>3. <<>> \in Seq(T)
  OBVIOUS
<1>4. PICK f : Computes(f, Seq(T), <<>>, step, Len(s))
  <2> HIDE DEF step
  <2> QED BY <1>1, <1>2, <1>3, Recursion
<1>5. ASSUME NEW k \in 1 .. Len(s) PROVE f[k] = Body(f, k)
  <2>1. k - 1 \in Nat /\ k - 1 \in 0 .. Len(s) /\ f[k - 1] \in Seq(T)
    <3> HIDE DEF step
    <3>1. f \in [0 .. Len(s) -> Seq(T)]
      BY <1>4 DEF Computes
    <3> QED BY <1>1, <3>1
  <2>2. step[<<k - 1, f[k - 1]>>] = IF (k - 1) + 1 \in places /\ (k - 1) + 1 \in 1 .. Len(s)
                                THEN Append(f[k - 1], s[(k - 1) + 1]) ELSE f[k - 1]
    BY <2>1
  <2>3. (k - 1) + 1 = k
    BY <1>1
  <2>4. f[k] = step[<<k - 1, f[k - 1]>>]
    BY <1>4 DEF Computes
  <2> QED BY <2>2, <2>3, <2>4
<1> HIDE DEF step
<1>6. Taken(f)
  <2> DEFINE g == [k \in 0 .. Len(s) |-> IF k = 0 THEN <<>> ELSE Body(f, k)]
  <2>1. ASSUME NEW k \in 0 .. Len(s) PROVE f[k] = g[k]
    <3>1. CASE k = 0
      BY <1>4, <3>1 DEF Computes
    <3>2. CASE k # 0
      <4>1. k \in 1 .. Len(s)
        BY <1>1, <3>2
      <4> QED BY <1>5, <3>2, <4>1
    <3> QED BY <3>1, <3>2
  <2>2. f = [k \in 0 .. Len(s) |-> f[k]]
    BY <1>4 DEF Computes
  <2> QED BY <2>1, <2>2
<1> DEFINE c == CHOOSE g : Taken(g)
<1>7. Taken(c)
  <2> HIDE DEF Taken
  <2> QED BY <1>6
<1>8. At(s, places) = c[Len(s)]
  BY DEF At
<1>9. \A k \in 0 .. Len(s) : c[k] = IF k = 0 THEN <<>> ELSE Body(c, k)
  <2> HIDE DEF c
  <2> QED BY <1>7
<1> HIDE DEF c
<1>10. c \in [0 .. Len(s) -> Seq(T)]
  <2> DEFINE D == {k \in Nat : k \in 0 .. Len(s) => c[k] \in Seq(T)}
  <2>1. 0 \in D
    <3>1. 0 \in 0 .. Len(s)
      BY <1>1
    <3>2. c[0] = <<>>
      BY <1>9, <3>1
    <3> QED BY <1>3, <3>2
  <2>2. ASSUME NEW k \in Nat, k \in D PROVE k + 1 \in D
    <3> SUFFICES ASSUME k + 1 \in 0 .. Len(s) PROVE c[k + 1] \in Seq(T)
      OBVIOUS
    <3>1. k \in 0 .. Len(s) /\ c[k] \in Seq(T) /\ k + 1 # 0 /\ (k + 1) - 1 = k
      BY <1>1, <2>2
    <3>2. c[k + 1] = IF k + 1 \in places THEN Append(c[k], s[k + 1]) ELSE c[k]
      BY <1>9, <3>1
    <3>3. s[k + 1] \in T
      BY <1>1
    <3> QED BY <3>1, <3>2, <3>3
  <2> HIDE DEF D
  <2>3. Nat \subseteq D
    BY <2>1, <2>2, AllNaturals
  <2>4. \A k \in 0 .. Len(s) : c[k] \in Seq(T)
    BY <2>3, <1>1 DEF D
  <2> QED BY <1>7, <2>4
<1>11. c[0] = <<>> /\ \A k \in 1 .. Len(s) : c[k] = Body(c, k)
  BY <1>1, <1>9
<1>12. Takes(c, T, s, places)
  BY <1>8, <1>10, <1>11 DEF Takes
<1> QED BY <1>12

\* The elements at the places, and no others.
LEMMA AtRange ==
    ASSUME NEW T, NEW s \in Seq(T), NEW places
    PROVE  /\ At(s, places) \in Seq(T)
           /\ Range(At(s, places)) = {s[k] : k \in places \cap DOMAIN s}
<1>0. PICK f : Takes(f, T, s, places)
  BY AtIsDefined
<1>1. /\ f \in [0 .. Len(s) -> Seq(T)]
      /\ f[0] = <<>>
      /\ \A k \in 1 .. Len(s) :
            f[k] = IF k \in places THEN Append(f[k - 1], s[k]) ELSE f[k - 1]
      /\ At(s, places) = f[Len(s)]
  BY <1>0 DEF Takes
<1>2. Len(s) \in Nat /\ DOMAIN s = 1 .. Len(s)
  OBVIOUS
<1> DEFINE Upto(k) == {s[j] : j \in places \cap 1 .. k}
           D == {k \in Nat : k \in 0 .. Len(s) => Range(f[k]) = Upto(k)}
<1>3. 0 \in D
  <2>1. Upto(0) = {}
    OBVIOUS
  <2>2. Range(<<>>) = {}
    BY DEF Range
  <2> QED BY <1>1, <2>1, <2>2
<1>4. ASSUME NEW k \in Nat, k \in D PROVE k + 1 \in D
  <2> SUFFICES ASSUME k + 1 \in 0 .. Len(s) PROVE Range(f[k + 1]) = Upto(k + 1)
    OBVIOUS
  <2>1. k \in 0 .. Len(s) /\ k + 1 \in 1 .. Len(s) /\ (k + 1) - 1 = k
    BY <1>2
  <2>2. Range(f[k]) = Upto(k) /\ f[k] \in Seq(T)
    BY <1>1, <1>4, <2>1
  <2>3. f[k + 1] = IF k + 1 \in places THEN Append(f[k], s[k + 1]) ELSE f[k]
    BY <1>1, <2>1
  <2>4. CASE k + 1 \in places
    <3>1. f[k + 1] = Append(f[k], s[k + 1]) /\ s[k + 1] \in T
      BY <2>1, <2>3, <2>4
    <3>2. Range(f[k + 1]) = Range(f[k]) \cup {s[k + 1]}
      BY <2>2, <3>1, AppendedRange
    <3>3. places \cap (1 .. k + 1) = (places \cap (1 .. k)) \cup {k + 1}
      BY <2>4
    <3>4. Upto(k + 1) = Upto(k) \cup {s[k + 1]}
      BY <3>3
    <3> QED BY <2>2, <3>2, <3>4
  <2>5. CASE k + 1 \notin places
    <3>1. places \cap (1 .. k + 1) = places \cap (1 .. k)
      BY <2>5
    <3>2. Upto(k + 1) = Upto(k)
      BY <3>1
    <3> QED BY <2>2, <2>3, <2>5, <3>2
  <2> QED BY <2>4, <2>5
<1>5. Nat \subseteq D
  <2> HIDE DEF D
  <2> QED BY <1>3, <1>4, AllNaturals
<1>6. Range(f[Len(s)]) = Upto(Len(s)) /\ f[Len(s)] \in Seq(T)
  <2> HIDE DEF Upto
  <2> QED BY <1>1, <1>2, <1>5
<1> QED BY <1>1, <1>2, <1>6

\* All places: the sequence itself.
LEMMA AtAll ==
    ASSUME NEW T, NEW s \in Seq(T), NEW places, DOMAIN s \subseteq places
    PROVE  At(s, places) = s
<1>0. PICK f : Takes(f, T, s, places)
  BY AtIsDefined
<1>1. /\ f \in [0 .. Len(s) -> Seq(T)]
      /\ f[0] = <<>>
      /\ \A k \in 1 .. Len(s) :
            f[k] = IF k \in places THEN Append(f[k - 1], s[k]) ELSE f[k - 1]
      /\ At(s, places) = f[Len(s)]
  BY <1>0 DEF Takes
<1>2. Len(s) \in Nat /\ DOMAIN s = 1 .. Len(s) /\ 1 .. Len(s) \subseteq places
  OBVIOUS
<1> DEFINE Same(k) == Len(f[k]) = k /\ \A j \in 1 .. k : f[k][j] = s[j]
           D == {k \in Nat : k \in 0 .. Len(s) => Same(k)}
<1>3. 0 \in D
  BY <1>1
<1>4. ASSUME NEW k \in Nat, k \in D PROVE k + 1 \in D
  <2> SUFFICES ASSUME k + 1 \in 0 .. Len(s) PROVE Same(k + 1)
    OBVIOUS
  <2>1. k \in 0 .. Len(s) /\ k + 1 \in 1 .. Len(s) /\ (k + 1) - 1 = k /\ k + 1 \in places
    BY <1>2
  <2>2. Same(k) /\ f[k] \in Seq(T)
    BY <1>1, <1>4, <2>1
  <2>3. /\ f[k + 1] = IF k + 1 \in places THEN Append(f[k], s[k + 1]) ELSE f[k]
        /\ s[k + 1] \in T
    <3>1. f[k + 1] = IF k + 1 \in places THEN Append(f[k], s[k + 1]) ELSE f[k]
      BY <1>1, <2>1
    <3>2. s[k + 1] \in T
      BY <2>1
    <3> QED BY <3>1, <3>2
  <2>4. /\ Len(f[k + 1]) = Len(f[k]) + 1
        /\ f[k + 1][k + 1] = s[k + 1]
        /\ \A j \in 1 .. k : f[k + 1][j] = f[k][j]
    BY <2>1, <2>2, <2>3
  <2>5. ASSUME NEW j \in 1 .. k + 1 PROVE f[k + 1][j] = s[j]
    <3>1. j = k + 1 \/ j \in 1 .. k
      OBVIOUS
    <3> QED BY <2>2, <2>4, <3>1
  <2>6. Len(f[k + 1]) = k + 1
    BY <2>2, <2>4
  <2> QED BY <2>5, <2>6
<1>5. Nat \subseteq D
  <2> HIDE DEF D
  <2> QED BY <1>3, <1>4, AllNaturals
<1>6. Same(Len(s)) /\ f[Len(s)] \in Seq(T)
  <2> HIDE DEF Same
  <2> QED BY <1>1, <1>2, <1>5
<1> QED BY <1>1, <1>6, SeqEqual

-----------------------------------------------------------------------------
(* Sequences, whatever is in them                                            *)

IsSequence(s) == s \in Seq(Range(s))

\* A sequence of a type is one.
LEMMA Sequence ==
    ASSUME NEW T, NEW s \in Seq(T)
    PROVE  IsSequence(s) /\ Range(s) \subseteq T
<1>1. DOMAIN s = 1 .. Len(s) /\ Len(s) \in Nat /\ \A i \in 1 .. Len(s) : s[i] \in T
  OBVIOUS
<1>2. s \in [1 .. Len(s) -> Range(s)]
  BY <1>1 DEF Range
<1>3. s \in Seq(Range(s))
  BY <1>1, <1>2
<1> QED BY <1>1, <1>3 DEF IsSequence, Range

\* So is a function on the numbers to n.
LEMMA Listed ==
    ASSUME NEW n \in Nat, NEW T, NEW f \in [1 .. n -> T]
    PROVE  IsSequence(f) /\ DOMAIN f = 1 .. n /\ Len(f) = n
<1>1. f \in Seq(T) /\ DOMAIN f = 1 .. n /\ Len(f) = n
  OBVIOUS
<1> QED BY <1>1, Sequence

\* A concatenation has the elements of both.
LEMMA Concatenated ==
    ASSUME NEW s, IsSequence(s), NEW t, IsSequence(t)
    PROVE  IsSequence(s \o t) /\ Range(s \o t) = Range(s) \cup Range(t)
<1> DEFINE T == Range(s) \cup Range(t)
<1>1. s \in Seq(T) /\ t \in Seq(T)
  BY SeqMonotonic DEF IsSequence
<1>2. /\ s \o t \in Seq(T) /\ DOMAIN (s \o t) = 1 .. Len(s) + Len(t)
      /\ DOMAIN s = 1 .. Len(s) /\ DOMAIN t = 1 .. Len(t) /\ Len(s) \in Nat /\ Len(t) \in Nat
      /\ \A i \in 1 .. Len(s) : (s \o t)[i] = s[i]
      /\ \A i \in 1 .. Len(t) : (s \o t)[Len(s) + i] = t[i]
  <2> HIDE DEF T
  <2> QED BY <1>1
<1>3. IsSequence(s \o t) /\ Range(s \o t) \subseteq T
  BY <1>2, Sequence
<1>4. ASSUME NEW x \in Range(s) PROVE x \in Range(s \o t)
  <2>1. PICK i \in 1 .. Len(s) : x = s[i]
    BY <1>2 DEF Range
  <2>2. i \in 1 .. Len(s) + Len(t) /\ (s \o t)[i] = x
    BY <1>2, <2>1
  <2> HIDE DEF T
  <2> QED BY <1>2, <2>2 DEF Range
<1>5. ASSUME NEW x \in Range(t) PROVE x \in Range(s \o t)
  <2>1. PICK i \in 1 .. Len(t) : x = t[i]
    BY <1>2 DEF Range
  <2>2. Len(s) + i \in 1 .. Len(s) + Len(t) /\ (s \o t)[Len(s) + i] = x
    BY <1>2, <2>1
  <2> HIDE DEF T
  <2> QED BY <1>2, <2>2 DEF Range
<1> QED BY <1>3, <1>4, <1>5

\* The empty sequence and a sequence of one.
LEMMA Short ==
    /\ IsSequence(<<>>) /\ Range(<<>>) = {}
    /\ \A x : IsSequence(<<x>>) /\ Range(<<x>>) = {x}
<1>1. IsSequence(<<>>) /\ Range(<<>>) = {}
  BY DEF IsSequence, Range
<1>2. ASSUME NEW x PROVE IsSequence(<<x>>) /\ Range(<<x>>) = {x}
  <2>1. <<x>> \in Seq({x}) /\ DOMAIN <<x>> = 1 .. 1 /\ <<x>>[1] = x
    OBVIOUS
  <2>2. Range(<<x>>) = {x}
    BY <2>1 DEF Range
  <2> QED BY <2>1, <2>2 DEF IsSequence
<1> QED BY <1>1, <1>2

\* Elements at places are elements.
LEMMA AtElements ==
    ASSUME NEW s, IsSequence(s), NEW places
    PROVE  /\ IsSequence(At(s, places))
           /\ \A x : x \in Range(At(s, places)) <=> \E k \in places \cap DOMAIN s : x = s[k]
<1>1. At(s, places) \in Seq(Range(s)) /\ Range(At(s, places)) = {s[k] : k \in places \cap DOMAIN s}
  BY AtRange DEF IsSequence
<1> QED BY <1>1, Sequence

\* What FlattenSeq computes, from the first sequence to the k-th, is f[k].
Flattens(f, T, seqs) ==
    /\ f \in [0 .. Len(seqs) -> Seq(T)]
    /\ f[0] = <<>>
    /\ \A k \in 1 .. Len(seqs) : f[k] = f[k - 1] \o seqs[k]
    /\ FlattenSeq(seqs) = f[Len(seqs)]

\* It is defined.
LEMMA FlattenIsDefined ==
    ASSUME NEW T, NEW seqs, IsSequence(seqs), \A i \in DOMAIN seqs : seqs[i] \in Seq(T)
    PROVE  \E f : Flattens(f, T, seqs)
<1> DEFINE n == Len(seqs)
           step == [x \in Nat \X Seq(T) |-> IF x[1] + 1 \in 1 .. n THEN x[2] \o seqs[x[1] + 1] ELSE x[2]]
           Flatten(g) == g = [i \in 1 .. n |-> IF i = 1 THEN seqs[i] ELSE g[i - 1] \o seqs[i]]
<1>1. n \in Nat /\ DOMAIN seqs = 1 .. n
  BY DEF IsSequence
<1>2. step \in [Nat \X Seq(T) -> Seq(T)]
  <2> SUFFICES ASSUME NEW k \in Nat, NEW r \in Seq(T)
               PROVE  (IF k + 1 \in 1 .. n THEN r \o seqs[k + 1] ELSE r) \in Seq(T)
    OBVIOUS
  <2> HIDE DEF n
  <2>1. CASE k + 1 \in 1 .. n
    <3>1. seqs[k + 1] \in Seq(T)
      BY <1>1, <2>1
    <3> QED BY <2>1, <3>1
  <2> QED BY <2>1
<1>3. PICK f : Computes(f, Seq(T), <<>>, step, n)
  <2>1. <<>> \in Seq(T)
    OBVIOUS
  <2> HIDE DEF step, n
  <2> QED BY <1>1, <1>2, <2>1, Recursion
<1>4. f \in [0 .. n -> Seq(T)] /\ f[0] = <<>>
  <2> HIDE DEF step, n
  <2> QED BY <1>3 DEF Computes
<1>5. ASSUME NEW k \in 1 .. n PROVE f[k] = f[k - 1] \o seqs[k]
  <2>1. k - 1 \in Nat /\ k - 1 \in 0 .. n /\ f[k - 1] \in Seq(T) /\ (k - 1) + 1 = k
    <3> HIDE DEF n
    <3> QED BY <1>1, <1>4
  <2>2. step[<<k - 1, f[k - 1]>>] = f[k - 1] \o seqs[k]
    <3>1. step[<<k - 1, f[k - 1]>>]
            = IF (k - 1) + 1 \in 1 .. n THEN f[k - 1] \o seqs[(k - 1) + 1] ELSE f[k - 1]
      BY <2>1
    <3> HIDE DEF step, n
    <3> QED BY <2>1, <3>1
  <2>3. f[k] = step[<<k - 1, f[k - 1]>>]
    <3> HIDE DEF step, n
    <3> QED BY <1>3 DEF Computes
  <2> QED BY <2>2, <2>3
<1> HIDE DEF step
<1>6. CASE n = 0
  <2>1. seqs = <<>>
    BY <1>6 DEF IsSequence
  <2>2. FlattenSeq(seqs) = <<>>
    BY <1>6, <2>1 DEF FlattenSeq
  <2>3. f[n] = <<>>
    BY <1>4, <1>6
  <2> QED BY <1>4, <1>5, <2>2, <2>3 DEF Flattens
<1>7. CASE n # 0
  <2> DEFINE c == CHOOSE g : Flatten(g)
             h == [i \in 1 .. n |-> f[i]]
  <2>1. Flatten(h)
    <3>1. ASSUME NEW i \in 1 .. n
          PROVE  h[i] = IF i = 1 THEN seqs[i] ELSE h[i - 1] \o seqs[i]
      <4>1. h[i] = f[i - 1] \o seqs[i]
        BY <1>5
      <4>2. CASE i = 1
        <5>1. i - 1 = 0 /\ seqs[i] \in Seq(T)
          BY <1>1, <4>2
        <5>2. <<>> \o seqs[i] = seqs[i]
          BY <5>1
        <5> HIDE DEF h, n
        <5> QED BY <1>4, <4>1, <4>2, <5>1, <5>2
      <4>3. CASE i # 1
        <5>1. i - 1 \in 1 .. n
          <6> HIDE DEF n
          <6> QED BY <1>1, <4>3
        <5>2. h[i - 1] = f[i - 1]
          BY <5>1
        <5> HIDE DEF h
        <5> QED BY <4>1, <4>3, <5>2
      <4> QED BY <4>2, <4>3
    <3>2. h = [i \in 1 .. n |-> h[i]]
      OBVIOUS
    <3> HIDE DEF h, n
    <3> QED BY <3>1, <3>2
  <2>2. Flatten(c)
    <3> HIDE DEF Flatten, h
    <3> QED BY <2>1
  <2>3. FlattenSeq(seqs) = c[n]
    BY <1>7 DEF FlattenSeq
  <2> HIDE DEF c
  <2> DEFINE D == {k \in Nat : k + 1 \in 1 .. n => c[k + 1] = f[k + 1]}
  <2>4. ASSUME NEW k \in 1 .. n
        PROVE  /\ c[k] = IF k = 1 THEN seqs[k] ELSE c[k - 1] \o seqs[k]
               /\ h[k] = IF k = 1 THEN seqs[k] ELSE h[k - 1] \o seqs[k]
               /\ h[k] = f[k]
    <3>1. h[k] = f[k]
      OBVIOUS
    <3> HIDE DEF h, n
    <3> QED BY <2>1, <2>2, <3>1
  <2> HIDE DEF h
  <2>5. 0 \in D
    <3>1. 1 \in 1 .. n /\ 0 + 1 = 1
      <4> HIDE DEF n
      <4> QED BY <1>1, <1>7
    <3>2. c[1] = seqs[1] /\ f[1] = seqs[1]
      BY <2>4, <3>1
    <3> QED BY <3>1, <3>2
  <2>6. ASSUME NEW k \in Nat, k \in D PROVE k + 1 \in D
    <3> SUFFICES ASSUME (k + 1) + 1 \in 1 .. n PROVE c[(k + 1) + 1] = f[(k + 1) + 1]
      OBVIOUS
    <3>1. k + 1 \in 1 .. n /\ (k + 1) + 1 # 1 /\ ((k + 1) + 1) - 1 = k + 1
      <4> HIDE DEF n
      <4> QED BY <1>1
    <3>2. c[k + 1] = f[k + 1]
      BY <2>6, <3>1
    <3>3. c[(k + 1) + 1] = c[k + 1] \o seqs[(k + 1) + 1]
      BY <2>4, <3>1
    <3>4. f[(k + 1) + 1] = f[k + 1] \o seqs[(k + 1) + 1]
      BY <1>5, <3>1
    <3> QED BY <3>2, <3>3, <3>4
  <2>7. Nat \subseteq D
    <3> HIDE DEF D
    <3> QED BY <2>5, <2>6, AllNaturals
  <2>8. c[n] = f[n]
    <3>1. n - 1 \in Nat /\ (n - 1) + 1 = n /\ n \in 1 .. n
      <4> HIDE DEF n
      <4> QED BY <1>1, <1>7
    <3>2. n - 1 \in D
      BY <2>7, <3>1
    <3> HIDE DEF n
    <3> QED BY <3>1, <3>2
  <2> QED BY <1>4, <1>5, <2>3, <2>8 DEF Flattens
<1> QED BY <1>6, <1>7

\* A flattened sequence has the elements of its sequences.
LEMMA Flattened ==
    ASSUME NEW seqs, IsSequence(seqs), \A i \in DOMAIN seqs : IsSequence(seqs[i])
    PROVE  /\ IsSequence(FlattenSeq(seqs))
           /\ \A x : x \in Range(FlattenSeq(seqs)) <=> \E i \in DOMAIN seqs : x \in Range(seqs[i])
<1> DEFINE T == UNION {Range(seqs[i]) : i \in DOMAIN seqs}
           n == Len(seqs)
<1>1. n \in Nat /\ DOMAIN seqs = 1 .. n
  BY DEF IsSequence
<1>2. ASSUME NEW i \in DOMAIN seqs PROVE seqs[i] \in Seq(T)
  <2>1. seqs[i] \in Seq(Range(seqs[i])) /\ Range(seqs[i]) \subseteq T
    BY DEF IsSequence
  <2> HIDE DEF T
  <2> QED BY <2>1, SeqMonotonic
<1>3. PICK f : Flattens(f, T, seqs)
  <2> HIDE DEF T
  <2> QED BY <1>2, FlattenIsDefined
<1> HIDE DEF T
<1>4. /\ f \in [0 .. n -> Seq(T)] /\ f[0] = <<>> /\ FlattenSeq(seqs) = f[n]
      /\ \A k \in 1 .. n : f[k] = f[k - 1] \o seqs[k]
  BY <1>3 DEF Flattens
<1> HIDE DEF n
<1> DEFINE Upto(k) == \A x : x \in Range(f[k]) <=> \E i \in 1 .. k : x \in Range(seqs[i])
           D == {k \in Nat : k \in 0 .. n => Upto(k)}
<1>5. 0 \in D
  <2>1. Range(f[0]) = {}
    BY <1>4, Short
  <2>2. Upto(0)
    BY <2>1
  <2> QED BY <2>2
<1>6. ASSUME NEW k \in Nat, k \in D PROVE k + 1 \in D
  <2> SUFFICES ASSUME k + 1 \in 0 .. n PROVE Upto(k + 1)
    OBVIOUS
  <2>1. k \in 0 .. n /\ k + 1 \in 1 .. n /\ (k + 1) - 1 = k
    BY <1>1
  <2>2. Upto(k)
    BY <1>6, <2>1
  <2>3. f[k + 1] = f[k] \o seqs[k + 1]
    BY <1>4, <2>1
  <2>4. IsSequence(f[k]) /\ IsSequence(seqs[k + 1])
    <3>1. f[k] \in Seq(T)
      BY <1>4, <2>1
    <3> QED BY <1>1, <2>1, <3>1, Sequence
  <2>5. Range(f[k + 1]) = Range(f[k]) \cup Range(seqs[k + 1])
    BY <2>3, <2>4, Concatenated
  <2>6. \A i : i \in 1 .. k + 1 <=> (i \in 1 .. k \/ i = k + 1)
    OBVIOUS
  <2> QED BY <2>2, <2>5, <2>6
<1>7. Nat \subseteq D
  <2> HIDE DEF D
  <2> QED BY <1>5, <1>6, AllNaturals
<1>8. Upto(n)
  BY <1>1, <1>7
<1>9. f[n] \in Seq(T)
  BY <1>1, <1>4
<1> QED BY <1>1, <1>4, <1>8, <1>9, Sequence

-----------------------------------------------------------------------------
(* What is programmed                                                        *)

\* A record of every line.
Fields == {"table", "chain", "rule", "dst", "protocol", "port", "comment", "interface", "to", "jump"}

\* A line about the datapath of a service: its entry (or the rule before it), the jump from its chain to that of a pod, the
\* translation to the address of the pod.  What is cut off may lack the jump or name a chain
\* that does not exist, or lack the end of the address.
EntryOf(l, svc, key) ==
    /\ l.chain = Fixed("KUBE-SERVICES") /\ l.dst = svc.ip /\ l.port = key[2] /\ l.to = None
    /\ l.jump \in {Chain("KUBE-SVC", key), Chain("KUBE-SVC", <<"cut">>), None,
                   Fixed("KUBE-MARK-MASQ"), Chain("KUBE-MARK-MASQ", <<"cut">>)}

HopOf(l, pod, key) ==
    /\ l.chain = Chain("KUBE-SVC", key) /\ l.comment \in {pod.ip, None} /\ l.to = None
    /\ l.jump \in {Chain("KUBE-SEP", <<key[1], key[2], key[3], pod.name>>), Chain("KUBE-SEP", <<"cut">>), None}

EndOf(l, pod, key) ==
    /\ l.chain = Chain("KUBE-SEP", <<key[1], key[2], key[3], pod.name>>) /\ l.to \in {pod.ip, None, "cut"}
    /\ l.jump = None

About(l, svc, port, protocol, pod) ==
    \/ EntryOf(l, svc, <<svc.name, port, protocol>>)
    \/ HopOf(l, pod, <<svc.name, port, protocol>>)
    \/ EndOf(l, pod, <<svc.name, port, protocol>>)

\* A rule of the table nat is one of these.
Programmed(l, c) ==
    /\ DOMAIN l = Fields
    /\ l.table = "nat" /\ l.rule =>
          \E svc \in Range(c.others \o c.services), pod \in Range(c.pods) :
              \E port, protocol : About(l, svc, port, protocol, pod)

\* All lines are.
AllProgrammed(lines, c) == IsSequence(lines) /\ \A l \in Range(lines) : Programmed(l, c)

\* So are the lines of two such sequences together.
LEMMA ProgrammedTogether ==
    ASSUME NEW c, NEW s, AllProgrammed(s, c), NEW t, AllProgrammed(t, c)
    PROVE  AllProgrammed(s \o t, c)
BY Concatenated DEF AllProgrammed

\* Declarations are.
LEMMA DeclarationProgrammed ==
    ASSUME NEW c, NEW table, NEW chain
    PROVE  Programmed(Declaration(table, chain), c) /\ AllProgrammed(<<Declaration(table, chain)>>, c)
<1>1. Programmed(Declaration(table, chain), c)
  BY DEF Declaration, Programmed, Fields
<1> QED BY <1>1, Short DEF AllProgrammed

\* And what is flattened.
LEMMA ProgrammedFlat ==
    ASSUME NEW c, NEW seqs, IsSequence(seqs), \A i \in DOMAIN seqs : AllProgrammed(seqs[i], c)
    PROVE  AllProgrammed(FlattenSeq(seqs), c)
BY Flattened DEF AllProgrammed

\* A list of them that a function gives.
LEMMA ProgrammedList ==
    ASSUME NEW c, NEW n \in Nat, NEW F, DOMAIN F = 1 .. n, F = [i \in 1 .. n |-> F[i]],
           \A i \in 1 .. n : Programmed(F[i], c)
    PROVE  AllProgrammed(F, c)
<1>1. F \in [1 .. n -> {F[i] : i \in 1 .. n}]
  OBVIOUS
<1>2. IsSequence(F)
  BY <1>1, Listed
<1> QED BY <1>2 DEF AllProgrammed, Range

\* No lines are.
LEMMA NoneProgrammed == \A c : AllProgrammed(<<>>, c)
BY Short DEF AllProgrammed

\* A line of one of the forms is.
LEMMA OneOfThree ==
    ASSUME NEW c, NEW svc \in Range(c.others \o c.services), NEW port, NEW protocol,
           NEW pod \in Range(c.pods), NEW l, DOMAIN l = Fields,
           \/ EntryOf(l, svc, <<svc.name, port, protocol>>)
           \/ HopOf(l, pod, <<svc.name, port, protocol>>)
           \/ EndOf(l, pod, <<svc.name, port, protocol>>)
    PROVE  Programmed(l, c)
<1>1. About(l, svc, port, protocol, pod)
  BY DEF About
<1> QED BY <1>1 DEF Programmed

\* The rules of a port of a service are.
LEMMA ServicePortProgrammed ==
    ASSUME NEW c, IsSequence(c.pods), NEW svc \in Range(c.others \o c.services),
           NEW j
    PROVE  AllProgrammed(ServicePort(svc, j, c), c)
<1> DEFINE port == svc.ports[j]
           key  == <<svc.name, port, protocolOf(svc.ports, j)>>
           own  == Chain("KUBE-SVC", key)
           eps  == endpointsOf(svc, c)
           EndpointChain(i) == Chain("KUBE-SEP", <<key[1], key[2], key[3], eps[i].name>>)
           Entry(chain) == [Declaration("nat", Fixed("KUBE-SERVICES")) EXCEPT !.rule = TRUE,
                                !.dst = svc.ip, !.protocol = key[3], !.port = port, !.jump = chain]
           mark == Entry(Fixed("KUBE-MARK-MASQ"))
           entry == Entry(own)
           marks == IF c.masquerades THEN <<mark>> ELSE <<>>
           hops == [i \in DOMAIN eps |->
                      [Declaration("nat", own) EXCEPT !.rule = TRUE, !.jump = EndpointChain(i),
                           !.comment = IF c.comments THEN eps[i].ip ELSE None]]
           ends == [i \in DOMAIN eps |->
                      [Declaration("nat", EndpointChain(i)) EXCEPT !.rule = TRUE, !.to = eps[i].ip]]
<1>1. IsSequence(eps) /\ Range(eps) \subseteq Range(c.pods)
  <2> DEFINE places == {k \in DOMAIN c.pods : /\ c.pods[k].phase = "Running"
                                              /\ svc.group # None /\ c.pods[k].group = svc.group}
  <2>1. eps = At(c.pods, places)
    BY DEF endpointsOf
  <2> HIDE DEF places, eps
  <2> QED BY <2>1, AtElements DEF Range
<1>2. Len(eps) \in Nat /\ DOMAIN eps = 1 .. Len(eps)
  BY <1>1 DEF IsSequence
<1>3. ASSUME NEW i \in DOMAIN eps PROVE eps[i] \in Range(c.pods)
  BY <1>1 DEF Range
<1>4. ServicePort(svc, j, c) = IF svc.ip = None \/ eps = <<>> THEN <<>> ELSE marks \o <<entry>> \o hops \o ends
  BY DEF ServicePort
<1> HIDE DEF eps
<1>5. CASE svc.ip = None \/ eps = <<>>
  <2> HIDE DEF entry, mark, marks, hops, ends
  <2> QED BY <1>4, <1>5, NoneProgrammed
<1>6. CASE ~(svc.ip = None \/ eps = <<>>)
  <2>1. 1 \in DOMAIN eps
    BY <1>1, <1>2, <1>6 DEF IsSequence
  <2>2. eps[1] \in Range(c.pods)
    BY <1>3, <2>1
  <2>3. AllProgrammed(<<entry>>, c) /\ AllProgrammed(marks, c)
    <3>1. /\ EntryOf(entry, svc, key) /\ DOMAIN entry = Fields
          /\ EntryOf(mark, svc, key) /\ DOMAIN mark = Fields
      BY DEF EntryOf, Declaration, Fields
    <3>2. Programmed(entry, c) /\ Programmed(mark, c)
      <4> HIDE DEF entry, mark
      <4> QED BY <3>1, <2>2, OneOfThree
    <3> HIDE DEF entry, mark
    <3>3. AllProgrammed(<<entry>>, c) /\ AllProgrammed(<<mark>>, c)
      BY <3>2, Short DEF AllProgrammed
    <3> QED BY <3>3, NoneProgrammed
  <2>4. AllProgrammed(hops, c)
    <3>1. ASSUME NEW i \in DOMAIN eps PROVE Programmed(hops[i], c)
      <4>1. HopOf(hops[i], eps[i], key) /\ DOMAIN hops[i] = Fields
        BY DEF HopOf, Declaration, Fields
      <4>2. eps[i] \in Range(c.pods)
        BY <1>3
      <4> HIDE DEF hops
      <4> QED BY <4>1, <4>2, OneOfThree
    <3>2. DOMAIN hops = 1 .. Len(eps) /\ hops = [i \in 1 .. Len(eps) |-> hops[i]]
      BY <1>2
    <3> HIDE DEF hops
    <3> QED BY <1>2, <3>1, <3>2, ProgrammedList
  <2>5. AllProgrammed(ends, c)
    <3>1. ASSUME NEW i \in DOMAIN eps PROVE Programmed(ends[i], c)
      <4>1. EndOf(ends[i], eps[i], key) /\ DOMAIN ends[i] = Fields
        BY DEF EndOf, Declaration, Fields
      <4>2. eps[i] \in Range(c.pods)
        BY <1>3
      <4> HIDE DEF ends
      <4> QED BY <4>1, <4>2, OneOfThree
    <3>2. DOMAIN ends = 1 .. Len(eps) /\ ends = [i \in 1 .. Len(eps) |-> ends[i]]
      BY <1>2
    <3> HIDE DEF ends
    <3> QED BY <1>2, <3>1, <3>2, ProgrammedList
  <2> HIDE DEF entry, mark, marks, hops, ends
  <2> QED BY <1>4, <1>6, <2>3, <2>4, <2>5, ProgrammedTogether
<1> QED BY <1>5, <1>6

\* What the API server stores, as far as it is programmed.
Stored(c) ==
    /\ IsSequence(c.pods) /\ IsSequence(c.services) /\ IsSequence(c.others)
    /\ \A pod \in Range(c.pods) : pod.name \in STRING
    /\ \A svc \in Range(c.others) \cup Range(c.services) :
          svc.name \in STRING /\ IsSequence(svc.ports) /\ Range(svc.ports) \subseteq Nat

\* The lines of the table nat are.
LEMMA NatProgrammed ==
    ASSUME NEW c, Stored(c)
    PROVE  AllProgrammed(nat(c), c)
<1> DEFINE services == c.others \o c.services
           PortRules(svc) == [j \in DOMAIN svc.ports |-> ServicePort(svc, j, c)]
           rules == [k \in DOMAIN services |-> FlattenSeq(PortRules(services[k]))]
           heads == <<Declaration("nat", Fixed("KUBE-SERVICES")),
                      Declaration("nat", Fixed("cali-POSTROUTING"))>>
<1>1. IsSequence(services) /\ Range(services) = Range(c.others) \cup Range(c.services)
  BY Concatenated DEF Stored
<1>2. ASSUME NEW svc \in Range(services) PROVE AllProgrammed(FlattenSeq(PortRules(svc)), c)
  <2>1. IsSequence(svc.ports)
    BY <1>1 DEF Stored
  <2>2. Len(svc.ports) \in Nat /\ DOMAIN svc.ports = 1 .. Len(svc.ports)
    BY <2>1 DEF IsSequence
  <2>3. ASSUME NEW j \in DOMAIN svc.ports PROVE AllProgrammed(PortRules(svc)[j], c)
    BY ServicePortProgrammed DEF Stored
  <2>4. /\ DOMAIN PortRules(svc) = 1 .. Len(svc.ports)
        /\ PortRules(svc) = [j \in 1 .. Len(svc.ports) |-> PortRules(svc)[j]]
    BY <2>2
  <2> DEFINE p == PortRules(svc)
  <2>5. IsSequence(p)
    <3>1. p \in [1 .. Len(svc.ports) -> {p[j] : j \in 1 .. Len(svc.ports)}]
      <4> HIDE DEF PortRules
      <4> QED BY <2>4
    <3> HIDE DEF p
    <3> QED BY <2>2, <3>1, Listed
  <2> HIDE DEF PortRules
  <2> QED BY <2>2, <2>3, <2>4, <2>5, ProgrammedFlat
<1>3. AllProgrammed(FlattenSeq(rules), c)
  <2>1. Len(services) \in Nat /\ DOMAIN services = 1 .. Len(services)
    <3> HIDE DEF services
    <3> QED BY <1>1 DEF IsSequence
  <2>2. ASSUME NEW k \in DOMAIN services PROVE AllProgrammed(rules[k], c)
    <3>1. services[k] \in Range(services)
      BY DEF Range
    <3>2. rules[k] = FlattenSeq(PortRules(services[k]))
      OBVIOUS
    <3> HIDE DEF rules, PortRules, services
    <3> QED BY <1>2, <3>1, <3>2
  <2>3. DOMAIN rules = 1 .. Len(services)
    BY <2>1
  <2>4. rules \in [1 .. Len(services) -> {rules[k] : k \in 1 .. Len(services)}]
    BY <2>1
  <2> HIDE DEF rules, services
  <2>5. IsSequence(rules)
    BY <2>1, <2>4, Listed
  <2> QED BY <2>1, <2>2, <2>3, <2>5, ProgrammedFlat
<1>4. AllProgrammed(heads, c)
  <2> DEFINE D(class) == Declaration("nat", Fixed(class))
  <2>1. heads = <<D("KUBE-SERVICES")>> \o <<D("cali-POSTROUTING")>>
    OBVIOUS
  <2>2. \A class : AllProgrammed(<<D(class)>>, c)
    BY DeclarationProgrammed
  <2> HIDE DEF D, heads
  <2> QED BY <2>1, <2>2, ProgrammedTogether
<1>5. nat(c) = heads \o FlattenSeq(rules)
  BY DEF nat
<1> HIDE DEF heads, rules
<1> QED BY <1>3, <1>4, <1>5, ProgrammedTogether

\* A rule of a dispatcher, about an interface or a letter, or of the chain of a letter.
DispatchedBy(l, dispatcher, policy) ==
    /\ DOMAIN l = Fields /\ l.table = "filter"
    /\ \/ /\ l.chain = Fixed(dispatcher)
          /\ l.interface = None \/ l.jump = Chain(policy, <<l.interface>>)
       \/ \E letter : l.chain = Chain(dispatcher, <<letter>>)

\* The rules of the dispatch to the pods of a node: for every pod one of the dispatcher's own,
\* about its interface or its letter, and one of the letter's chain for those that begin alike.
LEMMA DispatchRules ==
    ASSUME NEW pods, IsSequence(pods), NEW dispatcher, NEW policy
    PROVE  LET lines == Dispatch(pods, dispatcher, policy)
           IN  /\ IsSequence(lines)
               /\ \A l \in Range(lines) : DispatchedBy(l, dispatcher, policy)
               /\ \A pod \in Range(pods) : ~crowded(pod, pods) =>
                    \E l \in Range(lines) : l.rule /\ l.chain = Fixed(dispatcher) /\ l.interface = pod.name
<1> DEFINE Rule(chain, interface, jump) ==
               [Declaration("filter", chain) EXCEPT !.rule = TRUE, !.interface = interface, !.jump = jump]
           OfLetter(pod) == Chain(dispatcher, <<Letter[pod.name]>>)
           alike == At(pods, {i \in DOMAIN pods : crowded(pods[i], pods)})
           roots == [i \in DOMAIN pods |->
                        IF crowded(pods[i], pods) THEN Rule(Fixed(dispatcher), None, OfLetter(pods[i]))
                        ELSE Rule(Fixed(dispatcher), pods[i].name, Chain(policy, <<pods[i].name>>))]
           leaves == [i \in DOMAIN alike |->
                         Rule(OfLetter(alike[i]), alike[i].name, Chain(policy, <<alike[i].name>>))]
           lines == Dispatch(pods, dispatcher, policy)
           Root(l) == /\ l.chain = Fixed(dispatcher)
                      /\ l.interface = None \/ l.jump = Chain(policy, <<l.interface>>)
           Ok(l) == /\ DOMAIN l = Fields /\ l.table = "filter"
                    /\ Root(l) \/ \E letter : l.chain = Chain(dispatcher, <<letter>>)
<1>1. lines = roots \o leaves
  BY DEF Dispatch
<1>2. \A chain, interface, jump :
          LET l == Rule(chain, interface, jump)
          IN  /\ DOMAIN l = Fields /\ l.table = "filter" /\ l.rule /\ l.chain = chain
              /\ l.interface = interface /\ l.jump = jump
  BY DEF Declaration, Fields
<1>3. IsSequence(alike)
  <2> DEFINE places == {i \in DOMAIN pods : crowded(pods[i], pods)}
  <2> HIDE DEF places
  <2>1. IsSequence(At(pods, places))
    BY AtElements
  <2> QED BY <2>1 DEF places
<1> HIDE DEF Rule, lines, alike
<1>4. /\ Len(pods) \in Nat /\ DOMAIN pods = 1 .. Len(pods)
      /\ Len(alike) \in Nat /\ DOMAIN alike = 1 .. Len(alike)
  BY <1>3 DEF IsSequence
<1>5. IsSequence(roots) /\ IsSequence(leaves) /\ DOMAIN roots = DOMAIN pods /\ DOMAIN leaves = DOMAIN alike
  <2>1. /\ DOMAIN roots = 1 .. Len(pods) /\ roots \in [1 .. Len(pods) -> {roots[i] : i \in 1 .. Len(pods)}]
        /\ DOMAIN leaves = 1 .. Len(alike)
        /\ leaves \in [1 .. Len(alike) -> {leaves[i] : i \in 1 .. Len(alike)}]
    BY <1>4
  <2> HIDE DEF roots, leaves
  <2> QED BY <1>4, <2>1, Listed
<1>6. ASSUME NEW i \in DOMAIN pods PROVE Ok(roots[i])
  <2>1. CASE crowded(pods[i], pods)
    BY <1>2, <2>1
  <2>2. CASE ~crowded(pods[i], pods)
    BY <1>2, <2>2
  <2> QED BY <2>1, <2>2
<1>7. ASSUME NEW i \in DOMAIN alike PROVE Ok(leaves[i])
  <2> DEFINE letter == Letter[alike[i].name]
  <2>1. leaves[i] = Rule(Chain(dispatcher, <<letter>>), alike[i].name, Chain(policy, <<alike[i].name>>))
    OBVIOUS
  <2> HIDE DEF letter, leaves
  <2>2. /\ DOMAIN leaves[i] = Fields /\ leaves[i].table = "filter"
        /\ leaves[i].chain = Chain(dispatcher, <<letter>>)
    BY <1>2, <2>1
  <2> QED BY <2>2
<1>8. ASSUME NEW pod \in Range(pods), ~crowded(pod, pods)
      PROVE  \E l \in Range(roots) : l.rule /\ l.chain = Fixed(dispatcher) /\ l.interface = pod.name
  <2>1. PICK i \in DOMAIN pods : pod = pods[i]
    BY DEF Range
  <2>2. roots[i] = Rule(Fixed(dispatcher), pod.name, Chain(policy, <<pod.name>>))
    BY <1>8, <2>1
  <2>3. roots[i] \in Range(roots)
    BY <1>5 DEF Range
  <2> HIDE DEF roots
  <2> QED BY <1>2, <2>2, <2>3
<1> HIDE DEF roots, leaves, Ok
<1>9. IsSequence(lines) /\ Range(lines) = Range(roots) \cup Range(leaves)
  BY <1>1, <1>5, Concatenated
<1>10. \A l \in Range(lines) : Ok(l)
  <2>1. \A l \in Range(lines) : (\E i \in DOMAIN pods : l = roots[i]) \/ (\E i \in DOMAIN alike : l = leaves[i])
    BY <1>5, <1>9 DEF Range
  <2> QED BY <1>6, <1>7, <2>1
<1>11. \A pod \in Range(pods) : ~crowded(pod, pods) =>
           \E l \in Range(lines) : l.rule /\ l.chain = Fixed(dispatcher) /\ l.interface = pod.name
  BY <1>8, <1>9
<1> QED BY <1>9, <1>10, <1>11 DEF lines, Ok, DispatchedBy

\* The declarations before them.
FilterHeads ==
    <<Declaration("filter", Fixed("KUBE-FORWARD")), Declaration("filter", Fixed("cali-FORWARD")),
      Declaration("filter", Fixed("cali-from-wl-dispatch")),
      Declaration("filter", Fixed("cali-to-wl-dispatch"))>>

\* The lines of the table filter are, of which no more is said.
LEMMA FilterProgrammed ==
    ASSUME NEW c, Stored(c), NEW n
    PROVE  AllProgrammed(filter(c, n), c)
<1> DEFINE pods == Local(c, n)
           D(class) == Declaration("filter", Fixed(class))
<1>1. IsSequence(pods)
  <2> DEFINE places == {k \in DOMAIN c.pods : c.pods[k].phase = "Running" /\ c.pods[k].node = n}
  <2>1. pods = At(c.pods, places)
    BY DEF Local
  <2> HIDE DEF places, pods
  <2> QED BY <2>1, AtElements DEF Stored
<1>2. AllProgrammed(FilterHeads, c)
  <2>1. FilterHeads = <<D("KUBE-FORWARD")>> \o <<D("cali-FORWARD")>> \o <<D("cali-from-wl-dispatch")>>
                        \o <<D("cali-to-wl-dispatch")>>
    BY DEF FilterHeads
  <2>2. \A class : AllProgrammed(<<D(class)>>, c)
    BY DeclarationProgrammed
  <2> HIDE DEF D
  <2> QED BY <2>1, <2>2, ProgrammedTogether
<1>3. ASSUME NEW dispatcher, NEW policy PROVE AllProgrammed(Dispatch(pods, dispatcher, policy), c)
  <2> DEFINE lines == Dispatch(pods, dispatcher, policy)
  <2> HIDE DEF pods
  <2>1. IsSequence(lines) /\ \A l \in Range(lines) : DOMAIN l = Fields /\ l.table = "filter"
    BY <1>1, DispatchRules DEF DispatchedBy
  <2> HIDE DEF lines
  <2>2. AllProgrammed(lines, c)
    BY <2>1 DEF AllProgrammed, Programmed
  <2> QED BY <2>2 DEF lines
<1>4. filter(c, n) = FilterHeads \o Dispatch(pods, "cali-from-wl-dispatch", "cali-fw")
                       \o Dispatch(pods, "cali-to-wl-dispatch", "cali-tw")
  BY DEF filter, FilterHeads
<1> HIDE DEF pods
<1> QED BY <1>2, <1>3, <1>4, ProgrammedTogether

\* All of iptables-save.
LEMMA SaveProgrammed ==
    ASSUME NEW c, Stored(c), NEW n
    PROVE  AllProgrammed(iptablesSave(c, n), c)
<1>1. AllProgrammed(<<Declaration("raw", Fixed("cali-PREROUTING"))>>, c)
  BY DeclarationProgrammed
<1> QED BY <1>1, FilterProgrammed, NatProgrammed, ProgrammedTogether DEF iptablesSave

-----------------------------------------------------------------------------
(* What a snapshot shows                                                     *)

\* The line that is cut off is, if it was.
LEMMA CutLine ==
    ASSUME NEW c, NEW line, Programmed(line, c), NEW cut,
           NEW rest, rest = [line EXCEPT !.jump = IF @ = None \/ cut.jumpLost THEN None
                                                  ELSE Chain(@.class, <<"cut">>),
                                         !.to = IF @ = None THEN None ELSE "cut"]
    PROVE  Programmed(rest, c)
<1>1. DOMAIN line = Fields
  BY DEF Programmed
<1>2. /\ DOMAIN rest = Fields
      /\ rest.table = line.table /\ rest.rule = line.rule /\ rest.chain = line.chain
      /\ rest.dst = line.dst /\ rest.port = line.port /\ rest.comment = line.comment
      /\ rest.to = IF line.to = None THEN None ELSE "cut"
      /\ rest.jump = IF line.jump = None \/ cut.jumpLost THEN None
                     ELSE Chain(line.jump.class, <<"cut">>)
  BY <1>1 DEF Fields
<1>3. \A class, of : Chain(class, of).class = class
  BY DEF Chain
<1> SUFFICES ASSUME line.table = "nat", line.rule
             PROVE  \E svc \in Range(c.others \o c.services), pod \in Range(c.pods) :
                        \E port, protocol : About(rest, svc, port, protocol, pod)
  BY <1>2 DEF Programmed
<1>4. PICK svc \in Range(c.others \o c.services), pod \in Range(c.pods) :
          \E port, protocol : About(line, svc, port, protocol, pod)
  BY DEF Programmed
<1> PICK port, protocol : About(line, svc, port, protocol, pod)
  BY <1>4
<1> DEFINE key == <<svc.name, port, protocol>>
<1> HIDE DEF key
<1>5. EntryOf(line, svc, key) => EntryOf(rest, svc, key)
  BY <1>2, <1>3 DEF EntryOf, Fixed
<1>6. HopOf(line, pod, key) => HopOf(rest, pod, key)
  BY <1>2, <1>3 DEF HopOf
<1>7. EndOf(line, pod, key) => EndOf(rest, pod, key)
  BY <1>2 DEF EndOf
<1>8. About(rest, svc, port, protocol, pod)
  BY <1>5, <1>6, <1>7 DEF About, key
<1> QED BY <1>8

\* What is within the limit is.
LEMMA CutProgrammed ==
    ASSUME NEW c, NEW lines, AllProgrammed(lines, c), NEW cut, cut # None => cut.keep \in Nat
    PROVE  AllProgrammed(boundedLines(lines, cut), c)
<1>1. CASE cut = None \/ Len(lines) <= cut.keep
  BY <1>1 DEF boundedLines
<1>2. CASE ~(cut = None \/ Len(lines) <= cut.keep)
  <2> DEFINE line == lines[cut.keep + 1]
             rest == [line EXCEPT !.jump = IF @ = None \/ cut.jumpLost THEN None
                                           ELSE Chain(@.class, <<"cut">>),
                                  !.to = IF @ = None THEN None ELSE "cut"]
             kept == SubSeq(lines, 1, cut.keep)
  <2>1. cut.keep \in Nat /\ Len(lines) \in Nat /\ DOMAIN lines = 1 .. Len(lines)
    BY <1>2 DEF AllProgrammed, IsSequence
  <2>2. line \in Range(lines)
    <3>1. cut.keep + 1 \in 1 .. Len(lines)
      BY <1>2, <2>1
    <3> QED BY <2>1, <3>1 DEF Range
  <2>3. AllProgrammed(kept, c)
    <3>1. kept \in Seq(Range(lines)) /\ DOMAIN kept = 1 .. cut.keep
          /\ \A i \in 1 .. cut.keep : kept[i] = lines[i]
      BY <1>2, <2>1 DEF AllProgrammed, IsSequence
    <3>2. Range(kept) \subseteq Range(lines)
      BY <1>2, <2>1, <3>1 DEF Range
    <3>3. IsSequence(kept)
      <4> HIDE DEF kept
      <4> QED BY <3>1, Sequence
    <3> QED BY <3>2, <3>3 DEF AllProgrammed
  <2>4. AllProgrammed(<<rest>>, c)
    <3>1. Programmed(line, c)
      BY <2>2 DEF AllProgrammed
    <3>2. Programmed(rest, c)
      BY <3>1, CutLine
    <3> HIDE DEF rest
    <3> QED BY <3>2, Short DEF AllProgrammed
  <2>5. AllProgrammed(<<>>, c)
    BY NoneProgrammed
  <2>6. boundedLines(lines, cut) = kept \o (IF line.rule THEN <<rest>> ELSE <<>>)
    BY <1>2 DEF boundedLines
  <2> HIDE DEF rest, kept, line
  <2> QED BY <2>3, <2>4, <2>5, <2>6, ProgrammedTogether
<1> QED BY <1>1, <1>2

\* The lines of a snapshot are.
LEMMA SnapshotProgrammed ==
    ASSUME NEW c, Stored(c), NEW n, NEW pods, NEW observability,
           NEW cut, cut # None => cut.keep \in Nat
    PROVE  AllProgrammed(Collect(iptablesSave(c, n), pods, observability, cut).lines, c)
<1> DEFINE lines == boundedLines(iptablesSave(c, n), cut)
           shown == {k \in DOMAIN lines : chainAllowed(lines[k].chain, observability.allowlist)}
<1>1. AllProgrammed(lines, c)
  BY SaveProgrammed, CutProgrammed
<1>2. Collect(iptablesSave(c, n), pods, observability, cut).lines = At(lines, shown)
  BY DEF Collect, filterIptablesLines
<1> HIDE DEF lines, shown
<1>3. IsSequence(At(lines, shown)) /\ Range(At(lines, shown)) \subseteq Range(lines)
  BY <1>1, AtElements DEF AllProgrammed, Range
<1> QED BY <1>1, <1>2, <1>3 DEF AllProgrammed

-----------------------------------------------------------------------------
(* What the analyzer reads in it                                             *)

\* A pod's name is its own, and "cut" no address.
Named(c) ==
    \A p, q \in Range(c.pods) : /\ p.name = q.name => p = q
                                /\ p.ip # "cut"

\* A rule of a chain is a line about a service.
LEMMA RuleOfChain ==
    ASSUME NEW c, NEW lines, AllProgrammed(lines, c), NEW chain,
           NEW k \in rulesOf(lines, "nat", chain)
    PROVE  /\ k \in Nat /\ lines[k].chain = chain
           /\ \E svc \in Range(c.others \o c.services), pod \in Range(c.pods) :
                  \E port, protocol : About(lines[k], svc, port, protocol, pod)
<1>1. k \in DOMAIN lines /\ lines[k].rule /\ lines[k].table = "nat" /\ lines[k].chain = chain
  BY DEF rulesOf
<1>2. k \in Nat
  BY <1>1 DEF AllProgrammed, IsSequence
<1>3. Programmed(lines[k], c)
  BY <1>1 DEF AllProgrammed, Range
<1> QED BY <1>1, <1>2, <1>3 DEF Programmed

\* Chains are told apart by their classes.
LEMMA ChainParts ==
    \A class, of : Chain(class, of).class = class /\ Chain(class, of).of = of
BY DEF Chain

\* The rules of the chain of all services are entries.
LEMMA EntryRules ==
    ASSUME NEW c, NEW lines, AllProgrammed(lines, c),
           NEW k \in rulesOf(lines, "nat", Fixed("KUBE-SERVICES"))
    PROVE  \E svc \in Range(c.others \o c.services) : \E port, protocol :
               EntryOf(lines[k], svc, <<svc.name, port, protocol>>)
<1>1. PICK svc \in Range(c.others \o c.services), pod \in Range(c.pods) :
          \E port, protocol : About(lines[k], svc, port, protocol, pod)
  BY RuleOfChain
<1> PICK port, protocol : About(lines[k], svc, port, protocol, pod)
  BY <1>1
<1> DEFINE key == <<svc.name, port, protocol>>
<1>2. lines[k].chain.class = "KUBE-SERVICES"
  BY RuleOfChain, ChainParts DEF Fixed
<1>3. ~HopOf(lines[k], pod, key) /\ ~EndOf(lines[k], pod, key)
  BY <1>2, ChainParts DEF HopOf, EndOf
<1>4. EntryOf(lines[k], svc, key)
  BY <1>3 DEF About
<1> QED BY <1>4

\* Those of the chain of a service are jumps to chains of pods.
LEMMA HopRules ==
    ASSUME NEW c, NEW lines, AllProgrammed(lines, c), NEW key,
           NEW k \in rulesOf(lines, "nat", Chain("KUBE-SVC", key))
    PROVE  \E pod \in Range(c.pods) : \E a, b, d : key = <<a, b, d>> /\ HopOf(lines[k], pod, key)
<1>1. PICK svc \in Range(c.others \o c.services), pod \in Range(c.pods) :
          \E port, protocol : About(lines[k], svc, port, protocol, pod)
  BY RuleOfChain
<1> PICK port, protocol : About(lines[k], svc, port, protocol, pod)
  BY <1>1
<1> DEFINE own == <<svc.name, port, protocol>>
<1>2. lines[k].chain.class = "KUBE-SVC" /\ lines[k].chain.of = key
  BY RuleOfChain, ChainParts
<1> HIDE DEF own
<1>3. ~EntryOf(lines[k], svc, own) /\ ~EndOf(lines[k], pod, own)
  BY <1>2, ChainParts DEF EntryOf, EndOf, Fixed
<1>4. HopOf(lines[k], pod, own)
  BY <1>3 DEF About, own
<1>5. own = key
  BY <1>2, <1>4, ChainParts DEF HopOf
<1>6. key = <<svc.name, port, protocol>> /\ HopOf(lines[k], pod, key)
  BY <1>4, <1>5 DEF own
<1> QED BY <1>6

\* Those of the chain of a pod translate to its address; the chain of which the name is cut off
\* has none.
LEMMA EndRules ==
    ASSUME NEW c, Named(c), NEW lines, AllProgrammed(lines, c), NEW pod \in Range(c.pods),
           NEW a, NEW b, NEW d,
           NEW k \in rulesOf(lines, "nat", Chain("KUBE-SEP", <<a, b, d, pod.name>>))
    PROVE  lines[k].to \in {pod.ip, None, "cut"}
<1>1. PICK svc \in Range(c.others \o c.services), p \in Range(c.pods) :
          \E port, protocol : About(lines[k], svc, port, protocol, p)
  BY RuleOfChain
<1> PICK port, protocol : About(lines[k], svc, port, protocol, p)
  BY <1>1
<1> DEFINE own == <<svc.name, port, protocol>>
<1>2. lines[k].chain.class = "KUBE-SEP" /\ lines[k].chain.of = <<a, b, d, pod.name>>
  BY RuleOfChain, ChainParts
<1>3. ~EntryOf(lines[k], svc, own) /\ ~HopOf(lines[k], p, own)
  BY <1>2, ChainParts DEF EntryOf, HopOf, Fixed
<1>4. EndOf(lines[k], p, own)
  BY <1>3 DEF About
<1>5. <<a, b, d, pod.name>> = <<own[1], own[2], own[3], p.name>>
  BY <1>2, <1>4, ChainParts DEF EndOf
<1>6. pod.name = p.name
  BY <1>5
<1>7. pod = p
  BY <1>6 DEF Named
<1> QED BY <1>4, <1>7 DEF EndOf

LEMMA NoRulesOfCut ==
    ASSUME NEW c, NEW lines, AllProgrammed(lines, c)
    PROVE  /\ rulesOf(lines, "nat", Chain("KUBE-SVC", <<"cut">>)) = {}
           /\ rulesOf(lines, "nat", Chain("KUBE-SEP", <<"cut">>)) = {}
<1>1. ASSUME NEW k \in rulesOf(lines, "nat", Chain("KUBE-SVC", <<"cut">>)) PROVE FALSE
  <2>1. PICK a, b, d : <<"cut">> = <<a, b, d>>
    BY HopRules
  <2> QED BY <2>1
<1>2. ASSUME NEW k \in rulesOf(lines, "nat", Chain("KUBE-SEP", <<"cut">>)) PROVE FALSE
  <2>1. PICK svc \in Range(c.others \o c.services), p \in Range(c.pods) :
            \E port, protocol : About(lines[k], svc, port, protocol, p)
    BY RuleOfChain
  <2> PICK port, protocol : About(lines[k], svc, port, protocol, p)
    BY <2>1
  <2> DEFINE own == <<svc.name, port, protocol>>
  <2>2. lines[k].chain.class = "KUBE-SEP" /\ lines[k].chain.of = <<"cut">>
    BY RuleOfChain, ChainParts
  <2>3. ~EntryOf(lines[k], svc, own) /\ ~HopOf(lines[k], p, own)
    BY <2>2, ChainParts DEF EntryOf, HopOf, Fixed
  <2>4. EndOf(lines[k], p, own)
    BY <2>3 DEF About
  <2>5. <<"cut">> = <<own[1], own[2], own[3], p.name>>
    BY <2>2, <2>4, ChainParts DEF EndOf
  <2> QED BY <2>5
<1> QED BY <1>1, <1>2

\* Nor has the chain that marks what is to be masqueraded.
LEMMA NoRulesOfMark ==
    ASSUME NEW c, NEW lines, AllProgrammed(lines, c), NEW of
    PROVE  rulesOf(lines, "nat", Chain("KUBE-MARK-MASQ", of)) = {}
<1>1. ASSUME NEW k \in rulesOf(lines, "nat", Chain("KUBE-MARK-MASQ", of)) PROVE FALSE
  <2>1. PICK svc \in Range(c.others \o c.services), p \in Range(c.pods) :
            \E port, protocol : About(lines[k], svc, port, protocol, p)
    BY RuleOfChain
  <2> PICK port, protocol : About(lines[k], svc, port, protocol, p)
    BY <2>1
  <2>2. lines[k].chain.class = "KUBE-MARK-MASQ"
    BY RuleOfChain, ChainParts
  <2> QED BY <2>2, ChainParts DEF About, EntryOf, HopOf, EndOf, Fixed
<1> QED BY <1>1

\* So the translation shown for the chain of a pod is the pod's address, if any.
LEMMA TranslationOfPod ==
    ASSUME NEW c, Named(c), NEW lines, AllProgrammed(lines, c), NEW pod \in Range(c.pods),
           NEW a, NEW b, NEW d
    PROVE  dnatAction(lines, Chain("KUBE-SEP", <<a, b, d, pod.name>>))
               \in {"endpoint", pod.ip, "cut"}
<1> DEFINE chain == Chain("KUBE-SEP", <<a, b, d, pod.name>>)
           dnat == {k \in rulesOf(lines, "nat", chain) : lines[k].to # None}
<1>1. dnatAction(lines, chain) = IF dnat = {} THEN "endpoint" ELSE lines[Min(dnat)].to
  BY DEF dnatAction
<1>2. CASE dnat = {}
  BY <1>1, <1>2
<1>3. CASE dnat # {}
  <2>1. dnat \in SUBSET Nat
    BY RuleOfChain
  <2>2. Min(dnat) \in dnat
    <3> HIDE DEF dnat
    <3> QED BY <1>3, <2>1, LeastNatural
  <2>3. Min(dnat) \in rulesOf(lines, "nat", chain) /\ lines[Min(dnat)].to # None
    BY <2>2
  <2> HIDE DEF dnat
  <2>4. lines[Min(dnat)].to \in {pod.ip, None, "cut"}
    BY <2>3, EndRules
  <2>5. dnatAction(lines, chain) = lines[Min(dnat)].to
    BY <1>1, <1>3
  <2> HIDE DEF chain
  <2>6. dnatAction(lines, chain) \in {"endpoint", pod.ip, "cut"}
    BY <2>3, <2>4, <2>5
  <2> QED BY <2>6 DEF chain
<1> QED BY <1>2, <1>3

LEMMA TranslationOfCut ==
    ASSUME NEW c, NEW lines, AllProgrammed(lines, c)
    PROVE  dnatAction(lines, Chain("KUBE-SEP", <<"cut">>)) = "endpoint"
BY NoRulesOfCut DEF dnatAction

\* The endpoint chosen for a target, of a service whose chain has this key: none, or the chain of
\* a pod, with that pod's translation, or one of which the name is cut off.
Chosen(chain, key, target, lines, c) ==
    \/ chain = None
    \/ chain = Chain("KUBE-SEP", <<"cut">>)
    \/ \E pod \in Range(c.pods) : \E a, b, d :
           /\ key = <<a, b, d>> /\ chain = Chain("KUBE-SEP", <<a, b, d, pod.name>>)
           /\ target # None /\ addressWithin(target, pod.ip)
           /\ dnatAction(lines, chain) \in {"endpoint", pod.ip, "cut"}

LEMMA EndpointChosen ==
    ASSUME NEW c, Named(c), NEW lines, AllProgrammed(lines, c), NEW key, NEW target,
           target # None => target # "cut"
    PROVE  Chosen(endpointChain(lines, Chain("KUBE-SVC", key), target), key, target, lines, c)
<1> DEFINE service    == Chain("KUBE-SVC", key)
           candidates == endpointRules(lines, service)
           named      == {k \in candidates : addressWithin(target, lines[k].comment)}
           translated == {k \in candidates : endpointDNATMatches(lines, lines[k].jump, target)}
           preferred  == IF named # {} THEN named ELSE translated
           chain      == endpointChain(lines, service, target)
<1>1. chain = IF preferred = {} THEN None ELSE lines[Min(preferred)].jump
  BY DEF endpointChain
<1>2. CASE preferred = {}
  <2>1. chain = None
    BY <1>1, <1>2
  <2> HIDE DEF chain, service
  <2> QED BY <2>1 DEF Chosen, chain, service
<1>3. CASE preferred # {}
  <2>1. candidates \subseteq rulesOf(lines, "nat", service)
    BY DEF endpointRules
  <2>2. preferred \in SUBSET Nat
    <3> HIDE DEF service, candidates
    <3> QED BY <2>1, RuleOfChain
  <2> DEFINE k == Min(preferred)
  <2>3. k \in preferred
    <3> HIDE DEF preferred
    <3> QED BY <1>3, <2>2, LeastNatural
  <2>4. chain = lines[k].jump
    <3> HIDE DEF chain, preferred
    <3> QED BY <1>1, <1>3 DEF k
  <2> HIDE DEF k
  <2>5. k \in candidates
    BY <2>3
  <2>6. k \in rulesOf(lines, "nat", service) /\ lines[k].jump # None
    BY <2>5 DEF endpointRules
  <2>7. addressWithin(target, lines[k].comment) \/ endpointDNATMatches(lines, lines[k].jump, target)
    BY <2>3
  <2>8. PICK pod \in Range(c.pods) : \E a, b, d : key = <<a, b, d>> /\ HopOf(lines[k], pod, key)
    BY <2>6, HopRules
  <2> PICK a, b, d : key = <<a, b, d>> /\ HopOf(lines[k], pod, key)
    BY <2>8
  <2>9. /\ lines[k].comment \in {pod.ip, None}
        /\ lines[k].jump \in {Chain("KUBE-SEP", <<a, b, d, pod.name>>), Chain("KUBE-SEP", <<"cut">>)}
    BY <2>6 DEF HopOf
  <2> HIDE DEF candidates, named, translated, preferred, chain
  <2>10. CASE lines[k].jump = Chain("KUBE-SEP", <<"cut">>)
    <3>1. chain = Chain("KUBE-SEP", <<"cut">>)
      BY <2>4, <2>10
    <3> HIDE DEF service
    <3>2. Chosen(chain, key, target, lines, c)
      BY <3>1 DEF Chosen
    <3> QED BY <3>2 DEF chain, service
  <2>11. CASE lines[k].jump = Chain("KUBE-SEP", <<a, b, d, pod.name>>)
    <3>1. chain = Chain("KUBE-SEP", <<a, b, d, pod.name>>)
      BY <2>4, <2>11
    <3>2. dnatAction(lines, chain) \in {"endpoint", pod.ip, "cut"}
      BY <3>1, TranslationOfPod
    <3>3. target # None
      BY <2>7 DEF addressWithin, endpointDNATMatches
    <3>4. addressWithin(target, pod.ip)
      <4>1. CASE addressWithin(target, lines[k].comment)
        <5>1. lines[k].comment # None
          BY <3>3, <4>1, WithinAssumption DEF addressWithin
        <5> QED BY <2>9, <4>1, <5>1
      <4>2. CASE endpointDNATMatches(lines, lines[k].jump, target)
        <5>1. PICK i \in rulesOf(lines, "nat", lines[k].jump) : lines[i].to = target
          BY <4>2 DEF endpointDNATMatches
        <5>2. lines[i].to \in {pod.ip, None, "cut"}
          BY <2>11, <5>1, EndRules
        <5>3. target = pod.ip
          BY <3>3, <5>1, <5>2
        <5> QED BY <3>3, <5>3 DEF addressWithin
      <4> QED BY <2>7, <4>1, <4>2
    <3> HIDE DEF service
    <3>5. Chosen(chain, key, target, lines, c)
      BY <3>1, <3>2, <3>3, <3>4 DEF Chosen
    <3> QED BY <3>5 DEF chain, service
  <2> QED BY <2>9, <2>10, <2>11
<1> QED BY <1>2, <1>3

LEMMA EndpointOfCut ==
    ASSUME NEW c, NEW lines, AllProgrammed(lines, c), NEW target
    PROVE  /\ endpointChain(lines, Chain("KUBE-SVC", <<"cut">>), target) = None
           /\ \A of : endpointChain(lines, Chain("KUBE-MARK-MASQ", of), target) = None
<1>1. /\ endpointRules(lines, Chain("KUBE-SVC", <<"cut">>)) = {}
      /\ \A of : endpointRules(lines, Chain("KUBE-MARK-MASQ", of)) = {}
  BY NoRulesOfCut, NoRulesOfMark DEF endpointRules
<1> QED BY <1>1 DEF endpointChain

\* A step through the chains of a service: one that translates translates to an address in which
\* the target's is found, a chain is of a service whose address and port have those of the check.
Through(step, observation, c) ==
    /\ step.stage = "service-dnat"
    /\ step.to \notin {None, "cut", "endpoint"} =>
           observation.targetIP # None /\ addressWithin(observation.targetIP, step.to)
    /\ step.chain.class \in {"KUBE-SVC", "KUBE-SEP"} /\ step.chain.of # <<"cut">> =>
           \E svc \in Range(c.others \o c.services) :
               /\ svc.name = step.chain.of[1]
               /\ addressWithin(observation.serviceIP, svc.ip)
               /\ portWithin(observation.port, step.chain.of[2])

\* Every step that traceServiceDNAT finds is one.
LEMMA ServiceTraced ==
    ASSUME NEW c, Named(c), NEW lines, AllProgrammed(lines, c),
           NEW observation,
           observation.targetIP # None => observation.targetIP # "cut"
    PROVE  LET steps == traceServiceDNAT(lines, observation)
           IN  IsSequence(steps) /\ \A s \in Range(steps) : Through(s, observation, c)
<1> DEFINE entries  == {k \in rulesOf(lines, "nat", Fixed("KUBE-SERVICES")) :
                           /\ addressWithin(observation.serviceIP, lines[k].dst)
                           /\ portWithin(observation.port, lines[k].port)
                           /\ lines[k].protocol = iptablesProtocol(observation.protocol)}
           k        == Min(entries)
           service  == lines[k].jump
           endpoint == endpointChain(lines, service, observation.targetIP)
           Select(chain, to) == <<Step("service-dnat", "nat", chain, to)>>
           steps    == traceServiceDNAT(lines, observation)
           AllThrough(s) == IsSequence(s) /\ \A x \in Range(s) : Through(x, observation, c)
<1>1. steps = IF entries = {} \/ service = None THEN <<>>
              ELSE Select(Fixed("KUBE-SERVICES"), None) \o Select(service, None)
                   \o (IF endpoint = None THEN <<>>
                       ELSE Select(endpoint, dnatAction(lines, endpoint)))
  BY DEF traceServiceDNAT
<1>2. AllThrough(<<>>)
  BY Short
<1>3. ASSUME NEW chain, NEW to, Through(Step("service-dnat", "nat", chain, to), observation, c)
      PROVE  AllThrough(Select(chain, to))
  BY <1>3, Short
<1>4. ASSUME NEW s, AllThrough(s), NEW t, AllThrough(t) PROVE AllThrough(s \o t)
  BY <1>4, Concatenated
<1>5. \A chain, to : LET s == Step("service-dnat", "nat", chain, to)
                     IN  s.stage = "service-dnat" /\ s.chain = chain /\ s.to = to
  BY DEF Step
<1> HIDE DEF steps, endpoint
<1>6. CASE entries = {} \/ service = None
  <2> HIDE DEF entries, service, Select, AllThrough
  <2>1. AllThrough(steps)
    BY <1>1, <1>2, <1>6
  <2> QED BY <2>1 DEF AllThrough, steps
<1>7. CASE ~(entries = {} \/ service = None)
  <2>1. entries \in SUBSET Nat
    <3>1. \A i \in rulesOf(lines, "nat", Fixed("KUBE-SERVICES")) : i \in Nat
      BY RuleOfChain
    <3> QED BY <3>1
  <2>2. k \in entries
    <3> HIDE DEF entries
    <3> QED BY <1>7, <2>1, LeastNatural
  <2>3. /\ k \in rulesOf(lines, "nat", Fixed("KUBE-SERVICES"))
        /\ addressWithin(observation.serviceIP, lines[k].dst)
        /\ portWithin(observation.port, lines[k].port)
        /\ lines[k].jump # None
    BY <1>7, <2>2
  <2> HIDE DEF k, entries
  <2>4. PICK svc \in Range(c.others \o c.services) : \E port, protocol :
            EntryOf(lines[k], svc, <<svc.name, port, protocol>>)
    BY <2>3, EntryRules
  <2> PICK port, protocol : EntryOf(lines[k], svc, <<svc.name, port, protocol>>)
    BY <2>4
  <2> DEFINE key == <<svc.name, port, protocol>>
  <2>5. /\ addressWithin(observation.serviceIP, svc.ip) /\ portWithin(observation.port, port)
        /\ \/ service \in {Chain("KUBE-SVC", key), Chain("KUBE-SVC", <<"cut">>)}
           \/ \E of : service = Chain("KUBE-MARK-MASQ", of)
    BY <2>3 DEF EntryOf, Fixed
  <2> HIDE DEF service
  <2>6. AllThrough(Select(Fixed("KUBE-SERVICES"), None))
    <3>1. Through(Step("service-dnat", "nat", Fixed("KUBE-SERVICES"), None), observation, c)
      BY <1>5, ChainParts DEF Through, Fixed
    <3> HIDE DEF Select, AllThrough
    <3> QED BY <1>3, <3>1
  <2>7. AllThrough(Select(service, None))
    <3>1. service.class = "KUBE-SVC" /\ service.of # <<"cut">> => service.of = key
      BY <2>5, ChainParts
    <3>2. key[1] = svc.name /\ key[2] = port
      OBVIOUS
    <3> HIDE DEF key
    <3>3. service.class # "KUBE-SEP"
      BY <2>5, ChainParts
    <3>4. Through(Step("service-dnat", "nat", service, None), observation, c)
      BY <1>5, <2>5, <3>1, <3>2, <3>3 DEF Through
    <3> HIDE DEF Select, AllThrough
    <3> QED BY <1>3, <3>4
  <2>8. AllThrough(IF endpoint = None THEN <<>>
                   ELSE Select(endpoint, dnatAction(lines, endpoint)))
    <3>1. CASE endpoint = None
      <4> HIDE DEF Select, AllThrough
      <4> QED BY <1>2, <3>1
    <3>2. CASE endpoint # None
      <4>1. service = Chain("KUBE-SVC", key)
        BY <2>5, <3>2, EndpointOfCut DEF endpoint
      <4>2. Chosen(endpoint, key, observation.targetIP, lines, c)
        <5> HIDE DEF key
        <5> QED BY <4>1, EndpointChosen DEF endpoint
      <4>3. CASE endpoint = Chain("KUBE-SEP", <<"cut">>)
        <5>1. Through(Step("service-dnat", "nat", endpoint, dnatAction(lines, endpoint)),
                      observation, c)
          BY <1>5, <4>3, TranslationOfCut, ChainParts DEF Through
        <5> HIDE DEF Select, AllThrough
        <5> QED BY <1>3, <3>2, <5>1
      <4>4. CASE endpoint # Chain("KUBE-SEP", <<"cut">>)
        <5>1. PICK pod \in Range(c.pods) : \E a, b, d :
                /\ key = <<a, b, d>> /\ endpoint = Chain("KUBE-SEP", <<a, b, d, pod.name>>)
                /\ observation.targetIP # None /\ addressWithin(observation.targetIP, pod.ip)
                /\ dnatAction(lines, endpoint) \in {"endpoint", pod.ip, "cut"}
          <6> HIDE DEF key
          <6> QED BY <3>2, <4>2, <4>4 DEF Chosen
        <5> PICK a, b, d :
                /\ key = <<a, b, d>> /\ endpoint = Chain("KUBE-SEP", <<a, b, d, pod.name>>)
                /\ observation.targetIP # None /\ addressWithin(observation.targetIP, pod.ip)
                /\ dnatAction(lines, endpoint) \in {"endpoint", pod.ip, "cut"}
          BY <5>1
        <5>2. a = svc.name /\ b = port
          OBVIOUS
        <5>3. endpoint.of = <<a, b, d, pod.name>>
          BY ChainParts
        <5>4. endpoint.of[1] = svc.name /\ endpoint.of[2] = port
          BY <5>2, <5>3
        <5> HIDE DEF key
        <5>5. Through(Step("service-dnat", "nat", endpoint, dnatAction(lines, endpoint)),
                      observation, c)
          BY <1>5, <2>5, <5>4 DEF Through
        <5> HIDE DEF Select, AllThrough
        <5> QED BY <1>3, <3>2, <5>5
      <4> QED BY <4>3, <4>4
    <3> QED BY <3>1, <3>2
  <2> HIDE DEF Select, AllThrough
  <2>9. AllThrough(steps)
    BY <1>1, <1>4, <1>7, <2>6, <2>7, <2>8
  <2> QED BY <2>9 DEF AllThrough, steps
<1> QED BY <1>6, <1>7

-----------------------------------------------------------------------------
(* Paths                                                                     *)

\* A sequence of steps of one stage.
Only(stage, steps) == IsSequence(steps) /\ \A s \in Range(steps) : s.stage = stage

\* existingChain and dispatch find at most one step, of the stage they are asked for.
LEMMA OneStep ==
    ASSUME NEW stage
    PROVE  /\ \A lines, tables, chain : Only(stage, existingChain(lines, stage, tables, chain))
           /\ \A snapshot, ip, chain : Only(stage, dispatch(snapshot, stage, ip, chain))
<1>1. Only(stage, <<>>)
  BY Short DEF Only
<1>2. ASSUME NEW table, NEW chain, NEW to PROVE Only(stage, <<Step(stage, table, chain, to)>>)
  <2>1. Step(stage, table, chain, to).stage = stage
    BY DEF Step
  <2> QED BY <2>1, Short DEF Only
<1>3. ASSUME NEW lines, NEW tables, NEW chain
      PROVE  Only(stage, existingChain(lines, stage, tables, chain))
  <2> DEFINE having == {k \in DOMAIN tables : has(lines, tables[k], chain)}
             found == existingChain(lines, stage, tables, chain)
  <2>1. found = IF having = {} THEN <<>> ELSE <<Step(stage, tables[Min(having)], chain, None)>>
    BY DEF existingChain
  <2> HIDE DEF having, found
  <2>2. Only(stage, found)
    BY <1>1, <1>2, <2>1
  <2> QED BY <2>2 DEF found
<1>4. ASSUME NEW snapshot, NEW ip, NEW chain PROVE Only(stage, dispatch(snapshot, stage, ip, chain))
  <2> DEFINE interfaces == {r.interface : r \in {r \in snapshot.routes : r.ip = ip}}
             rules == {k \in rulesOf(snapshot.lines, "filter", chain) :
                          /\ snapshot.lines[k].interface \in interfaces
                          /\ snapshot.lines[k].jump # None}
             found == dispatch(snapshot, stage, ip, chain)
  <2>1. found = IF rules = {} THEN <<>>
                ELSE <<Step(stage, "filter", snapshot.lines[Min(rules)].jump, None)>>
    BY DEF dispatch
  <2> HIDE DEF rules, found
  <2>2. Only(stage, found)
    BY <1>1, <1>2, <2>1
  <2> QED BY <2>2 DEF found
<1> QED BY <1>3, <1>4

\* What is read on the source node: of the stage service-dnat, only steps through the service.
LEMMA SourceTraced ==
    ASSUME NEW c, Named(c), NEW snapshot, AllProgrammed(snapshot.lines, c),
           NEW observation,
           observation.targetIP # None => observation.targetIP # "cut"
    PROVE  LET steps == TraceSourceIptables(snapshot, observation)
           IN  /\ IsSequence(steps)
               /\ \A s \in Range(steps) : s.stage = "source-egress" \/ Through(s, observation, c)
<1> DEFINE Ok(steps) ==
               /\ IsSequence(steps)
               /\ \A s \in Range(steps) : s.stage = "source-egress" \/ Through(s, observation, c)
           Existing(tables, class) ==
               existingChain(snapshot.lines, "source-egress", tables, Fixed(class))
           service == IF observation.serviceIP = None THEN <<>>
                      ELSE traceServiceDNAT(snapshot.lines, observation)
           own == dispatch(snapshot, "source-egress", observation.sourceIP,
                           Fixed("cali-from-wl-dispatch"))
           all == TraceSourceIptables(snapshot, observation)
<1>1. ASSUME NEW s, Ok(s), NEW t, Ok(t) PROVE Ok(s \o t)
  BY <1>1, Concatenated
<1>2. \A steps : Only("source-egress", steps) => Ok(steps)
  BY DEF Only
<1>3. Ok(service)
  <2>1. Ok(<<>>)
    BY Short
  <2>2. Ok(traceServiceDNAT(snapshot.lines, observation))
    BY ServiceTraced
  <2> HIDE DEF Ok
  <2> QED BY <2>1, <2>2
<1>4. \A tables, class : Ok(Existing(tables, class))
  <2> HIDE DEF Ok
  <2> QED BY <1>2, OneStep
<1>5. Ok(own)
  <2> HIDE DEF Ok
  <2> QED BY <1>2, OneStep
<1>6. all = Existing(<<"raw", "mangle", "nat">>, "cali-PREROUTING")
            \o service
            \o Existing(<<"filter">>, "cali-FORWARD")
            \o Existing(<<"filter">>, "cali-from-wl-dispatch")
            \o own
            \o Existing(<<"filter">>, "KUBE-FORWARD")
            \o Existing(<<"mangle", "nat">>, "cali-POSTROUTING")
  BY DEF TraceSourceIptables
<1>7. Ok(all)
  <2> HIDE DEF Ok, Existing, service, own, all
  <2> QED BY <1>1, <1>3, <1>4, <1>5, <1>6
<1> QED BY <1>7

\* On the target node: no such step.
LEMMA TargetTraced ==
    ASSUME NEW snapshot, NEW observation
    PROVE  Only("target-ingress", TraceTargetIptables(snapshot, observation))
<1> DEFINE Existing(tables, class) ==
               existingChain(snapshot.lines, "target-ingress", tables, Fixed(class))
           own == dispatch(snapshot, "target-ingress", observation.targetIP,
                           Fixed("cali-to-wl-dispatch"))
           all == TraceTargetIptables(snapshot, observation)
           Ok(steps) == Only("target-ingress", steps)
<1>1. ASSUME NEW s, Ok(s), NEW t, Ok(t) PROVE Ok(s \o t)
  BY <1>1, Concatenated DEF Only
<1>2. \A tables, class : Ok(Existing(tables, class))
  BY OneStep
<1>3. Ok(own)
  BY OneStep
<1>4. all = Existing(<<"raw", "mangle", "nat">>, "cali-PREROUTING")
            \o Existing(<<"filter">>, "cali-FORWARD")
            \o Existing(<<"filter">>, "cali-to-wl-dispatch")
            \o own
            \o Existing(<<"filter">>, "KUBE-FORWARD")
  BY DEF TraceTargetIptables
<1>5. Ok(all)
  <2> HIDE DEF Ok, Existing, own, all
  <2> QED BY <1>1, <1>2, <1>3, <1>4
<1> QED BY <1>5

\* The steps in a status name the node and are those that were found there.
LEMMA StepsOfNode ==
    ASSUME NEW node, NEW steps, IsSequence(steps)
    PROVE  LET shown == toAPITraceSteps(node, steps)
           IN  /\ IsSequence(shown)
               /\ \A s \in Range(shown) : s.node = node /\ s.step \in Range(steps)
               /\ \A x \in Range(steps) : \E s \in Range(shown) : s.node = node /\ s.step = x
<1> DEFINE shown == toAPITraceSteps(node, steps)
<1>1. Len(steps) \in Nat /\ DOMAIN steps = 1 .. Len(steps)
  BY DEF IsSequence
<1>2. shown = [i \in 1 .. Len(steps) |-> [node |-> node, step |-> steps[i]]]
  BY <1>1 DEF toAPITraceSteps
<1>3. shown \in [1 .. Len(steps) -> {shown[i] : i \in 1 .. Len(steps)}] /\ DOMAIN shown = 1 .. Len(steps)
  BY <1>2
<1>4. \A i \in 1 .. Len(steps) : shown[i].node = node /\ shown[i].step = steps[i]
  BY <1>2
<1> HIDE DEF shown
<1>5. IsSequence(shown)
  BY <1>1, <1>3, Listed
<1>6. /\ \A s \in Range(shown) : s.node = node /\ s.step \in Range(steps)
      /\ \A x \in Range(steps) : \E s \in Range(shown) : s.node = node /\ s.step = x
  BY <1>1, <1>3, <1>4 DEF Range
<1> QED BY <1>5, <1>6 DEF shown

-----------------------------------------------------------------------------
(* Tables that are whole                                                     *)

\* A rule of the table nat among the lines.
NatRule(lines, l) == l \in Range(lines) /\ l.table = "nat" /\ l.rule

\* A chain of a service that leads to the address of a pod.
Connected(lines, chain, pod) ==
    \E h, m : /\ NatRule(lines, h) /\ h.chain = chain
              /\ h.jump # None /\ h.jump.class = "KUBE-SEP" /\ h.jump = m.chain
              /\ NatRule(lines, m) /\ m.to = pod.ip

\* The entry of a service leads to all its endpoints.
EntryWired(l, svc, lines, c) ==
    /\ l.dst = svc.ip /\ l.port \in Range(svc.ports)
    /\ l.jump = Chain("KUBE-SVC", <<svc.name, l.port, l.protocol>>) /\ l.jump # None
    /\ \A pod \in Range(endpointsOf(svc, c)) : Connected(lines, l.jump, pod)

\* The address in a comment is the one that the chain translates to.
CommentWired(l, lines) ==
    \E m : /\ NatRule(lines, m) /\ m.chain = l.jump /\ m.chain.class = "KUBE-SEP"
           /\ m.to = l.comment

RuleWired(l, lines, c) ==
    /\ l.chain = Fixed("KUBE-SERVICES") /\ ~c.masquerades =>
           \E svc \in Range(c.others \o c.services) : EntryWired(l, svc, lines, c)
    /\ l.comment # None => c.comments /\ CommentWired(l, lines)
    /\ l.jump # Chain("KUBE-SEP", <<"cut">>)
    /\ l.to # None => l.to # "cut"

Wired(lines, c) == IsSequence(lines) /\ \A l : NatRule(lines, l) => RuleWired(l, lines, c)

\* More rules do no harm.
LEMMA MoreRules ==
    ASSUME NEW c, NEW s, NEW t, \A l : NatRule(s, l) => NatRule(t, l),
           NEW l, RuleWired(l, s, c)
    PROVE  RuleWired(l, t, c)
<1>1. \A chain, pod : Connected(s, chain, pod) => Connected(t, chain, pod)
  BY DEF Connected
<1>2. \A svc : EntryWired(l, svc, s, c) => EntryWired(l, svc, t, c)
  BY <1>1 DEF EntryWired
<1>3. CommentWired(l, s) => CommentWired(l, t)
  BY DEF CommentWired
<1> QED BY <1>2, <1>3 DEF RuleWired

LEMMA WiredTogether ==
    ASSUME NEW c, NEW s, Wired(s, c), NEW t, Wired(t, c)
    PROVE  Wired(s \o t, c)
<1>1. IsSequence(s \o t) /\ Range(s \o t) = Range(s) \cup Range(t)
  BY Concatenated DEF Wired
<1>2. /\ \A l : NatRule(s, l) => NatRule(s \o t, l)
      /\ \A l : NatRule(t, l) => NatRule(s \o t, l)
      /\ \A l : NatRule(s \o t, l) => NatRule(s, l) \/ NatRule(t, l)
  BY <1>1 DEF NatRule
<1>3. ASSUME NEW l, NatRule(s \o t, l) PROVE RuleWired(l, s \o t, c)
  <2>1. CASE NatRule(s, l)
    BY <1>2, <2>1, MoreRules DEF Wired
  <2>2. CASE NatRule(t, l)
    BY <1>2, <2>2, MoreRules DEF Wired
  <2> QED BY <1>2, <1>3, <2>1, <2>2
<1> QED BY <1>1, <1>3 DEF Wired

LEMMA WiredFlat ==
    ASSUME NEW c, NEW seqs, IsSequence(seqs), \A i \in DOMAIN seqs : Wired(seqs[i], c)
    PROVE  Wired(FlattenSeq(seqs), c)
<1> DEFINE flat == FlattenSeq(seqs)
<1>1. /\ IsSequence(flat)
      /\ \A x : x \in Range(flat) <=> \E i \in DOMAIN seqs : x \in Range(seqs[i])
  BY Flattened DEF Wired
<1> HIDE DEF flat
<1>2. ASSUME NEW l, NatRule(flat, l) PROVE RuleWired(l, flat, c)
  <2>1. PICK i \in DOMAIN seqs : NatRule(seqs[i], l)
    BY <1>1, <1>2 DEF NatRule
  <2>2. \A x : NatRule(seqs[i], x) => NatRule(flat, x)
    BY <1>1 DEF NatRule
  <2> QED BY <2>1, <2>2, MoreRules DEF Wired
<1>3. Wired(flat, c)
  BY <1>1, <1>2 DEF Wired
<1> QED BY <1>3 DEF flat

\* Lines without rules of the table nat.
LEMMA WiredWithout ==
    ASSUME NEW c, NEW lines, IsSequence(lines), \A l \in Range(lines) : l.table # "nat" \/ ~l.rule
    PROVE  Wired(lines, c)
BY DEF Wired, NatRule

\* Chains of services, of pods and of their policies are no None.
LEMMA NoNoneChain ==
    ASSUME NEW class \in {"KUBE-SVC", "KUBE-SEP", "cali-tw"}
    PROVE  /\ \A a \in Parts : Chain(class, <<a>>) # None
           /\ \A a, b, d \in Parts : Chain(class, <<a, b, d>>) # None
           /\ \A a, b, d, e \in Parts : Chain(class, <<a, b, d, e>>) # None
<1>1. \A of \in Seq(Parts) : Chain(class, of) # None
  <2>1. \A of \in Seq(Parts) :
            Chain(class, of) \in [class : {"KUBE-SVC", "KUBE-SEP", "cali-tw"}, of : Seq(Parts)]
    BY DEF Chain
  <2> QED BY <2>1, NoChainAssumption
<1>2. ASSUME NEW a \in Parts PROVE <<a>> \in Seq(Parts)
  OBVIOUS
<1>3. ASSUME NEW a \in Parts, NEW b \in Parts, NEW d \in Parts PROVE <<a, b, d>> \in Seq(Parts)
  OBVIOUS
<1>4. ASSUME NEW a \in Parts, NEW b \in Parts, NEW d \in Parts, NEW e \in Parts
      PROVE  <<a, b, d, e>> \in Seq(Parts)
  OBVIOUS
<1> QED BY <1>1, <1>2, <1>3, <1>4

\* The rules of a port of a service connect its entry to every endpoint.
LEMMA ServicePortWired ==
    ASSUME NEW c, Stored(c), Named(c), NEW svc \in Range(c.others \o c.services),
           NEW j \in DOMAIN svc.ports
    PROVE  /\ Wired(ServicePort(svc, j, c), c)
           /\ \A l \in Range(ServicePort(svc, j, c)) : l.table = "nat"
           /\ svc.ip # None /\ endpointsOf(svc, c) # <<>> =>
                 \E l : /\ NatRule(ServicePort(svc, j, c), l)
                        /\ l.chain = Fixed("KUBE-SERVICES") /\ l.dst = svc.ip
                        /\ l.port = svc.ports[j] /\ l.protocol = protocolOf(svc.ports, j)
<1> DEFINE port == svc.ports[j]
           key  == <<svc.name, port, protocolOf(svc.ports, j)>>
           own  == Chain("KUBE-SVC", key)
           eps  == endpointsOf(svc, c)
           EndpointChain(i) == Chain("KUBE-SEP", <<key[1], key[2], key[3], eps[i].name>>)
           Entry(chain) == [Declaration("nat", Fixed("KUBE-SERVICES")) EXCEPT !.rule = TRUE,
                                !.dst = svc.ip, !.protocol = key[3], !.port = port, !.jump = chain]
           mark == Entry(Fixed("KUBE-MARK-MASQ"))
           entry == Entry(own)
           marks == IF c.masquerades THEN <<mark>> ELSE <<>>
           hops == [i \in DOMAIN eps |->
                      [Declaration("nat", own) EXCEPT !.rule = TRUE, !.jump = EndpointChain(i),
                           !.comment = IF c.comments THEN eps[i].ip ELSE None]]
           ends == [i \in DOMAIN eps |->
                      [Declaration("nat", EndpointChain(i)) EXCEPT !.rule = TRUE, !.to = eps[i].ip]]
           lines == ServicePort(svc, j, c)
<1>1. IsSequence(eps) /\ Range(eps) \subseteq Range(c.pods)
  <2> DEFINE places == {k \in DOMAIN c.pods : /\ c.pods[k].phase = "Running"
                                              /\ svc.group # None /\ c.pods[k].group = svc.group}
  <2>1. eps = At(c.pods, places)
    BY DEF endpointsOf
  <2>2. IsSequence(c.pods)
    BY DEF Stored
  <2> HIDE DEF places, eps
  <2> QED BY <2>1, <2>2, AtElements DEF Range
<1>2. Len(eps) \in Nat /\ DOMAIN eps = 1 .. Len(eps)
  BY <1>1 DEF IsSequence
<1>3. ASSUME NEW i \in DOMAIN eps PROVE eps[i] \in Range(c.pods)
  BY <1>1 DEF Range
<1>4. lines = IF svc.ip = None \/ eps = <<>> THEN <<>> ELSE marks \o <<entry>> \o hops \o ends
  BY DEF ServicePort
<1>5. svc.name \in Parts /\ port \in Parts /\ protocolOf(svc.ports, j) \in Parts
  <2>1. svc \in Range(c.others) \cup Range(c.services)
    BY Concatenated DEF Stored
  <2>2. port \in Range(svc.ports)
    BY DEF Range
  <2>3. protocolOf(svc.ports, j) \in Parts
    BY DEF protocolOf, Parts
  <2> HIDE DEF port
  <2>4. svc.name \in STRING /\ port \in Nat
    BY <2>1, <2>2 DEF Stored
  <2> QED BY <2>3, <2>4 DEF Parts
<1>6. own # None /\ \A i \in DOMAIN eps : EndpointChain(i) # None
  <2>1. \A i \in DOMAIN eps : eps[i].name \in Parts
    BY <1>3 DEF Stored, Parts
  <2>2. \A i : EndpointChain(i)
                  = Chain("KUBE-SEP", <<svc.name, port, protocolOf(svc.ports, j), eps[i].name>>)
    OBVIOUS
  <2> HIDE DEF port, eps, EndpointChain
  <2>3. own # None
    BY <1>5, NoNoneChain
  <2>4. ASSUME NEW i \in DOMAIN eps PROVE EndpointChain(i) # None
    BY <1>5, <2>1, <2>2, NoNoneChain
  <2> QED BY <2>3, <2>4
<1>7. /\ entry.table = "nat" /\ entry.rule /\ entry.chain = Fixed("KUBE-SERVICES")
      /\ entry.dst = svc.ip /\ entry.port = port /\ entry.protocol = protocolOf(svc.ports, j)
      /\ entry.jump = own /\ entry.comment = None /\ entry.to = None
  BY DEF Declaration
<1>18. /\ mark.table = "nat" /\ mark.comment = None /\ mark.to = None
       /\ mark.jump = Fixed("KUBE-MARK-MASQ")
  BY DEF Declaration
<1>19. IsSequence(marks) /\ Range(marks) = IF c.masquerades THEN {mark} ELSE {}
  <2> HIDE DEF mark
  <2>1. IsSequence(<<mark>>) /\ Range(<<mark>>) = {mark} /\ IsSequence(<<>>) /\ Range(<<>>) = {}
    BY Short
  <2> QED BY <2>1
<1>8. ASSUME NEW i \in DOMAIN eps
      PROVE  /\ hops[i].table = "nat" /\ hops[i].rule /\ hops[i].chain = own
             /\ hops[i].jump = EndpointChain(i) /\ hops[i].comment \in {eps[i].ip, None}
             /\ hops[i].to = None /\ (hops[i].comment # None => c.comments)
  BY DEF Declaration
<1>9. ASSUME NEW i \in DOMAIN eps
      PROVE  /\ ends[i].table = "nat" /\ ends[i].rule /\ ends[i].chain = EndpointChain(i)
             /\ ends[i].to = eps[i].ip /\ ends[i].jump = None /\ ends[i].comment = None
  BY DEF Declaration
<1>10. IsSequence(hops) /\ DOMAIN hops = DOMAIN eps
  <2>1. DOMAIN hops = 1 .. Len(eps) /\ hops \in [1 .. Len(eps) -> {hops[i] : i \in 1 .. Len(eps)}]
    BY <1>2
  <2> HIDE DEF hops
  <2> QED BY <1>2, <2>1, Listed
<1>11. IsSequence(ends) /\ DOMAIN ends = DOMAIN eps
  <2>1. DOMAIN ends = 1 .. Len(eps) /\ ends \in [1 .. Len(eps) -> {ends[i] : i \in 1 .. Len(eps)}]
    BY <1>2
  <2> HIDE DEF ends
  <2> QED BY <1>2, <2>1, Listed
<1>12. \A i : EndpointChain(i).class = "KUBE-SEP" /\ EndpointChain(i) # Chain("KUBE-SEP", <<"cut">>)
  <2>1. \A a, b, d, e : <<a, b, d, e>> # <<"cut">>
    OBVIOUS
  <2> HIDE DEF key, eps
  <2> QED BY <2>1, ChainParts
<1>13. own.class = "KUBE-SVC" /\ own # Fixed("KUBE-SERVICES")
  BY ChainParts DEF Fixed
<1>14. \A i : EndpointChain(i) # Fixed("KUBE-SERVICES")
  BY <1>12, ChainParts DEF Fixed
<1>15. key = <<svc.name, port, protocolOf(svc.ports, j)>>
  OBVIOUS
<1> HIDE DEF Entry, entry, mark, marks, hops, ends, eps, EndpointChain, key, lines
<1>16. CASE svc.ip = None \/ eps = <<>>
  <2>1. lines = <<>>
    BY <1>4, <1>16
  <2>2. Wired(lines, c)
    BY <2>1, Short, WiredWithout
  <2> QED BY <1>16, <2>1, <2>2, Short DEF lines, eps
<1>17. CASE ~(svc.ip = None \/ eps = <<>>)
  <2>1. IsSequence(lines) /\ \A l : l \in Range(lines) <=> \/ l = entry
                                                           \/ c.masquerades /\ l = mark
                                                           \/ \E i \in DOMAIN eps : l = hops[i]
                                                           \/ \E i \in DOMAIN eps : l = ends[i]
    <3>1. IsSequence(<<entry>>) /\ Range(<<entry>>) = {entry}
      BY Short
    <3>2. /\ IsSequence(lines)
          /\ Range(lines) = Range(marks) \cup {entry} \cup Range(hops) \cup Range(ends)
      <4> DEFINE first == marks \o <<entry>>
                 second == first \o hops
      <4>1. IsSequence(first) /\ Range(first) = Range(marks) \cup {entry}
        BY <1>19, <3>1, Concatenated
      <4>2. lines = second \o ends
        BY <1>4, <1>17
      <4> HIDE DEF first
      <4>3. IsSequence(second) /\ Range(second) = Range(first) \cup Range(hops)
        BY <1>10, <4>1, Concatenated
      <4> HIDE DEF second
      <4>4. IsSequence(lines) /\ Range(lines) = Range(second) \cup Range(ends)
        BY <1>11, <4>2, <4>3, Concatenated
      <4> QED BY <4>1, <4>3, <4>4
    <3>3. /\ \A l : l \in Range(hops) <=> \E i \in DOMAIN eps : l = hops[i]
          /\ \A l : l \in Range(ends) <=> \E i \in DOMAIN eps : l = ends[i]
      BY <1>10, <1>11 DEF Range
    <3>4. \A l : l \in Range(marks) <=> c.masquerades /\ l = mark
      BY <1>19
    <3> QED BY <3>2, <3>3, <3>4
  <2>2. NatRule(lines, entry)
    BY <1>7, <2>1 DEF NatRule
  <2>3. \A i \in DOMAIN eps : NatRule(lines, hops[i]) /\ NatRule(lines, ends[i])
    BY <1>8, <1>9, <2>1 DEF NatRule
  <2>4. RuleWired(entry, lines, c)
    <3>1. ASSUME NEW pod \in Range(eps) PROVE Connected(lines, own, pod)
      <4>1. PICK i \in DOMAIN eps : pod = eps[i]
        BY DEF Range
      <4> QED BY <1>6, <1>8, <1>9, <1>12, <2>3, <4>1 DEF Connected
    <3>2. EntryWired(entry, svc, lines, c)
      <4>1. \A pod \in Range(endpointsOf(svc, c)) : Connected(lines, entry.jump, pod)
        BY <1>7, <3>1 DEF eps
      <4>2. entry.jump = Chain("KUBE-SVC", <<svc.name, entry.port, entry.protocol>>)
        BY <1>7, <1>15
      <4>3. entry.port \in Range(svc.ports)
        BY <1>7 DEF Range
      <4> HIDE DEF own, port
      <4> QED BY <1>6, <1>7, <4>1, <4>2, <4>3 DEF EntryWired
    <3>3. entry.jump # Chain("KUBE-SEP", <<"cut">>)
      BY <1>7, <1>13, ChainParts
    <3> QED BY <1>7, <3>2, <3>3 DEF RuleWired
  <2>5. ASSUME NEW i \in DOMAIN eps PROVE RuleWired(hops[i], lines, c)
    <3>1. hops[i].chain # Fixed("KUBE-SERVICES")
      BY <1>8, <1>13
    <3>2. hops[i].comment # None => c.comments /\ CommentWired(hops[i], lines)
      BY <1>8, <1>9, <1>12, <2>3 DEF CommentWired
    <3>3. hops[i].jump # Chain("KUBE-SEP", <<"cut">>) /\ hops[i].to = None
      BY <1>8, <1>12
    <3> QED BY <3>1, <3>2, <3>3 DEF RuleWired
  <2>6. ASSUME NEW i \in DOMAIN eps PROVE RuleWired(ends[i], lines, c)
    <3>1. ends[i].chain # Fixed("KUBE-SERVICES") /\ ends[i].comment = None
      BY <1>9, <1>14
    <3>2. ends[i].to # "cut"
      BY <1>3, <1>9 DEF Named
    <3>3. ends[i].jump # Chain("KUBE-SEP", <<"cut">>)
      <4>1. None # Chain("KUBE-SEP", <<"cut">>)
        BY NoNoneChain DEF Parts
      <4> QED BY <1>9, <4>1
    <3> QED BY <3>1, <3>2, <3>3 DEF RuleWired
  <2>9. ASSUME c.masquerades PROVE RuleWired(mark, lines, c)
    <3>1. mark.jump # Chain("KUBE-SEP", <<"cut">>)
      BY <1>18, ChainParts DEF Fixed
    <3> QED BY <1>18, <2>9, <3>1 DEF RuleWired
  <2>7. Wired(lines, c)
    <3>1. ASSUME NEW l, NatRule(lines, l) PROVE RuleWired(l, lines, c)
      <4>1. l \in Range(lines)
        BY <3>1 DEF NatRule
      <4>2. CASE l = entry
        BY <2>4, <4>2
      <4>3. CASE c.masquerades /\ l = mark
        BY <2>9, <4>3
      <4>4. CASE \E i \in DOMAIN eps : l = hops[i]
        BY <2>5, <4>4
      <4>5. CASE \E i \in DOMAIN eps : l = ends[i]
        BY <2>6, <4>5
      <4> QED BY <2>1, <4>1, <4>2, <4>3, <4>4, <4>5
    <3> QED BY <2>1, <3>1 DEF Wired
  <2>8. \A l \in Range(lines) : l.table = "nat"
    BY <1>7, <1>8, <1>9, <1>18, <2>1
  <2> QED BY <1>7, <2>2, <2>7, <2>8 DEF lines, port
<1> QED BY <1>16, <1>17

\* Nothing is wired by no line.
LEMMA WiredNothing == \A c : Wired(<<>>, c)
BY Short, WiredWithout

\* Of the table nat every rule is, and every port of a service that has endpoints has its entry:
\* one for TCP, for the first time the number is listed.
LEMMA NatWired ==
    ASSUME NEW c, Stored(c), Named(c)
    PROVE  /\ Wired(nat(c), c)
           /\ \A l \in Range(nat(c)) : l.table = "nat"
           /\ \A svc \in Range(c.others \o c.services) : \A port \in Range(svc.ports) :
                 svc.ip # None /\ endpointsOf(svc, c) # <<>> =>
                    \E l : /\ NatRule(nat(c), l) /\ l.chain = Fixed("KUBE-SERVICES")
                           /\ l.dst = svc.ip /\ l.port = port /\ l.protocol = "tcp"
<1> DEFINE services == c.others \o c.services
           PortRules(svc) == [j \in DOMAIN svc.ports |-> ServicePort(svc, j, c)]
           rules == [k \in DOMAIN services |-> FlattenSeq(PortRules(services[k]))]
           heads == <<Declaration("nat", Fixed("KUBE-SERVICES")),
                      Declaration("nat", Fixed("cali-POSTROUTING"))>>
           Entry(lines, svc, port) ==
               \E l : /\ NatRule(lines, l) /\ l.chain = Fixed("KUBE-SERVICES")
                      /\ l.dst = svc.ip /\ l.port = port /\ l.protocol = "tcp"
           InNat(lines) == \A l \in Range(lines) : l.table = "nat"
           Reached(svc) == svc.ip # None /\ endpointsOf(svc, c) # <<>>
<1>1. IsSequence(services) /\ Range(services) = Range(c.others) \cup Range(c.services)
  BY Concatenated DEF Stored
<1>2. ASSUME NEW svc \in Range(services)
      PROVE  /\ Wired(FlattenSeq(PortRules(svc)), c) /\ InNat(FlattenSeq(PortRules(svc)))
             /\ \A port \in Range(svc.ports) :
                    Reached(svc) => Entry(FlattenSeq(PortRules(svc)), svc, port)
  <2>1. IsSequence(svc.ports)
    BY <1>1 DEF Stored
  <2>2. Len(svc.ports) \in Nat /\ DOMAIN svc.ports = 1 .. Len(svc.ports)
    BY <2>1 DEF IsSequence
  <2> DEFINE p == PortRules(svc)
             flat == FlattenSeq(p)
  <2>3. DOMAIN p = DOMAIN svc.ports /\ \A j \in DOMAIN svc.ports : p[j] = ServicePort(svc, j, c)
    OBVIOUS
  <2>4. IsSequence(p)
    <3>1. p \in [1 .. Len(svc.ports) -> {p[j] : j \in 1 .. Len(svc.ports)}]
      BY <2>2
    <3> HIDE DEF p
    <3> QED BY <2>2, <3>1, Listed
  <2> HIDE DEF p, Entry, Reached, services
  <2>5. ASSUME NEW j \in DOMAIN p
        PROVE  /\ Wired(p[j], c) /\ InNat(p[j])
               /\ Reached(svc) => \E l : /\ NatRule(p[j], l) /\ l.chain = Fixed("KUBE-SERVICES")
                                         /\ l.dst = svc.ip /\ l.port = svc.ports[j]
                                         /\ l.protocol = protocolOf(svc.ports, j)
    BY <2>3, ServicePortWired DEF services, Reached
  <2>6. Wired(flat, c)
    BY <2>4, <2>5, WiredFlat
  <2>7. \A x : x \in Range(flat) <=> \E j \in DOMAIN p : x \in Range(p[j])
    BY <2>4, <2>5, Flattened DEF Wired
  <2> HIDE DEF flat
  <2>8. InNat(flat)
    BY <2>5, <2>7
  <2>9. ASSUME NEW port \in Range(svc.ports), Reached(svc) PROVE Entry(flat, svc, port)
    <3> DEFINE at == {j \in DOMAIN svc.ports : svc.ports[j] = port}
    <3>1. at # {} /\ at \in SUBSET Nat
      BY <2>2 DEF Range
    <3>2. Min(at) \in at /\ \A i \in at : Min(at) <= i
      <4> HIDE DEF at
      <4> QED BY <3>1, LeastNatural
    <3> DEFINE j == Min(at)
    <3> HIDE DEF j
    <3>3. j \in DOMAIN svc.ports /\ svc.ports[j] = port /\ \A i \in at : j <= i
      BY <3>2 DEF j
    <3>4. ~ \E i \in 1 .. j - 1 : svc.ports[i] = svc.ports[j]
      <4> SUFFICES ASSUME NEW i \in 1 .. j - 1, svc.ports[i] = svc.ports[j] PROVE FALSE
        OBVIOUS
      <4>1. j \in Nat /\ j <= Len(svc.ports) /\ i \in 1 .. Len(svc.ports) /\ i < j
        BY <2>2, <3>3
      <4>2. i \in at
        BY <2>2, <3>3, <4>1
      <4>3. j <= i
        <5> HIDE DEF at
        <5> QED BY <3>3, <4>2
      <4> QED BY <4>1, <4>3
    <3>5. protocolOf(svc.ports, j) = "tcp"
      BY <3>4 DEF protocolOf
    <3>6. PICK l : /\ NatRule(p[j], l) /\ l.chain = Fixed("KUBE-SERVICES") /\ l.dst = svc.ip
                   /\ l.port = port /\ l.protocol = "tcp"
      BY <2>3, <2>5, <2>9, <3>3, <3>5
    <3>7. NatRule(flat, l)
      BY <2>3, <2>7, <3>3, <3>6 DEF NatRule
    <3> QED BY <3>6, <3>7 DEF Entry
  <2> QED BY <2>6, <2>8, <2>9 DEF flat, p
<1> DEFINE all == FlattenSeq(rules)
<1>3. /\ Wired(all, c) /\ InNat(all)
      /\ \A svc \in Range(services) : \A port \in Range(svc.ports) :
             Reached(svc) => Entry(all, svc, port)
  <2>1. Len(services) \in Nat /\ DOMAIN services = 1 .. Len(services)
    <3> HIDE DEF services
    <3> QED BY <1>1 DEF IsSequence
  <2>2. DOMAIN rules = DOMAIN services /\ \A k \in DOMAIN services : rules[k] = FlattenSeq(PortRules(services[k]))
    OBVIOUS
  <2>3. rules \in [1 .. Len(services) -> {rules[k] : k \in 1 .. Len(services)}]
    BY <2>1
  <2> HIDE DEF rules, services, PortRules, Entry, Reached
  <2>4. IsSequence(rules)
    BY <2>1, <2>3, Listed
  <2>5. ASSUME NEW k \in DOMAIN services
        PROVE  /\ Wired(rules[k], c) /\ InNat(rules[k])
               /\ \A port \in Range(services[k].ports) :
                      Reached(services[k]) => Entry(rules[k], services[k], port)
    <3>1. services[k] \in Range(services)
      BY DEF Range
    <3> HIDE DEF InNat
    <3> QED BY <1>2, <2>2, <3>1
  <2>6. Wired(all, c)
    BY <2>2, <2>4, <2>5, WiredFlat
  <2>7. \A x : x \in Range(all) <=> \E k \in DOMAIN services : x \in Range(rules[k])
    BY <2>2, <2>4, <2>5, Flattened DEF Wired
  <2> HIDE DEF all
  <2>8. InNat(all)
    BY <2>5, <2>7
  <2>9. ASSUME NEW svc \in Range(services), NEW port \in Range(svc.ports), Reached(svc)
        PROVE  Entry(all, svc, port)
    <3>1. PICK k \in DOMAIN services : svc = services[k]
      BY DEF Range
    <3>2. Entry(rules[k], svc, port)
      <4> HIDE DEF InNat
      <4> QED BY <2>5, <2>9, <3>1
    <3>3. \A l : NatRule(rules[k], l) => NatRule(all, l)
      BY <2>7 DEF NatRule
    <3> QED BY <3>2, <3>3 DEF Entry
  <2> QED BY <2>6, <2>8, <2>9
<1> HIDE DEF rules, services, all
<1>4. Wired(heads, c) /\ InNat(heads) /\ IsSequence(heads)
  <2> DEFINE D(class) == Declaration("nat", Fixed(class))
  <2>1. heads = <<D("KUBE-SERVICES")>> \o <<D("cali-POSTROUTING")>>
    OBVIOUS
  <2>2. \A class : D(class).table = "nat" /\ ~D(class).rule
    BY DEF Declaration
  <2> HIDE DEF D, heads
  <2>3. IsSequence(heads) /\ Range(heads) = {D("KUBE-SERVICES")} \cup {D("cali-POSTROUTING")}
    BY <2>1, Short, Concatenated
  <2> QED BY <2>2, <2>3, WiredWithout
<1>5. nat(c) = heads \o all
  BY DEF nat, all, rules, services
<1> HIDE DEF heads
<1>6. Wired(nat(c), c)
  BY <1>3, <1>4, <1>5, WiredTogether
<1>7. Range(nat(c)) = Range(heads) \cup Range(all)
  BY <1>3, <1>4, <1>5, Concatenated DEF Wired
<1>8. \A l : NatRule(all, l) => NatRule(nat(c), l)
  BY <1>7 DEF NatRule
<1>9. \A l \in Range(nat(c)) : l.table = "nat"
  BY <1>3, <1>4, <1>7
<1>10. ASSUME NEW svc \in Range(services), NEW port \in Range(svc.ports), Reached(svc)
       PROVE  Entry(nat(c), svc, port)
  <2>1. Entry(all, svc, port)
    <3> HIDE DEF Entry, InNat, Reached
    <3> QED BY <1>3, <1>10
  <2> QED BY <1>8, <2>1
<1> QED BY <1>6, <1>9, <1>10 DEF services

\* Of the table filter: a rule of cali-to-wl-dispatch that is about an interface goes to the chain
\* of its pod, and every running pod of the node has one of which the interface begins like no
\* other's.
DispatchRule(lines, l) ==
    /\ l \in Range(lines) /\ l.table = "filter" /\ l.rule /\ l.chain = Fixed("cali-to-wl-dispatch")

Dispatches(lines, pods) ==
    /\ \A l : DispatchRule(lines, l) => l.interface = None \/ l.jump = Chain("cali-tw", <<l.interface>>)
    /\ \A pod \in Range(pods) :
           ~crowded(pod, pods) => \E l : DispatchRule(lines, l) /\ l.interface = pod.name

LEMMA FilterDispatches ==
    ASSUME NEW c, Stored(c), NEW n
    PROVE  /\ IsSequence(filter(c, n)) /\ \A l \in Range(filter(c, n)) : l.table = "filter"
           /\ Dispatches(filter(c, n), Local(c, n))
<1> DEFINE pods == Local(c, n)
           D(class) == Declaration("filter", Fixed(class))
           froms == Dispatch(pods, "cali-from-wl-dispatch", "cali-fw")
           tos == Dispatch(pods, "cali-to-wl-dispatch", "cali-tw")
           lines == filter(c, n)
           to == Fixed("cali-to-wl-dispatch")
<1>1. IsSequence(pods)
  <2> DEFINE places == {k \in DOMAIN c.pods : c.pods[k].phase = "Running" /\ c.pods[k].node = n}
  <2>1. pods = At(c.pods, places)
    BY DEF Local
  <2> HIDE DEF places, pods
  <2> QED BY <2>1, AtElements DEF Stored
<1>2. IsSequence(FilterHeads) /\ \A l \in Range(FilterHeads) : l.table = "filter" /\ ~l.rule
  <2>1. FilterHeads = <<D("KUBE-FORWARD")>> \o <<D("cali-FORWARD")>> \o <<D("cali-from-wl-dispatch")>>
                        \o <<D("cali-to-wl-dispatch")>>
    BY DEF FilterHeads
  <2>2. \A class : D(class).table = "filter" /\ ~D(class).rule
    BY DEF Declaration
  <2> DEFINE Plain(s) == IsSequence(s) /\ \A l \in Range(s) : l.table = "filter" /\ ~l.rule
  <2>3. \A class : Plain(<<D(class)>>)
    BY <2>2, Short
  <2>4. ASSUME NEW s, Plain(s), NEW t, Plain(t) PROVE Plain(s \o t)
    BY <2>4, Concatenated
  <2> HIDE DEF D, Plain
  <2>5. Plain(FilterHeads)
    BY <2>1, <2>3, <2>4
  <2> QED BY <2>5 DEF Plain
<1>3. lines = FilterHeads \o froms \o tos
  BY DEF filter, FilterHeads
<1> HIDE DEF pods
<1>4. /\ IsSequence(froms)
      /\ \A l \in Range(froms) : /\ l.table = "filter"
                                 /\ \/ l.chain = Fixed("cali-from-wl-dispatch")
                                    \/ \E letter : l.chain = Chain("cali-from-wl-dispatch", <<letter>>)
  <2>1. IsSequence(froms) /\ \A l \in Range(froms) : DispatchedBy(l, "cali-from-wl-dispatch", "cali-fw")
    BY <1>1, DispatchRules
  <2> HIDE DEF froms
  <2> QED BY <2>1 DEF DispatchedBy
<1>5. /\ IsSequence(tos)
      /\ \A l \in Range(tos) : /\ l.table = "filter"
                               /\ \/ l.interface = None \/ l.jump = Chain("cali-tw", <<l.interface>>)
                                  \/ \E letter : l.chain = Chain("cali-to-wl-dispatch", <<letter>>)
      /\ \A pod \in Range(pods) : ~crowded(pod, pods) =>
             \E l \in Range(tos) : l.rule /\ l.chain = to /\ l.interface = pod.name
  <2>1. IsSequence(tos) /\ \A l \in Range(tos) : DispatchedBy(l, "cali-to-wl-dispatch", "cali-tw")
    BY <1>1, DispatchRules
  <2>2. \A pod \in Range(pods) : ~crowded(pod, pods) =>
             \E l \in Range(tos) : /\ l.rule /\ l.chain = Fixed("cali-to-wl-dispatch")
                                  /\ l.interface = pod.name
    BY <1>1, DispatchRules
  <2> HIDE DEF tos
  <2> QED BY <2>1, <2>2 DEF DispatchedBy
<1>6. /\ Fixed("cali-from-wl-dispatch") # to
      /\ \A letter : /\ Chain("cali-from-wl-dispatch", <<letter>>) # to
                     /\ Chain("cali-to-wl-dispatch", <<letter>>) # to
  <2>1. \A letter : <<letter>> # <<>>
    OBVIOUS
  <2> QED BY <2>1, ChainParts DEF Fixed
<1> HIDE DEF lines, froms, tos, to
<1>7. IsSequence(lines) /\ Range(lines) = Range(FilterHeads) \cup Range(froms) \cup Range(tos)
  BY <1>2, <1>3, <1>4, <1>5, Concatenated
<1>8. \A l \in Range(lines) : l.table = "filter"
  BY <1>2, <1>4, <1>5, <1>7
<1>9. ASSUME NEW l, DispatchRule(lines, l)
      PROVE  l.interface = None \/ l.jump = Chain("cali-tw", <<l.interface>>)
  <2>1. l \in Range(lines) /\ l.rule /\ l.chain = to
    BY <1>9 DEF DispatchRule, to
  <2>2. l \notin Range(FilterHeads) /\ l \notin Range(froms)
    BY <1>2, <1>4, <1>6, <2>1
  <2> QED BY <1>5, <1>6, <1>7, <2>1, <2>2
<1>10. ASSUME NEW pod \in Range(pods), ~crowded(pod, pods)
       PROVE  \E l : DispatchRule(lines, l) /\ l.interface = pod.name
  <2>1. PICK l \in Range(tos) : l.rule /\ l.chain = to /\ l.interface = pod.name
    BY <1>5, <1>10
  <2>2. DispatchRule(lines, l)
    BY <1>5, <1>7, <2>1 DEF DispatchRule, to
  <2> QED BY <2>1, <2>2
<1> QED BY <1>7, <1>8, <1>9, <1>10 DEF lines, pods, Dispatches

\* All of iptables-save.
LEMMA SaveWired ==
    ASSUME NEW c, Stored(c), Named(c), NEW n
    PROVE  LET lines == iptablesSave(c, n)
           IN  /\ Wired(lines, c) /\ Dispatches(lines, Local(c, n))
               /\ \A l : NatRule(nat(c), l) => NatRule(lines, l)
<1> DEFINE head == <<Declaration("raw", Fixed("cali-PREROUTING"))>>
           lines == iptablesSave(c, n)
           rules == filter(c, n)
           pods == Local(c, n)
<1>1. Declaration("raw", Fixed("cali-PREROUTING")).table = "raw"
  BY DEF Declaration
<1>2. IsSequence(head) /\ \A l \in Range(head) : l.table = "raw"
  <2> DEFINE d == Declaration("raw", Fixed("cali-PREROUTING"))
  <2> HIDE DEF d
  <2>1. IsSequence(<<d>>) /\ Range(<<d>>) = {d}
    BY Short
  <2> QED BY <1>1, <2>1 DEF d
<1>3. /\ IsSequence(rules) /\ \A l \in Range(rules) : l.table = "filter"
      /\ Dispatches(rules, pods)
  BY FilterDispatches
<1>4. Wired(nat(c), c) /\ \A l \in Range(nat(c)) : l.table = "nat"
  BY NatWired
<1>5. lines = head \o rules \o nat(c)
  BY DEF iptablesSave
<1> HIDE DEF head, lines, rules, pods
<1>6. Wired(head, c) /\ Wired(rules, c)
  BY <1>2, <1>3, WiredWithout
<1>7. Wired(lines, c)
  BY <1>4, <1>5, <1>6, WiredTogether
<1>8. Range(lines) = Range(head) \cup Range(rules) \cup Range(nat(c))
  BY <1>2, <1>3, <1>4, <1>5, Concatenated DEF Wired
<1>9. \A l : DispatchRule(lines, l) <=> DispatchRule(rules, l)
  BY <1>2, <1>4, <1>8 DEF DispatchRule
<1>10. Dispatches(lines, pods)
  BY <1>3, <1>9 DEF Dispatches
<1>11. \A l : NatRule(nat(c), l) => NatRule(lines, l)
  BY <1>8 DEF NatRule
<1> QED BY <1>7, <1>10, <1>11 DEF lines, pods

\* A snapshot that is not cut off shows of them what is asked for.
LEMMA SnapshotWired ==
    ASSUME NEW c, Stored(c), Named(c), NEW n, NEW pods, NEW observability
    PROVE  LET lines == Collect(iptablesSave(c, n), pods, observability, None).lines
           IN  /\ observability.allowlist = {} \/ "KUBE-*" \in observability.allowlist =>
                     Wired(lines, c) /\ \A l : NatRule(nat(c), l) => NatRule(lines, l)
               /\ "cali-*" \in observability.allowlist => Dispatches(lines, Local(c, n))
<1> DEFINE all == iptablesSave(c, n)
           asked == observability.allowlist
           shown == {k \in DOMAIN all : chainAllowed(all[k].chain, asked)}
           lines == Collect(all, pods, observability, None).lines
           here == Local(c, n)
<1>1. lines = At(all, shown)
  BY DEF Collect, filterIptablesLines, boundedLines
<1>2. /\ Wired(all, c) /\ Dispatches(all, here) /\ AllProgrammed(all, c)
      /\ \A l : NatRule(nat(c), l) => NatRule(all, l)
  BY SaveWired, SaveProgrammed
<1> HIDE DEF all, lines, here
<1>3. IsSequence(lines) /\ \A l : l \in Range(lines) <=> l \in Range(all) /\ chainAllowed(l.chain, asked)
  <2>1. IsSequence(lines) /\ \A l : l \in Range(lines) <=> \E k \in shown \cap DOMAIN all : l = all[k]
    <3> HIDE DEF shown
    <3> QED BY <1>1, <1>2, AtElements DEF Wired
  <2> QED BY <2>1 DEF Range
<1>4. ASSUME asked = {} \/ "KUBE-*" \in asked
      PROVE  Wired(lines, c) /\ \A l : NatRule(nat(c), l) => NatRule(lines, l)
  <2>1. ASSUME NEW l, NatRule(all, l) PROVE l.chain.class \in Kube
    <3>1. Programmed(l, c) /\ l.table = "nat" /\ l.rule
      BY <1>2, <2>1 DEF AllProgrammed, NatRule
    <3>2. PICK svc \in Range(c.others \o c.services), pod \in Range(c.pods) :
              \E port, protocol : About(l, svc, port, protocol, pod)
      BY <3>1 DEF Programmed
    <3> QED BY <3>2, ChainParts DEF About, EntryOf, HopOf, EndOf, Kube, Fixed
  <2>2. \A l : NatRule(all, l) <=> NatRule(lines, l)
    <3>1. \A l : NatRule(all, l) => chainAllowed(l.chain, asked)
      BY <1>4, <2>1 DEF chainAllowed
    <3> QED BY <1>3, <3>1 DEF NatRule
  <2>3. ASSUME NEW l, NatRule(lines, l) PROVE RuleWired(l, lines, c)
    BY <1>2, <2>2, <2>3, MoreRules DEF Wired
  <2> QED BY <1>2, <1>3, <2>2, <2>3 DEF Wired
<1>5. ASSUME "cali-*" \in asked PROVE Dispatches(lines, here)
  <2>1. chainAllowed(Fixed("cali-to-wl-dispatch"), asked)
    BY <1>5, ChainParts DEF chainAllowed, Kube, Fixed
  <2>2. \A l : DispatchRule(all, l) <=> DispatchRule(lines, l)
    BY <1>3, <2>1 DEF DispatchRule
  <2> QED BY <1>2, <2>2 DEF Dispatches
<1> QED BY <1>4, <1>5 DEF all, lines, here

\* No comment has a longer address than this pod's.
Distinct(pod, c) ==
    c.comments => \A p \in Range(c.pods) : addressWithin(pod.ip, p.ip) => p.ip = pod.ip

\* The chain of an endpoint of the port that translates to this pod's address.
Translates(chain, key, pod, lines, c) ==
    /\ chain # None /\ dnatAction(lines, chain) = pod.ip
    /\ \E p \in Range(c.pods) : \E a, b, d :
           key = <<a, b, d>> /\ chain = Chain("KUBE-SEP", <<a, b, d, p.name>>)

\* With whole tables, the endpoint chosen for a pod that the chain of the service leads to
\* translates to the address of that pod, unless comments have that of another too.
LEMMA EndpointFound ==
    ASSUME NEW c, Named(c), NEW lines, AllProgrammed(lines, c), Wired(lines, c),
           NEW key, NEW pod, Connected(lines, Chain("KUBE-SVC", key), pod),
           pod.ip # None, pod.ip # "cut",
           Distinct(pod, c)
    PROVE  Translates(endpointChain(lines, Chain("KUBE-SVC", key), pod.ip), key, pod, lines, c)
<1> DEFINE service    == Chain("KUBE-SVC", key)
           target     == pod.ip
           candidates == endpointRules(lines, service)
           named      == {k \in candidates : addressWithin(target, lines[k].comment)}
           translated == {k \in candidates : endpointDNATMatches(lines, lines[k].jump, target)}
           preferred  == IF named # {} THEN named ELSE translated
           chain      == endpointChain(lines, service, target)
           dnat       == {k \in rulesOf(lines, "nat", chain) : lines[k].to # None}
<1>1. chain = IF preferred = {} THEN None ELSE lines[Min(preferred)].jump
  BY DEF endpointChain
<1>2. \A l, x : NatRule(lines, l) /\ l.chain = x => \E k \in rulesOf(lines, "nat", x) : lines[k] = l
  BY DEF NatRule, rulesOf, Range
<1>3. \A x : \A k \in rulesOf(lines, "nat", x) : NatRule(lines, lines[k]) /\ k \in Nat
  <2>1. \A x : \A k \in rulesOf(lines, "nat", x) : k \in Nat
    BY RuleOfChain
  <2> QED BY <2>1 DEF NatRule, rulesOf, Range
<1>4. candidates \subseteq rulesOf(lines, "nat", service)
  BY DEF endpointRules
<1>5. preferred # {}
  <2>1. PICK h, m : /\ NatRule(lines, h) /\ h.chain = service
                    /\ h.jump # None /\ h.jump.class = "KUBE-SEP" /\ h.jump = m.chain
                    /\ NatRule(lines, m) /\ m.to = target
    BY DEF Connected
  <2>2. PICK k \in rulesOf(lines, "nat", service) : lines[k] = h
    BY <1>2, <2>1
  <2>3. PICK i \in rulesOf(lines, "nat", h.jump) : lines[i] = m
    BY <1>2, <2>1
  <2>4. k \in candidates
    BY <2>1, <2>2 DEF endpointRules
  <2>5. endpointDNATMatches(lines, lines[k].jump, target)
    BY <2>1, <2>2, <2>3 DEF endpointDNATMatches
  <2> HIDE DEF candidates
  <2> QED BY <2>4, <2>5
<1> DEFINE k == Min(preferred)
<1>6. k \in preferred
  <2>1. preferred \in SUBSET Nat
    <3> HIDE DEF candidates, service
    <3> QED BY <1>3, <1>4
  <2> HIDE DEF preferred
  <2> QED BY <1>5, <2>1, LeastNatural
<1>7. chain = lines[k].jump
  <2> HIDE DEF chain, preferred
  <2> QED BY <1>1, <1>5
<1> HIDE DEF k, chain, service
<1>8. k \in rulesOf(lines, "nat", service) /\ lines[k].jump # None /\ NatRule(lines, lines[k])
  <2>1. k \in candidates
    BY <1>6
  <2> QED BY <1>3, <1>4, <2>1 DEF endpointRules
<1>9. addressWithin(target, lines[k].comment) \/ endpointDNATMatches(lines, lines[k].jump, target)
  BY <1>6
<1>10. RuleWired(lines[k], lines, c)
  BY <1>8 DEF Wired
<1>11. PICK p \in Range(c.pods) : \E a, b, d : key = <<a, b, d>> /\ HopOf(lines[k], p, key)
  BY <1>8, HopRules DEF service
<1> PICK a, b, d : key = <<a, b, d>> /\ HopOf(lines[k], p, key)
  BY <1>11
<1>12. chain = Chain("KUBE-SEP", <<a, b, d, p.name>>) /\ lines[k].comment \in {p.ip, None}
  BY <1>7, <1>8, <1>10 DEF HopOf, RuleWired
<1>13. ASSUME NEW i \in rulesOf(lines, "nat", chain), lines[i].to # None PROVE lines[i].to = p.ip
  <2>1. lines[i].to \in {p.ip, None, "cut"}
    BY <1>12, EndRules
  <2>2. RuleWired(lines[i], lines, c)
    BY <1>3 DEF Wired
  <2> QED BY <1>13, <2>1, <2>2 DEF RuleWired
<1>14. dnat # {} /\ p.ip = target
  <2>1. CASE addressWithin(target, lines[k].comment)
    <3>1. lines[k].comment # None
      BY <2>1, WithinAssumption DEF addressWithin
    <3>2. PICK m : NatRule(lines, m) /\ m.chain = chain /\ m.to = lines[k].comment
      BY <1>7, <1>10, <3>1 DEF RuleWired, CommentWired
    <3>3. PICK i \in rulesOf(lines, "nat", chain) : lines[i] = m
      BY <1>2, <3>2
    <3>4. c.comments
      BY <1>10, <3>1 DEF RuleWired
    <3>5. addressWithin(pod.ip, p.ip)
      BY <1>12, <2>1, <3>1
    <3>6. p.ip = pod.ip
      BY <3>4, <3>5 DEF Distinct
    <3> QED BY <3>1, <3>2, <3>3, <3>6
  <2>2. CASE endpointDNATMatches(lines, lines[k].jump, target)
    <3>1. PICK i \in rulesOf(lines, "nat", chain) : lines[i].to = target
      BY <1>7, <2>2 DEF endpointDNATMatches
    <3> QED BY <1>13, <3>1
  <2> QED BY <1>9, <2>1, <2>2
<1>15. dnatAction(lines, chain) = p.ip
  <2>1. dnatAction(lines, chain) = IF dnat = {} THEN "endpoint" ELSE lines[Min(dnat)].to
    BY DEF dnatAction
  <2>2. dnat \in SUBSET Nat
    BY <1>3
  <2>3. Min(dnat) \in dnat
    <3> HIDE DEF dnat
    <3> QED BY <1>14, <2>2, LeastNatural
  <2>4. Min(dnat) \in rulesOf(lines, "nat", chain) /\ lines[Min(dnat)].to # None
    BY <2>3
  <2> HIDE DEF dnat
  <2> QED BY <1>13, <1>14, <2>1, <2>4
<1>16. key = <<a, b, d>>
  OBVIOUS
<1>17. \E q \in Range(c.pods) : \E x, y, z :
           key = <<x, y, z>> /\ chain = Chain("KUBE-SEP", <<x, y, z, q.name>>)
  BY <1>12, <1>16
<1>18. Translates(chain, key, pod, lines, c)
  BY <1>7, <1>8, <1>14, <1>15, <1>17 DEF Translates
<1> QED BY <1>18 DEF chain, service

\* A step of this stage through this chain.
Passed(steps, stage, chain, to) ==
    \E s \in Range(steps) : s.stage = stage /\ s.chain = chain /\ s.to = to

\* So do the steps to an endpoint: with whole tables the first entry that fits is that of the
\* port, if no other's address and port have the text of its own, and the chain of the port leads
\* to the pod.
LEMMA ServiceFound ==
    ASSUME NEW c, Named(c), NEW lines, AllProgrammed(lines, c), Wired(lines, c), ~c.masquerades,
           NEW svc, NEW observation, observation.protocol # "UDP",
           observation.serviceIP = svc.ip, svc.ip # None,
           ASSUME NEW other \in Range(c.others \o c.services), NEW port \in Range(other.ports),
                  addressWithin(svc.ip, other.ip), portWithin(observation.port, port)
           PROVE  other = svc /\ port = observation.port,
           NEW l, NatRule(lines, l), l.chain = Fixed("KUBE-SERVICES"), l.dst = svc.ip,
           l.port = observation.port, l.protocol = "tcp",
           NEW pod \in Range(endpointsOf(svc, c)), pod.ip = observation.targetIP,
           pod.ip # None, pod.ip # "cut",
           Distinct(pod, c)
    PROVE  LET steps == traceServiceDNAT(lines, observation)
               port  == observation.port
           IN  /\ Passed(steps, "service-dnat", Chain("KUBE-SVC", <<svc.name, port, "tcp">>), None)
               /\ \E p \in Range(c.pods) :
                      Passed(steps, "service-dnat",
                             Chain("KUBE-SEP", <<svc.name, port, "tcp", p.name>>), pod.ip)
<1> DEFINE entries  == {k \in rulesOf(lines, "nat", Fixed("KUBE-SERVICES")) :
                           /\ addressWithin(observation.serviceIP, lines[k].dst)
                           /\ portWithin(observation.port, lines[k].port)
                           /\ lines[k].protocol = iptablesProtocol(observation.protocol)}
           k        == Min(entries)
           service  == lines[k].jump
           endpoint == endpointChain(lines, service, observation.targetIP)
           Select(chain, to) == <<Step("service-dnat", "nat", chain, to)>>
           steps    == traceServiceDNAT(lines, observation)
           translated == dnatAction(lines, endpoint)
           key      == <<svc.name, observation.port, "tcp">>
<1>1. steps = IF entries = {} \/ service = None THEN <<>>
              ELSE Select(Fixed("KUBE-SERVICES"), None) \o Select(service, None)
                   \o (IF endpoint = None THEN <<>> ELSE Select(endpoint, translated))
  BY DEF traceServiceDNAT
<1>2. entries # {}
  <2>1. PICK i \in DOMAIN lines : lines[i] = l
    BY DEF NatRule, Range
  <2>2. i \in rulesOf(lines, "nat", Fixed("KUBE-SERVICES"))
    BY <2>1 DEF NatRule, rulesOf
  <2>3. portWithin(observation.port, lines[i].port)
    BY <2>1 DEF portWithin
  <2>4. addressWithin(observation.serviceIP, lines[i].dst)
    BY <2>1 DEF addressWithin
  <2>5. lines[i].protocol = iptablesProtocol(observation.protocol)
    BY <2>1 DEF iptablesProtocol
  <2>6. i \in entries
    BY <2>2, <2>3, <2>4, <2>5
  <2> QED BY <2>6
<1>3. k \in entries
  <2>1. entries \in SUBSET Nat
    BY RuleOfChain
  <2> HIDE DEF entries
  <2> QED BY <1>2, <2>1, LeastNatural
<1>4. /\ k \in rulesOf(lines, "nat", Fixed("KUBE-SERVICES"))
      /\ addressWithin(svc.ip, lines[k].dst) /\ portWithin(observation.port, lines[k].port)
      /\ lines[k].protocol = "tcp"
  <2>1. iptablesProtocol(observation.protocol) = "tcp"
    BY DEF iptablesProtocol
  <2> HIDE DEF k
  <2> QED BY <1>3, <2>1
<1> HIDE DEF k, entries
<1>5. NatRule(lines, lines[k]) /\ lines[k].chain = Fixed("KUBE-SERVICES")
  BY <1>4 DEF NatRule, rulesOf, Range
<1>6. PICK other \in Range(c.others \o c.services) : EntryWired(lines[k], other, lines, c)
  BY <1>5 DEF Wired, RuleWired
<1>7. other = svc /\ lines[k].port = observation.port
  <2>1. lines[k].port \in Range(other.ports) /\ lines[k].dst = other.ip
    BY <1>6 DEF EntryWired
  <2>2. addressWithin(svc.ip, other.ip)
    BY <1>4, <2>1
  <2> QED BY <1>4, <2>1, <2>2
<1>8. service = Chain("KUBE-SVC", key)
  BY <1>4, <1>6, <1>7 DEF EntryWired
<1>9. service # None /\ Connected(lines, service, pod)
  BY <1>6, <1>7 DEF EntryWired
<1>10. /\ endpoint # None /\ translated = pod.ip
       /\ \E p \in Range(c.pods) : \E a, b, d :
              key = <<a, b, d>> /\ endpoint = Chain("KUBE-SEP", <<a, b, d, p.name>>)
  <2>1. endpoint = endpointChain(lines, Chain("KUBE-SVC", key), pod.ip)
    BY <1>8
  <2>2. Connected(lines, Chain("KUBE-SVC", key), pod)
    BY <1>8, <1>9
  <2> HIDE DEF key, service, endpoint
  <2>3. Translates(endpoint, key, pod, lines, c)
    BY <2>1, <2>2, EndpointFound
  <2> QED BY <2>3 DEF Translates
<1>11. PICK p \in Range(c.pods) : endpoint = Chain("KUBE-SEP", <<svc.name, observation.port, "tcp", p.name>>)
  <2>1. PICK p \in Range(c.pods) : \E a, b, d :
            key = <<a, b, d>> /\ endpoint = Chain("KUBE-SEP", <<a, b, d, p.name>>)
    BY <1>10
  <2> PICK a, b, d : key = <<a, b, d>> /\ endpoint = Chain("KUBE-SEP", <<a, b, d, p.name>>)
    BY <2>1
  <2>2. a = svc.name /\ b = observation.port /\ d = "tcp"
    OBVIOUS
  <2> HIDE DEF endpoint, key
  <2> QED BY <2>2
<1>12. steps = Select(Fixed("KUBE-SERVICES"), None) \o Select(service, None)
                   \o Select(endpoint, translated)
  <2> HIDE DEF steps, service, endpoint, translated, Select
  <2> QED BY <1>1, <1>2, <1>9, <1>10
<1>13. ASSUME NEW chain, NEW to
       PROVE  /\ IsSequence(Select(chain, to))
              /\ Passed(Select(chain, to), "service-dnat", chain, to)
  <2> DEFINE step == Step("service-dnat", "nat", chain, to)
  <2>1. step.stage = "service-dnat" /\ step.chain = chain /\ step.to = to
    BY DEF Step
  <2> HIDE DEF step
  <2>2. IsSequence(<<step>>) /\ step \in Range(<<step>>)
    BY Short
  <2> QED BY <2>1, <2>2 DEF Passed, step
<1> HIDE DEF Select, steps, service, endpoint, translated, key
<1>14. /\ Range(Select(service, None)) \subseteq Range(steps)
       /\ Range(Select(endpoint, translated)) \subseteq Range(steps)
  BY <1>12, <1>13, Concatenated
<1>15. Passed(steps, "service-dnat", service, None) /\ Passed(steps, "service-dnat", endpoint, translated)
  BY <1>13, <1>14 DEF Passed
<1> QED BY <1>8, <1>10, <1>11, <1>15 DEF steps, key

\* With a route to the pod's address alone, and an interface that begins like no other, the rule of its interface is found on its node.
LEMMA TargetFound ==
    ASSUME NEW pods, NEW snapshot, IsSequence(snapshot.lines), Dispatches(snapshot.lines, pods),
           NEW pod \in Range(pods), pod.name \in STRING, pod.name # None, ~crowded(pod, pods), NEW stage,
           [ip |-> pod.ip, interface |-> pod.name] \in snapshot.routes,
           \A r \in snapshot.routes : r.ip = pod.ip => r.interface = pod.name
    PROVE  LET steps == dispatch(snapshot, stage, pod.ip, Fixed("cali-to-wl-dispatch"))
           IN  Passed(steps, stage, Chain("cali-tw", <<pod.name>>), None)
<1> DEFINE interfaces == {r.interface : r \in {r \in snapshot.routes : r.ip = pod.ip}}
           lines == snapshot.lines
           chain == Fixed("cali-to-wl-dispatch")
           rules == {k \in rulesOf(lines, "filter", chain) :
                        lines[k].interface \in interfaces /\ lines[k].jump # None}
           own   == Chain("cali-tw", <<pod.name>>)
           steps == dispatch(snapshot, stage, pod.ip, chain)
           step  == Step(stage, "filter", own, None)
<1>1. interfaces = {pod.name}
  BY SMT
<1>2. own # None
  BY NoNoneChain DEF Parts
<1>3. \A i \in rulesOf(lines, "filter", chain) : DispatchRule(lines, lines[i]) /\ i \in Nat
  BY DEF rulesOf, DispatchRule, Range, IsSequence
<1>4. rules # {}
  <2>1. PICK l : DispatchRule(lines, l) /\ l.interface = pod.name
    BY DEF Dispatches
  <2>2. l.jump = own
    BY <2>1 DEF Dispatches
  <2>3. PICK i \in DOMAIN lines : lines[i] = l
    BY <2>1 DEF DispatchRule, Range
  <2>4. i \in rulesOf(lines, "filter", chain)
    BY <2>1, <2>3 DEF DispatchRule, rulesOf
  <2> HIDE DEF own, interfaces, chain, lines
  <2> QED BY <1>1, <1>2, <2>1, <2>2, <2>3, <2>4
<1> DEFINE k == Min(rules)
<1>5. k \in rules
  <2>1. rules \in SUBSET Nat
    <3> HIDE DEF lines, chain, interfaces
    <3> QED BY <1>3
  <2> HIDE DEF rules
  <2> QED BY <1>4, <2>1, LeastNatural
<1>6. lines[k].jump = own
  <2>1. k \in rulesOf(lines, "filter", chain) /\ lines[k].interface \in interfaces
    <3> HIDE DEF k, lines, chain, interfaces
    <3> QED BY <1>5
  <2>2. DispatchRule(lines, lines[k]) /\ lines[k].interface = pod.name
    <3> HIDE DEF k, lines, chain, interfaces
    <3> QED BY <1>1, <1>3, <2>1
  <2> HIDE DEF k
  <2> QED BY <2>2 DEF Dispatches
<1>7. steps = IF rules = {} THEN <<>> ELSE <<Step(stage, "filter", lines[k].jump, None)>>
  BY DEF dispatch
<1>8. steps = <<step>>
  <2> HIDE DEF steps, rules, k, lines
  <2> QED BY <1>4, <1>6, <1>7
<1>9. step.stage = stage /\ step.chain = own /\ step.to = None
  BY DEF Step
<1>10. \E s \in Range(steps) : s.stage = stage /\ s.chain = own /\ s.to = None
  <2> HIDE DEF steps, step, own
  <2> QED BY <1>8, <1>9, Short
<1> HIDE DEF steps, own
<1> QED BY <1>10 DEF steps, own, chain, Passed

\* They are steps of the path on the source node.
LEMMA SourceFound ==
    ASSUME NEW c, Named(c), NEW snapshot, AllProgrammed(snapshot.lines, c),
           NEW observation, observation.serviceIP # None,
           observation.targetIP # None => observation.targetIP # "cut"
    PROVE  Range(traceServiceDNAT(snapshot.lines, observation))
               \subseteq Range(TraceSourceIptables(snapshot, observation))
<1> DEFINE Existing(tables, class) ==
               existingChain(snapshot.lines, "source-egress", tables, Fixed(class))
           service == traceServiceDNAT(snapshot.lines, observation)
           own == dispatch(snapshot, "source-egress", observation.sourceIP,
                           Fixed("cali-from-wl-dispatch"))
           all == TraceSourceIptables(snapshot, observation)
<1>1. IsSequence(service)
  BY ServiceTraced
<1>2. \A tables, class : IsSequence(Existing(tables, class))
  BY OneStep DEF Only
<1>3. IsSequence(own)
  BY OneStep DEF Only
<1>4. all = Existing(<<"raw", "mangle", "nat">>, "cali-PREROUTING")
            \o service
            \o Existing(<<"filter">>, "cali-FORWARD")
            \o Existing(<<"filter">>, "cali-from-wl-dispatch")
            \o own
            \o Existing(<<"filter">>, "KUBE-FORWARD")
            \o Existing(<<"mangle", "nat">>, "cali-POSTROUTING")
  BY DEF TraceSourceIptables
<1>5. Range(service) \subseteq Range(all)
  <2> HIDE DEF Existing, service, own, all
  <2> QED BY <1>1, <1>2, <1>3, <1>4, Concatenated
<1> QED BY <1>5 DEF service, all

\* So is the step of the dispatch on the target node.
LEMMA DispatchFound ==
    ASSUME NEW snapshot, NEW observation
    PROVE  Range(dispatch(snapshot, "target-ingress", observation.targetIP, Fixed("cali-to-wl-dispatch")))
               \subseteq Range(TraceTargetIptables(snapshot, observation))
<1> DEFINE Existing(tables, class) ==
               existingChain(snapshot.lines, "target-ingress", tables, Fixed(class))
           own == dispatch(snapshot, "target-ingress", observation.targetIP,
                           Fixed("cali-to-wl-dispatch"))
           all == TraceTargetIptables(snapshot, observation)
<1>1. \A tables, class : IsSequence(Existing(tables, class))
  BY OneStep DEF Only
<1>2. IsSequence(own)
  BY OneStep DEF Only
<1>3. all = Existing(<<"raw", "mangle", "nat">>, "cali-PREROUTING")
            \o Existing(<<"filter">>, "cali-FORWARD")
            \o Existing(<<"filter">>, "cali-to-wl-dispatch")
            \o own
            \o Existing(<<"filter">>, "KUBE-FORWARD")
  BY DEF TraceTargetIptables
<1>4. Range(own) \subseteq Range(all)
  <2> HIDE DEF Existing, own, all
  <2> QED BY <1>1, <1>2, <1>3, Concatenated
<1> QED BY <1>4 DEF own, all

\* The pods of a node that run, for its routes and its rules.
LEMMA LocalPods ==
    ASSUME NEW c, Stored(c), NEW n
    PROVE  /\ IsSequence(Local(c, n))
           /\ \A pod : pod \in Range(Local(c, n)) <=>
                  pod \in Range(c.pods) /\ pod.phase = "Running" /\ pod.node = n
<1> DEFINE places == {k \in DOMAIN c.pods : c.pods[k].phase = "Running" /\ c.pods[k].node = n}
           pods == Local(c, n)
<1>1. pods = At(c.pods, places)
  BY DEF Local
<1>2. IsSequence(pods) /\ \A pod : pod \in Range(pods) <=> \E k \in places \cap DOMAIN c.pods : pod = c.pods[k]
  <2> HIDE DEF places, pods
  <2> QED BY <1>1, AtElements DEF Stored
<1> QED BY <1>2 DEF Range

LEMMA EndpointPods ==
    ASSUME NEW c, Stored(c), NEW svc
    PROVE  \A pod : pod \in Range(endpointsOf(svc, c)) <=>
               /\ pod \in Range(c.pods) /\ pod.phase = "Running"
               /\ svc.group # None /\ pod.group = svc.group
<1> DEFINE places == {k \in DOMAIN c.pods : /\ c.pods[k].phase = "Running"
                                            /\ svc.group # None /\ c.pods[k].group = svc.group}
           pods == endpointsOf(svc, c)
<1>1. pods = At(c.pods, places)
  BY DEF endpointsOf
<1>2. \A pod : pod \in Range(pods) <=> \E k \in places \cap DOMAIN c.pods : pod = c.pods[k]
  <2> HIDE DEF places, pods
  <2> QED BY <1>1, AtElements DEF Stored
<1> QED BY <1>2 DEF Range
=============================================================================
