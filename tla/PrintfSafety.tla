---------------------------- MODULE PrintfSafety ----------------------------
(***************************************************************************)
(* Proofs about semihosted_printf: whatever the format, the arguments and  *)
(* their values, each directive prints what it means on its own, numbers   *)
(* fit into pcBuf, and the locals keep to their types.                     *)
(*                                                                         *)
(* Formats are put together by FlattenSeq and numbers by Numeral, which    *)
(* are recursive functions: the first three parts show by induction what   *)
(* they compute.  Then comes the inductive invariant, what each part of a  *)
(* directive makes of it, and a lemma for each step.                       *)
(***************************************************************************)
EXTENDS SemihostedPrintf, FiniteSetTheorems, SequenceTheorems, TLAPS

-----------------------------------------------------------------------------
(* Induction *)

(* Induction over the naturals, for a set.  A number that is not in S would *)
(* be the last of a finite set whose members all have a successor in it.    *)
LEMMA InductionOnNat ==
  ASSUME NEW S, 0 \in S, \A n \in Nat : n \in S => n + 1 \in S
  PROVE  Nat \subseteq S
<1> SUFFICES ASSUME NEW m \in Nat, m \notin S PROVE FALSE
  OBVIOUS
<1> DEFINE T == S \cap (0..m)
           f == [n \in T |-> n + 1]
<1>1. IsFiniteSet(T)
  <2>1. IsFiniteSet(0..m)  BY FS_Interval, SMT
  <2>2. T \in SUBSET (0..m)  OBVIOUS
  <2> QED BY <2>1, <2>2, FS_Subset, Zenon
<1>2. 0 \in T  BY SMT
<1>3. f \in Injection(T, T \ {0})
  <2>1. \A n \in T : n + 1 \in T \ {0}  BY SMT
  <2>2. f \in [T -> T \ {0}]  BY <2>1, Zenon
  <2>3. \A a, b \in T : f[a] = f[b] => a = b
    <3>1. \A a, b \in T : a + 1 = b + 1 => a = b  BY SMT
    <3> QED BY <3>1, Zenon
  <2> QED BY <2>2, <2>3, Zenon DEF Injection, IsInjective
<1>4. IsFiniteSet(T \ {0}) /\ Cardinality(T \ {0}) = Cardinality(T) - 1
  BY <1>1, <1>2, FS_RemoveElement, Zenon
<1>5. Cardinality(T) <= Cardinality(T \ {0})
  BY <1>3, <1>4, FS_Injection, Zenon
<1>6. Cardinality(T) \in Nat  BY <1>1, FS_CardinalityType, Zenon
<1> HIDE DEF T
<1> QED BY <1>4, <1>5, <1>6, SMT

(* A set of naturals that is not empty has a least one. *)
LEMMA LeastOfNat ==
  ASSUME NEW S, S \subseteq Nat, S # {}
  PROVE  \E n \in S : \A m \in S : n <= m
<1> SUFFICES ASSUME \A n \in S : \E m \in S : ~(n <= m) PROVE FALSE
  OBVIOUS
<1> DEFINE Below == {n \in Nat : \A k \in 0..n : k \notin S}
<1>1. 0 \in Below  BY SMT
<1>2. \A n \in Nat : n \in Below => n + 1 \in Below
  <2> SUFFICES ASSUME NEW n \in Nat, n \in Below PROVE n + 1 \in Below
    OBVIOUS
  <2>1. \A k \in 0..n : k \notin S  BY Zenon
  <2>2. n + 1 \notin S  BY <2>1, SMT
  <2> QED BY <2>1, <2>2, SMT
<1>3. Nat \subseteq Below
  <2> HIDE DEF Below
  <2> QED BY <1>1, <1>2, InductionOnNat, Zenon
<1>4. \A n \in S : n \in 0..n /\ n \in Below  BY <1>3, SMT
<1> QED BY <1>4, Zenon

(* UpTo stops before the first c, wherever it is. *)
LEMMA UpToAt ==
  ASSUME NEW s, Len(s) \in Nat, NEW c, NEW i \in 1..Len(s), s[i] = c,
         \A j \in 1..(i - 1) : s[j] # c
  PROVE  UpTo(c, s) = SubSeq(s, 1, i - 1)
<1> DEFINE I == {j \in 1..Len(s) : s[j] = c}
<1>1. i \in I /\ \A j \in I : i <= j  BY SMT
<1>2. \A k \in I : (\A j \in I : k <= j) => k = i  BY <1>1, SMT
<1>3. Min(I) = i
  <2> HIDE DEF I
  <2> QED BY <1>1, <1>2, Zenon DEF Min
<1>4. UpTo(c, s) = SubSeq(s, 1, (IF I # {} THEN Min(I) ELSE 0) - 1)
  BY Zenon DEF UpTo, SelectInSeq
<1>5. I # {}  BY <1>1, Zenon
<1> QED BY <1>3, <1>4, <1>5, Zenon

(* UpTo stops before the first c. *)
LEMMA UpToFirst ==
  ASSUME NEW A, NEW s \in Seq(A), NEW t \in Seq(A), NEW c \in A,
         \A i \in 1..Len(s) : s[i] # c
  PROVE  UpTo(c, s \o (<<c>> \o t)) = s
<1> DEFINE u == s \o (<<c>> \o t)
           n == Len(s)
<1>1. /\ n \in Nat /\ Len(u) \in Nat /\ Len(u) > n /\ u \in Seq(A)
      /\ u[n + 1] = c /\ \A i \in 1..n : u[i] = s[i]
  BY SMT
<1>2. n + 1 \in 1..Len(u) /\ (n + 1) - 1 = n
  BY <1>1, SMT
<1>3. SubSeq(u, 1, n) = s
  BY <1>1, SMT
<1> HIDE DEF u, n
<1>4. \A j \in 1..n : u[j] # c
  BY <1>1, Zenon DEF n
<1> QED BY <1>1, <1>2, <1>3, <1>4, UpToAt, Zenon DEF u

(* UpTo goes to the end of what has no c in it. *)
LEMMA UpToNone ==
  ASSUME NEW s, NEW c, \A i \in 1..Len(s) : s[i] # c
  PROVE  UpTo(c, s) = s
BY Zenon DEF UpTo

-----------------------------------------------------------------------------
(* FlattenSeq *)

Flattens(q, n, f) ==
  \A i \in 1..n : f[i] = IF i = 1 THEN q[i] ELSE f[i - 1] \o q[i]

(* The recursive function of FlattenSeq exists ... *)
LEMMA FlattenFunction ==
  ASSUME NEW A, NEW q \in Seq(Seq(A)), NEW n \in Nat, n <= Len(q)
  PROVE  \E f \in [1..n -> Seq(A)] : Flattens(q, n, f)
<1> DEFINE D == {m \in Nat : m <= Len(q) => \E f \in [1..m -> Seq(A)] : Flattens(q, m, f)}
<1>1. 0 \in D
  <2>1. [i \in 1..0 |-> <<>>] \in [1..0 -> Seq(A)] /\ Flattens(q, 0, [i \in 1..0 |-> <<>>])
    BY SMT DEF Flattens
  <2> QED BY <2>1, Zenon
<1>2. \A m \in Nat : m \in D => m + 1 \in D
  <2> SUFFICES ASSUME NEW m \in Nat, m \in D, m + 1 <= Len(q)
               PROVE  \E f \in [1..(m + 1) -> Seq(A)] : Flattens(q, m + 1, f)
    BY SMT
  <2>1. PICK f \in [1..m -> Seq(A)] : Flattens(q, m, f)
    <3>1. m <= Len(q)  BY SMT
    <3> QED BY <3>1, Zenon
  <2> DEFINE last == IF m = 0 THEN q[1] ELSE f[m] \o q[m + 1]
             g == [i \in 1..(m + 1) |-> IF i <= m THEN f[i] ELSE last]
  <2>2. m + 1 \in 1..Len(q) /\ 1 \in 1..Len(q)  BY SMT
  <2>3. q[m + 1] \in Seq(A) /\ q[1] \in Seq(A)  BY <2>2, ElementOfSeq, Zenon
  <2>4. m # 0 => f[m] \in Seq(A)  BY SMT
  <2>5. last \in Seq(A)  BY <2>3, <2>4, ConcatProperties, Zenon
  <2>6. g \in [1..(m + 1) -> Seq(A)]
    <3> HIDE DEF last
    <3> QED BY <2>5, SMT
  <2>7. ASSUME NEW i \in 1..(m + 1)
        PROVE  g[i] = IF i = 1 THEN q[i] ELSE g[i - 1] \o q[i]
    <3>1. CASE i <= m
      <4>1. i \in 1..m /\ (i # 1 => i - 1 \in 1..m)  BY <3>1, SMT
      <4>2. g[i] = f[i] /\ (i # 1 => g[i - 1] = f[i - 1])  
        <5>1. i - 1 \in 1..m => (i - 1) \in 1..(m + 1) /\ i - 1 <= m  BY SMT
        <5> HIDE DEF last
        <5> QED BY <3>1, <4>1, <5>1, Zenon
      <4> QED BY <2>1, <4>1, <4>2, Zenon DEF Flattens
    <3>2. CASE ~(i <= m)
      <4>1. i = m + 1  BY <3>2, SMT
      <4>2. g[i] = last  BY <3>2, Zenon
      <4>3. CASE m = 0  
        <5>1. i = 1  BY <4>1, <4>3, SMT
        <5> QED BY <4>2, <4>3, <5>1, Zenon
      <4>4. CASE m # 0
        <5>1. i # 1 /\ i - 1 = m /\ m <= m /\ m \in 1..(m + 1)  BY <4>1, <4>4, SMT
        <5>2. g[i - 1] = f[m]  BY <5>1, Zenon
        <5> QED BY <4>1, <4>2, <4>4, <5>1, <5>2, Zenon
      <4> QED BY <4>3, <4>4
    <3> QED BY <3>1, <3>2
  <2> HIDE DEF g
  <2> QED BY <2>6, <2>7, Zenon DEF Flattens
<1>3. Nat \subseteq D
  <2> HIDE DEF D
  <2> QED BY <1>1, <1>2, InductionOnNat, Zenon
<1> QED BY <1>3, Zenon

(* ... and is the only one. *)
LEMMA FlattenUnique ==
  ASSUME NEW q, NEW n \in Nat, NEW f, NEW g,
         Flattens(q, n, f), Flattens(q, n, g)
  PROVE  \A i \in 1..n : f[i] = g[i]
<1> DEFINE D == {m \in Nat : m \in 1..n => f[m] = g[m]}
<1>1. 0 \in D  BY SMT
<1>2. \A m \in Nat : m \in D => m + 1 \in D
  <2> SUFFICES ASSUME NEW m \in Nat, m \in D, m + 1 \in 1..n PROVE f[m + 1] = g[m + 1]
    BY SMT
  <2>1. (m + 1) - 1 = m /\ (m + 1 # 1 => m \in 1..n)  BY SMT
  <2>2. m + 1 # 1 => f[m] = g[m]  BY <2>1, Zenon
  <2>3. /\ f[m + 1] = IF m + 1 = 1 THEN q[m + 1] ELSE f[(m + 1) - 1] \o q[m + 1]
        /\ g[m + 1] = IF m + 1 = 1 THEN q[m + 1] ELSE g[(m + 1) - 1] \o q[m + 1]
    BY Zenon DEF Flattens
  <2> HIDE DEF D
  <2> QED BY <2>1, <2>2, <2>3, Zenon
<1>3. Nat \subseteq D
  <2> HIDE DEF D
  <2> QED BY <1>1, <1>2, InductionOnNat, Zenon
<1> QED BY <1>3, SMT

(* FlattenSeq is the last value of that function. *)
LEMMA FlattenOf ==
  ASSUME NEW A, NEW q \in Seq(Seq(A)), q # <<>>, NEW f \in [1..Len(q) -> Seq(A)],
         Flattens(q, Len(q), f)
  PROVE  FlattenSeq(q) = f[Len(q)]
<1> DEFINE Is(g) == g = [i \in 1..Len(q) |-> IF i = 1 THEN q[i] ELSE g[i - 1] \o q[i]]
<1>1. Len(q) \in Nat /\ Len(q) # 0  BY SMT
<1>2. FlattenSeq(q) = (CHOOSE g : Is(g))[Len(q)]
  BY <1>1, Zenon DEF FlattenSeq
<1>3. Is(f)
  <2>1. f = [i \in 1..Len(q) |-> f[i]]  BY Zenon
  <2> QED BY <2>1, Zenon DEF Flattens
<1>4. ASSUME NEW g, Is(g) PROVE g = f
  <2>1. Flattens(q, Len(q), g) /\ g = [i \in 1..Len(q) |-> g[i]]
    BY <1>4, Zenon DEF Flattens
  <2>2. \A i \in 1..Len(q) : g[i] = f[i]
    <3> HIDE DEF Is
    <3> QED BY <1>1, <2>1, FlattenUnique, SMTT(60)
  <2>3. f = [i \in 1..Len(q) |-> f[i]]  BY Zenon
  <2> QED BY <2>1, <2>2, <2>3, Zenon
<1> HIDE DEF Is
<1>5. (CHOOSE g : Is(g)) = f  BY <1>3, <1>4, Zenon
<1> QED BY <1>2, <1>5, Zenon

(* Nothing joined is nothing. *)
LEMMA FlattenEmpty == FlattenSeq(<<>>) = <<>>
<1>1. Len(<<>>) = 0  BY SMT
<1> QED BY <1>1, Zenon DEF FlattenSeq

(* What is put behind goes behind all of it. *)
LEMMA FlattenAppend ==
  ASSUME NEW A, NEW q \in Seq(Seq(A)), NEW e \in Seq(A)
  PROVE  /\ FlattenSeq(q) \in Seq(A)
         /\ FlattenSeq(Append(q, e)) = FlattenSeq(q) \o e
<1> DEFINE n == Len(q)
           r == Append(q, e)
<1>1. /\ n \in Nat /\ r \in Seq(Seq(A)) /\ Len(r) = n + 1 /\ r # <<>>
      /\ r[n + 1] = e /\ \A i \in 1..n : r[i] = q[i]
  BY AppendProperties, SMT
<1>2. PICK f \in [1..(n + 1) -> Seq(A)] : Flattens(r, n + 1, f)
  <2>1. n + 1 \in Nat /\ n + 1 <= Len(r)  BY <1>1, SMT
  <2> HIDE DEF n, r
  <2> QED BY <1>1, <2>1, FlattenFunction, Zenon
<1>3. FlattenSeq(r) = f[n + 1]
  <2>1. f \in [1..Len(r) -> Seq(A)] /\ Flattens(r, Len(r), f)  BY <1>1, <1>2, Zenon
  <2> HIDE DEF n, r
  <2> QED BY <1>1, <2>1, FlattenOf, Zenon
<1>4. CASE n = 0
  <2>1. q = <<>>  BY <1>4, SMT
  <2>2. f[1] = r[1] /\ r[1] = e /\ n + 1 = 1
    <3>1. 1 \in 1..(n + 1) /\ n + 1 = 1  BY <1>4, SMT
    <3> HIDE DEF n, r
    <3> QED BY <1>1, <1>2, <3>1, Zenon DEF Flattens
  <2>3. FlattenSeq(q) = <<>> /\ <<>> \in Seq(A) /\ <<>> \o e = e
    BY <2>1, FlattenEmpty, EmptySeq, ConcatEmptySeq, Zenon
  <2> QED BY <1>3, <2>2, <2>3, Zenon
<1>5. CASE n # 0
  <2> DEFINE g == [i \in 1..n |-> f[i]]
  <2>0. /\ n \in 1..n /\ n + 1 # 1 /\ (n + 1) - 1 = n /\ n + 1 \in 1..(n + 1)
        /\ 1..n \subseteq 1..(n + 1)
    BY <1>1, <1>5, SMT
  <2>1. g \in [1..n -> Seq(A)]
    <3> HIDE DEF n
    <3> QED BY <2>0, Zenon
  <2>2. ASSUME NEW i \in 1..n PROVE g[i] = IF i = 1 THEN q[i] ELSE g[i - 1] \o q[i]
    <3>1. i \in 1..(n + 1) /\ (i # 1 => i - 1 \in 1..n)  BY <1>1, SMT
    <3> HIDE DEF n, r
    <3> QED BY <1>1, <1>2, <3>1, Zenon DEF Flattens
  <2>3. q # <<>>  BY <1>5, SMT
  <2>4. FlattenSeq(q) = g[n]
    <3>1. Flattens(q, n, g)
      <4> HIDE DEF g, n
      <4> QED BY <2>2, Zenon DEF Flattens
    <3> HIDE DEF g
    <3> QED BY <2>1, <2>3, <3>1, FlattenOf, Zenon
  <2>5. f[n + 1] = f[n] \o e
    <3> HIDE DEF r
    <3> QED BY <1>1, <1>2, <2>0, Zenon DEF Flattens
  <2>6. g[n] = f[n] /\ g[n] \in Seq(A)
    <3> HIDE DEF n
    <3> QED BY <2>0, <2>1, Zenon
  <2> QED BY <1>3, <2>4, <2>5, <2>6, Zenon
<1> QED BY <1>4, <1>5

(* One sequence joined is itself. *)
LEMMA FlattenOne ==
  ASSUME NEW A, NEW e \in Seq(A)
  PROVE  FlattenSeq(<<e>>) = e
<1>1. <<>> \in Seq(Seq(A)) /\ Append(<<>>, e) = <<e>>  BY SMT
<1>2. FlattenSeq(Append(<<>>, e)) = FlattenSeq(<<>>) \o e
  BY <1>1, FlattenAppend, Zenon
<1>3. <<>> \o e = e  BY ConcatEmptySeq, Zenon
<1> QED BY <1>1, <1>2, <1>3, FlattenEmpty, Zenon

(* What is put in front goes in front of all of it. *)
LEMMA FlattenCons ==
  ASSUME NEW A, NEW s \in Seq(Seq(A)), NEW e \in Seq(A)
  PROVE  FlattenSeq(<<e>> \o s) = e \o FlattenSeq(s)
<1> DEFINE P(q) == FlattenSeq(<<e>> \o q) = e \o FlattenSeq(q)
           D == {n \in Nat : \A q \in Seq(Seq(A)) : Len(q) = n => P(q)}
<1>1. 0 \in D
  <2>1. \A q \in Seq(Seq(A)) : Len(q) = 0 => q = <<>> /\ <<e>> \o q = <<e>>  BY SMT
  <2>2. e \o <<>> = e  BY ConcatEmptySeq, Zenon
  <2>3. P(<<>>)
    <3>1. <<e>> \o <<>> = <<e>>  BY SMT
    <3> QED BY <2>2, <3>1, FlattenOne, FlattenEmpty, Zenon
  <2>4. \A q \in Seq(Seq(A)) : Len(q) = 0 => P(q)
    <3> HIDE DEF P
    <3> QED BY <2>1, <2>3, Zenon
  <2> HIDE DEF P
  <2> QED BY <2>4, SMT
<1>2. \A n \in Nat : n \in D => n + 1 \in D
  <2> SUFFICES ASSUME NEW n \in Nat, n \in D, NEW q \in Seq(Seq(A)), Len(q) = n + 1
               PROVE  P(q)
    <3>1. \A n \in Nat : n + 1 \in Nat  BY SMT
    <3> QED BY <3>1, Zenon
  <2>1. q # <<>>  BY SMT
  <2>2. PICK p \in Seq(Seq(A)), x \in Seq(A) : q = Append(p, x)
    BY <2>1, SequenceEmptyOrAppend, Zenon
  <2>3. Len(p) = n  BY <2>2, SMT
  <2>4. P(p)  BY <2>3, Zenon
  <2>5. <<e>> \o p \in Seq(Seq(A)) /\ <<e>> \o Append(p, x) = Append(<<e>> \o p, x)  BY SMTT(60)
  <2>6. FlattenSeq(Append(<<e>> \o p, x)) = FlattenSeq(<<e>> \o p) \o x
    BY <2>5, FlattenAppend, Zenon
  <2>7. FlattenSeq(p) \in Seq(A) /\ FlattenSeq(q) = FlattenSeq(p) \o x
    BY <2>2, FlattenAppend, Zenon
  <2>8. (e \o FlattenSeq(p)) \o x = e \o (FlattenSeq(p) \o x)
    BY <2>7, ConcatAssociative, SMTT(60)
  <2> QED BY <2>2, <2>4, <2>5, <2>6, <2>7, <2>8, Zenon
<1>3. Nat \subseteq D
  <2> HIDE DEF D
  <2> QED BY <1>1, <1>2, InductionOnNat, Zenon
<1>4. Len(s) \in Nat  BY LenProperties, Zenon
<1> QED BY <1>3, <1>4, Zenon

-----------------------------------------------------------------------------
(* Numeral *)

Bases == {10, 16}
HasDigits(digits, base, A) == \A i \in 0..(base - 1) : digits[i + 1] \in A

Spells(base, digits, n, f) ==
  \A m \in 0..n : f[m] = IF m < base THEN <<digits[m + 1]>>
                         ELSE Append(f[m \div base], digits[(m % base) + 1])

(* A number without its last digit, and its last digit. *)
LEMMA Quotient ==
  ASSUME NEW base \in Bases, NEW n \in Nat
  PROVE  /\ n \div base \in Nat /\ n % base \in 0..(base - 1)
         /\ n = base * (n \div base) + (n % base)
         /\ n >= base => n \div base >= 1 /\ n \div base < n
         /\ n < base => n \div base = 0 /\ n % base = n
         /\ n \div base <= n
<1>1. CASE base = 10  BY <1>1, SMT
<1>2. CASE base = 16  BY <1>2, SMT
<1> QED BY <1>1, <1>2 DEF Bases

(* The recursive function of Numeral exists ... *)
LEMMA NumeralFunction ==
  ASSUME NEW A, NEW digits, NEW base \in Bases, NEW n \in Nat,
         HasDigits(digits, base, A)
  PROVE  \E f \in [0..n -> Seq(A)] : Spells(base, digits, n, f)
<1> DEFINE D == {m \in Nat : \E f \in [0..m -> Seq(A)] : Spells(base, digits, m, f)}
<1>0. \A i \in 0..(base - 1) : digits[i + 1] \in A
  BY Zenon DEF HasDigits
<1>1. 0 \in D
  <2> DEFINE f == [m \in 0..0 |-> <<digits[m + 1]>>]
  <2>1. f \in [0..0 -> Seq(A)]
    <3>1. \A m \in 0..0 : m \in 0..(base - 1)  BY SMT DEF Bases
    <3>2. \A x \in A : <<x>> \in Seq(A)  BY SMT
    <3> QED BY <1>0, <3>1, <3>2, Zenon
  <2>2. Spells(base, digits, 0, f)  BY SMT DEF Spells, Bases
  <2> QED BY <2>1, <2>2, Zenon
<1>2. \A m \in Nat : m \in D => m + 1 \in D
  <2> SUFFICES ASSUME NEW m \in Nat, m \in D
               PROVE  \E f \in [0..(m + 1) -> Seq(A)] : Spells(base, digits, m + 1, f)
    <3>1. \A m \in Nat : m + 1 \in Nat  BY SMT
    <3> QED BY <3>1, Zenon
  <2>1. PICK f \in [0..m -> Seq(A)] : Spells(base, digits, m, f)
    BY Zenon
  <2> DEFINE k == m + 1
             last == IF k < base THEN <<digits[k + 1]>>
                     ELSE Append(f[k \div base], digits[(k % base) + 1])
             g == [i \in 0..k |-> IF i <= m THEN f[i] ELSE last]
  <2>2. /\ k \in Nat /\ k % base \in 0..(base - 1) /\ (k < base => k \in 0..(base - 1))
        /\ k >= base => k \div base \in 0..m
    BY Quotient, SMT DEF Bases
  <2>3. last \in Seq(A)
    <3>1. CASE k < base
      <4>1. digits[k + 1] \in A  BY <1>0, <2>2, <3>1, Zenon
      <4> QED BY <3>1, <4>1, SMT
    <3>2. CASE ~(k < base)
      <4>1. f[k \div base] \in Seq(A) /\ digits[(k % base) + 1] \in A
        <5>1. k \div base \in 0..m  BY <2>2, <3>2, SMT DEF Bases
        <5> QED BY <1>0, <2>2, <5>1, Zenon
      <4> QED BY <3>2, <4>1, AppendProperties, Zenon
    <3> QED BY <3>1, <3>2
  <2>4. g \in [0..k -> Seq(A)]
    <3> HIDE DEF last
    <3> QED BY <2>3, SMT
  <2>5. \A i \in 0..m : i \in 0..k /\ g[i] = f[i]
    <3> HIDE DEF last
    <3> QED BY SMT
  <2>6. k \in 0..k /\ g[k] = last
    <3> HIDE DEF last
    <3> QED BY SMT
  <2>7. ASSUME NEW i \in 0..k
        PROVE  g[i] = IF i < base THEN <<digits[i + 1]>>
                      ELSE Append(g[i \div base], digits[(i % base) + 1])
    <3>1. CASE i \in 0..m
      <4>1. i \div base \in 0..m  BY <3>1, Quotient, SMT DEF Bases
      <4> HIDE DEF g, last, k
      <4> QED BY <2>1, <2>5, <3>1, <4>1, Zenon DEF Spells
    <3>2. CASE i = k
      <4>1. ~(k < base) => k \div base \in 0..m  BY <2>2, SMT DEF Bases
      <4>2. g[k] = IF k < base THEN <<digits[k + 1]>>
                   ELSE Append(f[k \div base], digits[(k % base) + 1])
        BY <2>6, Zenon
      <4> HIDE DEF g, last, k
      <4> QED BY <2>5, <3>2, <4>1, <4>2, Zenon
    <3>3. i \in 0..m \/ i = k  BY SMT
    <3> QED BY <3>1, <3>2, <3>3
  <2>8. Spells(base, digits, k, g)
    <3> HIDE DEF g, k
    <3> QED BY <2>7, Zenon DEF Spells
  <2> HIDE DEF g
  <2> QED BY <2>4, <2>8, Zenon
<1>3. Nat \subseteq D
  <2> HIDE DEF D
  <2> QED BY <1>1, <1>2, InductionOnNat, Zenon
<1> QED BY <1>3, Zenon

(* ... and is the only one, as far as each of two goes. *)
LEMMA NumeralUnique ==
  ASSUME NEW digits, NEW base \in Bases, NEW n \in Nat, NEW k \in 0..n,
         NEW f, Spells(base, digits, n, f), NEW g, Spells(base, digits, k, g)
  PROVE  \A m \in 0..k : f[m] = g[m]
<1> DEFINE D == {j \in Nat : \A m \in 0..j : m \in 0..k => f[m] = g[m]}
<1>0. ASSUME NEW m \in 0..k, m >= base => f[m \div base] = g[m \div base]
      PROVE  f[m] = g[m]
  <2>1. m \in 0..n /\ (~(m < base) => m >= base)  BY SMT DEF Bases
  <2> QED BY <1>0, <2>1, Zenon DEF Spells
<1>1. 0 \in D
  <2>1. 0 \in 0..k => f[0] = g[0]  BY <1>0, SMT DEF Bases
  <2> QED BY <2>1, SMT
<1>2. \A j \in Nat : j \in D => j + 1 \in D
  <2> SUFFICES ASSUME NEW j \in Nat, j \in D, j + 1 \in 0..k PROVE f[j + 1] = g[j + 1]
    BY SMT
  <2>1. j + 1 >= base => (j + 1) \div base \in 0..j /\ (j + 1) \div base \in 0..k
    BY Quotient, SMT DEF Bases
  <2> QED BY <1>0, <2>1, Zenon
<1>3. Nat \subseteq D
  <2> HIDE DEF D
  <2> QED BY <1>1, <1>2, InductionOnNat, Zenon
<1>4. k \in D /\ \A m \in 0..k : m \in 0..k  BY <1>3, SMT
<1> QED BY <1>4, Zenon

(* Numeral is the last value of that function. *)
LEMMA NumeralOf ==
  ASSUME NEW digits, NEW base \in Bases, NEW n \in Nat, NEW A,
         NEW f \in [0..n -> Seq(A)], Spells(base, digits, n, f)
  PROVE  Numeral(n, base, digits) = f[n]
<1> DEFINE Is(g) == g = [m \in 0..n |-> IF m < base THEN <<digits[m + 1]>>
                         ELSE Append(g[m \div base], digits[(m % base) + 1])]
<1>1. Numeral(n, base, digits) = (CHOOSE g : Is(g))[n]
  BY Zenon DEF Numeral
<1>2. Is(f)
  <2>1. f = [m \in 0..n |-> f[m]]  BY Zenon
  <2> QED BY <2>1, Zenon DEF Spells
<1>3. ASSUME NEW g, Is(g) PROVE g = f
  <2>1. Spells(base, digits, n, g) /\ g = [m \in 0..n |-> g[m]]
    BY <1>3, Zenon DEF Spells
  <2>2. \A m \in 0..n : g[m] = f[m]
    <3>1. n \in 0..n  BY SMT
    <3> HIDE DEF Is
    <3> QED BY <2>1, <3>1, NumeralUnique, SMT
  <2>3. f = [m \in 0..n |-> f[m]]  BY Zenon
  <2> QED BY <2>1, <2>2, <2>3, Zenon
<1> HIDE DEF Is
<1>4. (CHOOSE g : Is(g)) = f  BY <1>2, <1>3, Zenon
<1> QED BY <1>1, <1>4, Zenon

(* What a numeral is, one digit at a time. *)
LEMMA NumeralUnfold ==
  ASSUME NEW A, NEW digits, NEW base \in Bases, NEW n \in Nat,
         HasDigits(digits, base, A)
  PROVE  /\ Numeral(n, base, digits) \in Seq(A)
         /\ Numeral(n, base, digits) # <<>>
         /\ Numeral(n, base, digits) =
              IF n < base THEN <<digits[n + 1]>>
              ELSE Append(Numeral(n \div base, base, digits), digits[(n % base) + 1])
         /\ digits[(n % base) + 1] \in A
<1> DEFINE k == n \div base
<1>0. /\ k \in 0..n /\ k \in Nat /\ n % base \in 0..(base - 1)
      /\ n \in 0..n /\ (n < base => n % base = n)
  BY Quotient, SMT DEF Bases
<1>d. digits[(n % base) + 1] \in A  BY <1>0, Zenon DEF HasDigits
<1>1. PICK f \in [0..n -> Seq(A)] : Spells(base, digits, n, f)
  BY NumeralFunction, Zenon
<1>2. Numeral(n, base, digits) = f[n]  BY <1>1, NumeralOf, Zenon
<1>3. f[n] \in Seq(A)  BY <1>0, Zenon
<1>4. f[n] = IF n < base THEN <<digits[n + 1]>>
             ELSE Append(f[k], digits[(n % base) + 1])
  BY <1>0, <1>1, Zenon DEF Spells
<1>5. Numeral(k, base, digits) = f[k]
  <2> DEFINE g == [m \in 0..k |-> f[m]]
  <2>1. \A m \in 0..k : m \in 0..n /\ m \div base \in 0..k
    BY <1>0, Quotient, SMT DEF Bases
  <2>2. g \in [0..k -> Seq(A)] /\ g[k] = f[k]
    <3>1. k \in 0..k  BY <1>0, SMT
    <3> HIDE DEF k
    <3> QED BY <2>1, <3>1, Zenon
  <2>3. Spells(base, digits, k, g)
    <3> HIDE DEF k
    <3> QED BY <1>1, <2>1, Zenon DEF Spells
  <2>4. Numeral(k, base, digits) = g[k]
    <3> HIDE DEF k, g
    <3> QED BY <1>0, <2>2, <2>3, NumeralOf, Zenon
  <2> QED BY <2>2, <2>4, Zenon
<1>6. f[k] \in Seq(A)  BY <1>0, Zenon
<1>7. f[n] # <<>>
  <2>1. CASE n < base  BY <1>4, <2>1, SMT
  <2>2. CASE ~(n < base)
    <3>1. f[n] = Append(f[k], digits[(n % base) + 1])  BY <1>4, <2>2, Zenon
    <3>2. \A t \in Seq(A), x \in A : Append(t, x) # <<>>
      <4>1. Len(<<>>) = 0 /\ \A t \in Seq(A) : Len(t) + 1 # 0  BY SMT
      <4>2. \A t \in Seq(A), x \in A : Len(Append(t, x)) = Len(t) + 1  BY AppendProperties, Zenon
      <4> QED BY <4>1, <4>2, Zenon
    <3> QED BY <1>6, <1>d, <3>1, <3>2, Zenon
  <2> QED BY <2>1, <2>2
<1> QED BY <1>2, <1>3, <1>4, <1>5, <1>7, <1>d, Zenon

(* Induction over the naturals from all smaller ones, for a set. *)
LEMMA StrongInduction ==
  ASSUME NEW S, \A n \in Nat : (\A m \in 0..(n - 1) : m \in S) => n \in S
  PROVE  Nat \subseteq S
<1> DEFINE D == {n \in Nat : \A m \in 0..n : m \in S}
<1>1. 0 \in D
  <2>1. \A m \in 0..(0 - 1) : m \in S  BY SMT
  <2>2. 0 \in Nat /\ \A m \in 0..0 : m = 0  BY SMT
  <2>3. 0 \in S  BY <2>1, <2>2, Zenon
  <2> QED BY <2>2, <2>3, Zenon
<1>2. \A n \in Nat : n \in D => n + 1 \in D
  <2> SUFFICES ASSUME NEW n \in Nat, n \in D PROVE n + 1 \in D
    OBVIOUS
  <2>1. n + 1 \in Nat /\ (n + 1) - 1 = n /\ \A m \in 0..(n + 1) : m \in 0..n \/ m = n + 1
    BY SMT
  <2>2. \A m \in 0..n : m \in S  BY Zenon
  <2>3. n + 1 \in S  BY <2>1, <2>2, Zenon
  <2> QED BY <2>1, <2>2, <2>3, Zenon
<1>3. Nat \subseteq D
  <2> HIDE DEF D
  <2> QED BY <1>1, <1>2, InductionOnNat, Zenon
<1>4. \A n \in Nat : n \in D /\ n \in 0..n  BY <1>3, SMT
<1> QED BY <1>4, Zenon

(* The digits of a numeral are told apart by their values. *)
Distinct(digits, base) ==
  \A i, j \in 0..(base - 1) : digits[i + 1] = digits[j + 1] => i = j

(* A numeral is made of the digits it is given, of one at least. *)
LEMMA NumeralTyped ==
  ASSUME NEW A, NEW digits, NEW base \in Bases, NEW n \in Nat,
         HasDigits(digits, base, A)
  PROVE  Numeral(n, base, digits) \in Seq(A) /\ Len(Numeral(n, base, digits)) >= 1
<1>1. Numeral(n, base, digits) \in Seq(A) /\ Numeral(n, base, digits) # <<>>
  BY NumeralUnfold, Zenon
<1> HIDE DEF Numeral
<1> QED BY <1>1, EmptySeq, SMT

(* A numeral is longer than the one of what is left of the number without *)
(* its last digit, and no number has a prefix of its numeral that is that *)
(* of a greater number.                                                   *)
LEMMA PrefixNotGreater ==
  ASSUME NEW A, NEW digits, NEW base \in Bases, HasDigits(digits, base, A),
         Distinct(digits, base)
  PROVE  \A w, v \in Nat, r \in Seq(A) :
           Numeral(w, base, digits) = Numeral(v, base, digits) \o r => v <= w
<1> DEFINE Num(n) == Numeral(n, base, digits)
           last(n) == digits[(n % base) + 1]
           S == {w \in Nat : \A v \in Nat, r \in Seq(A) : Num(w) = Num(v) \o r => v <= w}
<1>1. \A n \in Nat : /\ Num(n) \in Seq(A) /\ last(n) \in A /\ Len(Num(n)) >= 1
                     /\ Num(n) = IF n < base THEN <<digits[n + 1]>>
                                 ELSE Append(Num(n \div base), last(n))
  BY NumeralUnfold, NumeralTyped, Zenon
<1>a. \A s \in Seq(A), x \in A : Len(Append(s, x)) = Len(s) + 1
  BY AppendProperties, Zenon
<1>b. \A s, t \in Seq(A), x, y \in A : Append(s, x) = Append(t, y) => s = t /\ x = y
  BY AppendInjective, SMT
<1>c. \A x, y : <<x>> = <<y>> => x = y  BY SMT
<1>d. \A l \in Nat : l >= 1 => l + 1 # 1  BY SMT
<1>2. ASSUME NEW w \in Nat, \A u \in 0..(w - 1) : u \in S
      PROVE  w \in S
  <2> SUFFICES ASSUME NEW v \in Nat, NEW r \in Seq(A), Num(w) = Num(v) \o r PROVE v <= w
    BY Zenon
  <2> HIDE DEF Num, last
  <2>0. /\ w \div base \in Nat /\ v \div base \in Nat /\ Num(v) \in Seq(A)
        /\ Num(v \div base) \in Seq(A) /\ Num(w \div base) \in Seq(A)
        /\ last(w) \in A /\ last(v) \in A /\ Len(Num(v)) >= 1
    BY <1>1, Quotient, Zenon
  <2>1. CASE r = <<>>
    <3>1. Num(w) = Num(v)  BY <2>0, <2>1, ConcatEmptySeq, Zenon
    <3>2. CASE w < base
      <4>1. Num(w) = <<digits[w + 1]>>  BY <1>1, <3>2, Zenon
      <4>2. CASE v < base
        <5>1. Num(v) = <<digits[v + 1]>>  BY <1>1, <4>2, Zenon
        <5>2. digits[v + 1] = digits[w + 1]  BY <1>c, <3>1, <4>1, <5>1, Zenon
        <5>3. v \in 0..(base - 1) /\ w \in 0..(base - 1)  BY <3>2, <4>2, SMT DEF Bases
        <5>4. v = w  BY <5>2, <5>3, Zenon DEF Distinct
        <5> QED BY <5>4, SMT
      <4>3. CASE ~(v < base)
        <5>1. Num(v) = Append(Num(v \div base), last(v))  BY <1>1, <4>3, Zenon
        <5>2. Len(Num(v)) = Len(Num(v \div base)) + 1
          BY <1>a, <2>0, <5>1, Zenon
        <5>3. Len(Num(v \div base)) >= 1  BY <1>1, <2>0, Zenon
        <5>4. Len(Num(v)) = 1  BY <3>1, <4>1, SMT
        <5>5. Len(Num(v \div base)) \in Nat  BY <2>0, LenProperties, Zenon
        <5> QED BY <1>d, <5>2, <5>3, <5>4, <5>5, Zenon
      <4> QED BY <4>2, <4>3
    <3>3. CASE ~(w < base)
      <4>1. CASE v < base  BY <3>3, <4>1, SMT DEF Bases
      <4>2. CASE ~(v < base)
        <5>1. Append(Num(w \div base), last(w)) = Append(Num(v \div base), last(v))
          BY <1>1, <3>1, <3>3, <4>2, Zenon
        <5>2. Num(w \div base) = Num(v \div base) /\ last(w) = last(v)
          BY <1>b, <2>0, <5>1, SMT
        <5>3. w \div base \in 0..(w - 1)  BY <3>3, Quotient, SMT DEF Bases
        <5>4. Num(w \div base) = Num(v \div base) \o <<>>
          BY <2>0, <5>2, ConcatEmptySeq, Zenon
        <5>5. v \div base <= w \div base
          <6>1. <<>> \in Seq(A)  BY EmptySeq, Zenon
          <6> QED BY <1>2, <2>0, <5>3, <5>4, <6>1, Zenon
        <5>6. v % base = w % base
          <6>1. v % base \in 0..(base - 1) /\ w % base \in 0..(base - 1)
            BY Quotient, Zenon
          <6> QED BY <5>2, <6>1, Zenon DEF Distinct, last
        <5> QED BY <5>5, <5>6, Quotient, SMT DEF Bases
      <4> QED BY <4>1, <4>2
    <3> QED BY <3>2, <3>3
  <2>2. CASE r # <<>>
    <3>1. PICK q \in Seq(A), x \in A : r = Append(q, x)
      BY <2>2, SequenceEmptyOrAppend, Zenon
    <3>2. Num(v) \o q \in Seq(A) /\ Num(v) \o Append(q, x) = Append(Num(v) \o q, x)
      BY <2>0, SMTT(60)
    <3>3. Num(w) = Append(Num(v) \o q, x)  BY <3>1, <3>2, Zenon
    <3>4. CASE w < base
      <4>1. Len(Num(w)) = 1
        <5>1. Num(w) = <<digits[w + 1]>>  BY <1>1, <3>4, Zenon
        <5> QED BY <5>1, SMT
      <4>2. Len(Num(w)) = Len(Num(v)) + Len(q) + 1  BY <2>0, <3>2, <3>3, SMT
      <4> QED BY <2>0, <4>1, <4>2, SMT
    <3>5. CASE ~(w < base)
      <4>1. Append(Num(w \div base), last(w)) = Append(Num(v) \o q, x)
        BY <1>1, <3>3, <3>5, Zenon
      <4>2. Num(w \div base) = Num(v) \o q
        <5> DEFINE pre == Num(v) \o q
        <5>1. pre \in Seq(A) /\ Append(Num(w \div base), last(w)) = Append(pre, x)
          BY <3>2, <4>1, Zenon
        <5> HIDE DEF pre
        <5> DEFINE front == Num(w \div base)
                   end == last(w)
        <5>2. front \in Seq(A) /\ end \in A /\ pre \in Seq(A) /\ x \in A
              /\ Append(front, end) = Append(pre, x)
          BY <2>0, <5>1, Zenon
        <5> HIDE DEF front, end
        <5>3. front = pre  BY <5>2, AppendInjective, SMT
        <5> QED BY <5>3 DEF pre, front
      <4>3. w \div base \in 0..(w - 1)  BY <3>5, Quotient, SMT DEF Bases
      <4>4. v <= w \div base  BY <1>2, <4>2, <4>3, Zenon
      <4> QED BY <2>0, <4>3, <4>4, SMT
    <3> QED BY <3>4, <3>5
  <2> QED BY <2>1, <2>2
<1>3. Nat \subseteq S
  <2> HIDE DEF S
  <2> QED BY <1>2, StrongInduction, Zenon
<1> QED BY <1>3, Zenon

-----------------------------------------------------------------------------
(* The digits of semihosted_printf *)

(* The digits one by one. *)
LEMMA HexDigits ==
  /\ g_pcHex[1] = "0" /\ g_pcHex[2] = "1" /\ g_pcHex[3] = "2" /\ g_pcHex[4] = "3"
  /\ g_pcHex[5] = "4" /\ g_pcHex[6] = "5" /\ g_pcHex[7] = "6" /\ g_pcHex[8] = "7"
  /\ g_pcHex[9] = "8" /\ g_pcHex[10] = "9" /\ g_pcHex[11] = "a" /\ g_pcHex[12] = "b"
  /\ g_pcHex[13] = "c" /\ g_pcHex[14] = "d" /\ g_pcHex[15] = "e" /\ g_pcHex[16] = "f"
  /\ g_pcHex_cap[1] = "0" /\ g_pcHex_cap[2] = "1" /\ g_pcHex_cap[3] = "2"
  /\ g_pcHex_cap[4] = "3" /\ g_pcHex_cap[5] = "4" /\ g_pcHex_cap[6] = "5"
  /\ g_pcHex_cap[7] = "6" /\ g_pcHex_cap[8] = "7" /\ g_pcHex_cap[9] = "8"
  /\ g_pcHex_cap[10] = "9" /\ g_pcHex_cap[11] = "A" /\ g_pcHex_cap[12] = "B"
  /\ g_pcHex_cap[13] = "C" /\ g_pcHex_cap[14] = "D" /\ g_pcHex_cap[15] = "E"
  /\ g_pcHex_cap[16] = "F"
BY SMT DEF g_pcHex, g_pcHex_cap

(* The decimal digits one by one. *)
LEMMA DecimalIs ==
  Decimal = {"0", "1", "2", "3", "4", "5", "6", "7", "8", "9"}
<1>1. \A i \in 1..10 : i = 1 \/ i = 2 \/ i = 3 \/ i = 4 \/ i = 5 \/ i = 6 \/ i = 7 \/ i = 8
                       \/ i = 9 \/ i = 10
  BY SMT
<1>2. 1 \in 1..10 /\ 2 \in 1..10 /\ 3 \in 1..10 /\ 4 \in 1..10 /\ 5 \in 1..10 /\ 6 \in 1..10
      /\ 7 \in 1..10 /\ 8 \in 1..10 /\ 9 \in 1..10 /\ 10 \in 1..10
  BY SMT
<1> QED BY <1>1, <1>2, HexDigits, SMT DEF Decimal

(* The first ten digits are decimal and different from each other. *)
LEMMA DecimalDigits ==
  HasDigits(g_pcHex, 10, Decimal) /\ Distinct(g_pcHex, 10)
<1>1. \A i \in 0..(10 - 1) : i = 0 \/ i = 1 \/ i = 2 \/ i = 3 \/ i = 4 \/ i = 5 \/ i = 6 \/ i = 7
                       \/ i = 8 \/ i = 9
  BY SMT
<1>2. 0 + 1 = 1 /\ 1 + 1 = 2 /\ 2 + 1 = 3 /\ 3 + 1 = 4 /\ 4 + 1 = 5 /\ 5 + 1 = 6 /\ 6 + 1 = 7
      /\ 7 + 1 = 8 /\ 8 + 1 = 9 /\ 9 + 1 = 10
  BY SMT
<1>3. HasDigits(g_pcHex, 10, Decimal)
  BY <1>1, <1>2, HexDigits, DecimalIs, SMT DEF HasDigits
<1>4. Distinct(g_pcHex, 10)
  BY <1>1, <1>2, HexDigits, SMT DEF Distinct
<1> QED BY <1>3, <1>4

(* A decimal digit has the value of its place. *)
LEMMA DigitValueOf ==
  ASSUME NEW i \in 0..9
  PROVE  g_pcHex[i + 1] \in Decimal /\ DigitValue(g_pcHex[i + 1]) = i
<1>1. i \in 0..(10 - 1) /\ i + 1 \in 1..10 /\ (i + 1) - 1 = i  BY SMT
<1>2. \A j \in 1..10 : j - 1 \in 0..(10 - 1) /\ (j - 1) + 1 = j  BY SMT
<1>3. ASSUME NEW j \in 1..10, g_pcHex[j] = g_pcHex[i + 1] PROVE j = i + 1
  <2>1. g_pcHex[(j - 1) + 1] = g_pcHex[i + 1]  BY <1>2, <1>3, Zenon
  <2>2. j - 1 = i  BY <1>1, <1>2, <2>1, DecimalDigits, Zenon DEF Distinct
  <2> QED BY <1>2, <2>2, Zenon
<1>4. (CHOOSE j \in 1..10 : g_pcHex[j] = g_pcHex[i + 1]) = i + 1
  BY <1>1, <1>3, Zenon
<1>5. DigitValue(g_pcHex[i + 1]) = (i + 1) - 1  BY <1>4, Zenon DEF DigitValue
<1> QED BY <1>1, <1>5, Zenon DEF Decimal

(* Each decimal digit is the one of its value, and only "0" is zero. *)
LEMMA DecimalHasValue ==
  ASSUME NEW c \in Decimal
  PROVE  DigitValue(c) \in 0..9 /\ g_pcHex[DigitValue(c) + 1] = c
         /\ (c = "0" <=> DigitValue(c) = 0)
<1>1. PICK j \in 1..10 : c = g_pcHex[j]  BY Zenon DEF Decimal
<1>2. j - 1 \in 0..9 /\ (j - 1) + 1 = j  BY SMT
<1>3. DigitValue(c) = j - 1  BY <1>1, <1>2, DigitValueOf, Zenon
<1>4. c = "0" <=> j - 1 = 0
  <2>1. g_pcHex[0 + 1] = "0" /\ 0 \in 0..9  BY HexDigits, SMT
  <2>2. c = "0" => j - 1 = 0
    <3>1. DigitValue("0") = 0  BY <2>1, DigitValueOf, Zenon
    <3> QED BY <1>3, <3>1, Zenon
  <2>3. j - 1 = 0 => c = "0"  BY <1>1, <1>2, <2>1, Zenon
  <2> QED BY <2>2, <2>3
<1> QED BY <1>1, <1>2, <1>3, <1>4, Zenon

(* Reading the digits of a width one after the other. *)
LEMMA NumeralOfDigits ==
  /\ \A n \in Nat : Numeral(n, 10, g_pcHex) \in Seq(Decimal)
                    /\ Len(Numeral(n, 10, g_pcHex)) >= 1
  /\ \A d \in 0..9 : Numeral(d, 10, g_pcHex) = <<g_pcHex[d + 1]>>
  /\ \A v \in Nat, d \in 0..9 :
       v # 0 => Numeral(v * 10 + d, 10, g_pcHex)
                = Append(Numeral(v, 10, g_pcHex), g_pcHex[d + 1])
<1>0. 10 \in Bases  BY Zenon DEF Bases
<1>1. \A n \in Nat : Numeral(n, 10, g_pcHex) \in Seq(Decimal)
                     /\ Len(Numeral(n, 10, g_pcHex)) >= 1
  BY <1>0, DecimalDigits, NumeralTyped, Zenon
<1>2. \A n \in Nat : Numeral(n, 10, g_pcHex) = 
        IF n < 10 THEN <<g_pcHex[n + 1]>>
        ELSE Append(Numeral(n \div 10, 10, g_pcHex), g_pcHex[(n % 10) + 1])
  BY <1>0, DecimalDigits, NumeralUnfold, Zenon
<1>3. \A d \in 0..9 : d \in Nat /\ d < 10  BY SMT
<1>4. \A v \in Nat, d \in 0..9 :
        v # 0 => /\ v * 10 + d \in Nat /\ ~(v * 10 + d < 10)
                 /\ (v * 10 + d) \div 10 = v /\ (v * 10 + d) % 10 = d
  BY SMT
<1>5. \A d \in 0..9 : Numeral(d, 10, g_pcHex) = <<g_pcHex[d + 1]>>
  BY <1>2, <1>3, Zenon
<1>6. \A v \in Nat, d \in 0..9 :
       v # 0 => Numeral(v * 10 + d, 10, g_pcHex)
                = Append(Numeral(v, 10, g_pcHex), g_pcHex[d + 1])
  BY <1>2, <1>4, Zenon
<1> QED BY <1>1, <1>5, <1>6

(* The numeral of a width does not begin with a zero, and is read as its  *)
(* first digit and what follows.                                          *)
LEMMA FirstDigit ==
  ASSUME NEW w \in Nat, w # 0
  PROVE  \E d \in 1..9, r \in Seq(Decimal) :
           Numeral(w, 10, g_pcHex) = Numeral(d, 10, g_pcHex) \o r
<1> DEFINE Num(n) == Numeral(n, 10, g_pcHex)
           P(n) == \E d \in 1..9, r \in Seq(Decimal) : Num(n) = Num(d) \o r
           S == {n \in Nat : n # 0 => P(n)}
<1>1. ASSUME NEW n \in Nat, \A m \in 0..(n - 1) : m \in S, n # 0 PROVE P(n)
  <2>0. 10 \in Bases  BY Zenon DEF Bases
  <2>1. CASE n < 10
    <3>1. n \in 1..9 /\ n \in Nat  BY <1>1, <2>1, SMT
    <3>2. Num(n) \o <<>> = Num(n) /\ <<>> \in Seq(Decimal)
      BY <3>1, NumeralOfDigits, ConcatEmptySeq, EmptySeq, Zenon
    <3> QED BY <3>1, <3>2, Zenon
  <2>2. CASE ~(n < 10)
    <3>1. n \div 10 \in 0..(n - 1) /\ n \div 10 # 0 /\ n \div 10 \in Nat /\ n % 10 \in 0..9
          /\ n = (n \div 10) * 10 + (n % 10)
      BY <2>2, SMT
    <3>2. PICK d \in 1..9, r \in Seq(Decimal) : Num(n \div 10) = Num(d) \o r
      BY <1>1, <3>1, Zenon
    <3> DEFINE x == g_pcHex[(n % 10) + 1]
    <3>3. x \in Decimal  BY <3>1, DigitValueOf, Zenon
    <3>4. Num(n) = Append(Num(n \div 10), x)
      <4>1. Num((n \div 10) * 10 + (n % 10)) = Append(Num(n \div 10), x)
        BY <3>1, NumeralOfDigits, Zenon
      <4> QED BY <3>1, <4>1, Zenon
    <3>5. Num(d) \in Seq(Decimal)
      <4>1. d \in Nat  BY SMT
      <4> QED BY <4>1, NumeralOfDigits, Zenon
    <3> HIDE DEF x, Num
    <3>6. Append(Num(d) \o r, x) = Num(d) \o Append(r, x) /\ Append(r, x) \in Seq(Decimal)
      BY <3>3, <3>5, SMT
    <3> QED BY <3>2, <3>4, <3>6, Zenon
  <2> QED BY <2>1, <2>2
<1>2. \A n \in Nat : (\A m \in 0..(n - 1) : m \in S) => n \in S
  <2> HIDE DEF P
  <2> QED BY <1>1, Zenon
<1>3. Nat \subseteq S
  <2> HIDE DEF S
  <2> QED BY <1>2, StrongInduction, Zenon
<1> QED BY <1>3, Zenon

(* The digits of a numeral are counted one at a time. *)
LEMMA NumeralLength ==
  ASSUME NEW A, NEW digits, NEW base \in Bases, HasDigits(digits, base, A)
  PROVE  \A n \in Nat :
           LET Num(m) == Numeral(m, base, digits)
           IN  /\ Num(n) \in Seq(A) /\ Len(Num(n)) \in Nat /\ Len(Num(n)) >= 1
               /\ Len(Num(n)) = IF n < base THEN 1 ELSE Len(Num(n \div base)) + 1
<1> DEFINE Num(n) == Numeral(n, base, digits)
           last(n) == digits[(n % base) + 1]
<1>1. \A n \in Nat : /\ Num(n) \in Seq(A) /\ last(n) \in A /\ Len(Num(n)) >= 1
                     /\ Num(n) = IF n < base THEN <<digits[n + 1]>>
                                 ELSE Append(Num(n \div base), last(n))
  BY NumeralUnfold, NumeralTyped, Zenon
<1>a. \A s \in Seq(A), x \in A : Len(Append(s, x)) = Len(s) + 1
  BY AppendProperties, Zenon
<1>b. \A n \in Nat : Len(Num(n)) \in Nat
  BY <1>1, LenProperties, Zenon
<1>c. \A n \in Nat : Len(Num(n)) = IF n < base THEN 1 ELSE Len(Num(n \div base)) + 1
  <2> SUFFICES ASSUME NEW n \in Nat
               PROVE  Len(Num(n)) = IF n < base THEN 1 ELSE Len(Num(n \div base)) + 1
    OBVIOUS
  <2>1. n \div base \in Nat  BY Quotient, Zenon
  <2>2. \A x : Len(<<x>>) = 1  BY SMT
  <2> QED BY <1>1, <1>a, <2>1, <2>2, Zenon
<1> QED BY <1>1, <1>b, <1>c, Zenon

(* A greater number has no shorter numeral, and one below 10^10 has at    *)
(* most ten digits.                                                       *)
LEMMA NumeralGrows ==
  ASSUME NEW A, NEW digits, NEW base \in Bases, HasDigits(digits, base, A)
  PROVE  \A n \in Nat : \A m \in 0..n :
           Len(Numeral(m, base, digits)) <= Len(Numeral(n, base, digits))
<1> DEFINE Num(n) == Numeral(n, base, digits)
           S == {n \in Nat : \A m \in 0..n : Len(Num(m)) <= Len(Num(n))}
<1>1. \A n \in Nat : /\ Len(Num(n)) \in Nat /\ Len(Num(n)) >= 1
                     /\ Len(Num(n)) = IF n < base THEN 1 ELSE Len(Num(n \div base)) + 1
  BY NumeralLength, Zenon
<1>2. ASSUME NEW n \in Nat, \A u \in 0..(n - 1) : u \in S PROVE n \in S
  <2> SUFFICES ASSUME NEW m \in 0..n PROVE Len(Num(m)) <= Len(Num(n))
    BY Zenon
  <2>0. m \in Nat /\ m <= n  BY SMT
  <2>1. CASE m < base
    <3>1. Len(Num(m)) = 1 /\ Len(Num(n)) >= 1 /\ Len(Num(n)) \in Nat
      BY <1>1, <2>0, <2>1, Zenon
    <3> QED BY <3>1, SMT
  <2>2. CASE ~(m < base)
    <3>1. ~(n < base)  BY <2>0, <2>2, SMT DEF Bases
    <3>2. n \div base \in 0..(n - 1) /\ m \div base \in 0..(n \div base)
          /\ m \div base \in Nat /\ n \div base \in Nat
      <4>1. CASE base = 10  BY <2>0, <3>1, <4>1, SMT
      <4>2. CASE base = 16  BY <2>0, <3>1, <4>2, SMT
      <4> QED BY <4>1, <4>2 DEF Bases
    <3>3. Len(Num(m \div base)) <= Len(Num(n \div base))
      BY <1>2, <3>2, Zenon
    <3>4. /\ Len(Num(m)) = Len(Num(m \div base)) + 1 /\ Len(Num(n)) = Len(Num(n \div base)) + 1
          /\ Len(Num(m \div base)) \in Nat /\ Len(Num(n \div base)) \in Nat
      BY <1>1, <2>0, <2>2, <3>1, <3>2, Zenon
    <3> HIDE DEF Num
    <3> QED BY <3>3, <3>4, SMT
  <2> QED BY <2>1, <2>2
<1>3. Nat \subseteq S
  <2> HIDE DEF S
  <2> QED BY <1>2, StrongInduction, Zenon
<1> QED BY <1>3, Zenon

(* Division with a remainder. *)
LEMMA DivisionOf ==
  ASSUME NEW v \in Nat, NEW x \in Nat, x # 0
  PROVE  v \div x \in Nat /\ v % x \in 0..(x - 1) /\ v = x * (v \div x) + (v % x)
BY SMT

(* The quotient is the only number with a remainder below the divisor. *)
LEMMA QuotientUnique ==
  ASSUME NEW v \in Nat, NEW x \in Nat, x # 0, NEW q \in Nat, NEW r \in 0..(x - 1), v = x * q + r
  PROVE  v \div x = q
<1> DEFINE p == v \div x
           s == v % x
<1>1. p \in Nat /\ s \in 0..(x - 1) /\ v = x * p + s
  BY DivisionOf, Zenon
<1> HIDE DEF p, s
<1>2. CASE p > q
  <2>1. x * p >= x * (q + 1)  BY <1>1, <1>2, SMT
  <2>2. x * (q + 1) = x * q + x BY SMT
  <2> QED BY <1>1, <2>1, <2>2, SMT
<1>3. CASE p < q
  <2>1. x * q >= x * (p + 1)  BY <1>1, <1>3, SMT
  <2>2. x * (p + 1) = x * p + x BY <1>1, SMT
  <2> QED BY <1>1, <2>1, <2>2, SMT
<1>4. p = q  BY <1>1, <1>2, <1>3, SMT
<1> QED BY <1>4 DEF p

(* To divide twice is to divide by the product. *)
LEMMA QuotientOfQuotient ==
  ASSUME NEW v \in Nat, NEW x \in Nat, x # 0, NEW base \in Bases
  PROVE  (v \div x) \div base = v \div (x * base)
<1> DEFINE q == v \div x
           p == q \div base
           s == v % x
           t == q % base
<1>1. q \in Nat /\ s \in 0..(x - 1) /\ v = x * q + s
  BY DivisionOf, Zenon
<1>2. p \in Nat /\ t \in 0..(base - 1) /\ q = base * p + t
  <2> HIDE DEF q
  <2> QED BY <1>1, Quotient, Zenon
<1> HIDE DEF q, p, s, t
<1>3. base \in Nat /\ base # 0  BY SMT DEF Bases
<1>4. x * base \in Nat /\ x * base # 0  BY SMT DEF Bases
<1>5. v = (x * base) * p + (x * t + s)
  <2>1. x * q = (x * base) * p + x * t
    <3>1. CASE base = 10  BY <1>1, <1>2, <3>1, SMT
    <3>2. CASE base = 16  BY <1>1, <1>2, <3>2, SMT
    <3> QED BY <3>1, <3>2 DEF Bases
  <2>2. x * q \in Nat /\ (x * base) * p \in Nat /\ x * t \in Nat
    <3>1. CASE base = 10  BY <1>1, <1>2, <3>1, SMT
    <3>2. CASE base = 16  BY <1>1, <1>2, <3>2, SMT
    <3> QED BY <3>1, <3>2 DEF Bases
  <2> QED BY <1>1, <2>1, <2>2, SMT
<1>6. x * t + s \in 0..(x * base - 1)
  <2>1. x * t <= x * (base - 1)
    <3>1. t <= base - 1 /\ t \in Nat /\ base - 1 \in Nat  BY <1>2, <1>3, SMT
    <3> QED BY <3>1, SMT
  <2>2. x * (base - 1) = x * base - x  BY <1>3, SMT
  <2>3. x * t \in Nat
    <3>1. t \in Nat  BY <1>2, <1>3, SMT
    <3> QED BY <3>1, SMT
  <2> QED BY <1>1, <1>4, <2>1, <2>2, <2>3, SMT
<1>7. v \div (x * base) = p
  <2> DEFINE y == x * base
             r == x * t + s
  <2>1. y \in Nat /\ y # 0 /\ r \in 0..(y - 1) /\ v = y * p + r  BY <1>4, <1>5, <1>6, Zenon
  <2> HIDE DEF y, r
  <2>2. v \div y = p  BY <1>2, <2>1, QuotientUnique, Zenon
  <2> QED BY <2>2 DEF y
<1> QED BY <1>7 DEF p, q

(* A product that does not wrap is what the division gives back. *)
LEMMA ScaledIsProduct ==
  ASSUME NEW x \in 1..(ULONG - 1), NEW base \in Bases, NEW v \in 0..(ULONG - 1)
  PROVE  LET scaled == (x * base) % ULONG
         IN  /\ scaled \in 0..(ULONG - 1)
             /\ scaled <= v /\ scaled \div base = x <=> x * base <= v
             /\ x * base <= v => scaled = x * base
<1> DEFINE y == x * base
           scaled == y % ULONG
<1>0. ULONG \in Nat /\ ULONG # 0 /\ y \in Nat /\ y >= x /\ x \in Nat /\ v \in Nat /\ v < ULONG
  BY PrintfAssumption, SMT DEF Bases, USHORT
<1>1. scaled \in 0..(ULONG - 1) /\ (y \div ULONG) \in Nat /\ y = ULONG * (y \div ULONG) + scaled
  <2> HIDE DEF y
  <2> QED BY <1>0, DivisionOf, Zenon
<1>2. CASE y < ULONG
  <2>1. scaled = y
    <3> DEFINE k == y \div ULONG
    <3>1. k \in Nat /\ y = ULONG * k + scaled  BY <1>1, Zenon
    <3> HIDE DEF k, y, scaled
    <3>2. k = 0
      <4>1. k >= 1 => ULONG * k >= ULONG  BY <1>0, <3>1, SMT
      <4>2. ULONG * k \in Nat  BY <1>0, <3>1, SMT
      <4> QED BY <1>0, <1>1, <1>2, <3>1, <4>1, <4>2, SMT
    <3>3. ULONG * k = 0  BY <1>0, <3>2, SMT
    <3> QED BY <1>0, <1>1, <3>1, <3>3, SMT
  <2>2. y \div base = x
    <3>1. CASE base = 10  BY <3>1, SMT
    <3>2. CASE base = 16  BY <3>2, SMT
    <3> QED BY <3>1, <3>2 DEF Bases
  <2> HIDE DEF y, scaled
  <2> QED BY <1>1, <2>1, <2>2, SMT DEF scaled, y
<1>3. CASE ~(y < ULONG)
  <2>1. ~(y <= v)
    <3> HIDE DEF y
    <3> QED BY <1>0, <1>3, SMT
  <2>2. scaled < y
    <3> HIDE DEF y, scaled
    <3> QED BY <1>0, <1>1, <1>3, SMT
  <2>3. scaled \div base # x
    <3> DEFINE t == scaled
    <3>1. t \in Nat /\ t < x * base  BY <1>0, <1>1, <2>2, SMT
    <3> HIDE DEF t
    <3>2. t \div base # x
      <4>1. CASE base = 10  BY <3>1, <4>1, SMT
      <4>2. CASE base = 16  BY <3>1, <4>2, SMT
      <4> QED BY <4>1, <4>2 DEF Bases
    <3> QED BY <3>2 DEF t
  <2> QED BY <1>1, <2>1, <2>3, Zenon
<1> QED BY <1>2, <1>3

(* A part of a sequence. *)
LEMMA PartOf ==
  ASSUME NEW A, NEW s \in Seq(A), NEW m \in Nat \ {0}, NEW n \in Nat, n <= Len(s)
  PROVE  /\ SubSeq(s, m, n) \in Seq(A)
         /\ Len(SubSeq(s, m, n)) = IF m <= n THEN n - m + 1 ELSE 0
         /\ \A i \in 1..(n - m + 1) : SubSeq(s, m, n)[i] = s[m + i - 1]
<1>1. m \in Int /\ n \in Int /\ \A i \in m..n : i \in 1..Len(s)
  <2>1. Len(s) \in Nat  BY LenProperties, Zenon
  <2> QED BY <2>1, SMT
<1>2. \A i \in m..n : s[i] \in A  BY <1>1, ElementOfSeq, Zenon
<1>3. m \in Int /\ n \in Int  BY <1>1
<1> QED BY <1>2, <1>3, SubSeqProperties, SMT

(* unsigned long is no wider than twice a uint16_t. *)
LEMMA LongIsShort ==
  ULONG \in Nat /\ ULONG >= USHORT /\ ULONG <= USHORT * USHORT
<1> DEFINE x == ULONG - 1
           q == x \div USHORT
           r == x % USHORT
<1>1. ULONG \in Nat /\ ULONG >= USHORT /\ x \in Nat /\ q < USHORT /\ USHORT \in Nat
      /\ USHORT # 0 /\ ULONG = x + 1
  BY PrintfAssumption, SMT DEF USHORT
<1> HIDE DEF x
<1>2. q \in Nat /\ r \in 0..(USHORT - 1) /\ x = USHORT * q + r
  BY <1>1, DivisionOf, Zenon
<1> HIDE DEF q, r
<1>3. x = 65536 * q + r /\ q <= 65535 /\ r <= 65535 /\ r \in Nat
  BY <1>1, <1>2, SMT DEF USHORT
<1>4. ULONG <= 65536 * 65536  BY <1>1, <1>2, <1>3, SMT
<1> QED BY <1>1, <1>4 DEF USHORT

(* No number of the device has more than ten digits. *)
LEMMA NumeralIsShort ==
  ASSUME NEW A, NEW digits, NEW base \in Bases, HasDigits(digits, base, A),
         NEW n \in 0..(ULONG - 1)
  PROVE  Len(Numeral(n, base, digits)) \in 1..10
<1> DEFINE Num(m) == Numeral(m, base, digits)
           Below(b, k) == \A m \in 0..(b - 1) : Len(Num(m)) <= k
<1>1. \A m \in Nat : /\ Len(Num(m)) >= 1 /\ Len(Num(m)) \in Nat
                     /\ Len(Num(m)) = IF m < base THEN 1 ELSE Len(Num(m \div base)) + 1
  BY NumeralLength, Zenon
<1>3. Below(10, 1)
  <2>1. \A m \in 0..(10 - 1) : m \in Nat /\ m < base  BY SMT DEF Bases
  <2>2. 1 <= 1  BY SMT
  <2> QED BY <1>1, <2>1, <2>2, Zenon
<1>4. ASSUME NEW b \in Nat, NEW k \in Nat, k >= 1, Below(b, k)
      PROVE  Below(10 * b, k + 1)
  <2> SUFFICES ASSUME NEW m \in 0..(10 * b - 1) PROVE Len(Num(m)) <= k + 1
    BY Zenon
  <2>0. m \in Nat  BY SMT
  <2>1. m \div base \in 0..(b - 1)
    <3>1. CASE base = 10  BY <3>1, SMT
    <3>2. CASE base = 16  BY <3>2, SMT
    <3> QED BY <3>1, <3>2 DEF Bases
  <2>2. m \div base \in Nat  BY <2>0, Quotient, Zenon
  <2>3. Len(Num(m \div base)) <= k /\ Len(Num(m \div base)) \in Nat
    BY <1>1, <1>4, <2>1, <2>2, Zenon
  <2>4. Len(Num(m)) = 1 \/ Len(Num(m)) = Len(Num(m \div base)) + 1
    BY <1>1, <2>0, Zenon
  <2> DEFINE l == Len(Num(m))
             h == Len(Num(m \div base))
  <2>5. k >= 1 /\ h <= k /\ h \in Nat /\ (l = 1 \/ l = h + 1)  BY <1>4, <2>3, <2>4, Zenon
  <2> HIDE DEF Below, l, h
  <2>6. l <= k + 1  BY <2>5, SMT
  <2> QED BY <2>6 DEF l
<1> HIDE DEF Below
<1>5. \A b, k \in Nat : k >= 1 /\ Below(b, k) => Below(10 * b, k + 1)
  BY <1>4, Zenon
<1> DEFINE ten1 == 10
           ten2 == 10 * ten1
           ten3 == 10 * ten2
           ten4 == 10 * ten3
           ten5 == 10 * ten4
           ten6 == 10 * ten5
           ten7 == 10 * ten6
           ten8 == 10 * ten7
           ten9 == 10 * ten8
           ten10 == 10 * ten9
<1>6. ten1 \in Nat /\ ten2 \in Nat /\ ten3 \in Nat /\ ten4 \in Nat /\ ten5 \in Nat
      /\ ten6 \in Nat /\ ten7 \in Nat /\ ten8 \in Nat /\ ten9 \in Nat /\ ten10 \in Nat
  BY SMT
<1>7. n \in 0..(ten10 - 1) /\ n \in Nat
  <2> DEFINE square == USHORT * USHORT
  <2>1. square \in Nat /\ square <= ten10  BY SMT DEF USHORT
  <2>2. ULONG \in Nat /\ ULONG <= square  BY LongIsShort
  <2>3. ten10 \in Nat  BY <1>6
  <2> HIDE DEF square, ten10
  <2> QED BY <2>1, <2>2, <2>3, SMT
<1>8. Below(ten1, 1)  BY <1>3, Zenon
<1> HIDE DEF ten1, ten2, ten3, ten4, ten5, ten6, ten7, ten8, ten9, ten10
<1>9. Below(ten2, 2)
  <2>1. 1 + 1 = 2 /\ 1 \in Nat /\ 1 >= 1  BY SMT
  <2> QED BY <1>5, <1>6, <1>8, <2>1, Zenon DEF ten2
<1>10. Below(ten3, 3)
  <2>1. 2 + 1 = 3 /\ 2 \in Nat /\ 2 >= 1  BY SMT
  <2> QED BY <1>5, <1>6, <1>9, <2>1, Zenon DEF ten3
<1>11. Below(ten4, 4)
  <2>1. 3 + 1 = 4 /\ 3 \in Nat /\ 3 >= 1  BY SMT
  <2> QED BY <1>5, <1>6, <1>10, <2>1, Zenon DEF ten4
<1>12. Below(ten5, 5)
  <2>1. 4 + 1 = 5 /\ 4 \in Nat /\ 4 >= 1  BY SMT
  <2> QED BY <1>5, <1>6, <1>11, <2>1, Zenon DEF ten5
<1>13. Below(ten6, 6)
  <2>1. 5 + 1 = 6 /\ 5 \in Nat /\ 5 >= 1  BY SMT
  <2> QED BY <1>5, <1>6, <1>12, <2>1, Zenon DEF ten6
<1>14. Below(ten7, 7)
  <2>1. 6 + 1 = 7 /\ 6 \in Nat /\ 6 >= 1  BY SMT
  <2> QED BY <1>5, <1>6, <1>13, <2>1, Zenon DEF ten7
<1>15. Below(ten8, 8)
  <2>1. 7 + 1 = 8 /\ 7 \in Nat /\ 7 >= 1  BY SMT
  <2> QED BY <1>5, <1>6, <1>14, <2>1, Zenon DEF ten8
<1>16. Below(ten9, 9)
  <2>1. 8 + 1 = 9 /\ 8 \in Nat /\ 8 >= 1  BY SMT
  <2> QED BY <1>5, <1>6, <1>15, <2>1, Zenon DEF ten9
<1>17. Below(ten10, 10)
  <2>1. 9 + 1 = 10 /\ 9 \in Nat /\ 9 >= 1  BY SMT
  <2> QED BY <1>5, <1>6, <1>16, <2>1, Zenon DEF ten10
<1>18. Len(Num(n)) <= 10 /\ Len(Num(n)) >= 1 /\ Len(Num(n)) \in Nat
  BY <1>1, <1>7, <1>17, Zenon DEF Below
<1> DEFINE l == Len(Num(n))
<1>19. l <= 10 /\ l >= 1 /\ l \in Nat  BY <1>18
<1> HIDE DEF l
<1>20. l \in 1..10  BY <1>19, SMT
<1> QED BY <1>20 DEF l

-----------------------------------------------------------------------------
(* prints *)

(* A text without NUL and not too long goes out whole. *)
LEMMA PrintsAll ==
  ASSUME NEW A, NEW s \in Seq(A), Len(s) < USHORT, \A i \in 1..Len(s) : s[i] # "NUL"
  PROVE  prints(s) = s
<1> DEFINE n == Len(s)
           room == BufSize - 1
           lower(a, b) == IF a < b THEN a ELSE b
           chunk(i) == SubSeq(s, (i - 1) * room + 1, lower(i * room, n))
           chunks(k) == [i \in 1..k |-> chunk(i)]
           k0 == (n + room - 1) \div room
           P(k) == /\ chunks(k) \in Seq(Seq(A))
                   /\ FlattenSeq(chunks(k)) = SubSeq(s, 1, lower(k * room, n))
<1>0. n \in Nat /\ n % USHORT = n /\ k0 \in Nat /\ lower(k0 * room, n) = n
  <2>1. n \in Nat /\ n < 65536  BY SMT DEF USHORT
  <2> HIDE DEF n
  <2> QED BY <2>1, SMT DEF USHORT, BufSize
<1>1. \A i \in Nat \ {0} : chunk(i) \in Seq(A) /\ UpTo("NUL", chunk(i)) = chunk(i)
  <2> SUFFICES ASSUME NEW i \in Nat \ {0}
               PROVE  chunk(i) \in Seq(A) /\ UpTo("NUL", chunk(i)) = chunk(i)
    OBVIOUS
  <2> DEFINE a == (i - 1) * room + 1
             b == lower(i * room, n)
  <2>1. a \in Nat \ {0} /\ b \in Nat /\ b <= n
    <3> HIDE DEF n
    <3> QED BY <1>0, SMT DEF BufSize
  <2> HIDE DEF a, b
  <2>4. /\ SubSeq(s, a, b) \in Seq(A)
        /\ Len(SubSeq(s, a, b)) = IF a <= b THEN b - a + 1 ELSE 0
        /\ \A j \in 1..(b - a + 1) : SubSeq(s, a, b)[j] = s[a + j - 1]
    BY <2>1, PartOf, SMT
  <2>5. \A j \in 1..Len(SubSeq(s, a, b)) : j \in 1..(b - a + 1) /\ a + j - 1 \in 1..n
    BY <1>0, <2>1, <2>4, SMT
  <2>6. \A j \in 1..Len(SubSeq(s, a, b)) : SubSeq(s, a, b)[j] # "NUL"
    BY <2>4, <2>5, Zenon
  <2>7. UpTo("NUL", SubSeq(s, a, b)) = SubSeq(s, a, b)  BY <2>6, UpToNone, Zenon
  <2> QED BY <2>4, <2>7 DEF a, b
<1> HIDE DEF chunk
<1>2. P(0)
  <2>1. chunks(0) = <<>> /\ 1..0 = {}  BY SMT
  <2>2. chunks(0) \in Seq(Seq(A))  BY <2>1, EmptySeq, Zenon
  <2>3. lower(0 * room, n) < 1 /\ lower(0 * room, n) \in Int
    <3> HIDE DEF n
    <3> QED BY <1>0, SMT DEF BufSize
  <2>4. SubSeq(s, 1, lower(0 * room, n)) = <<>>
    <3>1. 1 \in Int  BY SMT
    <3> HIDE DEF n, room, lower
    <3> QED BY <2>3, <3>1, SubSeqEmpty, Zenon
  <2> QED BY <2>1, <2>2, <2>4, FlattenEmpty, Zenon
<1>3. ASSUME NEW k \in Nat, P(k), k < k0 PROVE P(k + 1)
  <2> DEFINE m == lower(k * room, n)
             m1 == lower((k + 1) * room, n)
  <2>1. /\ m = k * room /\ m \in 0..n /\ m1 \in m..n /\ k + 1 \in Nat \ {0}
        /\ ((k + 1) - 1) * room + 1 = m + 1
    <3> HIDE DEF n
    <3> QED BY <1>0, <1>3, SMT DEF BufSize
  <2>2. chunk(k + 1) = SubSeq(s, m + 1, m1)
    BY <2>1, Zenon DEF chunk
  <2>3. chunks(k + 1) = Append(chunks(k), chunk(k + 1))
    <3>1. chunks(k) \in Seq(Seq(A)) /\ Len(chunks(k)) = k  BY <1>3, SMT
    <3>2. chunk(k + 1) \in Seq(A)  BY <1>1, <2>1, Zenon
    <3> HIDE DEF m, m1
    <3>3. /\ Append(chunks(k), chunk(k + 1)) \in Seq(Seq(A))
          /\ Len(Append(chunks(k), chunk(k + 1))) = k + 1
          /\ \A i \in 1..k : Append(chunks(k), chunk(k + 1))[i] = chunks(k)[i]
          /\ Append(chunks(k), chunk(k + 1))[k + 1] = chunk(k + 1)
      <4> DEFINE c == chunks(k)
                 e == chunk(k + 1)
      <4> HIDE DEF c, e
      <4>1. c \in Seq(Seq(A)) /\ e \in Seq(A) /\ Len(c) = k  BY <3>1, <3>2 DEF c, e
      <4>2. /\ Append(c, e) \in Seq(Seq(A)) /\ Len(Append(c, e)) = Len(c) + 1
            /\ \A i \in 1..Len(c) : Append(c, e)[i] = c[i]
            /\ Append(c, e)[Len(c) + 1] = e
        BY <4>1, AppendProperties, SMT
      <4>3. /\ Append(c, e) \in Seq(Seq(A)) /\ Len(Append(c, e)) = k + 1
            /\ \A i \in 1..k : Append(c, e)[i] = c[i]
            /\ Append(c, e)[k + 1] = e
        BY <4>1, <4>2, Zenon
      <4> QED BY <4>3 DEF c, e
    <3>4. \A i \in 1..(k + 1) : i \in Nat \ {0} /\ (i \in 1..k \/ i = k + 1)  BY SMT
    <3>5. chunks(k + 1) \in Seq(Seq(A)) /\ Len(chunks(k + 1)) = k + 1
      <4>1. \A i \in 1..(k + 1) : chunk(i) \in Seq(A)  BY <1>1, <3>4, Zenon
      <4>2. k + 1 \in Nat  BY SMT
      <4>3. chunks(k + 1) \in [1..(k + 1) -> Seq(A)]  BY <4>1, Zenon
      <4> HIDE DEF chunks
      <4> QED BY <4>2, <4>3, SMT
    <3>6. \A i \in 1..(k + 1) : chunks(k + 1)[i] = Append(chunks(k), chunk(k + 1))[i]
      BY <3>3, <3>4, Zenon
    <3> HIDE DEF chunks
    <3> QED BY <3>3, <3>5, <3>6, SeqEqual, Zenon
  <2>4. chunk(k + 1) \in Seq(A)  BY <1>1, <2>1, Zenon
  <2>5. FlattenSeq(chunks(k + 1)) = SubSeq(s, 1, m) \o SubSeq(s, m + 1, m1)
    <3> HIDE DEF chunks, m, m1
    <3> QED BY <1>3, <2>2, <2>3, <2>4, FlattenAppend, ZenonT(60) DEF m
  <2>6. SubSeq(s, 1, m) \o SubSeq(s, m + 1, m1) = SubSeq(s, 1, m1)
    <3> HIDE DEF m, m1
    <3>1. 1 \in 1..(Len(s) + 1) /\ m \in (1 - 1)..Len(s) /\ m1 \in m..Len(s)
      BY <1>0, <2>1, SMT
    <3> QED BY <3>1, ConcatAdjacentSubSeq, Zenon
  <2>7. chunks(k + 1) \in Seq(Seq(A))
    <3> HIDE DEF chunks
    <3> QED BY <1>3, <2>3, <2>4, AppendProperties, ZenonT(60)
  <2>8. FlattenSeq(chunks(k + 1)) = SubSeq(s, 1, m1)
    <3> HIDE DEF m, m1, chunks
    <3> QED BY <2>5, <2>6, Zenon
  <2> HIDE DEF chunks
  <2> QED BY <2>7, <2>8 DEF m1
<1>4. P(k0)
  <2> DEFINE D == {k \in Nat : k <= k0 => P(k)}
  <2> HIDE DEF P, k0
  <2>1. 0 \in D  BY <1>2, SMT
  <2>2. \A k \in Nat : k \in D => k + 1 \in D
    <3>1. \A k \in Nat : k + 1 \in Nat /\ (k + 1 <= k0 => k <= k0 /\ k < k0)
      BY <1>0, SMT
    <3> QED BY <1>3, <3>1, Zenon
  <2>3. Nat \subseteq D
    <3> HIDE DEF D
    <3> QED BY <2>1, <2>2, InductionOnNat, Zenon
  <2>4. k0 <= k0  BY <1>0, SMT
  <2> QED BY <1>0, <2>3, <2>4, Zenon
<1>5. prints(s) = FlattenSeq([i \in 1..k0 |-> UpTo("NUL", chunk(i))])
  BY <1>0, Zenon DEF prints, chunk
<1>6. [i \in 1..k0 |-> UpTo("NUL", chunk(i))] = chunks(k0)
  <2>1. \A i \in 1..k0 : i \in Nat \ {0}
    <3> HIDE DEF k0
    <3> QED BY <1>0, SMT
  <2> HIDE DEF k0
  <2> QED BY <1>1, <2>1, Zenon
<1>7. SubSeq(s, 1, n) = s  BY SubSeqFull, Zenon
<1> HIDE DEF k0, chunks
<1> QED BY <1>0, <1>4, <1>5, <1>6, <1>7, Zenon

-----------------------------------------------------------------------------
(* The inductive invariant *)

(* What a text, a format and the output are made of. *)
Characters ==
  STRING \cup {"%", ".", "*", "-", " ", "\n", "0", "1", "2", "3", "4", "5", "6", "7", "8", "9",
               "a", "b", "c", "d", "e", "f", "A", "B", "C", "D", "E", "F", "s", "h", "H", "u",
               "x", "X", "p", "q", "R", "O", "NUL", "k", "z", "tilde", "xe3"}

Argument == [kind : {"number", "size", "text", "char"},
             value : Numbers \cup Sizes \cup Texts \cup DOMAIN Ascii]

ValuesOf(args) == [j \in 1..Len(args) |-> args[j].value]
KindsOf(args)  == [j \in 1..Len(args) |-> args[j].kind]
SaysOf(item, args) == item.before \o Meaning(item, ValuesOf(args))

(* Served and UpToDirective, of a plan p and the arguments g. *)
ServedOf(p, g, k) == FlattenSeq([i \in 1..k |-> SaysOf(p[i], g[i])])
RestOf(p, k) == FormatOf(SubSeq(p, k + 1, Len(p)))
PastOf(p, g, k) ==
  \A i \in 1..k : /\ KindsOf(g[i]) = Takes[p[i].conv]
                  /\ Meaning(p[i], ValuesOf(g[i])) \in Seq(Characters)

(* The parts of the spelling of a directive. *)
FlagText(item)  == IF item.flag = "" THEN <<>> ELSE <<item.flag>>
WidthText(item) == IF item.width = 0 THEN <<>> ELSE Numeral(item.width, 10, g_pcHex)
FillOf(item)    == IF item.flag = "0" THEN "0" ELSE " "

(* `again': a flag is next, or what is left of the width, of which ulCount *)
(* has been read, or, behind ".*" and "*", the last character.             *)
AtFlag(item, args, rest) ==
  /\ item.flag # "" /\ args = <<>>
  /\ format = <<item.flag>> \o (WidthText(item) \o (Spelled[item.conv] \o rest))
  /\ ulCount = 0 /\ cFill = " " /\ cStrlenSet = 0

InWidth(item, args, rest) ==
  /\ args = <<>>
  /\ \E r \in Seq(Decimal) :
       /\ format = r \o (Spelled[item.conv] \o rest)
       /\ \/ ulCount = 0 /\ r = WidthText(item)
          \/ ulCount # 0 /\ WidthText(item) = Numeral(ulCount, 10, g_pcHex) \o r
  /\ ulCount <= item.width /\ cFill = FillOf(item) /\ cStrlenSet = 0

SizedTexts == [dot_s |-> "s", dot_h |-> "h", dot_H |-> "H", star_s |-> "s"]

AtText(item, args, rest) ==
  /\ item.conv \in DOMAIN SizedTexts
  /\ args = <<[kind |-> "size", value |-> ulStrlen]>>
  /\ format = <<SizedTexts[item.conv]>> \o rest
  /\ ulCount = item.width /\ cStrlenSet = (IF item.conv = "star_s" THEN 2 ELSE 1)

(* A number: its magnitude, sign, base and digits, and what stands before  *)
(* the digits.                                                             *)
Negative(item, n)  == item.conv = "d" /\ n >= ULONG \div 2
Magnitude(item, n) == IF Negative(item, n) THEN ULONG - n ELSE n
BaseOf(item)       == IF item.conv \in {"x", "X", "p"} THEN 16 ELSE 10
DigitsOf(item)     == IF item.conv = "X" THEN g_pcHex_cap ELSE g_pcHex
NumeralOfNumber(item, v) == Numeral(v, BaseOf(item), DigitsOf(item))
SignOf(item, n)    == IF Negative(item, n) THEN <<"-">> ELSE <<>>
MissingOf(item, n) ==
  item.width - Len(SignOf(item, n)) - Len(NumeralOfNumber(item, Magnitude(item, n)))
PrefixOf(item, n) ==
  IF item.flag = "0" THEN SignOf(item, n) \o Zeros(MissingOf(item, n))
                     ELSE Spaces(MissingOf(item, n)) \o SignOf(item, n)

Powers == {1, 10, 100, 1000, 10000, 100000, 1000000, 10000000, 100000000, 1000000000}
HexPowers == {1, 16, 256, 4096, 65536, 1048576, 16777216, 268435456}
PowersOf(base) == IF base = 10 THEN Powers ELSE HexPowers

(* The digits of v that are out when idx is the power of the next one. *)
EmittedOf(item, v, idx) ==
  IF idx = 0 THEN NumeralOfNumber(item, v)
  ELSE IF v \div idx < BaseOf(item) THEN <<>>
  ELSE NumeralOfNumber(item, (v \div idx) \div BaseOf(item))

OfNumber(item, n) ==
  /\ ulValue = Magnitude(item, n)
  /\ ulBase = BaseOf(item) /\ ulCap = (IF item.conv = "X" THEN 1 ELSE 0)
  /\ cFill = FillOf(item)
  /\ ulIdx \in PowersOf(ulBase) \cup {0}
  /\ ulIdx <= ulValue \/ ulIdx <= 1

Scaling(item, n) ==
  /\ pc \in {"convert", "pad"}
  /\ ulNeg = Negative(item, n) /\ pcBuf = <<>> /\ ulIdx # 0
  /\ \E j \in 0..9 :
       /\ Len(NumeralOfNumber(item, ulValue))
          = j + Len(NumeralOfNumber(item, ulValue \div ulIdx))
       /\ ulCount = IF j <= item.width THEN item.width - j ELSE ULONG + item.width - j
  /\ pc = "pad" => ulValue \div ulIdx < ulBase

Emitting(item, n) ==
  /\ pc = "digits"
  /\ pcBuf = PrefixOf(item, n) \o EmittedOf(item, ulValue, ulIdx)

InNumber(item, args, rest) ==
  /\ item.conv \in NumberConversions /\ format = rest
  /\ \E n \in Numbers :
       /\ args = <<[kind |-> "number", value |-> n]>>
       /\ OfNumber(item, n)
       /\ Scaling(item, n) \/ Emitting(item, n)

(* The directive being read, the arguments it has taken, and what comes    *)
(* behind it.                                                              *)
ThisItem == plan[Len(given)]
ThisArgs == given[Len(given)]
ThisRest == RestOf(plan, Len(given))

(* What is served when a directive is being read, ... *)
Reading ==
  /\ Len(given) >= 1 /\ PastOf(plan, given, Len(given) - 1)
  /\ out = ServedOf(plan, given, Len(given) - 1) \o ThisItem.before
  /\ pc = "again" => /\ ulCap = 0
                     /\ \/ AtFlag(ThisItem, ThisArgs, ThisRest)
                        \/ InWidth(ThisItem, ThisArgs, ThisRest)
                        \/ AtText(ThisItem, ThisArgs, ThisRest)
  /\ pc # "again" => InNumber(ThisItem, ThisArgs, ThisRest)

(* ... and when none is. *)
Between ==
  LET k == Len(given)
  IN /\ PastOf(plan, given, k)
     /\ \/ format = RestOf(plan, k) /\ out = ServedOf(plan, given, k)
        \/ k = Len(plan) /\ format = <<>> /\ out = ServedOf(plan, given, k) \o <<"\n">>

GivenOK == plan \in Plans /\ given \in Seq(Seq(Argument)) /\ Len(given) <= Len(plan)

PrintfInv ==
  /\ PrintfTypeOK /\ GivenOK /\ BufferHeld /\ pcBuf \in Seq(Characters)
  /\ pc \in {"scan", "done"} => Between
  /\ pc \notin {"scan", "done"} => Reading
-----------------------------------------------------------------------------
(* Formats *)

(* A character put in front. *)
LEMMA PutInFront ==
  ASSUME NEW A, NEW c \in A, NEW t \in Seq(A)
  PROVE  /\ <<c>> \o t \in Seq(A) /\ <<c>> \o t # <<>>
         /\ Len(<<c>> \o t) = Len(t) + 1
         /\ Head(<<c>> \o t) = c /\ (<<c>> \o t)[1] = c /\ Tail(<<c>> \o t) = t
<1> DEFINE u == <<c>> \o t
<1>1. <<c>> \in Seq(A) /\ Len(<<c>>) = 1 /\ Len(t) \in Nat  BY SMT
<1>2. u \in Seq(A) /\ Len(u) = Len(t) + 1 /\ u[1] = c /\ \A i \in 1..Len(t) : u[i + 1] = t[i]
  BY <1>1, SMT
<1>3. u # <<>> /\ Head(u) = c  BY <1>2, SMT
<1>4. Tail(u) \in Seq(A) /\ Len(Tail(u)) = Len(u) - 1
      /\ \A i \in 1..Len(Tail(u)) : Tail(u)[i] = u[i + 1]
  <2> HIDE DEF u
  <2> QED BY <1>2, <1>3, HeadTailProperties, Zenon
<1>5. Tail(u) = t
  <2> HIDE DEF u
  <2>1. Len(Tail(u)) = Len(t)  BY <1>1, <1>2, <1>4, SMT
  <2>2. \A i \in 1..Len(Tail(u)) : Tail(u)[i] = t[i]  BY <1>2, <1>4, <2>1, Zenon
  <2> QED BY <1>4, <2>1, <2>2, SeqEqual, Zenon
<1> QED BY <1>2, <1>3, <1>5, Zenon

(* What is behind a text and one character more. *)
LEMMA Behind ==
  ASSUME NEW A, NEW s \in Seq(A), NEW c \in A, NEW t \in Seq(A)
  PROVE  LET u == s \o (<<c>> \o t)
         IN  u \in Seq(A) /\ Len(s) # Len(u) /\ SubSeq(u, Len(s) + 2, Len(u)) = t
<1> DEFINE v == <<c>> \o t
           u == s \o v
           n == Len(s)
           r == SubSeq(u, n + 2, Len(u))
<1>1. v \in Seq(A) /\ Len(v) = Len(t) + 1 /\ \A i \in 1..Len(t) : v[i + 1] = t[i]
  BY SMT
<1>2. n \in Nat /\ Len(t) \in Nat  BY LenProperties, Zenon
<1>3. u \in Seq(A) /\ Len(u) = n + (Len(t) + 1)
      /\ \A i \in 1..(n + (Len(t) + 1)) : u[i] = IF i <= n THEN s[i] ELSE v[i - n]
  <2> HIDE DEF v
  <2>1. /\ u \in Seq(A) /\ Len(u) = Len(s) + Len(v)
        /\ \A i \in 1..(Len(s) + Len(v)) : u[i] = IF i <= Len(s) THEN s[i] ELSE v[i - Len(s)]
    BY <1>1, ConcatProperties, Zenon
  <2> QED BY <1>1, <2>1, Zenon
<1> HIDE DEF u, v, n
<1>6. /\ r \in Seq(A)
      /\ Len(r) = IF n + 2 <= Len(u) THEN Len(u) - (n + 2) + 1 ELSE 0
      /\ \A i \in 1..(Len(u) - (n + 2) + 1) : r[i] = u[(n + 2) + i - 1]
  <2> DEFINE a == n + 2
             b == Len(u)
  <2>1. a \in Nat \ {0} /\ b \in Nat /\ b <= Len(u)  BY <1>2, <1>3, SMT
  <2> HIDE DEF a, b
  <2>2. /\ SubSeq(u, a, b) \in Seq(A)
        /\ Len(SubSeq(u, a, b)) = IF a <= b THEN b - a + 1 ELSE 0
        /\ \A i \in 1..(b - a + 1) : SubSeq(u, a, b)[i] = u[a + i - 1]
    BY <1>3, <2>1, PartOf, SMT
  <2> QED BY <2>2 DEF a, b
<1>7. Len(r) = Len(t) /\ Len(u) - (n + 2) + 1 = Len(t)  BY <1>2, <1>3, <1>6, SMT
<1>8. \A i \in 1..Len(r) : r[i] = t[i]
  <2> SUFFICES ASSUME NEW i \in 1..Len(r) PROVE r[i] = t[i]  OBVIOUS
  <2>1. /\ i \in 1..Len(t) /\ i \in 1..(Len(u) - (n + 2) + 1)
        /\ (n + 2) + i - 1 = n + (i + 1) /\ n + (i + 1) \in 1..(n + (Len(t) + 1))
        /\ ~(n + (i + 1) <= n) /\ (n + (i + 1)) - n = i + 1
    BY <1>2, <1>7, SMT
  <2>2. r[i] = u[n + (i + 1)]  BY <1>6, <2>1, Zenon
  <2>3. u[n + (i + 1)] = v[i + 1]  BY <1>3, <2>1, Zenon
  <2> QED BY <1>1, <2>1, <2>2, <2>3, Zenon
<1>9. r = t
  <2> HIDE DEF r
  <2> QED BY <1>6, <1>7, <1>8, SeqEqual, Zenon
<1>10. n # Len(u)  BY <1>2, <1>3, SMT
<1> QED BY <1>3, <1>9, <1>10, Zenon DEF u, v, n

Items == [before : Seq(STRING \ {"%", "NUL"}), flag : {"", "-", "0"},
          width : 0..(ULONG - 1), conv : DOMAIN Spelled]

(* The conversions one by one. *)
LEMMA Conversions ==
  DOMAIN Spelled = {"s", "h", "H", "c", "d", "u", "x", "X", "p", "percent", "dot_s", "dot_h",
                    "dot_H", "star_s", "dot", "star", "q"}
BY SMT DEF Spelled

(* The spelling of a conversion begins with what no width and no flag has, *)
(* and is one character, but for those that take a length.                 *)
LEMMA SpelledAs ==
  /\ Spelled["s"] = <<"s">> /\ Spelled["h"] = <<"h">> /\ Spelled["H"] = <<"H">>
  /\ Spelled["c"] = <<"c">> /\ Spelled["d"] = <<"d">> /\ Spelled["u"] = <<"u">>
  /\ Spelled["x"] = <<"x">> /\ Spelled["X"] = <<"X">> /\ Spelled["p"] = <<"p">>
  /\ Spelled["percent"] = <<"%">> /\ Spelled["dot"] = <<".">> /\ Spelled["star"] = <<"*">>
  /\ Spelled["q"] = <<"q">> /\ Spelled["dot_s"] = <<".", "*", "s">>
  /\ Spelled["dot_h"] = <<".", "*", "h">> /\ Spelled["dot_H"] = <<".", "*", "H">>
  /\ Spelled["star_s"] = <<"*", "s">>
BY SMT DEF Spelled

(* The characters that are named below. *)
LEMMA Literals ==
  /\ "%" \in Characters /\ "." \in Characters /\ "*" \in Characters /\ "-" \in Characters
  /\ " " \in Characters /\ "\n" \in Characters /\ "s" \in Characters /\ "h" \in Characters
  /\ "H" \in Characters /\ "c" \in Characters /\ "d" \in Characters /\ "u" \in Characters
  /\ "x" \in Characters /\ "X" \in Characters /\ "p" \in Characters /\ "q" \in Characters
  /\ "E" \in Characters /\ "R" \in Characters /\ "O" \in Characters /\ "0" \in Characters
  /\ Decimal \subseteq Characters /\ DOMAIN Ascii \subseteq Characters
  /\ STRING \subseteq Characters
<1>1. DOMAIN Ascii = {"NUL", "k", "z", "tilde", "xe3"}  BY SMT DEF Ascii
<1> QED BY <1>1, DecimalIs, ZenonT(60) DEF Characters

(* Conversions are spelled with characters. *)
LEMMA SpelledTyped ==
  \A conv \in DOMAIN Spelled : Spelled[conv] \in Seq(Characters)
<1> DEFINE A == Characters
<1> HIDE DEF A
<1>1. /\ \A a \in A : <<a>> \in Seq(A)
      /\ \A a, b \in A : <<a, b>> \in Seq(A)
      /\ \A a, b, c \in A : <<a, b, c>> \in Seq(A)
  BY SMT
<1>2. /\ Spelled["s"] \in Seq(A) /\ Spelled["h"] \in Seq(A) /\ Spelled["H"] \in Seq(A)
      /\ Spelled["c"] \in Seq(A) /\ Spelled["d"] \in Seq(A) /\ Spelled["u"] \in Seq(A)
      /\ Spelled["x"] \in Seq(A) /\ Spelled["X"] \in Seq(A) /\ Spelled["p"] \in Seq(A)
      /\ Spelled["percent"] \in Seq(A) /\ Spelled["dot"] \in Seq(A)
      /\ Spelled["star"] \in Seq(A) /\ Spelled["q"] \in Seq(A)
  BY <1>1, SpelledAs, Literals, Zenon DEF A
<1>3. /\ Spelled["dot_s"] \in Seq(A) /\ Spelled["dot_h"] \in Seq(A)
      /\ Spelled["dot_H"] \in Seq(A) /\ Spelled["star_s"] \in Seq(A)
  <2>1. "." \in A /\ "*" \in A /\ "s" \in A /\ "h" \in A /\ "H" \in A  BY Literals, Zenon DEF A
  <2>2. /\ <<".", "*", "s">> \in Seq(A) /\ <<".", "*", "h">> \in Seq(A)
        /\ <<".", "*", "H">> \in Seq(A) /\ <<"*", "s">> \in Seq(A)
    BY <2>1, SMT
  <2> QED BY <2>2, SpelledAs, Zenon
<1> QED BY <1>2, <1>3, Conversions, Zenon DEF A


(* The parts of an item are texts, and none of its first has an end. *)
LEMMA ItemParts ==
  ASSUME NEW item \in Items
  PROVE  /\ item.before \in Seq(Characters) /\ FlagText(item) \in Seq(Characters)
         /\ WidthText(item) \in Seq(Characters) /\ WidthText(item) \in Seq(Decimal)
         /\ Spelled[item.conv] \in Seq(Characters)
         /\ \A i \in 1..Len(item.before) : item.before[i] # "%" /\ item.before[i] # "NUL"
         /\ item.width \in Nat /\ item.width < ULONG /\ item.conv \in DOMAIN Spelled
         /\ item.flag \in {"", "-", "0"}
<1> DEFINE s == item.before
           S == STRING \ {"%", "NUL"}
<1>1. s \in Seq(S) /\ item.flag \in {"", "-", "0"} /\ item.width \in 0..(ULONG - 1)
      /\ item.conv \in DOMAIN Spelled
  <2> HIDE DEF S
  <2> QED BY Zenon DEF Items, S
<1>2. item.width \in Nat /\ item.width < ULONG
  <2> DEFINE w == item.width
  <2>1. w \in 0..(ULONG - 1) /\ ULONG \in Nat  BY <1>1, PrintfAssumption
  <2> HIDE DEF w
  <2>2. w \in Nat /\ w < ULONG  BY <2>1, SMT
  <2> QED BY <2>2 DEF w
<1>3. s \in Seq(Characters)
  <2>1. S \subseteq Characters  BY Literals, Zenon
  <2> HIDE DEF S, s
  <2> QED BY <1>1, <2>1, SeqMonotonic, Zenon
<1>4. \A i \in 1..Len(s) : s[i] # "%" /\ s[i] # "NUL"
  <2>1. \A i \in 1..Len(s) : s[i] \in S
    <3> HIDE DEF S, s
    <3> QED BY <1>1, ElementOfSeq, Zenon
  <2> QED BY <2>1, Zenon
<1>5. FlagText(item) \in Seq(Characters)
  <2>1. \A a \in Characters : <<a>> \in Seq(Characters)
    <3> DEFINE A == Characters
    <3>1. \A a \in A : <<a>> \in Seq(A)
      <4> HIDE DEF A
      <4> QED BY SMT
    <3> QED BY <3>1
  <2>2. <<>> \in Seq(Characters)  BY EmptySeq, Zenon
  <2> QED BY <1>1, <2>1, <2>2, Literals, Zenon DEF FlagText
<1>6. WidthText(item) \in Seq(Decimal)
  <2>1. <<>> \in Seq(Decimal)  BY EmptySeq, Zenon
  <2> QED BY <1>2, <2>1, NumeralOfDigits, Zenon DEF WidthText
<1>7. WidthText(item) \in Seq(Characters)
  BY <1>6, Literals, SeqMonotonic, Zenon
<1> HIDE DEF s
<1>8. Spelled[item.conv] \in Seq(Characters)  BY <1>1, SpelledTyped, Zenon
<1> QED BY <1>1, <1>2, <1>3, <1>4, <1>5, <1>7, <1>6, <1>8, Zenon DEF s

(* Texts one behind the other, in whichever order they are put together. *)
LEMMA Associates ==
  ASSUME NEW A, NEW s \in Seq(A), NEW t \in Seq(A), NEW u \in Seq(A)
  PROVE  (s \o t) \o u = s \o (t \o u) /\ s \o t \in Seq(A) /\ t \o u \in Seq(A)
BY SMT

Rest(item, t) == FlagText(item) \o (WidthText(item) \o (Spelled[item.conv] \o t))

(* The spelling of an item and what is behind it, taken apart at its "%". *)
LEMMA SpellingFollowed ==
  ASSUME NEW item \in Items, NEW t \in Seq(Characters)
  PROVE  /\ Spelling(item) \in Seq(Characters) /\ Rest(item, t) \in Seq(Characters)
         /\ Spelling(item) \o t = item.before \o (<<"%">> \o Rest(item, t))
<1> DEFINE A == Characters
           a == item.before
           b == <<"%">>
           c == FlagText(item)
           d == WidthText(item)
           e == Spelled[item.conv]
<1>1. a \in Seq(A) /\ c \in Seq(A) /\ d \in Seq(A) /\ e \in Seq(A)
  BY ItemParts, Zenon
<1>2. b \in Seq(A)
  <2>1. "%" \in A  BY Literals
  <2> HIDE DEF A
  <2> QED BY <2>1, SMT
<1>3. Spelling(item) = a \o b \o c \o d \o e  BY Zenon DEF Spelling, FlagText, WidthText
<1> HIDE DEF A, a, b, c, d, e
<1> DEFINE ab == a \o b
           abc == ab \o c
           abcd == abc \o d
           et == e \o t
           det == d \o et
           cdet == c \o det
           bcdet == b \o cdet
<1>4. t \in Seq(A)  BY DEF A
<1>5. Spelling(item) = abcd \o e  BY <1>3
<1> HIDE DEF ab, abc, abcd, et, det, cdet, bcdet
<1>6. ab \in Seq(A) /\ et \in Seq(A)  BY <1>1, <1>2, <1>4, Associates DEF ab, et
<1>7. abc \in Seq(A) /\ det \in Seq(A)  BY <1>1, <1>6, Associates DEF abc, det
<1>8. abcd \in Seq(A) /\ cdet \in Seq(A)  BY <1>1, <1>7, Associates DEF abcd, cdet
<1>9. abcd \o e \in Seq(A) /\ (abcd \o e) \o t = abcd \o et
  BY <1>1, <1>4, <1>8, SMTT(60) DEF et
<1>10. abcd \o et = abc \o det  BY <1>1, <1>6, <1>7, SMTT(60) DEF abcd, det
<1>11. abc \o det = ab \o cdet
  <2>1. ab \in Seq(A) /\ c \in Seq(A) /\ det \in Seq(A)  BY <1>1, <1>6, <1>7
  <2> QED BY <2>1, SMT DEF abc, cdet
<1>12. ab \o cdet = a \o bcdet  BY <1>1, <1>2, <1>8, SMTT(60) DEF ab, bcdet
<1>13. Spelling(item) \in Seq(A) /\ Spelling(item) \o t = a \o bcdet
  BY <1>5, <1>9, <1>10, <1>11, <1>12
<1> QED BY <1>8, <1>13, Zenon DEF A, a, b, c, d, e, et, det, cdet, bcdet, Rest

SpellingsOf(q) == [i \in 1..Len(q) |-> Spelling(q[i])]

(* The spellings of items, as FormatOf joins them. *)
LEMMA SpellingsTyped ==
  ASSUME NEW q \in Seq(Items)
  PROVE  SpellingsOf(q) \in Seq(Seq(Characters)) /\ Len(SpellingsOf(q)) = Len(q)
<1>1. \A item \in Items : Spelling(item) \in Seq(Characters)
  <2>1. <<>> \in Seq(Characters)  BY EmptySeq, Zenon
  <2> QED BY <2>1, SpellingFollowed, Zenon
<1>2. \A i \in 1..Len(q) : Spelling(q[i]) \in Seq(Characters)
  BY <1>1, ElementOfSeq, Zenon
<1>3. SpellingsOf(q) \in [1..Len(q) -> Seq(Characters)]  BY <1>2, Zenon DEF SpellingsOf
<1>4. Len(q) \in Nat  BY LenProperties, Zenon
<1> DEFINE f == SpellingsOf(q)
           n == Len(q)
           B == Seq(Characters)
<1> HIDE DEF f, n, B
<1>5. f \in [1..n -> B] /\ n \in Nat  BY <1>3, <1>4 DEF f, n, B
<1>6. f \in Seq(B) /\ Len(f) = n  BY <1>5, SMT
<1> QED BY <1>6 DEF f, n, B

(* The format of a plan is the spelling of its first directive and the     *)
(* format of the rest.                                                     *)
LEMMA FormatCons ==
  ASSUME NEW item \in Items, NEW q \in Seq(Items)
  PROVE  /\ FormatOf(q) \in Seq(Characters)
         /\ FormatOf(<<item>> \o q) = Spelling(item) \o FormatOf(q)
<1> DEFINE A == Characters
           r == <<item>> \o q
           e == Spelling(item)
           s == SpellingsOf(q)
           nl == <<"\n">>
<1>1. e \in Seq(A)
  <2>1. <<>> \in Seq(Characters)  BY EmptySeq, Zenon
  <2> QED BY <2>1, SpellingFollowed, Zenon
<1>2. s \in Seq(Seq(A)) /\ Len(s) = Len(q) /\ Len(q) \in Nat
  BY SpellingsTyped, LenProperties, Zenon
<1>3. /\ r \in Seq(Items) /\ Len(r) = Len(q) + 1 /\ r[1] = item
      /\ \A i \in 1..Len(q) : r[i + 1] = q[i]
  BY SMT
<1>4. SpellingsOf(r) \in Seq(Seq(A)) /\ Len(SpellingsOf(r)) = Len(r)
  <2> HIDE DEF r
  <2> QED BY <1>3, SpellingsTyped, Zenon
<1>5. SpellingsOf(r) = <<e>> \o s
  <2> DEFINE B == Seq(A)
             m == Len(q)
  <2>1. \A i \in 1..m : s[i] = Spelling(q[i])  BY Zenon DEF SpellingsOf
  <2>2. \A i \in 1..(m + 1) : SpellingsOf(r)[i] = Spelling(r[i])
    <3> HIDE DEF r
    <3> QED BY <1>3, Zenon DEF SpellingsOf
  <2> HIDE DEF A, e, s, r
  <2>3. e \in B /\ s \in Seq(B) /\ Len(s) = m /\ m \in Nat  BY <1>1, <1>2
  <2> HIDE DEF B, m
  <2>4. /\ <<e>> \o s \in Seq(B) /\ Len(<<e>> \o s) = m + 1
        /\ \A i \in 1..(m + 1) : (<<e>> \o s)[i] = IF i = 1 THEN e ELSE s[i - 1]
    BY <2>3, SMT
  <2>5. ASSUME NEW i \in 1..(m + 1) PROVE SpellingsOf(r)[i] = (<<e>> \o s)[i]
    <3>1. CASE i = 1
      <4>1. (<<e>> \o s)[i] = e  BY <2>4, <3>1, Zenon
      <4>2. SpellingsOf(r)[i] = Spelling(item)  BY <1>3, <2>2, <3>1, Zenon
      <4> QED BY <4>1, <4>2 DEF e
    <3>2. CASE i # 1
      <4>1. i - 1 \in 1..m /\ (i - 1) + 1 = i  BY <2>3, <3>2, SMT
      <4>2. (<<e>> \o s)[i] = s[i - 1]  BY <2>4, <3>2, Zenon
      <4>3. r[i] = q[i - 1]
        <5>1. r[(i - 1) + 1] = q[i - 1]  BY <1>3, <4>1, Zenon DEF m
        <5> QED BY <4>1, <5>1, Zenon
      <4> QED BY <2>1, <2>2, <4>1, <4>2, <4>3, Zenon
    <3> QED BY <3>1, <3>2
  <2>6. SpellingsOf(r) \in Seq(B) /\ Len(SpellingsOf(r)) = m + 1
    BY <1>3, <1>4 DEF B, m
  <2> DEFINE f == SpellingsOf(r)
             g == <<e>> \o s
  <2> HIDE DEF f, g
  <2>7. f \in Seq(B) /\ g \in Seq(B) /\ Len(f) = Len(g) /\ \A i \in 1..Len(f) : f[i] = g[i]
    BY <2>4, <2>5, <2>6, Zenon DEF f, g
  <2>8. f = g  BY <2>7, SeqEqual, Zenon
  <2> QED BY <2>8 DEF f, g
<1>6. FlattenSeq(s) \in Seq(A) /\ FlattenSeq(<<e>> \o s) = e \o FlattenSeq(s)
  <2>1. FlattenSeq(<<e>> \o s) = e \o FlattenSeq(s)
    <3> HIDE DEF A, e, s
    <3> QED BY <1>1, <1>2, FlattenCons, Zenon
  <2>2. FlattenSeq(s) \in Seq(A)
    <3> HIDE DEF A, s, e
    <3> QED BY <1>1, <1>2, FlattenAppend, Zenon
  <2> QED BY <2>1, <2>2
<1>7. nl \in Seq(A)
  <2>1. "\n" \in A  BY Literals
  <2> HIDE DEF A
  <2> QED BY <2>1, SMT
<1>8. FormatOf(q) = FlattenSeq(s) \o nl /\ FormatOf(r) = FlattenSeq(SpellingsOf(r)) \o nl
  BY Zenon DEF FormatOf, SpellingsOf
<1> DEFINE t == FlattenSeq(s)
<1> HIDE DEF A, r, e, s, nl
<1>9. FormatOf(r) = (e \o t) \o nl /\ t \in Seq(A)  BY <1>5, <1>6, <1>8, Zenon
<1> HIDE DEF t
<1>10. (e \o t) \o nl = e \o (t \o nl) /\ t \o nl \in Seq(A)  BY <1>1, <1>7, <1>9, SMT
<1> QED BY <1>8, <1>9, <1>10 DEF t, A, e, r

(* The format of no directive. *)
LEMMA FormatEmpty ==
  FormatOf(<<>>) = <<"\n">> /\ <<"\n">> \in Seq(Characters)
<1> DEFINE A == Characters
           nl == <<"\n">>
<1>1. nl \in Seq(A)
  <2>1. "\n" \in A  BY Literals
  <2> HIDE DEF A
  <2> QED BY <2>1, SMT
<1>2. FormatOf(<<>>) = FlattenSeq(<<>>) \o nl
  <2>1. [i \in 1..Len(<<>>) |-> Spelling(<<>>[i])] = <<>>  BY SMT
  <2> QED BY <2>1, Zenon DEF FormatOf
<1> HIDE DEF nl, A
<1>3. <<>> \o nl = nl  BY <1>1, ConcatEmptySeq, Zenon
<1> QED BY <1>1, <1>2, <1>3, FlattenEmpty, Zenon DEF nl, A

(* A format is a text. *)
LEMMA FormatTyped ==
  ASSUME NEW q \in Seq(Items)
  PROVE  FormatOf(q) \in Seq(Characters)
<1> DEFINE A == Characters
           s == SpellingsOf(q)
           nl == <<"\n">>
<1>1. s \in Seq(Seq(A))  BY SpellingsTyped, Zenon
<1>2. nl \in Seq(A)  BY FormatEmpty
<1>3. FormatOf(q) = FlattenSeq(s) \o nl  BY Zenon DEF FormatOf, SpellingsOf
<1> HIDE DEF A, s, nl
<1>4. FlattenSeq(s) \in Seq(A)  BY <1>1, <1>2, FlattenAppend, Zenon
<1>5. FlattenSeq(s) \o nl \in Seq(A)  BY <1>2, <1>4, ConcatProperties, Zenon
<1> QED BY <1>3, <1>5, Zenon DEF A

(* What comes behind the first k directives of a plan. *)
LEMMA RestUnfolds ==
  ASSUME NEW p \in Seq(Items), NEW k \in 0..Len(p)
  PROVE  /\ RestOf(p, k) \in Seq(Characters)
         /\ k = Len(p) => RestOf(p, k) = <<"\n">>
         /\ k < Len(p) =>
              /\ p[k + 1] \in Items
              /\ RestOf(p, k + 1) \in Seq(Characters)
              /\ RestOf(p, k) =
                   p[k + 1].before \o (<<"%">> \o Rest(p[k + 1], RestOf(p, k + 1)))
<1> DEFINE n == Len(p)
<1>1. n \in Nat /\ k \in Nat /\ k <= n  BY SMT
<1>2. ASSUME NEW j \in 0..n PROVE SubSeq(p, j + 1, n) \in Seq(Items)
  <2>1. j + 1 \in Nat \ {0} /\ n <= n  BY <1>1, SMT
  <2> QED BY <1>1, <2>1, PartOf, Zenon
<1>3. FormatOf(SubSeq(p, k + 1, n)) \in Seq(Characters)
  BY <1>2, FormatTyped, Zenon
<1>4. CASE k = n
  <2>1. n + 1 \in Int /\ n \in Int /\ n < n + 1 /\ ~(k < n)  BY <1>1, <1>4, SMT
  <2>2. SubSeq(p, k + 1, n) = <<>>  BY <1>4, <2>1, SubSeqEmpty, Zenon
  <2> QED BY <1>3, <2>1, <2>2, FormatEmpty, Zenon DEF RestOf
<1>5. CASE k < n
  <2>1. k + 1 \in 1..n /\ n \in (k + 1)..n /\ k + 1 \in 0..n /\ k # n  BY <1>1, <1>5, SMT
  <2>2. SubSeq(p, k + 1, n) = <<p[k + 1]>> \o SubSeq(p, (k + 1) + 1, n)
    BY <2>1, SubSeqRecursiveFirst, SMT
  <2>3. p[k + 1] \in Items  BY <2>1, ElementOfSeq, Zenon
  <2>4. SubSeq(p, (k + 1) + 1, n) \in Seq(Items)  BY <1>2, <2>1, Zenon
  <2> DEFINE t == SubSeq(p, (k + 1) + 1, n)
             item == p[k + 1]
  <2>5. FormatOf(<<item>> \o t) = Spelling(item) \o FormatOf(t) /\ FormatOf(t) \in Seq(Characters)
    <3> HIDE DEF t, item
    <3> QED BY <2>3, <2>4, FormatCons, Zenon DEF t, item
  <2>6. Spelling(item) \o FormatOf(t) = item.before \o (<<"%">> \o Rest(item, FormatOf(t)))
    <3> HIDE DEF t, item
    <3> QED BY <2>3, <2>5, SpellingFollowed, Zenon DEF item
  <2> HIDE DEF n
  <2>7. RestOf(p, k) = item.before \o (<<"%">> \o Rest(item, FormatOf(t)))
    BY <2>2, <2>5, <2>6, Zenon DEF RestOf, n
  <2> QED BY <1>3, <2>1, <2>3, <2>5, <2>7, Zenon DEF RestOf, n
<1>6. k = n \/ k < n  BY <1>1, SMT
<1> QED BY <1>4, <1>5, <1>6, Zenon

-----------------------------------------------------------------------------
(* What is served *)

(* Nothing is served with no directive. *)
LEMMA ServedNothing ==
  ASSUME NEW p, NEW g
  PROVE  ServedOf(p, g, 0) = <<>>
<1>1. [i \in 1..0 |-> SaysOf(p[i], g[i])] = <<>>  BY SMT
<1> QED BY <1>1, FlattenEmpty, Zenon DEF ServedOf

(* One directive more. *)
LEMMA ServedStep ==
  ASSUME NEW p, NEW g, NEW k \in Nat,
         \A i \in 1..(k + 1) : SaysOf(p[i], g[i]) \in Seq(Characters)
  PROVE  /\ ServedOf(p, g, k) \in Seq(Characters)
         /\ ServedOf(p, g, k + 1) = ServedOf(p, g, k) \o SaysOf(p[k + 1], g[k + 1])
<1> DEFINE B == Seq(Characters)
           s(i) == SaysOf(p[i], g[i])
           f == [i \in 1..k |-> s(i)]
           h == [i \in 1..(k + 1) |-> s(i)]
           e == s(k + 1)
<1>1. \A i \in 1..(k + 1) : s(i) \in B  OBVIOUS
<1> HIDE DEF s, B
<1>2. f \in Seq(B) /\ Len(f) = k /\ \A i \in 1..k : f[i] = s(i)  BY <1>1, SMT
<1>3. h \in Seq(B) /\ Len(h) = k + 1 /\ \A i \in 1..(k + 1) : h[i] = s(i)  BY <1>1, SMT
<1>4. e \in B  BY <1>1, SMT
<1> HIDE DEF f, h, e
<1>5. Append(f, e) \in Seq(B) /\ Len(Append(f, e)) = k + 1
      /\ \A i \in 1..(k + 1) : Append(f, e)[i] = IF i = k + 1 THEN e ELSE f[i]
  BY <1>2, <1>4, SMT
<1>6. \A i \in 1..(k + 1) : i = k + 1 \/ i \in 1..k  BY SMT
<1>7. \A i \in 1..(k + 1) : h[i] = Append(f, e)[i]
  BY <1>2, <1>3, <1>5, <1>6, Zenon DEF e
<1> DEFINE a == Append(f, e)
<1> HIDE DEF a
<1>8. a \in Seq(B) /\ Len(h) = Len(a) /\ \A i \in 1..Len(h) : h[i] = a[i]
  BY <1>3, <1>5, <1>7, Zenon DEF a
<1>9. h = a  BY <1>3, <1>8, SeqEqual, Zenon
<1>10. FlattenSeq(f) \in Seq(Characters) /\ FlattenSeq(a) = FlattenSeq(f) \o e
  <2> DEFINE C == Characters
  <2>1. f \in Seq(Seq(C)) /\ e \in Seq(C)  BY <1>2, <1>4 DEF B
  <2> HIDE DEF C
  <2>2. FlattenSeq(f) \in Seq(C) /\ FlattenSeq(Append(f, e)) = FlattenSeq(f) \o e
    BY <2>1, FlattenAppend, Zenon
  <2> QED BY <2>2 DEF C, a
<1>11. ServedOf(p, g, k) = FlattenSeq(f) /\ ServedOf(p, g, k + 1) = FlattenSeq(h)
  BY Zenon DEF ServedOf, f, h, s
<1> QED BY <1>9, <1>10, <1>11 DEF e, s

(* What the first k directives are served with does not depend on what the *)
(* others are given.                                                       *)
LEMMA ServedSame ==
  ASSUME NEW p, NEW g, NEW h, NEW k \in Nat, \A i \in 1..k : h[i] = g[i]
  PROVE  ServedOf(p, h, k) = ServedOf(p, g, k) /\ (PastOf(p, g, k) => PastOf(p, h, k))
<1>1. [i \in 1..k |-> SaysOf(p[i], h[i])] = [i \in 1..k |-> SaysOf(p[i], g[i])]  BY Zenon
<1> QED BY <1>1, Zenon DEF ServedOf, PastOf

(* What is served is a text. *)
LEMMA ServedTyped ==
  ASSUME NEW p \in Seq(Items), NEW g, NEW k \in 0..Len(p), PastOf(p, g, k)
  PROVE  /\ \A i \in 1..k : SaysOf(p[i], g[i]) \in Seq(Characters)
         /\ ServedOf(p, g, k) \in Seq(Characters)
<1>1. \A i \in 1..k : i \in 1..Len(p)  BY SMT
<1>2. \A i \in 1..k : SaysOf(p[i], g[i]) \in Seq(Characters)
  <2> SUFFICES ASSUME NEW i \in 1..k PROVE SaysOf(p[i], g[i]) \in Seq(Characters)  OBVIOUS
  <2>1. p[i].before \in Seq(Characters)  BY <1>1, ElementOfSeq, ItemParts, Zenon
  <2>2. Meaning(p[i], ValuesOf(g[i])) \in Seq(Characters)  BY Zenon DEF PastOf
  <2> QED BY <2>1, <2>2, ConcatProperties, Zenon DEF SaysOf
<1>3. CASE k = 0
  <2>1. <<>> \in Seq(Characters)  BY EmptySeq, Zenon
  <2> QED BY <1>2, <1>3, <2>1, ServedNothing, Zenon
<1>4. CASE k # 0
  <2>1. k - 1 \in Nat /\ (k - 1) + 1 = k /\ k \in 1..k  BY <1>4, SMT
  <2>2. /\ ServedOf(p, g, k - 1) \in Seq(Characters)
        /\ ServedOf(p, g, k) = ServedOf(p, g, k - 1) \o SaysOf(p[k], g[k])
    <3>1. \A i \in 1..((k - 1) + 1) : SaysOf(p[i], g[i]) \in Seq(Characters)  BY <1>2, <2>1, Zenon
    <3>2. /\ ServedOf(p, g, k - 1) \in Seq(Characters)
          /\ ServedOf(p, g, (k - 1) + 1)
             = ServedOf(p, g, k - 1) \o SaysOf(p[(k - 1) + 1], g[(k - 1) + 1])
      BY <2>1, <3>1, ServedStep, Zenon
    <3> QED BY <2>1, <3>2, Zenon
  <2>3. SaysOf(p[k], g[k]) \in Seq(Characters)  BY <1>2, <2>1, Zenon
  <2> QED BY <1>2, <2>2, <2>3, ConcatProperties, Zenon
<1> QED BY <1>3, <1>4

(* The text behind what was served before directive k makes what is served *)
(* with it.                                                                *)
Serves(p, g, h, k, text) ==
  (ServedOf(p, g, k - 1) \o p[k].before) \o text = ServedOf(p, h, k)

(* A directive whose output is what it means, of the arguments it takes.   *)
LEMMA DirectiveServed ==
  ASSUME NEW p \in Seq(Items), NEW g, NEW h, NEW k \in 1..Len(p), NEW text \in Seq(Characters),
         PastOf(p, g, k - 1), \A i \in 1..(k - 1) : h[i] = g[i],
         KindsOf(h[k]) = Takes[p[k].conv], Meaning(p[k], ValuesOf(h[k])) = text
  PROVE  PastOf(p, h, k) /\ Serves(p, g, h, k, text)
<1>1. k - 1 \in Nat /\ (k - 1) + 1 = k /\ k - 1 \in 0..Len(p) /\ k \in 0..Len(p)  BY SMT
<1>2. \A i \in 1..k : i \in 1..(k - 1) \/ i = k  BY SMT
<1>3. ServedOf(p, h, k - 1) = ServedOf(p, g, k - 1) /\ PastOf(p, h, k - 1)
  BY <1>1, ServedSame, Zenon
<1>4. PastOf(p, h, k)  BY <1>2, <1>3, Zenon DEF PastOf
<1>5. \A i \in 1..((k - 1) + 1) : SaysOf(p[i], h[i]) \in Seq(Characters)
  BY <1>1, <1>4, ServedTyped, Zenon
<1>6. /\ ServedOf(p, h, k - 1) \in Seq(Characters)
      /\ ServedOf(p, h, k) = ServedOf(p, h, k - 1) \o SaysOf(p[k], h[k])
  <2>1. /\ ServedOf(p, h, k - 1) \in Seq(Characters)
        /\ ServedOf(p, h, (k - 1) + 1)
           = ServedOf(p, h, k - 1) \o SaysOf(p[(k - 1) + 1], h[(k - 1) + 1])
    BY <1>1, <1>5, ServedStep, Zenon
  <2> QED BY <1>1, <2>1, Zenon
<1>7. p[k].before \in Seq(Characters)  BY ElementOfSeq, ItemParts, Zenon
<1> DEFINE s == ServedOf(p, g, k - 1)
           b == p[k].before
           A == Characters
<1>8. ServedOf(p, h, k) = s \o (b \o text)  BY <1>3, <1>6, Zenon DEF SaysOf
<1>9. s \in Seq(A) /\ b \in Seq(A) /\ text \in Seq(A)  BY <1>3, <1>6, <1>7
<1> HIDE DEF s, b, A
<1>10. (s \o b) \o text = s \o (b \o text)  BY <1>9, SMTT(60)
<1> QED BY <1>4, <1>8, <1>10 DEF s, b, Serves

-----------------------------------------------------------------------------
(* What directives mean *)

(* Meaning, by the conversion. *)
LEMMA MeaningBy ==
  ASSUME NEW item, NEW args
  PROVE  /\ item.conv \in {"d", "u", "x", "X", "p"} =>
              Meaning(item, args) = NumberMeaning(item, args[1])
         /\ item.conv = "c" =>
              Meaning(item, args) = IF args[1] = "NUL" THEN <<>> ELSE <<args[1]>>
         /\ item.conv = "percent" => Meaning(item, args) = <<"%">>
         /\ item.conv \in {"dot", "star", "q"} => Meaning(item, args) = ERROR
         /\ item.conv = "s" =>
              Meaning(item, args) = TextMeaning(item, UpTo("NUL", args[1]))
         /\ item.conv = "dot_s" =>
              Meaning(item, args) = TextMeaning(item, SubSeq(args[2], 1, args[1]))
         /\ item.conv = "h" =>
              Meaning(item, args) = DumpMeaning(UpTo("NUL", args[1]), g_pcHex)
         /\ item.conv = "H" =>
              Meaning(item, args) = DumpMeaning(UpTo("NUL", args[1]), g_pcHex_cap)
         /\ item.conv = "dot_h" =>
              Meaning(item, args) = DumpMeaning(SubSeq(args[2], 1, args[1]), g_pcHex)
         /\ item.conv = "dot_H" =>
              Meaning(item, args) = DumpMeaning(SubSeq(args[2], 1, args[1]), g_pcHex_cap)
         /\ item.conv = "star_s" =>
              Meaning(item, args) =
                IF strlen(args[2]) = 0 THEN Spaces(args[1] + 1) ELSE ERROR
BY SMT DEF Meaning

(* UpTo gives what is before the first c. *)
LEMMA UpToIs ==
  ASSUME NEW A, NEW s \in Seq(A), NEW c
  PROVE  LET n == Len(UpTo(c, s))
         IN  /\ n \in Nat /\ n <= Len(s) /\ UpTo(c, s) = SubSeq(s, 1, n)
             /\ \A i \in 1..n : s[i] # c
<1>0. Len(s) \in Nat  BY LenProperties, Zenon
<1> DEFINE I == {j \in 1..Len(s) : s[j] = c}
<1>1. CASE I = {}
  <2>1. \A i \in 1..Len(s) : s[i] # c  BY <1>1, Zenon
  <2>2. UpTo(c, s) = s  BY <2>1, UpToNone, Zenon
  <2>3. SubSeq(s, 1, Len(s)) = s  BY SubSeqFull, Zenon
  <2>4. Len(s) <= Len(s)  BY <1>0, SMT
  <2> QED BY <1>0, <2>1, <2>2, <2>3, <2>4, Zenon
<1>2. CASE I # {}
  <2>1. I \subseteq Nat  BY <1>0, SMT
  <2>2. PICK i \in I : \A j \in I : i <= j
    <3> HIDE DEF I
    <3> QED BY <1>2, <2>1, LeastOfNat, Zenon
  <2>3. i \in 1..Len(s) /\ s[i] = c /\ \A j \in 1..(i - 1) : j \in 1..Len(s) /\ ~(i <= j)
    BY <1>0, <2>2, SMT
  <2>4. \A j \in 1..(i - 1) : s[j] # c  BY <2>2, <2>3, Zenon
  <2>5. UpTo(c, s) = SubSeq(s, 1, i - 1)  
    <3> HIDE DEF I
    <3>1. i \in 1..Len(s) /\ s[i] = c  BY <2>3
    <3> QED BY <1>0, <2>4, <3>1, UpToAt, SMT
  <2>6. i - 1 \in Nat /\ i - 1 <= Len(s) /\ 1 \in Nat \ {0}  BY <1>0, <2>3, SMT
  <2>7. Len(SubSeq(s, 1, i - 1)) = i - 1
    <3> DEFINE n == i - 1
    <3> HIDE DEF n
    <3>1. n \in Nat /\ n <= Len(s)  BY <2>6 DEF n
    <3>2. Len(SubSeq(s, 1, n)) = IF 1 <= n THEN n - 1 + 1 ELSE 0  BY <2>6, <3>1, PartOf, SMT
    <3>3. Len(SubSeq(s, 1, n)) = n  BY <3>1, <3>2, SMT
    <3> QED BY <3>3 DEF n
  <2> QED BY <2>4, <2>5, <2>6, <2>7, Zenon
<1> QED BY <1>1, <1>2

(* The first n characters of a text, no more than it has up to its         *)
(* terminator, go out as they are.                                         *)
LEMMA TextPrinted ==
  ASSUME NEW text \in Texts, NEW n \in Nat, n <= strlen(text)
  PROVE  LET t == SubSeq(text, 1, n)
         IN  /\ t \in Seq(Characters) /\ Len(t) = n /\ prints(t) = t
             /\ \A i \in 1..n : t[i] = text[i]
<1> DEFINE A == Characters
           t == SubSeq(text, 1, n)
           l == Len(text)
<1>1. text \in Seq(A) /\ l < USHORT /\ l \in Nat
  <2>1. text \in Seq(DOMAIN Ascii) /\ Len(text) < USHORT  BY TextAssumption, Zenon
  <2>2. text \in Seq(A)  BY <2>1, Literals, SeqMonotonic, Zenon
  <2> QED BY <2>1, <2>2, LenProperties, Zenon
<1> HIDE DEF A
<1>2. strlen(text) \in Nat /\ strlen(text) <= l /\ \A i \in 1..strlen(text) : text[i] # "NUL"
  BY <1>1, UpToIs, Zenon DEF strlen
<1> HIDE DEF l
<1>3. n <= l /\ 1 \in Nat \ {0} /\ n < USHORT  BY <1>1, <1>2, SMT DEF USHORT
<1>4. /\ SubSeq(text, 1, n) \in Seq(A)
      /\ Len(SubSeq(text, 1, n)) = IF 1 <= n THEN n - 1 + 1 ELSE 0
      /\ \A i \in 1..(n - 1 + 1) : SubSeq(text, 1, n)[i] = text[1 + i - 1]
  BY <1>1, <1>3, PartOf, SMT DEF l
<1> HIDE DEF t
<1>5. n - 1 + 1 = n /\ (~(1 <= n) => n = 0)  BY SMT
<1>6. t \in Seq(A) /\ Len(t) = n  BY <1>4, <1>5, Zenon DEF t
<1>7. \A i \in 1..n : 1 + i - 1 = i /\ i \in 1..strlen(text)  BY <1>2, SMT
<1>8. \A i \in 1..n : t[i] = text[i]  BY <1>4, <1>5, <1>7, Zenon DEF t
<1>9. \A i \in 1..Len(t) : t[i] # "NUL"  BY <1>2, <1>6, <1>7, <1>8, Zenon
<1>10. prints(t) = t
  <2>1. Len(t) < USHORT  BY <1>3, <1>6
  <2> QED BY <1>6, <1>9, <2>1, PrintsAll, Zenon
<1> QED BY <1>6, <1>8, <1>10 DEF A, t

(* One character n times. *)
LEMMA Repeats ==
  ASSUME NEW A, NEW c \in A, NEW n \in Nat
  PROVE  [i \in 1..n |-> c] \in Seq(A) /\ Len([i \in 1..n |-> c]) = n
BY SMT

Printable == Characters \ {"NUL"}

(* Spaces and zeros, of which there are none when their number is below     *)
(* zero.                                                                    *)
LEMMA SpacesTyped ==
  ASSUME NEW n \in Int
  PROVE  /\ Spaces(n) \in Seq(Printable) /\ Zeros(n) \in Seq(Printable)
         /\ Spaces(n) \in Seq(Characters) /\ Zeros(n) \in Seq(Characters)
         /\ Len(Spaces(n)) = (IF n >= 0 THEN n ELSE 0) /\ Len(Zeros(n)) = (IF n >= 0 THEN n ELSE 0)
         /\ n <= 0 => Spaces(n) = <<>> /\ Zeros(n) = <<>>
<1> DEFINE A == Printable
<1>1. " " \in A /\ "0" \in A  BY Zenon DEF Characters, Printable
<1>2. A \subseteq Characters  BY Zenon DEF Printable
<1> HIDE DEF A
<1>3. n <= 0 => Spaces(n) = <<>> /\ Zeros(n) = <<>>
  <2> SUFFICES ASSUME n <= 0 PROVE Spaces(n) = <<>> /\ Zeros(n) = <<>>  OBVIOUS
  <2>1. 1..n = {} /\ 1..0 = {}  BY SMT
  <2>2. \A c : [i \in 1..0 |-> c] = <<>>  BY SMT
  <2>3. \A c : [i \in 1..n |-> c] = <<>>  BY <2>1, <2>2, Zenon
  <2> QED BY <2>3, Zenon DEF Spaces, Zeros
<1>4. /\ Spaces(n) \in Seq(A) /\ Zeros(n) \in Seq(A)
      /\ Len(Spaces(n)) = (IF n >= 0 THEN n ELSE 0) /\ Len(Zeros(n)) = (IF n >= 0 THEN n ELSE 0)
  <2>1. CASE n >= 0
    <3>1. n \in Nat  BY <2>1, SMT
    <3>2. Spaces(n) \in Seq(A) /\ Zeros(n) \in Seq(A) /\ Len(Spaces(n)) = n /\ Len(Zeros(n)) = n
      BY <1>1, <3>1, Repeats, Zenon DEF Spaces, Zeros
    <3> QED BY <2>1, <3>2
  <2>2. CASE ~(n >= 0)
    <3>1. n <= 0  BY <2>2, SMT
    <3>2. Spaces(n) = <<>> /\ Zeros(n) = <<>>  BY <1>3, <3>1
    <3>3. <<>> \in Seq(A) /\ Len(<<>>) = 0  BY EmptySeq, Zenon
    <3>4. Spaces(n) \in Seq(A) /\ Zeros(n) \in Seq(A) /\ Len(Spaces(n)) = 0 /\ Len(Zeros(n)) = 0
      BY <3>2, <3>3
    <3> QED BY <2>2, <3>4
  <2> QED BY <2>1, <2>2
<1>5. Spaces(n) \in Seq(Characters) /\ Zeros(n) \in Seq(Characters)
  BY <1>2, <1>4, SeqMonotonic, Zenon
<1> QED BY <1>3, <1>4, <1>5 DEF A

(* ERROR is a text. *)
LEMMA ErrorTyped ==
  ERROR \in Seq(Characters)
<1> DEFINE A == Characters
<1>1. "E" \in A /\ "R" \in A /\ "O" \in A  BY Literals
<1> HIDE DEF A
<1>2. ERROR \in Seq(A)  BY <1>1, SMT DEF ERROR
<1> QED BY <1>2 DEF A

(* What "%s" and "%.*s" print is the text and the spaces to its width. *)
LEMMA TextMeans ==
  ASSUME NEW text \in Texts, NEW n \in Nat, n <= strlen(text), NEW item, item.width \in Nat,
         NEW count, count = item.width
  PROVE  LET t == SubSeq(text, 1, n)
         IN  /\ TextMeaning(item, t) \in Seq(Characters)
             /\ prints(t) \o Spaces(IF count > n THEN count - n ELSE 0) = TextMeaning(item, t)
<1> DEFINE t == SubSeq(text, 1, n)
           w == item.width
<1>1. t \in Seq(Characters) /\ Len(t) = n /\ prints(t) = t  BY TextPrinted, Zenon
<1>2. w \in Nat  OBVIOUS
<1>3. TextMeaning(item, t) = t \o Spaces(w - n)  BY <1>1, Zenon DEF TextMeaning
<1> HIDE DEF t, w
<1>4. w - n \in Int  BY <1>2, SMT
<1>5. Spaces(w - n) \in Seq(Characters)  BY <1>4, SpacesTyped, Zenon
<1>6. Spaces(IF w > n THEN w - n ELSE 0) = Spaces(w - n)
  <2>1. CASE w > n  BY <2>1, Zenon
  <2>2. CASE ~(w > n)
    <3>1. w - n <= 0 /\ 0 <= 0 /\ 0 \in Int  BY <1>2, <2>2, SMT
    <3>2. Spaces(w - n) = <<>> /\ Spaces(0) = <<>>  BY <1>4, <3>1, SpacesTyped, Zenon
    <3> QED BY <2>2, <3>2, Zenon
  <2> QED BY <2>1, <2>2
<1> QED BY <1>1, <1>3, <1>5, <1>6, ConcatProperties, Zenon DEF t, w

(* No digit is a NUL. *)
LEMMA DigitsTyped ==
  /\ \A digits \in {g_pcHex, g_pcHex_cap} : HasDigits(digits, 16, Printable)
  /\ HasDigits(g_pcHex, 10, Printable)
<1> DEFINE A == Printable
<1>1. \A i \in 0..(16 - 1) : i = 0 \/ i = 1 \/ i = 2 \/ i = 3 \/ i = 4 \/ i = 5 \/ i = 6 \/ i = 7
        \/ i = 8 \/ i = 9 \/ i = 10 \/ i = 11 \/ i = 12 \/ i = 13 \/ i = 14 \/ i = 15
  BY SMT
<1>2. 0 + 1 = 1 /\ 1 + 1 = 2 /\ 2 + 1 = 3 /\ 3 + 1 = 4 /\ 4 + 1 = 5 /\ 5 + 1 = 6 /\ 6 + 1 = 7
      /\ 7 + 1 = 8 /\ 8 + 1 = 9 /\ 9 + 1 = 10 /\ 10 + 1 = 11 /\ 11 + 1 = 12 /\ 12 + 1 = 13
      /\ 13 + 1 = 14 /\ 14 + 1 = 15 /\ 15 + 1 = 16
  BY SMT
<1>3. /\ "0" \in A /\ "1" \in A /\ "2" \in A /\ "3" \in A /\ "4" \in A /\ "5" \in A
      /\ "6" \in A /\ "7" \in A /\ "8" \in A /\ "9" \in A /\ "a" \in A /\ "b" \in A
      /\ "c" \in A /\ "d" \in A /\ "e" \in A /\ "f" \in A /\ "A" \in A /\ "B" \in A
      /\ "C" \in A /\ "D" \in A /\ "E" \in A /\ "F" \in A
  BY ZenonT(60) DEF Characters, Printable
<1> HIDE DEF A
<1>4. HasDigits(g_pcHex, 16, A)  BY <1>1, <1>2, <1>3, HexDigits, SMT DEF HasDigits
<1>5. HasDigits(g_pcHex_cap, 16, A)  BY <1>1, <1>2, <1>3, HexDigits, SMT DEF HasDigits
<1>6. HasDigits(g_pcHex, 10, A)
  <2>1. \A i \in 0..(10 - 1) : i \in 0..(16 - 1)  BY SMT
  <2> QED BY <1>4, <2>1, Zenon DEF HasDigits
<1> QED BY <1>4, <1>5, <1>6, Zenon DEF A

(* 0x100 and a byte: a 1 and the two digits of the byte. *)
HasTwoDigits(A, digits, byte) ==
  /\ digits[byte \div 16 + 1] \in A /\ digits[(byte % 16) + 1] \in A
  /\ Tail(Numeral(256 + byte, 16, digits))
       = <<digits[byte \div 16 + 1], digits[(byte % 16) + 1]>>

(* The numeral of 0x100 and a byte behind its 1. *)
LEMMA TwoDigits ==
  ASSUME NEW A, NEW digits, HasDigits(digits, 16, A), NEW byte \in 0..255
  PROVE  HasTwoDigits(A, digits, byte)
<1> DEFINE Num(n) == Numeral(n, 16, digits)
           h == byte \div 16
           l == byte % 16
           x == digits[h + 1]
           y == digits[l + 1]
<1>1. h \in 0..(16 - 1) /\ l \in 0..(16 - 1)  BY SMT
<1>2. /\ 256 + byte \in Nat /\ ~(256 + byte < 16) /\ (256 + byte) \div 16 = 16 + h
      /\ (256 + byte) % 16 = l
      /\ 16 + h \in Nat /\ ~(16 + h < 16) /\ (16 + h) \div 16 = 1 /\ (16 + h) % 16 = h
      /\ 1 \in Nat /\ 1 < 16 /\ 1 \in 0..(16 - 1)
  BY SMT
<1> HIDE DEF h, l
<1>3. x \in A /\ y \in A /\ digits[1 + 1] \in A  BY <1>1, <1>2, Zenon DEF HasDigits
<1>4. \A n \in Nat : Num(n) = IF n < 16 THEN <<digits[n + 1]>>
                              ELSE Append(Num(n \div 16), digits[(n % 16) + 1])
  <2>1. 16 \in Bases  BY Zenon DEF Bases
  <2> QED BY <2>1, NumeralUnfold, Zenon
<1>5. Num(1) = <<digits[1 + 1]>>  BY <1>2, <1>4, Zenon
<1>6. Num(16 + h) = Append(Num(1), x)  BY <1>2, <1>4, Zenon
<1>7. Num(256 + byte) = Append(Num(16 + h), y)  BY <1>2, <1>4, ZenonT(60)
<1> DEFINE z == digits[1 + 1]
<1> HIDE DEF Num, x, y, z
<1>8. Num(256 + byte) = Append(Append(<<z>>, x), y)  BY <1>5, <1>6, <1>7 DEF z
<1>9. z \in A /\ x \in A /\ y \in A  BY <1>3 DEF z
<1>10. Tail(Append(Append(<<z>>, x), y)) = <<x, y>>
  <2> DEFINE r == Tail(Append(Append(<<z>>, x), y))
             t == <<x, y>>
  <2>1. r \in Seq(A) /\ Len(r) = 2 /\ r[1] = x /\ r[2] = y
    <3> DEFINE s == Append(Append(<<z>>, x), y)
    <3>1. s \in Seq(A) /\ Len(s) = 3 /\ s[2] = x /\ s[3] = y  BY <1>9, SMT
    <3> HIDE DEF s
    <3>2. Tail(s) \in Seq(A) /\ Len(Tail(s)) = 2 /\ Tail(s)[1] = s[2] /\ Tail(s)[2] = s[3]
      BY <3>1, SMT
    <3> QED BY <3>1, <3>2 DEF s
  <2>2. t \in Seq(A) /\ Len(t) = 2 /\ t[1] = x /\ t[2] = y  BY <1>9, SMT
  <2>3. \A i \in 1..2 : i = 1 \/ i = 2  BY SMT
  <2> HIDE DEF r, t
  <2>4. \A i \in 1..Len(r) : r[i] = t[i]  BY <2>1, <2>2, <2>3, ZenonT(60)
  <2>5. r = t  BY <2>1, <2>2, <2>4, SeqEqual, Zenon
  <2> QED BY <2>5 DEF r, t
<1> QED BY <1>8, <1>9, <1>10 DEF Num, x, y, h, l, HasTwoDigits

(* The bytes are bytes. *)
LEMMA AsciiBytes ==
  \A c \in DOMAIN Ascii : Ascii[c] \in 0..255
<1>1. DOMAIN Ascii = {"NUL", "k", "z", "tilde", "xe3"}  BY SMT DEF Ascii
<1> DEFINE B == 0..255
<1>2. Ascii["NUL"] \in B /\ Ascii["k"] \in B /\ Ascii["z"] \in B /\ Ascii["tilde"] \in B
      /\ Ascii["xe3"] \in B
  BY SMT DEF Ascii
<1> HIDE DEF B
<1>3. \A c \in DOMAIN Ascii : Ascii[c] \in B  BY <1>1, <1>2, Zenon
<1> QED BY <1>3 DEF B

(* The nibbles of the bytes of a text are its dump. *)
LEMMA DumpMeans ==
  ASSUME NEW text \in Texts, NEW n \in Nat, n <= Len(text),
         NEW digits \in {g_pcHex, g_pcHex_cap}
  PROVE  LET t == SubSeq(text, 1, n)
         IN  /\ DumpMeaning(t, digits) \in Seq(Characters)
             /\ FlattenSeq([i \in 1..n |->
                  <<digits[Ascii[text[i]] \div 16 + 1], digits[(Ascii[text[i]] % 16) + 1]>>])
                = DumpMeaning(t, digits)
<1> DEFINE A == Characters
           t == SubSeq(text, 1, n)
           two(i) == <<digits[Ascii[text[i]] \div 16 + 1], digits[(Ascii[text[i]] % 16) + 1]>>
           q == [i \in 1..n |-> two(i)]
<1>1. HasDigits(digits, 16, A)
  <2>1. HasDigits(digits, 16, Printable)  BY DigitsTyped, Zenon
  <2> QED BY <2>1, Zenon DEF HasDigits, Printable
<1>2. text \in Seq(DOMAIN Ascii) /\ Len(text) \in Nat
  BY TextAssumption, LenProperties, Zenon
<1>3. Len(t) = n /\ \A i \in 1..n : t[i] = text[i]
  <2>1. 1 \in Nat \ {0} /\ n - 1 + 1 = n /\ (~(1 <= n) => n = 0)  BY SMT
  <2>2. /\ Len(SubSeq(text, 1, n)) = IF 1 <= n THEN n - 1 + 1 ELSE 0
        /\ \A i \in 1..(n - 1 + 1) : SubSeq(text, 1, n)[i] = text[1 + i - 1]
    BY <1>2, <2>1, PartOf, SMT
  <2>3. \A i \in 1..n : 1 + i - 1 = i  BY SMT
  <2> QED BY <2>1, <2>2, <2>3, Zenon
<1> HIDE DEF A, t
<1>4. \A i \in 1..n : i \in 1..Len(text)  BY <1>2, SMT
<1>5. \A i \in 1..n : Ascii[text[i]] \in 0..255
  BY <1>2, <1>4, ElementOfSeq, AsciiBytes, Zenon
<1>6. \A i \in 1..n : /\ digits[Ascii[text[i]] \div 16 + 1] \in A
                      /\ digits[(Ascii[text[i]] % 16) + 1] \in A
                      /\ Tail(Numeral(256 + Ascii[text[i]], 16, digits)) = two(i)
  <2>1. \A i \in 1..n : HasTwoDigits(A, digits, Ascii[text[i]])
    BY <1>1, <1>5, TwoDigits, Zenon
  <2> QED BY <2>1, Zenon DEF HasTwoDigits
<1>7. \A i \in 1..n : two(i) \in Seq(A)
  <2>1. \A a, b \in A : <<a, b>> \in Seq(A)  BY SMT
  <2> QED BY <1>6, <2>1, Zenon
<1>8. DumpMeaning(t, digits) = FlattenSeq(q)
  <2>1. \A i \in 1..n : Tail(Numeral(256 + Ascii[t[i]], 16, digits)) = two(i)
    BY <1>3, <1>6, Zenon
  <2> HIDE DEF two
  <2>2. [i \in 1..Len(t) |-> Tail(Numeral(256 + Ascii[t[i]], 16, digits))] = q
    BY <1>3, <2>1, Zenon
  <2> QED BY <2>2, Zenon DEF DumpMeaning
<1>9. q \in Seq(Seq(A))
  <2> DEFINE B == Seq(A)
  <2> HIDE DEF B, two
  <2>1. \A i \in 1..n : two(i) \in B  BY <1>7 DEF B
  <2>2. q \in Seq(B)  BY <2>1, SMT
  <2> QED BY <2>2 DEF B
<1>10. FlattenSeq(q) \in Seq(A)
  <2>1. <<>> \in Seq(A)  BY EmptySeq, Zenon
  <2> HIDE DEF q
  <2> QED BY <1>9, <2>1, FlattenAppend, Zenon
<1> QED BY <1>8, <1>10, Zenon DEF A, t

(* One character: a NUL ends the string it is sent in. *)
LEMMA CharPrinted ==
  ASSUME NEW c \in DOMAIN Ascii
  PROVE  LET text == IF c = "NUL" THEN <<>> ELSE <<c>>
         IN  text \in Seq(Characters) /\ prints(<<c>>) = text
<1> DEFINE A == Characters
<1>1. c \in A  BY Literals, Zenon
<1> HIDE DEF A
<1>2. <<c>> \in Seq(A) /\ Len(<<c>>) = 1 /\ <<c>>[1] = c  BY <1>1, SMT
<1>3. CASE c # "NUL"
  <2>1. Len(<<c>>) < USHORT  BY <1>2, SMT DEF USHORT
  <2>2. \A i \in 1..Len(<<c>>) : <<c>>[i] # "NUL"
    <3>1. \A i \in 1..1 : i = 1  BY SMT
    <3> QED BY <1>2, <1>3, <3>1, Zenon
  <2>3. prints(<<c>>) = <<c>>  BY <1>2, <2>1, <2>2, PrintsAll, Zenon
  <2> QED BY <1>2, <1>3, <2>3, Zenon DEF A
<1>4. CASE c = "NUL"
  <2> DEFINE s == <<c>>
             chunk == SubSeq(s, (1 - 1) * (BufSize - 1) + 1, 1)
  <2>1. /\ Len(s) % USHORT = 1 /\ (1 + (BufSize - 1) - 1) \div (BufSize - 1) = 1
        /\ ~(1 * (BufSize - 1) < 1) /\ (1 - 1) * (BufSize - 1) + 1 = 1
    BY <1>2, SMT DEF USHORT, BufSize
  <2>2. SubSeq(s, 1, 1) = s
    <3>1. s \in Seq(A) /\ Len(s) = 1  BY <1>2
    <3> HIDE DEF s
    <3>2. SubSeq(s, 1, Len(s)) = s  BY <3>1, SubSeqFull, Zenon
    <3> QED BY <3>1, <3>2
  <2>3. UpTo("NUL", s) = <<>>
    <3>1. 1 \in 1..Len(s) /\ s[1] = "NUL" /\ Len(s) \in Nat /\ 1..(1 - 1) = {}
          /\ 1 - 1 = 0 /\ 0 < 1 /\ 0 \in Int /\ 1 \in Int
      BY <1>2, <1>4, SMT
    <3> HIDE DEF s
    <3>2. UpTo("NUL", s) = SubSeq(s, 1, 1 - 1)  BY <3>1, UpToAt, SMT
    <3>3. SubSeq(s, 1, 0) = <<>>  BY <3>1, SubSeqEmpty, Zenon
    <3> QED BY <3>1, <3>2, <3>3, Zenon
  <2>4. UpTo("NUL", chunk) = <<>>  BY <2>1, <2>2, <2>3, Zenon
  <2> DEFINE up(i) == UpTo("NUL", SubSeq(s, (i - 1) * (BufSize - 1) + 1,
                        IF i * (BufSize - 1) < 1 THEN i * (BufSize - 1) ELSE 1))
  <2>5. prints(s) = FlattenSeq([i \in 1..1 |-> up(i)])
    BY <2>1, Zenon DEF prints
  <2>6. \A i \in 1..1 : up(i) = <<>>
    <3>1. \A i \in 1..1 : i = 1  BY SMT
    <3>2. up(1) = <<>>  BY <2>1, <2>4, Zenon
    <3> QED BY <3>1, <3>2, Zenon
  <2> HIDE DEF up, s
  <2>7. [i \in 1..1 |-> up(i)] = [i \in 1..1 |-> <<>>]  BY <2>6, Zenon
  <2>8. [i \in 1..1 |-> <<>>] = << <<>> >>  BY SMT
  <2>9. FlattenSeq(<< <<>> >>) = <<>> /\ <<>> \in Seq(A)
    <3>1. <<>> \in Seq(A)  BY EmptySeq, Zenon
    <3> QED BY <3>1, FlattenOne, Zenon
  <2> QED BY <1>4, <2>5, <2>7, <2>8, <2>9, Zenon DEF A, s
<1> QED BY <1>3, <1>4

-----------------------------------------------------------------------------
(* Numbers *)

(* The magnitude of a number is an unsigned long, and that of a negative    *)
(* one what its two's complement is.                                        *)
LEMMA Magnitudes ==
  ASSUME NEW item, NEW n \in 0..(ULONG - 1)
  PROVE  /\ Magnitude(item, n) \in 0..(ULONG - 1)
         /\ Negative(item, n) => (-n) % ULONG = Magnitude(item, n)
<1>1. ULONG \in Nat /\ ULONG # 0 /\ ULONG >= 65536  BY PrintfAssumption, SMT DEF USHORT
<1>2. CASE Negative(item, n)
  <2> DEFINE half == ULONG \div 2
  <2>1. half >= 1  BY <1>1, SMT
  <2>2. n >= half  BY <1>2, Zenon DEF Negative
  <2>3. half \in Nat  BY <1>1, SMT
  <2> HIDE DEF half
  <2>4. n \in 1..(ULONG - 1)  BY <2>1, <2>2, <2>3, SMT
  <2>5. (-n) % ULONG = ULONG - n /\ ULONG - n \in 0..(ULONG - 1)  BY <1>1, <2>4, SMT
  <2> QED BY <1>2, <2>5, Zenon DEF Magnitude
<1>3. CASE ~Negative(item, n)  BY <1>3, Zenon DEF Magnitude
<1> QED BY <1>2, <1>3

(* The base and the digits of a number. *)
LEMMA BaseAndDigits ==
  ASSUME NEW item
  PROVE  /\ BaseOf(item) \in Bases
         /\ HasDigits(DigitsOf(item), BaseOf(item), Printable)
         /\ HasDigits(DigitsOf(item), BaseOf(item), Characters)
<1>1. BaseOf(item) \in Bases  BY Zenon DEF BaseOf, Bases
<1>2. HasDigits(DigitsOf(item), BaseOf(item), Printable)
  <2>1. CASE item.conv = "X"
    BY <2>1, DigitsTyped, Zenon DEF BaseOf, DigitsOf
  <2>2. CASE item.conv # "X"
    BY <2>2, DigitsTyped, Zenon DEF BaseOf, DigitsOf
  <2> QED BY <2>1, <2>2
<1>3. Printable \subseteq Characters  BY Zenon DEF Printable
<1> QED BY <1>1, <1>2, <1>3, Zenon DEF HasDigits

(* The numeral of a number has ten digits at most. *)
LEMMA NumeralOfNumberTyped ==
  ASSUME NEW item, NEW v \in Nat
  PROVE  /\ NumeralOfNumber(item, v) \in Seq(Printable)
         /\ Len(NumeralOfNumber(item, v)) \in Nat /\ Len(NumeralOfNumber(item, v)) >= 1
         /\ v < ULONG => Len(NumeralOfNumber(item, v)) \in 1..10
<1>1. v < ULONG => v \in 0..(ULONG - 1)  BY PrintfAssumption, SMT
<1>2. v < ULONG => Len(NumeralOfNumber(item, v)) \in 1..10
  BY <1>1, BaseAndDigits, NumeralIsShort, Zenon DEF NumeralOfNumber
<1>3. NumeralOfNumber(item, v) \in Seq(Printable) /\ Len(NumeralOfNumber(item, v)) >= 1
  BY BaseAndDigits, NumeralTyped, Zenon DEF NumeralOfNumber
<1> QED BY <1>2, <1>3, LenProperties, Zenon

(* The sign of a number. *)
LEMMA SignTyped ==
  ASSUME NEW item, NEW n
  PROVE  /\ SignOf(item, n) \in Seq(Printable)
         /\ Len(SignOf(item, n)) = IF Negative(item, n) THEN 1 ELSE 0
<1> DEFINE A == Printable
<1>1. "-" \in A  BY Zenon DEF Characters, Printable
<1> HIDE DEF A
<1>2. <<"-">> \in Seq(A) /\ Len(<<"-">>) = 1 /\ <<>> \in Seq(A) /\ Len(<<>>) = 0
  BY <1>1, SMT
<1>3. CASE Negative(item, n)
  <2>1. SignOf(item, n) = <<"-">>  BY <1>3 DEF SignOf
  <2> QED BY <1>2, <1>3, <2>1 DEF A
<1>4. CASE ~Negative(item, n)
  <2>1. SignOf(item, n) = <<>>  BY <1>4 DEF SignOf
  <2> QED BY <1>2, <1>4, <2>1 DEF A
<1> QED BY <1>3, <1>4

(* A number is printed as its prefix and its numeral, which fit into pcBuf. *)
LEMMA NumberMeans ==
  ASSUME NEW item, item.conv \in NumberConversions, item.width \in Nat,
         item.width < PcBufSize, NEW n \in 0..(ULONG - 1)
  PROVE  LET numeral == NumeralOfNumber(item, Magnitude(item, n))
             text    == PrefixOf(item, n) \o numeral
         IN  /\ NumberMeaning(item, n) = text
             /\ text \in Seq(Characters) /\ prints(text) = text
             /\ PrefixOf(item, n) \in Seq(Printable)
             /\ Len(PrefixOf(item, n)) \in Nat
             /\ Len(PrefixOf(item, n)) + Len(numeral) <= PcBufSize
<1> DEFINE numeral == NumeralOfNumber(item, Magnitude(item, n))
           sign == SignOf(item, n)
           missing == MissingOf(item, n)
           prefix == PrefixOf(item, n)
           A == Printable
           w == item.width
           l == Len(numeral)
           m == Len(sign)
<1>1. Magnitude(item, n) \in Nat /\ Magnitude(item, n) < ULONG
  <2> DEFINE v == Magnitude(item, n)
  <2>1. v \in 0..(ULONG - 1)  BY Magnitudes, Zenon
  <2> HIDE DEF v
  <2>2. v \in Nat /\ v < ULONG  BY <2>1, PrintfAssumption, SMT
  <2> QED BY <2>2 DEF v
<1>2. numeral \in Seq(A) /\ l \in 1..10
  BY <1>1, NumeralOfNumberTyped, Zenon
<1>3. sign \in Seq(A) /\ m \in 0..1
  <2>1. sign \in Seq(A) /\ m = IF Negative(item, n) THEN 1 ELSE 0  BY SignTyped, Zenon
  <2>2. 1 \in 0..1 /\ 0 \in 0..1  BY SMT
  <2> QED BY <2>1, <2>2, Zenon
<1>4. missing = w - m - l  BY Zenon DEF MissingOf
<1>5. w \in Nat /\ w < 16  BY DEF PcBufSize
<1>6. Len(sign \o numeral) = m + l  BY <1>2, <1>3, ConcatProperties, Zenon
<1>7. NumberMeaning(item, n) =
        IF item.flag = "0" THEN sign \o Zeros(w - (m + l)) \o numeral
                           ELSE Spaces(w - (m + l)) \o sign \o numeral
  <2>1. sign = (IF item.conv = "d" /\ n >= ULONG \div 2 THEN <<"-">> ELSE <<>>)
    BY Zenon DEF SignOf, Negative
  <2>2. Magnitude(item, n) = (IF item.conv = "d" /\ n >= ULONG \div 2 THEN ULONG - n ELSE n)
    BY Zenon DEF Magnitude, Negative
  <2>3. numeral = IF item.conv = "X" THEN Numeral(Magnitude(item, n), 16, g_pcHex_cap)
                  ELSE Numeral(Magnitude(item, n), IF item.conv \in {"x", "p"} THEN 16 ELSE 10,
                               g_pcHex)
    BY Zenon DEF NumeralOfNumber, BaseOf, DigitsOf
  <2> HIDE DEF numeral, sign
  <2> QED BY <1>6, <2>1, <2>2, <2>3, Zenon DEF NumberMeaning
<1> HIDE DEF numeral, sign, missing, w, l, m, A
<1>8. w - (m + l) = missing /\ missing \in Int  BY <1>2, <1>3, <1>4, <1>5, SMT
<1>9. prefix = IF item.flag = "0" THEN sign \o Zeros(missing) ELSE Spaces(missing) \o sign
  BY Zenon DEF PrefixOf, sign, missing
<1>10. NumberMeaning(item, n) = prefix \o numeral
  BY <1>7, <1>8, <1>9, Zenon
<1>11. /\ Spaces(missing) \in Seq(A) /\ Zeros(missing) \in Seq(A)
       /\ Len(Spaces(missing)) = (IF missing >= 0 THEN missing ELSE 0)
       /\ Len(Zeros(missing)) = (IF missing >= 0 THEN missing ELSE 0)
  BY <1>8, SpacesTyped, Zenon DEF A
<1> HIDE DEF prefix
<1>12. prefix \in Seq(A) /\ Len(prefix) = m + (IF missing >= 0 THEN missing ELSE 0)
  <2> DEFINE z == Zeros(missing)
             s == Spaces(missing)
             k == IF missing >= 0 THEN missing ELSE 0
  <2>1. s \in Seq(A) /\ z \in Seq(A) /\ Len(s) = k /\ Len(z) = k  BY <1>11
  <2>2. k \in Nat  BY <1>8, SMT
  <2> HIDE DEF z, s, k
  <2>3. sign \o z \in Seq(A) /\ Len(sign \o z) = m + k /\ s \o sign \in Seq(A)
        /\ Len(s \o sign) = k + m
    BY <1>3, <2>1, ConcatProperties, ZenonT(60) DEF m
  <2>4. k + m = m + k  BY <1>3, <2>2, SMT
  <2>5. prefix = sign \o z \/ prefix = s \o sign  BY <1>9, Zenon DEF z, s
  <2>6. prefix \in Seq(A) /\ Len(prefix) = m + k  BY <2>3, <2>4, <2>5, Zenon
  <2> QED BY <2>6 DEF k
<1>13. Len(prefix) \in Nat /\ Len(prefix) + l <= PcBufSize
  BY <1>2, <1>3, <1>4, <1>5, <1>12, SMT DEF PcBufSize
<1> DEFINE text == prefix \o numeral
<1>14. text \in Seq(A) /\ Len(text) = Len(prefix) + l
  BY <1>2, <1>12, ConcatProperties, Zenon DEF l
<1> HIDE DEF text
<1>15. text \in Seq(Characters)
  <2>1. A \subseteq Characters  BY Zenon DEF Printable, A
  <2> QED BY <1>14, <2>1, SeqMonotonic, Zenon
<1>16. Len(text) < USHORT
  <2> DEFINE x == Len(text)
             y == Len(prefix)
  <2>1. x = y + l /\ y \in Nat /\ y + l <= 16  BY <1>13, <1>14 DEF PcBufSize
  <2>2. l \in Nat  BY <1>2, SMT
  <2> HIDE DEF x, y
  <2>3. x < USHORT  BY <2>1, <2>2, SMT DEF USHORT
  <2> QED BY <2>3 DEF x
<1>17. \A i \in 1..Len(text) : text[i] # "NUL"
  <2>1. \A i \in 1..Len(text) : text[i] \in A  BY <1>14, ElementOfSeq, Zenon
  <2> QED BY <2>1, Zenon DEF A, Printable
<1>18. prints(text) = text  BY <1>14, <1>16, <1>17, PrintsAll, Zenon
<1> QED BY <1>10, <1>12, <1>13, <1>15, <1>18 DEF text, prefix, numeral, A, l

(* The powers of ten below 2^32. *)
LEMMA DecimalPowers ==
  ASSUME NEW x \in Powers
  PROVE  /\ x \in Nat /\ x # 0 /\ 1 \in Powers
         /\ x = 1 \/ (x \div 10 \in Powers /\ x = (x \div 10) * 10)
         /\ x * 10 <= 65536 * 65536 => x * 10 \in Powers
<1>1. /\ 1 \in Powers /\ 10 \in Powers /\ 100 \in Powers /\ 1000 \in Powers
      /\ 10000 \in Powers /\ 100000 \in Powers /\ 1000000 \in Powers
      /\ 10000000 \in Powers /\ 100000000 \in Powers /\ 1000000000 \in Powers
  BY SMT DEF Powers
<1>2. \/ x = 1 \/ x = 10 \/ x = 100 \/ x = 1000 \/ x = 10000 \/ x = 100000
      \/ x = 1000000 \/ x = 10000000 \/ x = 100000000 \/ x = 1000000000
  BY SMT DEF Powers
<1>3. x \in Nat /\ x # 0  BY <1>2, SMT
<1>4. \/ x = 1
      \/ \E y \in Powers : y \in Nat /\ x = 10 * y
  BY <1>1, <1>2, SMT
<1>5. x = 1 \/ (x \div 10 \in Powers /\ x = (x \div 10) * 10)
  <2>1. ASSUME NEW y \in Powers, y \in Nat, x = 10 * y
        PROVE  x \div 10 = y /\ x = y * 10
    BY <2>1, SMT
  <2> QED BY <1>4, <2>1, SMT
<1>6. x * 10 <= 65536 * 65536 => x * 10 \in Powers  BY <1>1, <1>2, SMT
<1> QED BY <1>1, <1>3, <1>5, <1>6, SMT

(* The powers of sixteen below 2^32. *)
LEMMA PowersOfSixteen ==
  ASSUME NEW x \in HexPowers
  PROVE  /\ x \in Nat /\ x # 0 /\ 1 \in HexPowers
         /\ x = 1 \/ (x \div 16 \in HexPowers /\ x = (x \div 16) * 16)
         /\ x * 16 < 65536 * 65536 => x * 16 \in HexPowers
<1>1. /\ 1 \in HexPowers /\ 16 \in HexPowers /\ 256 \in HexPowers /\ 4096 \in HexPowers
      /\ 65536 \in HexPowers /\ 1048576 \in HexPowers /\ 16777216 \in HexPowers
      /\ 268435456 \in HexPowers
  BY SMT DEF HexPowers
<1>2. \/ x = 1 \/ x = 16 \/ x = 256 \/ x = 4096 \/ x = 65536 \/ x = 1048576
      \/ x = 16777216 \/ x = 268435456
  BY SMT DEF HexPowers
<1>3. x \in Nat /\ x # 0  BY <1>2, SMT
<1>4. \/ x = 1
      \/ \E y \in HexPowers : y \in Nat /\ x = 16 * y
  BY <1>1, <1>2, SMT
<1>5. x = 1 \/ (x \div 16 \in HexPowers /\ x = (x \div 16) * 16)
  <2>1. ASSUME NEW y \in HexPowers, y \in Nat, x = 16 * y
        PROVE  x \div 16 = y /\ x = y * 16
    BY <2>1, SMT
  <2> QED BY <1>4, <2>1, SMT
<1>6. x * 16 < 65536 * 65536 => x * 16 \in HexPowers  BY <1>1, <1>2, SMT
<1> QED BY <1>1, <1>3, <1>5, <1>6, SMT

(* The powers of a base: one is 1, or the one below times the base; and    *)
(* the one above is one of them unless it is no unsigned long.             *)
LEMMA PowerProperties ==
  ASSUME NEW base \in Bases, NEW x \in PowersOf(base)
  PROVE  /\ x \in Nat /\ x # 0
         /\ x = 1 \/ (x \div base \in PowersOf(base) /\ x = (x \div base) * base)
         /\ x * base < ULONG => x * base \in PowersOf(base)
         /\ 1 \in PowersOf(base)
<1>0. ULONG \in Nat /\ ULONG <= 65536 * 65536  BY LongIsShort, SMT DEF USHORT
<1>1. CASE base = 10
  <2>1. x \in Powers /\ PowersOf(base) = Powers  BY <1>1, Zenon DEF PowersOf
  <2>2. /\ x \in Nat /\ x # 0 /\ 1 \in Powers
        /\ x = 1 \/ (x \div 10 \in Powers /\ x = (x \div 10) * 10)
        /\ x * 10 <= 65536 * 65536 => x * 10 \in Powers
    BY <2>1, DecimalPowers, SMT
  <2>3. x * 10 < ULONG => x * 10 <= 65536 * 65536  BY <1>0, <2>2, SMT
  <2> QED BY <1>1, <2>1, <2>2, <2>3, SMT
<1>2. CASE base = 16
  <2>1. x \in HexPowers /\ PowersOf(base) = HexPowers
    <3>1. base # 10  BY <1>2, SMT
    <3> QED BY <3>1, Zenon DEF PowersOf
  <2>2. /\ x \in Nat /\ x # 0 /\ 1 \in HexPowers
        /\ x = 1 \/ (x \div 16 \in HexPowers /\ x = (x \div 16) * 16)
        /\ x * 16 < 65536 * 65536 => x * 16 \in HexPowers
    BY <2>1, PowersOfSixteen, SMT
  <2>3. x * 16 < ULONG => x * 16 < 65536 * 65536  BY <1>0, <2>2, SMT
  <2> QED BY <1>2, <2>1, <2>2, <2>3, SMT
<1> QED BY <1>1, <1>2 DEF Bases

(* The search for the power of the first digit. *)
LEMMA ScaleFinds ==
  ASSUME NEW item, NEW v \in 0..(ULONG - 1), NEW x \in PowersOf(BaseOf(item)),
         x <= v \/ x <= 1
  PROVE  LET base   == BaseOf(item)
             scaled == (x * base) % ULONG
             Num(n) == NumeralOfNumber(item, n)
         IN  /\ scaled <= v /\ scaled \div base = x =>
                  /\ scaled \in PowersOf(base) /\ scaled # 0
                  /\ Len(Num(v \div x)) = 1 + Len(Num(v \div scaled))
             /\ ~(scaled <= v /\ scaled \div base = x) => v \div x < base
<1> DEFINE base == BaseOf(item)
           scaled == (x * base) % ULONG
           Num(n) == NumeralOfNumber(item, n)
           q == v \div x
<1>1. base \in Bases /\ HasDigits(DigitsOf(item), base, Printable)  BY BaseAndDigits, Zenon
<1>2. /\ x \in Nat /\ x # 0 /\ (x * base < ULONG => x * base \in PowersOf(base))
  BY <1>1, PowerProperties, Zenon
<1>3. ULONG \in Nat /\ v \in Nat /\ v < ULONG /\ ULONG >= 65536 /\ base \in Nat /\ base >= 10
  BY <1>1, PrintfAssumption, SMT DEF USHORT, Bases
<1>4. \A n \in Nat : Len(Num(n)) = IF n < base THEN 1 ELSE Len(Num(n \div base)) + 1
  BY <1>1, NumeralLength, Zenon DEF NumeralOfNumber
<1>4a. \A n \in Nat : Len(Num(n)) \in Nat  BY NumeralOfNumberTyped, Zenon
<1> HIDE DEF base, Num
<1>5. x \in 1..(ULONG - 1)  BY <1>2, <1>3, SMT
<1>6. /\ (scaled <= v /\ scaled \div base = x) <=> x * base <= v
      /\ x * base <= v => scaled = x * base
  BY <1>1, <1>5, ScaledIsProduct, Zenon
<1>7. q \in Nat /\ v = x * q + (v % x) /\ (v % x) \in 0..(x - 1)
  <2>1. x \in Nat /\ x # 0 /\ v \in Nat  BY <1>2, <1>3
  <2> QED BY <2>1, DivisionOf
<1>8. x * base \in Nat  BY <1>1, <1>2, SMT DEF Bases
<1>9. ASSUME x * base <= v
      PROVE  /\ scaled \in PowersOf(base) /\ scaled # 0
             /\ Len(Num(q)) = 1 + Len(Num(v \div scaled))
  <2>1. x * base < ULONG  BY <1>3, <1>8, <1>9, SMT
  <2>2. scaled = x * base /\ scaled \in PowersOf(base)  BY <1>2, <1>6, <1>9, <2>1, Zenon
  <2>3. scaled # 0  BY <1>1, <2>2, PowerProperties, Zenon
  <2>4. q \div base = v \div scaled
    <3>1. (v \div x) \div base = v \div (x * base)
      BY <1>1, <1>2, <1>3, QuotientOfQuotient
    <3> QED BY <2>2, <3>1
  <2> HIDE DEF q, scaled
  <2>5. ~(q < base)
    <3> SUFFICES ASSUME q < base PROVE FALSE  OBVIOUS
    <3> DEFINE r == v % x
    <3>1. v = x * q + r /\ r \in 0..(x - 1) /\ q \in Nat  BY <1>7
    <3> HIDE DEF r
    <3>2. x * q <= x * (base - 1)  BY <1>2, <1>3, <3>1, SMT
    <3>3. x * (base - 1) = x * base - x  BY <1>2, <1>3, SMT
    <3>4. x * q \in Nat  BY <1>2, <3>1, SMT
    <3> DEFINE a == x * q
               b == x * base
    <3>5. a <= b - x /\ v = a + r /\ a \in Nat /\ b \in Nat /\ b <= v
      BY <1>8, <1>9, <3>1, <3>2, <3>3, <3>4
    <3> HIDE DEF a, b
    <3> QED BY <1>2, <3>1, <3>5, SMT
  <2>6. Len(Num(q)) = Len(Num(q \div base)) + 1  BY <1>4, <1>7, <2>5, Zenon
  <2>7. q \div base \in Nat  BY <1>1, <1>7, Quotient, Zenon
  <2>8. Len(Num(q \div base)) + 1 = 1 + Len(Num(q \div base))
    <3> DEFINE l == Len(Num(q \div base))
    <3>1. l \in Nat  BY <1>4a, <2>7
    <3> HIDE DEF l
    <3>2. l + 1 = 1 + l  BY <3>1, SMT
    <3> QED BY <3>2 DEF l
  <2> QED BY <2>2, <2>3, <2>4, <2>6, <2>8, Zenon
<1>10. ASSUME ~(x * base <= v) PROVE q < base
  <2> DEFINE r == v % x
  <2>1. v = x * q + r /\ r \in 0..(x - 1) /\ q \in Nat  BY <1>7
  <2> HIDE DEF r, q
  <2> SUFFICES ASSUME ~(q < base) PROVE FALSE  OBVIOUS
  <2>2. q >= base  BY <1>3, <2>1, SMT
  <2>3. x * q >= x * base  BY <1>2, <1>3, <2>1, <2>2, SMT
  <2>4. x * q \in Nat  BY <1>2, <2>1, SMT
  <2> DEFINE a == x * q
             b == x * base
  <2>5. a >= b /\ v = a + r /\ a \in Nat /\ b \in Nat /\ ~(b <= v)
    BY <1>8, <1>10, <2>1, <2>3, <2>4
  <2> HIDE DEF a, b
  <2>6. r \in Nat  BY <1>2, <2>1, SMT
  <2> QED BY <1>3, <2>5, <2>6, SMT
<1> QED BY <1>6, <1>9, <1>10, Zenon DEF base, Num, q

(* One digit more is out. *)
LEMMA EmitAdds ==
  ASSUME NEW item, NEW v \in 0..(ULONG - 1), NEW x \in PowersOf(BaseOf(item)),
         x <= v \/ x <= 1
  PROVE  LET base  == BaseOf(item)
             next  == x \div base
             digit == DigitsOf(item)[((v \div x) % base) + 1]
         IN  /\ next \in PowersOf(base) \cup {0} /\ (next <= v \/ next <= 1)
             /\ EmittedOf(item, v, x) \in Seq(Printable) /\ digit \in Printable
             /\ Append(EmittedOf(item, v, x), digit) = EmittedOf(item, v, next)
<1> DEFINE base == BaseOf(item)
           next == x \div base
           Num(n) == NumeralOfNumber(item, n)
           q == v \div x
           digit == DigitsOf(item)[(q % base) + 1]
           A == Printable
<1>1. base \in Bases /\ HasDigits(DigitsOf(item), base, A)  BY BaseAndDigits, Zenon
<1>2. /\ x \in Nat /\ x # 0
      /\ x = 1 \/ (next \in PowersOf(base) /\ x = next * base)
  BY <1>1, PowerProperties, Zenon
<1>3. ULONG \in Nat /\ v \in Nat /\ base \in Nat /\ base >= 10
  BY <1>1, PrintfAssumption, SMT DEF Bases
<1>4. q \in Nat /\ v = x * q + (v % x) /\ (v % x) \in 0..(x - 1)
  BY <1>2, <1>3, DivisionOf, Zenon
<1> HIDE DEF q
<1>5. /\ Num(q) = IF q < base THEN <<DigitsOf(item)[q + 1]>>
                  ELSE Append(Num(q \div base), digit)
      /\ digit \in A
  BY <1>1, <1>4, NumeralUnfold, Zenon DEF NumeralOfNumber
<1>6. q < base => q % base = q  BY <1>1, <1>4, Quotient, Zenon
<1>7. q \div base \in Nat  BY <1>1, <1>4, Quotient, Zenon
<1>8. Num(q \div base) \in Seq(A)  BY <1>7, NumeralOfNumberTyped, Zenon
<1> HIDE DEF base
<1>9. EmittedOf(item, v, x) = IF q < base THEN <<>> ELSE Num(q \div base)
  BY <1>2, Zenon DEF EmittedOf, q, base
<1>10. EmittedOf(item, v, x) \in Seq(A)
  <2>1. <<>> \in Seq(A)  BY EmptySeq, Zenon
  <2> QED BY <1>8, <1>9, <2>1, Zenon
<1>11. Append(EmittedOf(item, v, x), digit) = Num(q)
  <2>1. CASE q < base
    <3>1. EmittedOf(item, v, x) = <<>> /\ Num(q) = <<digit>>  BY <1>5, <1>6, <1>9, <2>1, Zenon
    <3> HIDE DEF Num, digit
    <3>2. Append(<<>>, digit) = <<digit>>  BY SMT
    <3> QED BY <3>1, <3>2
  <2>2. CASE ~(q < base)
    <3>1. EmittedOf(item, v, x) = Num(q \div base) /\ Num(q) = Append(Num(q \div base), digit)
      BY <1>5, <1>9, <2>2, Zenon
    <3> HIDE DEF Num, digit
    <3> QED BY <3>1
  <2> QED BY <2>1, <2>2
<1>12. CASE x = 1
  <2>1. next = 0 /\ 0 <= 1  BY <1>1, <1>12, SMT DEF Bases
  <2>2. q = v
    <3>1. v \div 1 = v  BY <1>3, SMT
    <3> QED BY <1>12, <3>1 DEF q
  <2>3. EmittedOf(item, v, next) = Num(v)  BY <2>1, Zenon DEF EmittedOf
  <2> HIDE DEF next, digit, Num
  <2>4. next \in PowersOf(base) \cup {0} /\ (next <= v \/ next <= 1)  BY <2>1, Zenon
  <2> QED BY <1>5, <1>10, <1>11, <2>2, <2>3, <2>4, Zenon DEF base, next, digit, q
<1>13. CASE x # 1
  <2>1. next \in PowersOf(base) /\ x = next * base /\ x <= v
    <3>1. ~(x <= 1)  BY <1>2, <1>13, SMT
    <3> QED BY <1>2, <1>13, <3>1, Zenon
  <2>2. next \in Nat /\ next # 0  BY <1>1, <2>1, PowerProperties, Zenon
  <2> HIDE DEF next
  <2>3. (v \div next) \div base = q
    <3>1. (v \div next) \div base = v \div (next * base)
      BY <1>1, <1>3, <2>2, QuotientOfQuotient
    <3> QED BY <2>1, <3>1 DEF q
  <2>4. q >= 1
    <3> DEFINE r == v % x
    <3>1. v = x * q + r /\ r \in 0..(x - 1) /\ q \in Nat  BY <1>4
    <3> HIDE DEF r
    <3>2. q = 0 => x * q = 0  BY <1>2, SMT
    <3>3. q = 0 => v < x  BY <1>2, <3>1, <3>2, SMT
    <3> QED BY <1>2, <1>3, <2>1, <3>1, <3>3, SMT
  <2> DEFINE p == v \div next
  <2>5. p \in Nat  BY <1>3, <2>2, DivisionOf, Zenon
  <2> HIDE DEF p
  <2>6. ~(p < base)
    <3>1. p < base => p \div base = 0  BY <1>1, <2>5, Quotient, Zenon
    <3>2. p \div base = q  BY <2>3 DEF p
    <3> QED BY <1>4, <2>4, <3>1, <3>2, SMT
  <2>7. EmittedOf(item, v, next) = Num(q)
    <3>1. EmittedOf(item, v, next) = IF p < base THEN <<>> ELSE Num(p \div base)
      BY <2>2, Zenon DEF EmittedOf, p, base
    <3>2. p \div base = q  BY <2>3 DEF p
    <3> QED BY <2>6, <3>1, <3>2, Zenon
  <2>8. next <= v
    <3>1. next <= x  BY <1>3, <2>1, <2>2, SMT
    <3> QED BY <1>2, <1>3, <2>1, <2>2, <3>1, SMT
  <2>9. next \in PowersOf(base) \cup {0}  BY <2>1, Zenon
  <2> HIDE DEF digit, Num
  <2> QED BY <1>5, <1>10, <1>11, <2>7, <2>8, <2>9, Zenon DEF base, next, digit, q
<1> QED BY <1>12, <1>13

-----------------------------------------------------------------------------
(* Steps *)

(* A plan is a sequence of items, and the conditions on each.              *)
LEMMA PlanIs ==
  ASSUME plan \in Plans
  PROVE  /\ plan \in Seq(Items) /\ Len(plan) \in Nat
         /\ \A k \in 0..Len(plan) : RestOf(plan, k) \in Seq(Characters) /\ RestOf(plan, k) # <<>>
         /\ \A k \in 1..Len(plan) :
              /\ plan[k] \in Items
              /\ Len(plan[k].before) < USHORT
              /\ plan[k].conv \in NumberConversions => plan[k].width < PcBufSize
              /\ plan[k].conv = "star_s" => plan[k].width = 0
              /\ plan[k].conv = "dot" => Head(RestOf(plan, k)) # "*"
              /\ plan[k].conv = "star" => Head(RestOf(plan, k)) # "s"
<1>1. WellFormed(plan)  BY FormatAssumption, Zenon
<1>2. plan \in Seq(Items)  BY <1>1, Zenon DEF WellFormed, Items
<1>3. Len(plan) \in Nat  BY <1>2, LenProperties, Zenon
<1>4. ASSUME NEW k \in 0..Len(plan)
      PROVE  RestOf(plan, k) \in Seq(Characters) /\ RestOf(plan, k) # <<>>
  <2>1. RestOf(plan, k) \in Seq(Characters)  BY <1>2, RestUnfolds, Zenon
  <2>2. CASE k = Len(plan)
    <3>1. RestOf(plan, k) = <<"\n">>  BY <1>2, <2>2, RestUnfolds, Zenon
    <3>2. <<"\n">> # <<>>  BY SMT
    <3> QED BY <2>1, <3>1, <3>2, Zenon
  <2>3. CASE k # Len(plan)
    <3> DEFINE b == plan[k + 1].before
               t == Rest(plan[k + 1], RestOf(plan, k + 1))
               u == <<"%">> \o t
    <3>1. k < Len(plan)  BY <1>3, <2>3, SMT
    <3>2. plan[k + 1] \in Items /\ RestOf(plan, k + 1) \in Seq(Characters)
          /\ RestOf(plan, k) = b \o u
      BY <1>2, <3>1, RestUnfolds, Zenon
    <3>3. b \in Seq(Characters) /\ t \in Seq(Characters)
      BY <3>2, ItemParts, SpellingFollowed, Zenon
    <3>4. u \in Seq(Characters) /\ u # <<>>
      <4> HIDE DEF t
      <4> QED BY <3>3, PutInFront, Literals, ZenonT(60)
    <3> HIDE DEF b, u
    <3>5. b \o u # <<>>  BY <3>3, <3>4, SMT
    <3> QED BY <2>1, <3>2, <3>5, Zenon
  <2> QED BY <2>2, <2>3
<1>5. ASSUME NEW k \in 1..Len(plan)
      PROVE  /\ plan[k] \in Items
             /\ Len(plan[k].before) < USHORT
             /\ plan[k].conv \in NumberConversions => plan[k].width < PcBufSize
             /\ plan[k].conv = "star_s" => plan[k].width = 0
             /\ plan[k].conv = "dot" => Head(RestOf(plan, k)) # "*"
             /\ plan[k].conv = "star" => Head(RestOf(plan, k)) # "s"
  <2>1. plan[k] \in Items  BY <1>2, ElementOfSeq, Zenon
  <2> QED BY <1>1, <2>1, Zenon DEF WellFormed, RestOf
<1> QED BY <1>2, <1>3, <1>4, <1>5, Zenon

(* While a directive is read.                                              *)
LEMMA ReadingIs ==
  ASSUME PrintfInv, pc \notin {"scan", "done"}
  PROVE  LET k == Len(given)
         IN  /\ k \in Nat /\ k \in 1..Len(plan) /\ k \in 0..Len(plan) /\ plan \in Seq(Items)
             /\ ThisItem \in Items /\ ThisItem = plan[k] /\ ThisArgs \in Seq(Argument)
             /\ ThisRest \in Seq(Characters) /\ ThisRest # <<>> /\ ThisRest = RestOf(plan, k)
             /\ PastOf(plan, given, k - 1)
             /\ out = ServedOf(plan, given, k - 1) \o ThisItem.before
             /\ ThisItem.conv \in NumberConversions => ThisItem.width < PcBufSize
             /\ ThisItem.conv = "star_s" => ThisItem.width = 0
             /\ ThisItem.conv = "dot" => Head(ThisRest) # "*"
             /\ ThisItem.conv = "star" => Head(ThisRest) # "s"
             /\ ThisItem.width \in Nat /\ ThisItem.width < ULONG
             /\ ThisItem.conv \in DOMAIN Spelled
             /\ pc = "again" => /\ ulCap = 0
                                /\ \/ AtFlag(ThisItem, ThisArgs, ThisRest)
                                   \/ InWidth(ThisItem, ThisArgs, ThisRest)
                                   \/ AtText(ThisItem, ThisArgs, ThisRest)
             /\ pc # "again" => InNumber(ThisItem, ThisArgs, ThisRest)
<1> DEFINE k == Len(given)
<1>1. plan \in Plans /\ given \in Seq(Seq(Argument)) /\ k <= Len(plan)
  BY Zenon DEF PrintfInv, GivenOK
<1>2. Reading  BY Zenon DEF PrintfInv
<1>3. k \in Nat /\ Len(plan) \in Nat  BY <1>1, PlanIs, LenProperties, Zenon
<1>4. k >= 1  BY <1>2, Zenon DEF Reading
<1>5. k \in 1..k /\ k \in 1..Len(plan) /\ k \in 0..Len(plan)  BY <1>1, <1>3, <1>4, SMT
<1>6. given[k] \in Seq(Argument)  BY <1>1, <1>5, ElementOfSeq, Zenon
<1>7. ThisItem \in Items  BY <1>1, <1>5, PlanIs, Zenon DEF ThisItem
<1>8. ThisItem.width \in Nat /\ ThisItem.width < ULONG /\ ThisItem.conv \in DOMAIN Spelled
  BY <1>7, ItemParts, Zenon
<1>9. /\ ThisItem = plan[k] /\ ThisRest = RestOf(plan, k) /\ ThisArgs = given[k]
  BY DEF ThisItem, ThisRest, ThisArgs
<1> QED BY <1>1, <1>2, <1>3, <1>5, <1>6, <1>7, <1>8, <1>9, PlanIs, Zenon DEF Reading

(* After the last character of a directive that prints, its text follows   *)
(* what was served before it.                                              *)
LEMMA DirectiveDone ==
  ASSUME PrintfInv, pc \notin {"scan", "done"}, NEW text \in Seq(Characters), Printed(text),
         format' = ThisRest, given' \in Seq(Seq(Argument)), Len(given') = Len(given),
         \A i \in 1..(Len(given) - 1) : given'[i] = given[i],
         KindsOf(given'[Len(given)]) = Takes[ThisItem.conv],
         Meaning(ThisItem, ValuesOf(given'[Len(given)])) = text
  PROVE  PrintfInv'
<1> DEFINE k == Len(given)
<1>1. /\ k \in 1..Len(plan) /\ plan \in Seq(Items)
      /\ ThisItem = plan[k] /\ ThisRest = RestOf(plan, k)
      /\ PastOf(plan, given, k - 1)
      /\ out = ServedOf(plan, given, k - 1) \o ThisItem.before
  BY ReadingIs, Zenon
<1>2. PastOf(plan, given', k) /\ Serves(plan, given, given', k, text)
  BY <1>1, DirectiveServed, Zenon
<1>3. /\ out' = out \o text /\ pc' = "scan" /\ plan' = plan
      /\ UNCHANGED <<numberLocals, textLocals, flagLocals>>
  BY Zenon DEF Printed
<1>4. out' = ServedOf(plan, given', k)  BY <1>1, <1>2, <1>3, Zenon DEF Serves
<1>5. Between'
  <2>1. PastOf(plan', given', Len(given')) /\ format' = RestOf(plan', Len(given'))
        /\ out' = ServedOf(plan', given', Len(given'))
    BY <1>1, <1>2, <1>3, <1>4, Zenon
  <2> QED BY <2>1, Zenon DEF Between
<1>6. PrintfTypeOK /\ GivenOK /\ BufferHeld /\ pcBuf \in Seq(Characters)  BY Zenon DEF PrintfInv
<1>7. PrintfTypeOK'
  BY <1>3, <1>6, Zenon DEF PrintfTypeOK, numberLocals, textLocals, flagLocals
<1>8. GivenOK'  BY <1>3, <1>6, Zenon DEF GivenOK
<1>9. BufferHeld' /\ pcBuf' \in Seq(Characters)
  BY <1>3, <1>6, Zenon DEF BufferHeld, numberLocals
<1>10. pc' \in {"scan", "done"}  BY <1>3, Zenon
<1> QED BY <1>5, <1>7, <1>8, <1>9, <1>10, Zenon DEF PrintfInv

(* The conversion is next, the width has been read; or a digit of it is.   *)
Ready(item, args, rest) ==
  /\ args = <<>> /\ format = Spelled[item.conv] \o rest
  /\ ulCount = item.width /\ cFill = FillOf(item) /\ cStrlenSet = 0

ReadAndNext(item, c, r) ==
  \/ ulCount = 0 /\ WidthText(item) = <<c>> \o r
  \/ ulCount # 0 /\ WidthText(item) = Numeral(ulCount, 10, g_pcHex) \o (<<c>> \o r)

NextDigit(item, args, rest, c) ==
  /\ args = <<>> /\ cFill = FillOf(item) /\ cStrlenSet = 0 /\ ulCount <= item.width
  /\ \E r \in Seq(Decimal) :
       format = <<c>> \o (r \o (Spelled[item.conv] \o rest)) /\ ReadAndNext(item, c, r)

(* A width that has been read is the width. *)
LEMMA WidthRead ==
  ASSUME NEW item \in Items, ulCount \in Nat
  PROVE  /\ ulCount = 0 /\ WidthText(item) = <<>> => ulCount = item.width
         /\ ulCount # 0 /\ WidthText(item) = Numeral(ulCount, 10, g_pcHex) \o <<>> =>
              ulCount = item.width
<1> DEFINE N(n) == Numeral(n, 10, g_pcHex)
           w == item.width
<1>1. w \in Nat  BY ItemParts, Zenon
<1>2. \A n \in Nat : N(n) \in Seq(Decimal) /\ Len(N(n)) >= 1  BY NumeralOfDigits, Zenon
<1>3. WidthText(item) = IF w = 0 THEN <<>> ELSE N(w)  BY Zenon DEF WidthText
<1>4. \A n \in Nat : N(n) \o <<>> = N(n)  BY <1>2, SMT
<1>5. \A n \in Nat : N(n) # <<>>  BY <1>2, SMT
<1>6. <<>> \in Seq(Decimal)  BY EmptySeq, Zenon
<1> HIDE DEF w
<1>7. ASSUME w # 0, ulCount # 0, N(w) = N(ulCount) \o <<>> PROVE ulCount = w
  <2>1. 10 \in Bases  BY SMT DEF Bases
  <2> DEFINE e == <<>>
  <2>2. e \in Seq(Decimal)  BY <1>6
  <2>3. \A n \in Nat : N(n) \o e = N(n)  BY <1>4
  <2>4. N(w) = N(ulCount) \o e /\ N(ulCount) = N(w) \o e  BY <1>1, <1>7, <2>3, Zenon
  <2> HIDE DEF e
  <2>5. ulCount <= w /\ w <= ulCount
    BY <1>1, <2>1, <2>2, <2>4, DecimalDigits, PrefixNotGreater, Zenon
  <2> QED BY <1>1, <2>5, SMT
<1>8. w = 0 => WidthText(item) = <<>>  BY <1>3, Zenon
<1>9. w # 0 => WidthText(item) = N(w)  BY <1>3, Zenon
<1>10. ulCount = 0 /\ WidthText(item) = <<>> => ulCount = w
  BY <1>1, <1>5, <1>9, Zenon
<1>11. ulCount # 0 /\ WidthText(item) = N(ulCount) \o <<>> => ulCount = w
  <2> SUFFICES ASSUME ulCount # 0, WidthText(item) = N(ulCount) \o <<>> PROVE ulCount = w
    OBVIOUS
  <2>1. WidthText(item) = N(ulCount)  BY <1>4, Zenon
  <2>2. w # 0  BY <1>5, <1>8, <2>1, Zenon
  <2>3. N(w) = N(ulCount) \o <<>>  BY <1>4, <1>9, <2>1, <2>2, Zenon
  <2> QED BY <1>7, <2>2, <2>3
<1> QED BY <1>10, <1>11 DEF w

(* In the width either a digit is next or the conversion.                  *)
LEMMA WidthCases ==
  ASSUME NEW item \in Items, NEW args, NEW rest \in Seq(Characters), ulCount \in Nat,
         InWidth(item, args, rest)
  PROVE  Ready(item, args, rest) \/ \E c \in Decimal : NextDigit(item, args, rest, c)
<1> DEFINE behind == Spelled[item.conv] \o rest
<1>0. /\ args = <<>> /\ ulCount <= item.width /\ cFill = FillOf(item) /\ cStrlenSet = 0
      /\ \E r \in Seq(Decimal) :
           /\ format = r \o behind
           /\ \/ ulCount = 0 /\ r = WidthText(item)
              \/ ulCount # 0 /\ WidthText(item) = Numeral(ulCount, 10, g_pcHex) \o r
  BY Zenon DEF InWidth
<1>1. behind \in Seq(Characters)  BY ItemParts, ConcatProperties, Zenon
<1>2. PICK r \in Seq(Decimal) :
        /\ format = r \o behind
        /\ \/ ulCount = 0 /\ r = WidthText(item)
           \/ ulCount # 0 /\ WidthText(item) = Numeral(ulCount, 10, g_pcHex) \o r
  BY <1>0, Zenon
<1>3. CASE r = <<>>
  <2>1. format = <<>> \o behind  BY <1>2, <1>3
  <2>2. format = behind
    <3> HIDE DEF behind
    <3> QED BY <1>1, <2>1, SMT
  <2>3. ulCount = item.width  BY <1>2, <1>3, WidthRead, Zenon
  <2> QED BY <1>0, <2>2, <2>3, Zenon DEF Ready
<1>4. CASE r # <<>>
  <2> DEFINE c == Head(r)
             t == Tail(r)
  <2>1. c \in Decimal /\ t \in Seq(Decimal)  BY <1>4, HeadTailProperties, Zenon
  <2>2. r = <<c>> \o t
    <3>1. r \in Seq(Decimal) /\ r # <<>>  BY <1>4
    <3> QED BY <3>1, SMT
  <2>3. Decimal \subseteq Characters  BY Literals, Zenon
  <2>4. c \in Characters /\ t \in Seq(Characters)
    <3> HIDE DEF c, t
    <3> QED BY <2>1, <2>3, SMT
  <2> HIDE DEF c, t, behind
  <2>5. (<<c>> \o t) \o behind = <<c>> \o (t \o behind)
    <3> DEFINE a == <<c>>
    <3>1. a \in Seq(Characters)  BY <2>4, SMT
    <3> HIDE DEF a
    <3>2. (a \o t) \o behind = a \o (t \o behind)  BY <1>1, <2>4, <3>1, SMT
    <3> QED BY <3>2 DEF a
  <2>6. format = <<c>> \o (t \o behind)  BY <1>2, <2>2, <2>5
  <2>7. ReadAndNext(item, c, t)
    <3>1. CASE ulCount = 0 /\ r = WidthText(item)
      <4>1. WidthText(item) = <<c>> \o t  BY <2>2, <3>1
      <4> QED BY <3>1, <4>1, Zenon DEF ReadAndNext
    <3>2. CASE ulCount # 0 /\ WidthText(item) = Numeral(ulCount, 10, g_pcHex) \o r
      <4> DEFINE n == Numeral(ulCount, 10, g_pcHex)
      <4>1. WidthText(item) = n \o r  BY <3>2
      <4> HIDE DEF n
      <4>2. WidthText(item) = n \o (<<c>> \o t)  BY <2>2, <4>1
      <4> QED BY <3>2, <4>2 DEF ReadAndNext, n
    <3> QED BY <1>2, <3>1, <3>2
  <2>8. NextDigit(item, args, rest, c)
    BY <1>0, <2>1, <2>6, <2>7 DEF NextDigit, behind
  <2> QED BY <2>1, <2>8
<1> QED BY <1>3, <1>4

(* What the spelling of a conversion begins with. *)
First ==
  [s |-> "s", h |-> "h", H |-> "H", c |-> "c", d |-> "d", u |-> "u", x |-> "x", X |-> "X",
   p |-> "p", percent |-> "%", dot_s |-> ".", dot_h |-> ".", dot_H |-> ".", star_s |-> "*",
   dot |-> ".", star |-> "*", q |-> "q"]

(* The first characters one by one. *)
LEMMA Firsts ==
  /\ First["s"] = "s" /\ First["h"] = "h" /\ First["H"] = "H" /\ First["c"] = "c"
  /\ First["d"] = "d" /\ First["u"] = "u" /\ First["x"] = "x" /\ First["X"] = "X"
  /\ First["p"] = "p" /\ First["percent"] = "%" /\ First["dot_s"] = "."
  /\ First["dot_h"] = "." /\ First["dot_H"] = "." /\ First["star_s"] = "*"
  /\ First["dot"] = "." /\ First["star"] = "*" /\ First["q"] = "q"
BY SMT DEF First

Single == {"s", "h", "H", "c", "d", "u", "x", "X", "p", "percent", "dot", "star", "q"}

(* The conversions that take a size, and their last characters. *)
LEMMA SizedTextsAre ==
  /\ DOMAIN SizedTexts = {"dot_s", "dot_h", "dot_H", "star_s"}
  /\ SizedTexts["dot_s"] = "s" /\ SizedTexts["dot_h"] = "h" /\ SizedTexts["dot_H"] = "H"
  /\ SizedTexts["star_s"] = "s"
BY SMT DEF SizedTexts

(* The conversions that are spelled with one character.                    *)
LEMMA SpelledSingly ==
  ASSUME NEW conv \in Single
  PROVE  Spelled[conv] = <<First[conv]>> /\ First[conv] \in Characters
<1>1. CASE conv = "s"
  BY <1>1, Firsts, SpelledAs, Literals, Zenon
<1>2. CASE conv = "h"
  BY <1>2, Firsts, SpelledAs, Literals, Zenon
<1>3. CASE conv = "H"
  BY <1>3, Firsts, SpelledAs, Literals, Zenon
<1>4. CASE conv = "c"
  BY <1>4, Firsts, SpelledAs, Literals, Zenon
<1>5. CASE conv = "d"
  BY <1>5, Firsts, SpelledAs, Literals, Zenon
<1>6. CASE conv = "u"
  BY <1>6, Firsts, SpelledAs, Literals, Zenon
<1>7. CASE conv = "x"
  BY <1>7, Firsts, SpelledAs, Literals, Zenon
<1>8. CASE conv = "X"
  BY <1>8, Firsts, SpelledAs, Literals, Zenon
<1>9. CASE conv = "p"
  BY <1>9, Firsts, SpelledAs, Literals, Zenon
<1>10. CASE conv = "percent"
  BY <1>10, Firsts, SpelledAs, Literals, Zenon
<1>11. CASE conv = "dot"
  BY <1>11, Firsts, SpelledAs, Literals, Zenon
<1>12. CASE conv = "star"
  BY <1>12, Firsts, SpelledAs, Literals, Zenon
<1>13. CASE conv = "q"
  BY <1>13, Firsts, SpelledAs, Literals, Zenon
<1> QED BY <1>1, <1>2, <1>3, <1>4, <1>5, <1>6, <1>7, <1>8, <1>9, <1>10, <1>11, <1>12, <1>13,
           Zenon DEF Single

(* The conversions that take a size behind a dot are spelled with three     *)
(* characters.                                                              *)
LEMMA SpelledSized ==
  ASSUME NEW conv \in {"dot_s", "dot_h", "dot_H"}
  PROVE  /\ Spelled[conv] = <<".", "*", SizedTexts[conv]>>
         /\ SizedTexts[conv] \in Characters
<1>1. CASE conv = "dot_s"
  BY <1>1, SizedTextsAre, SpelledAs, Literals, Zenon
<1>2. CASE conv = "dot_h"
  BY <1>2, SizedTextsAre, SpelledAs, Literals, Zenon
<1>3. CASE conv = "dot_H"
  BY <1>3, SizedTextsAre, SpelledAs, Literals, Zenon
<1> QED BY <1>1, <1>2, <1>3, Zenon

SpelledBefore(f, conv, rest) == f = Spelled[conv] \o rest

Begins(f, conv) == f # <<>> /\ Head(f) = First[conv] /\ f[1] = First[conv]

Continues(f, conv, rest) ==
  /\ conv \in Single => Tail(f) = rest
  /\ conv \in Single /\ rest # <<>> => f[2] = Head(rest)
  /\ conv \in {"dot_s", "dot_h", "dot_H"} =>
       /\ Len(f) > 2 /\ f[2] = "*" /\ f[3] = SizedTexts[conv]
       /\ SubSeq(f, 3, Len(f)) = <<SizedTexts[conv]>> \o rest
  /\ conv = "star_s" => Len(f) > 1 /\ f[2] = "s" /\ Tail(f) = <<"s">> \o rest

(* Reading the spelling of a conversion. *)
LEMMA SpelledRead ==
  ASSUME NEW conv \in DOMAIN Spelled, NEW rest \in Seq(Characters), NEW f,
         SpelledBefore(f, conv, rest)
  PROVE  Begins(f, conv) /\ Continues(f, conv, rest)
<1>0. f = Spelled[conv] \o rest  BY DEF SpelledBefore
<1>1. CASE conv \in Single
  <2> DEFINE c == First[conv]
  <2>1. Spelled[conv] = <<c>> /\ c \in Characters
    BY <1>1, SpelledSingly, Zenon
  <2>2. f = <<c>> \o rest  BY <1>0, <2>1
  <2> HIDE DEF c
  <2>3. f # <<>> /\ Head(f) = c /\ f[1] = c /\ Tail(f) = rest
    BY <2>1, <2>2, PutInFront
  <2>4. rest # <<>> => f[2] = Head(rest)  BY <2>1, <2>2, SMT
  <2>5. conv \notin {"dot_s", "dot_h", "dot_H"} /\ conv # "star_s"  BY <1>1, SMT DEF Single
  <2> QED BY <2>3, <2>4, <2>5, Zenon DEF c, Begins, Continues
<1>2. CASE conv \in {"dot_s", "dot_h", "dot_H"}
  <2> DEFINE c == SizedTexts[conv]
             t == <<c>> \o rest
  <2>1. Spelled[conv] = <<".", "*", c>> /\ c \in Characters
    BY <1>2, SpelledSized, Zenon
  <2>2. f = <<".", "*", c>> \o rest  BY <1>0, <2>1
  <2>3. /\ "." \in Characters /\ "*" \in Characters  BY Literals, Zenon
  <2> HIDE DEF c
  <2>4. /\ f # <<>> /\ Head(f) = "." /\ f[1] = "." /\ Len(f) > 2 /\ f[2] = "*" /\ f[3] = c
        /\ Len(f) = Len(rest) + 3 /\ f \in Seq(Characters)
        /\ \A i \in 1..Len(rest) : f[i + 3] = rest[i]
    BY <2>1, <2>2, <2>3, SMT
  <2>5. /\ t \in Seq(Characters) /\ Len(t) = Len(rest) + 1 /\ t[1] = c
        /\ \A i \in 1..Len(rest) : t[i + 1] = rest[i]
    BY <2>1, SMT
  <2>6. SubSeq(f, 3, Len(f)) = t
    <3> DEFINE u == SubSeq(f, 3, Len(f))
               l == Len(f)
    <3>1. /\ u \in Seq(Characters) /\ Len(u) = (IF 3 <= l THEN l - 3 + 1 ELSE 0)
          /\ \A i \in 1..(l - 3 + 1) : u[i] = f[3 + i - 1]
      <4>1. 3 \in Nat \ {0} /\ l \in Nat /\ l <= Len(f)  BY <2>4, SMT
      <4> QED BY <2>4, <4>1, PartOf
    <3> HIDE DEF u, l
    <3>2. l = Len(rest) + 3 /\ Len(rest) \in Nat
      <4>1. Len(rest) \in Nat  BY LenProperties, Zenon
      <4> QED BY <2>4, <4>1 DEF l
    <3> HIDE DEF t
    <3>3. Len(u) = Len(t)  BY <2>5, <3>1, <3>2, SMT
    <3>4. \A i \in 1..Len(u) : u[i] = t[i]
      <4> SUFFICES ASSUME NEW i \in 1..Len(u) PROVE u[i] = t[i]  OBVIOUS
      <4>1. i \in 1..(l - 3 + 1) /\ i \in Nat /\ 3 + i - 1 = i + 2  BY <3>1, <3>2, SMT
      <4>2. u[i] = f[i + 2]  BY <3>1, <4>1
      <4>3. i = 1 \/ (i - 1 \in 1..Len(rest) /\ (i - 1) + 3 = i + 2 /\ (i - 1) + 1 = i)
        BY <2>5, <3>2, <3>3, <4>1, SMT
      <4>4. CASE i = 1
        <5>1. u[i] = f[3]  BY <4>2, <4>4
        <5> QED BY <2>4, <2>5, <4>4, <5>1
      <4>5. CASE i # 1
        <5>1. f[i + 2] = rest[i - 1] /\ t[i] = rest[i - 1]  BY <2>4, <2>5, <4>3, <4>5
        <5> QED BY <4>2, <5>1
      <4> QED BY <4>4, <4>5
    <3>5. u = t  BY <2>5, <3>1, <3>3, <3>4, SeqEqual, Zenon
    <3> QED BY <3>5 DEF u, l
  <2>7. conv \notin Single /\ conv # "star_s" /\ First[conv] = "."
    BY <1>2, Firsts, SMT DEF Single
  <2> QED BY <2>4, <2>6, <2>7 DEF c, Begins, Continues
<1>3. CASE conv = "star_s"
  <2> DEFINE t == <<"s">> \o rest
  <2>1. Spelled[conv] = <<"*", "s">>  BY <1>3, SpelledAs
  <2>2. "*" \in Characters /\ "s" \in Characters  BY Literals, Zenon
  <2>3. f = <<"*", "s">> \o rest  BY <1>0, <2>1
  <2>4. f = <<"*">> \o t  BY <2>2, <2>3, SMT
  <2>5. t \in Seq(Characters) /\ t # <<>> /\ Head(t) = "s"  BY <2>2, PutInFront, Zenon
  <2> HIDE DEF t
  <2>6. f # <<>> /\ Head(f) = "*" /\ f[1] = "*" /\ Tail(f) = t
    BY <2>2, <2>4, <2>5, PutInFront
  <2>7. Len(f) > 1 /\ f[2] = "s"  BY <2>2, <2>4, <2>5, SMT
  <2>8. conv \notin Single /\ conv \notin {"dot_s", "dot_h", "dot_H"} /\ First[conv] = "*"
    BY <1>3, Firsts, SMT DEF Single
  <2> QED BY <2>6, <2>7, <2>8 DEF t, Begins, Continues
<1>4. conv \in Single \/ conv \in {"dot_s", "dot_h", "dot_H"} \/ conv = "star_s"
  BY Conversions, Zenon DEF Single
<1> QED BY <1>1, <1>2, <1>3, <1>4, Zenon

ReadyNow  == Ready(ThisItem, ThisArgs, ThisRest)
AtTextNow == AtText(ThisItem, ThisArgs, ThisRest)

(* What the first character of a directive, read at `again', says of where *)
(* the directive is.                                                       *)
LEMMA FlagRead ==
  ASSUME NEW item \in Items, NEW args, NEW rest \in Seq(Characters), AtFlag(item, args, rest)
  PROVE  /\ format # <<>> /\ Head(format) = item.flag /\ format[1] = item.flag
         /\ item.flag \in {"-", "0"}
         /\ Tail(format) = WidthText(item) \o (Spelled[item.conv] \o rest)
<1> DEFINE c == item.flag
           t == WidthText(item) \o (Spelled[item.conv] \o rest)
<1>1. c # "" /\ format = <<c>> \o t  BY Zenon DEF AtFlag
<1>2. c \in {"-", "0"}  BY <1>1, ItemParts, Zenon
<1>3. c \in Characters  BY <1>2, Literals, Zenon
<1>4. t \in Seq(Characters)  BY ItemParts, ConcatProperties, Zenon
<1> HIDE DEF c, t
<1>5. format # <<>> /\ Head(format) = c /\ format[1] = c /\ Tail(format) = t
  BY <1>1, <1>3, <1>4, PutInFront
<1> QED BY <1>2, <1>5 DEF c, t

(* Reading a digit of the width ... *)
LEMMA DigitRead ==
  ASSUME NEW item \in Items, NEW args, NEW rest \in Seq(Characters), NEW c \in Decimal,
         NextDigit(item, args, rest, c)
  PROVE  /\ format # <<>> /\ Head(format) = c /\ format[1] = c
         /\ \E r \in Seq(Decimal) :
              /\ Tail(format) = r \o (Spelled[item.conv] \o rest) /\ ReadAndNext(item, c, r)
<1>1. PICK r \in Seq(Decimal) :
        format = <<c>> \o (r \o (Spelled[item.conv] \o rest)) /\ ReadAndNext(item, c, r)
  BY Zenon DEF NextDigit
<1> DEFINE t == r \o (Spelled[item.conv] \o rest)
<1>2. c \in Characters /\ r \in Seq(Characters)
  <2>1. Decimal \subseteq Characters  BY Literals, Zenon
  <2> QED BY <2>1, SMT
<1>3. t \in Seq(Characters)  BY <1>2, ItemParts, ConcatProperties, Zenon
<1>4. format = <<c>> \o t  BY <1>1
<1> HIDE DEF t
<1>5. format # <<>> /\ Head(format) = c /\ format[1] = c /\ Tail(format) = t
  BY <1>2, <1>3, <1>4, PutInFront
<1> QED BY <1>1, <1>5 DEF t

(* ... and the last character behind a size. *)
LEMMA AtTextRead ==
  ASSUME NEW item \in Items, NEW args, NEW rest \in Seq(Characters), AtText(item, args, rest)
  PROVE  /\ format # <<>> /\ Head(format) = SizedTexts[item.conv]
         /\ format[1] = SizedTexts[item.conv] /\ Tail(format) = rest
         /\ item.conv \in {"dot_s", "dot_h", "dot_H", "star_s"}
<1> DEFINE c == SizedTexts[item.conv]
<1>1. item.conv \in {"dot_s", "dot_h", "dot_H", "star_s"} /\ format = <<c>> \o rest
  BY SizedTextsAre, Zenon DEF AtText
<1>2. c \in Characters
  <2>1. c = "s" \/ c = "h" \/ c = "H"  BY <1>1, SizedTextsAre, Zenon
  <2> QED BY <2>1, Literals, Zenon
<1> HIDE DEF c
<1>3. format # <<>> /\ Head(format) = c /\ format[1] = c /\ Tail(format) = rest
  BY <1>1, <1>2, PutInFront
<1> QED BY <1>1, <1>3 DEF c

(* At `again' a flag is next, a digit of the width, the conversion, or the  *)
(* last character behind a size.                                            *)
LEMMA AgainCases ==
  ASSUME PrintfInv, pc = "again"
  PROVE  /\ format # <<>> /\ format[1] = Head(format)
         /\ \/ AtFlag(ThisItem, ThisArgs, ThisRest) /\ Head(format) = ThisItem.flag
               /\ Head(format) \in {"-", "0"}
            \/ \E c \in Decimal :
                 Head(format) = c /\ NextDigit(ThisItem, ThisArgs, ThisRest, c)
            \/ ReadyNow /\ Head(format) = First[ThisItem.conv]
            \/ AtTextNow /\ Head(format) = SizedTexts[ThisItem.conv]
<1>1. /\ ThisItem \in Items /\ ThisRest \in Seq(Characters) /\ ThisItem.conv \in DOMAIN Spelled
      /\ \/ AtFlag(ThisItem, ThisArgs, ThisRest)
         \/ InWidth(ThisItem, ThisArgs, ThisRest)
         \/ AtTextNow
  <2>1. pc \notin {"scan", "done"}  BY SMT
  <2> QED BY <2>1, ReadingIs, Zenon DEF AtTextNow
<1>2. ulCount \in Nat
  <2>1. ulCount \in 0..(ULONG - 1)  BY Zenon DEF PrintfInv, PrintfTypeOK
  <2> QED BY <2>1, LongIsShort, SMT
<1>3. CASE AtFlag(ThisItem, ThisArgs, ThisRest)
  <2>1. /\ format # <<>> /\ Head(format) = ThisItem.flag /\ format[1] = ThisItem.flag
        /\ ThisItem.flag \in {"-", "0"}
    BY <1>1, <1>3, FlagRead, Zenon
  <2> QED BY <1>3, <2>1
<1>4. CASE AtTextNow
  <2>1. /\ format # <<>> /\ Head(format) = SizedTexts[ThisItem.conv]
        /\ format[1] = SizedTexts[ThisItem.conv]
    BY <1>1, <1>4, AtTextRead, Zenon DEF AtTextNow
  <2> QED BY <1>4, <2>1
<1>5. CASE InWidth(ThisItem, ThisArgs, ThisRest)
  <2>1. ReadyNow \/ \E c \in Decimal : NextDigit(ThisItem, ThisArgs, ThisRest, c)
    BY <1>1, <1>2, <1>5, WidthCases, Zenon DEF ReadyNow
  <2>2. CASE ReadyNow
    <3>1. SpelledBefore(format, ThisItem.conv, ThisRest)
      BY <2>2 DEF ReadyNow, Ready, SpelledBefore
    <3>2. format # <<>> /\ Head(format) = First[ThisItem.conv]
          /\ format[1] = First[ThisItem.conv]
      BY <1>1, <3>1, SpelledRead, ZenonT(60) DEF Begins
    <3> QED BY <2>2, <3>2
  <2>3. ASSUME NEW c \in Decimal, NextDigit(ThisItem, ThisArgs, ThisRest, c)
        PROVE  format # <<>> /\ Head(format) = c /\ format[1] = c
    BY <1>1, <2>3, DigitRead, Zenon
  <2> QED BY <2>1, <2>2, <2>3
<1> QED BY <1>1, <1>3, <1>4, <1>5

(* The conversions that begin with a character. *)
FirstOnly(conv, c) ==
  /\ c \notin Decimal /\ c # "-" /\ (c \notin Known => conv = "q")
  /\ (c = "s" => conv = "s") /\ (c = "h" => conv = "h") /\ (c = "H" => conv = "H")
  /\ (c = "c" => conv = "c") /\ (c = "d" => conv = "d") /\ (c = "u" => conv = "u")
  /\ (c = "x" => conv = "x") /\ (c = "X" => conv = "X") /\ (c = "p" => conv = "p")
  /\ (c = "%" => conv = "percent") /\ (c = "*" => conv \in {"star", "star_s"})
  /\ (c = "." => conv \in {"dot", "dot_s", "dot_h", "dot_H"})

(* The first character of a conversion tells it from the others, but for    *)
(* the three behind a dot.                                                  *)
LEMMA FirstTells ==
  ASSUME NEW conv \in DOMAIN Spelled
  PROVE  FirstOnly(conv, First[conv])
<1> DEFINE c == First[conv]
<1>0. Known = Decimal \cup {".", "*", "-", "c", "d", "H", "h", "s", "u", "X", "x", "p", "%"}
  BY DEF Known
<1>1. CASE conv = "s"
  <2>1. c = "s"  BY <1>1, Firsts, Zenon
  <2> HIDE DEF c
  <2>2. FirstOnly(conv, c)  BY <1>0, <1>1, <2>1, DecimalIs, SMT DEF FirstOnly
  <2> QED BY <2>2 DEF c
<1>2. CASE conv = "h"
  <2>1. c = "h"  BY <1>2, Firsts, Zenon
  <2> HIDE DEF c
  <2>2. FirstOnly(conv, c)  BY <1>0, <1>2, <2>1, DecimalIs, SMT DEF FirstOnly
  <2> QED BY <2>2 DEF c
<1>3. CASE conv = "H"
  <2>1. c = "H"  BY <1>3, Firsts, Zenon
  <2> HIDE DEF c
  <2>2. FirstOnly(conv, c)  BY <1>0, <1>3, <2>1, DecimalIs, SMT DEF FirstOnly
  <2> QED BY <2>2 DEF c
<1>4. CASE conv = "c"
  <2>1. c = "c"  BY <1>4, Firsts, Zenon
  <2> HIDE DEF c
  <2>2. FirstOnly(conv, c)  BY <1>0, <1>4, <2>1, DecimalIs, SMT DEF FirstOnly
  <2> QED BY <2>2 DEF c
<1>5. CASE conv = "d"
  <2>1. c = "d"  BY <1>5, Firsts, Zenon
  <2> HIDE DEF c
  <2>2. FirstOnly(conv, c)  BY <1>0, <1>5, <2>1, DecimalIs, SMT DEF FirstOnly
  <2> QED BY <2>2 DEF c
<1>6. CASE conv = "u"
  <2>1. c = "u"  BY <1>6, Firsts, Zenon
  <2> HIDE DEF c
  <2>2. FirstOnly(conv, c)  BY <1>0, <1>6, <2>1, DecimalIs, SMT DEF FirstOnly
  <2> QED BY <2>2 DEF c
<1>7. CASE conv = "x"
  <2>1. c = "x"  BY <1>7, Firsts, Zenon
  <2> HIDE DEF c
  <2>2. FirstOnly(conv, c)  BY <1>0, <1>7, <2>1, DecimalIs, SMT DEF FirstOnly
  <2> QED BY <2>2 DEF c
<1>8. CASE conv = "X"
  <2>1. c = "X"  BY <1>8, Firsts, Zenon
  <2> HIDE DEF c
  <2>2. FirstOnly(conv, c)  BY <1>0, <1>8, <2>1, DecimalIs, SMT DEF FirstOnly
  <2> QED BY <2>2 DEF c
<1>9. CASE conv = "p"
  <2>1. c = "p"  BY <1>9, Firsts, Zenon
  <2> HIDE DEF c
  <2>2. FirstOnly(conv, c)  BY <1>0, <1>9, <2>1, DecimalIs, SMT DEF FirstOnly
  <2> QED BY <2>2 DEF c
<1>10. CASE conv = "percent"
  <2>1. c = "%"  BY <1>10, Firsts, Zenon
  <2> HIDE DEF c
  <2>2. FirstOnly(conv, c)  BY <1>0, <1>10, <2>1, DecimalIs, SMT DEF FirstOnly
  <2> QED BY <2>2 DEF c
<1>11. CASE conv = "dot_s"
  <2>1. c = "."  BY <1>11, Firsts, Zenon
  <2> HIDE DEF c
  <2>2. FirstOnly(conv, c)  BY <1>0, <1>11, <2>1, DecimalIs, SMT DEF FirstOnly
  <2> QED BY <2>2 DEF c
<1>12. CASE conv = "dot_h"
  <2>1. c = "."  BY <1>12, Firsts, Zenon
  <2> HIDE DEF c
  <2>2. FirstOnly(conv, c)  BY <1>0, <1>12, <2>1, DecimalIs, SMT DEF FirstOnly
  <2> QED BY <2>2 DEF c
<1>13. CASE conv = "dot_H"
  <2>1. c = "."  BY <1>13, Firsts, Zenon
  <2> HIDE DEF c
  <2>2. FirstOnly(conv, c)  BY <1>0, <1>13, <2>1, DecimalIs, SMT DEF FirstOnly
  <2> QED BY <2>2 DEF c
<1>14. CASE conv = "star_s"
  <2>1. c = "*"  BY <1>14, Firsts, Zenon
  <2> HIDE DEF c
  <2>2. FirstOnly(conv, c)  BY <1>0, <1>14, <2>1, DecimalIs, SMT DEF FirstOnly
  <2> QED BY <2>2 DEF c
<1>15. CASE conv = "dot"
  <2>1. c = "."  BY <1>15, Firsts, Zenon
  <2> HIDE DEF c
  <2>2. FirstOnly(conv, c)  BY <1>0, <1>15, <2>1, DecimalIs, SMT DEF FirstOnly
  <2> QED BY <2>2 DEF c
<1>16. CASE conv = "star"
  <2>1. c = "*"  BY <1>16, Firsts, Zenon
  <2> HIDE DEF c
  <2>2. FirstOnly(conv, c)  BY <1>0, <1>16, <2>1, DecimalIs, SMT DEF FirstOnly
  <2> QED BY <2>2 DEF c
<1>17. CASE conv = "q"
  <2>1. c = "q"  BY <1>17, Firsts, Zenon
  <2> HIDE DEF c
  <2>2. FirstOnly(conv, c)  BY <1>0, <1>17, <2>1, DecimalIs, SMT DEF FirstOnly
  <2> QED BY <2>2 DEF c
<1> QED
  BY <1>1, <1>2, <1>3, <1>4, <1>5, <1>6, <1>7, <1>8, <1>9,
     <1>10, <1>11, <1>12, <1>13, <1>14, <1>15, <1>16, <1>17, Conversions, Zenon

(* What each character that is read next says of the directive.            *)
LEMMA CharacterRead ==
  ASSUME PrintfInv, pc = "again"
  PROVE  LET c    == Head(format)
             conv == ThisItem.conv
         IN  /\ format # <<>> /\ format[1] = c
             /\ c = "-" => AtFlag(ThisItem, ThisArgs, ThisRest) /\ ThisItem.flag = "-"
             /\ c \in Decimal =>
                  \/ AtFlag(ThisItem, ThisArgs, ThisRest) /\ ThisItem.flag = "0" /\ c = "0"
                  \/ NextDigit(ThisItem, ThisArgs, ThisRest, c)
             /\ c = "s" => \/ ReadyNow /\ conv = "s"
                           \/ AtTextNow /\ conv \in {"dot_s", "star_s"}
             /\ c = "h" => (ReadyNow /\ conv = "h") \/ (AtTextNow /\ conv = "dot_h")
             /\ c = "H" => (ReadyNow /\ conv = "H") \/ (AtTextNow /\ conv = "dot_H")
             /\ c = "c" => ReadyNow /\ conv = "c"
             /\ c = "d" => ReadyNow /\ conv = "d"
             /\ c = "u" => ReadyNow /\ conv = "u"
             /\ c = "x" => ReadyNow /\ conv = "x"
             /\ c = "X" => ReadyNow /\ conv = "X"
             /\ c = "p" => ReadyNow /\ conv = "p"
             /\ c = "%" => ReadyNow /\ conv = "percent"
             /\ c = "." => ReadyNow /\ conv \in {"dot", "dot_s", "dot_h", "dot_H"}
             /\ c = "*" => ReadyNow /\ conv \in {"star", "star_s"}
             /\ c \notin Known => ReadyNow /\ conv = "q"
<1> DEFINE c == Head(format)
           conv == ThisItem.conv
           Flag == AtFlag(ThisItem, ThisArgs, ThisRest)
           Dig(a) == NextDigit(ThisItem, ThisArgs, ThisRest, a)
<1>1. /\ format # <<>> /\ format[1] = c
      /\ \/ Flag /\ c = ThisItem.flag /\ c \in {"-", "0"}
         \/ \E a \in Decimal : c = a /\ Dig(a)
         \/ ReadyNow /\ c = First[conv]
         \/ AtTextNow /\ c = SizedTexts[conv]
  BY AgainCases, Zenon
<1>2. conv \in DOMAIN Spelled /\ ThisItem \in Items /\ ThisRest \in Seq(Characters)
  <2>1. pc \notin {"scan", "done"}  BY SMT
  <2> QED BY <2>1, ReadingIs, Zenon
<1>3. AtTextNow => conv \in {"dot_s", "dot_h", "dot_H", "star_s"}
  BY <1>2, AtTextRead, Zenon DEF AtTextNow
<1>4. "-" \notin Decimal /\ "0" \in Decimal  BY DecimalIs, SMT
<1> DEFINE Told(a) ==
             /\ a = "-" => Flag /\ ThisItem.flag = "-"
             /\ a \in Decimal => (Flag /\ ThisItem.flag = "0" /\ a = "0") \/ Dig(a)
             /\ a = "s" => (ReadyNow /\ conv = "s") \/ (AtTextNow /\ conv \in {"dot_s", "star_s"})
             /\ a = "h" => (ReadyNow /\ conv = "h") \/ (AtTextNow /\ conv = "dot_h")
             /\ a = "H" => (ReadyNow /\ conv = "H") \/ (AtTextNow /\ conv = "dot_H")
             /\ a = "c" => ReadyNow /\ conv = "c"
             /\ a = "d" => ReadyNow /\ conv = "d"
             /\ a = "u" => ReadyNow /\ conv = "u"
             /\ a = "x" => ReadyNow /\ conv = "x"
             /\ a = "X" => ReadyNow /\ conv = "X"
             /\ a = "p" => ReadyNow /\ conv = "p"
             /\ a = "%" => ReadyNow /\ conv = "percent"
             /\ a = "." => ReadyNow /\ conv \in {"dot", "dot_s", "dot_h", "dot_H"}
             /\ a = "*" => ReadyNow /\ conv \in {"star", "star_s"}
             /\ a \notin Known => ReadyNow /\ conv = "q"
<1>5. Known = Decimal \cup {".", "*", "-", "c", "d", "H", "h", "s", "u", "X", "x", "p", "%"}
  BY DEF Known
<1>6. ASSUME Flag /\ c = ThisItem.flag /\ c \in {"-", "0"}
      PROVE  Told(c)
  <2> HIDE DEF Flag, Dig, c, conv
  <2> QED BY <1>4, <1>5, <1>6, SMT DEF Told
<1>7. ASSUME NEW a \in Decimal, c = a, Dig(a)
      PROVE  Told(c)
  <2> HIDE DEF Flag, Dig, c, conv
  <2> QED BY <1>5, <1>7, DecimalIs, SMT DEF Told
<1>8. ASSUME AtTextNow /\ c = SizedTexts[conv]
      PROVE  Told(c)
  <2> HIDE DEF Flag, Dig, c, conv
  <2> QED BY <1>3, <1>5, <1>8, DecimalIs, SizedTextsAre, SMT DEF Told
<1>9. ASSUME ReadyNow /\ c = First[conv]
      PROVE  Told(c)
  <2> HIDE DEF Flag, Dig, c, conv
  <2>1. FirstOnly(conv, c)  BY <1>2, <1>9, FirstTells DEF conv
  <2> QED BY <1>9, <2>1, Zenon DEF Told, FirstOnly
<1>10. Told(c)
  <2> HIDE DEF Told
  <2> QED BY <1>1, <1>6, <1>7, <1>8, <1>9
<1> QED BY <1>1, <1>10

ArgumentOf(kind, value) == [kind |-> kind, value |-> value]

(* The arguments of a directive, as va_arg takes them. *)
LEMMA ArgumentsTaken ==
  ASSUME NEW kind, NEW value
  PROVE  /\ KindsOf(<<>>) = <<>>
         /\ KindsOf(<<ArgumentOf(kind, value)>>) = <<kind>>
         /\ ValuesOf(<<ArgumentOf(kind, value)>>)[1] = value
<1> DEFINE a == ArgumentOf(kind, value)
<1>1. a.kind = kind /\ a.value = value  BY SMT DEF ArgumentOf
<1>2. KindsOf(<<>>) = <<>>  BY SMT DEF KindsOf
<1> HIDE DEF a
<1>3. Len(<<a>>) = 1 /\ <<a>>[1] = a  BY SMT
<1>4. KindsOf(<<a>>) = <<kind>>  BY <1>1, <1>3, SMT DEF KindsOf
<1>5. ValuesOf(<<a>>)[1] = value  BY <1>1, <1>3, SMT DEF ValuesOf
<1> QED BY <1>2, <1>4, <1>5 DEF a

SizeAnd(n, kind, value) == Append(<<ArgumentOf("size", n)>>, ArgumentOf(kind, value))

(* A size and what it is the size of. *)
LEMMA SizedTaken ==
  ASSUME NEW n, NEW kind, NEW value
  PROVE  /\ KindsOf(SizeAnd(n, kind, value)) = <<"size", kind>>
         /\ ValuesOf(SizeAnd(n, kind, value))[1] = n
         /\ ValuesOf(SizeAnd(n, kind, value))[2] = value
<1> DEFINE a == ArgumentOf(kind, value)
           b == ArgumentOf("size", n)
           args == Append(<<b>>, a)
<1>1. a.kind = kind /\ a.value = value /\ b.kind = "size" /\ b.value = n
  BY SMT DEF ArgumentOf
<1>2. SizeAnd(n, kind, value) = args  BY DEF SizeAnd
<1> HIDE DEF a, b
<1>3. Len(args) = 2 /\ args[1] = b /\ args[2] = a  BY SMT
<1> HIDE DEF args
<1>4. ValuesOf(args)[1] = n /\ ValuesOf(args)[2] = value
  BY <1>1, <1>3, SMT DEF ValuesOf
<1>5. KindsOf(args) = <<"size", kind>>  BY <1>1, <1>3, SMT DEF KindsOf
<1> QED BY <1>2, <1>4, <1>5

(* What va_arg gives is an argument of this directive and of no other.     *)
LEMMA TakeIs ==
  ASSUME PrintfInv, pc \notin {"scan", "done"}, NEW kind \in {"number", "size", "text", "char"},
         NEW value \in Numbers \cup Sizes \cup Texts \cup DOMAIN Ascii, Take(kind, value)
  PROVE  /\ given' \in Seq(Seq(Argument)) /\ Len(given') = Len(given)
         /\ \A i \in 1..(Len(given) - 1) : given'[i] = given[i]
         /\ given'[Len(given)] = Append(ThisArgs, ArgumentOf(kind, value))
<1> DEFINE k == Len(given)
           a == ArgumentOf(kind, value)
           v == Append(ThisArgs, a)
<1>1. k \in 1..Len(plan) /\ k \in Nat /\ ThisArgs \in Seq(Argument)  BY ReadingIs, Zenon
<1>2. given \in Seq(Seq(Argument))  BY Zenon DEF PrintfInv, GivenOK
<1>3. a \in Argument  BY SMT DEF ArgumentOf, Argument
<1>4. v \in Seq(Argument)
  <2> HIDE DEF a
  <2> QED BY <1>1, <1>3, AppendProperties, Zenon
<1>5. given' = [given EXCEPT ![k] = v]  BY Zenon DEF Take, ThisArgs, ArgumentOf
<1>6. k \in 1..k  BY <1>1, SMT
<1> HIDE DEF v
<1>7. /\ given' \in Seq(Seq(Argument)) /\ Len(given') = k
      /\ \A i \in 1..k : given'[i] = IF i = k THEN v ELSE given[i]
  <2> DEFINE g == [given EXCEPT ![k] = v]
             A == Seq(Argument)
  <2>1. given \in Seq(A) /\ v \in A  BY <1>2, <1>4
  <2> HIDE DEF A
  <2>2. g \in Seq(A) /\ Len(g) = k /\ \A i \in 1..k : g[i] = IF i = k THEN v ELSE given[i]
    BY <1>6, <2>1, ExceptSeq
  <2> QED BY <1>5, <2>2 DEF A
<1>8. \A i \in 1..(k - 1) : i \in 1..k /\ i # k  BY <1>1, SMT
<1> QED BY <1>6, <1>7, <1>8, Zenon DEF v

(* A directive that takes no argument, or the last one it takes.           *)
LEMMA PrintedOfNone ==
  ASSUME PrintfInv, pc \notin {"scan", "done"}, NEW text \in Seq(Characters), Printed(text),
         format' = ThisRest, UNCHANGED given, ThisArgs = <<>>, Takes[ThisItem.conv] = <<>>,
         Meaning(ThisItem, <<>>) = text
  PROVE  PrintfInv'
<1>1. given' \in Seq(Seq(Argument)) /\ Len(given') = Len(given) /\ given' = given
  BY Zenon DEF PrintfInv, GivenOK
<1>2. given'[Len(given)] = <<>>  BY <1>1 DEF ThisArgs
<1>3. KindsOf(<<>>) = <<>>  BY ArgumentsTaken, Zenon
<1>4. ValuesOf(<<>>) = <<>>  BY SMT DEF ValuesOf
<1>5. KindsOf(given'[Len(given)]) = Takes[ThisItem.conv]  BY <1>2, <1>3
<1>6. Meaning(ThisItem, ValuesOf(given'[Len(given)])) = text  BY <1>2, <1>4
<1> QED BY <1>1, <1>5, <1>6, DirectiveDone, Zenon

(* A directive that takes its only argument with its last character ... *)
LEMMA PrintedOfOne ==
  ASSUME PrintfInv, pc \notin {"scan", "done"}, NEW text \in Seq(Characters), Printed(text),
         format' = ThisRest, ThisArgs = <<>>, NEW kind \in {"number", "size", "text", "char"},
         NEW value \in Numbers \cup Sizes \cup Texts \cup DOMAIN Ascii, Take(kind, value),
         Takes[ThisItem.conv] = <<kind>>,
         \A args : args[1] = value => Meaning(ThisItem, args) = text
  PROVE  PrintfInv'
<1> DEFINE h == given'[Len(given)]
           a == ArgumentOf(kind, value)
<1>1. /\ given' \in Seq(Seq(Argument)) /\ Len(given') = Len(given)
      /\ \A i \in 1..(Len(given) - 1) : given'[i] = given[i]
      /\ h = Append(ThisArgs, a)
  BY TakeIs, Zenon
<1>2. Append(<<>>, a) = <<a>>
  <2> HIDE DEF a
  <2> QED BY SMT
<1>3. h = <<a>>  BY <1>1, <1>2
<1>4. KindsOf(<<a>>) = <<kind>> /\ ValuesOf(<<a>>)[1] = value  BY ArgumentsTaken, Zenon
<1>5. KindsOf(h) = Takes[ThisItem.conv]  BY <1>3, <1>4
<1>6. ValuesOf(h)[1] = value  BY <1>3, <1>4
<1>7. Meaning(ThisItem, ValuesOf(h)) = text  BY <1>6, Zenon
<1> QED BY <1>1, <1>5, <1>7, DirectiveDone, Zenon

(* ... and one that took its size before. *)
LEMMA PrintedOfTwo ==
  ASSUME PrintfInv, pc \notin {"scan", "done"}, NEW text \in Seq(Characters), Printed(text),
         format' = ThisRest, NEW n, ThisArgs = <<[kind |-> "size", value |-> n]>>,
         NEW value \in Texts, Take("text", value), Takes[ThisItem.conv] = <<"size", "text">>,
         \A args : args[1] = n /\ args[2] = value => Meaning(ThisItem, args) = text
  PROVE  PrintfInv'
<1> DEFINE h == given'[Len(given)]
           a == ArgumentOf("text", value)
           b == ArgumentOf("size", n)
<1>1. /\ given' \in Seq(Seq(Argument)) /\ Len(given') = Len(given)
      /\ \A i \in 1..(Len(given) - 1) : given'[i] = given[i]
      /\ h = Append(ThisArgs, a)
  BY TakeIs, Zenon
<1>2. ThisArgs = <<b>>  BY Zenon DEF ArgumentOf
<1>3. h = SizeAnd(n, "text", value)  BY <1>1, <1>2 DEF SizeAnd
<1>4. KindsOf(h) = <<"size", "text">> /\ ValuesOf(h)[1] = n /\ ValuesOf(h)[2] = value
  BY <1>3, SizedTaken
<1>5. KindsOf(h) = Takes[ThisItem.conv]  BY <1>4
<1>6. ValuesOf(h)[1] = n /\ ValuesOf(h)[2] = value  BY <1>4
<1>7. Meaning(ThisItem, ValuesOf(h)) = text  BY <1>6, Zenon
<1> QED BY <1>1, <1>5, <1>7, DirectiveDone, Zenon

(* The arguments that conversions take. *)
LEMMA TakesAre ==
  /\ Takes["s"] = <<"text">> /\ Takes["h"] = <<"text">> /\ Takes["H"] = <<"text">>
  /\ Takes["c"] = <<"char">> /\ Takes["d"] = <<"number">> /\ Takes["u"] = <<"number">>
  /\ Takes["x"] = <<"number">> /\ Takes["X"] = <<"number">> /\ Takes["p"] = <<"number">>
  /\ Takes["percent"] = <<>> /\ Takes["dot"] = <<>> /\ Takes["star"] = <<>>
  /\ Takes["q"] = <<>> /\ Takes["dot_s"] = <<"size", "text">>
  /\ Takes["dot_h"] = <<"size", "text">> /\ Takes["dot_H"] = <<"size", "text">>
  /\ Takes["star_s"] = <<"size", "text">>
BY SMT DEF Takes

(* The locals at the conversion, and at the last character behind a size.  *)
LEMMA ReadyRead ==
  ASSUME PrintfInv, pc = "again", ReadyNow
  PROVE  /\ ThisArgs = <<>> /\ ulCount = ThisItem.width /\ cFill = FillOf(ThisItem)
         /\ cStrlenSet = 0
         /\ Continues(format, ThisItem.conv, ThisRest)
         /\ ThisItem.conv \in Single => Tail(format) = ThisRest
<1>1. ThisItem.conv \in DOMAIN Spelled /\ ThisRest \in Seq(Characters)
  <2>1. pc \notin {"scan", "done"}  BY SMT
  <2> QED BY <2>1, ReadingIs, Zenon
<1>2. SpelledBefore(format, ThisItem.conv, ThisRest)  BY DEF ReadyNow, Ready, SpelledBefore
<1>3. Continues(format, ThisItem.conv, ThisRest)  BY <1>1, <1>2, SpelledRead, Zenon
<1>4. ThisItem.conv \in Single => Tail(format) = ThisRest  BY <1>3, Zenon DEF Continues
<1> QED BY <1>3, <1>4, Zenon DEF ReadyNow, Ready

(* The locals behind a size: the size is the first argument. *)
LEMMA SizedRead ==
  ASSUME PrintfInv, pc = "again", AtTextNow
  PROVE  /\ ThisArgs = <<[kind |-> "size", value |-> ulStrlen]>> /\ ulCount = ThisItem.width
         /\ cStrlenSet = (IF ThisItem.conv = "star_s" THEN 2 ELSE 1)
         /\ Tail(format) = ThisRest
         /\ ThisItem.conv \in {"dot_s", "dot_h", "dot_H", "star_s"}
<1>1. ThisItem \in Items /\ ThisRest \in Seq(Characters)
  <2>1. pc \notin {"scan", "done"}  BY SMT
  <2> QED BY <2>1, ReadingIs, Zenon
<1>2. Tail(format) = ThisRest /\ ThisItem.conv \in {"dot_s", "dot_h", "dot_H", "star_s"}
  BY <1>1, AtTextRead, Zenon DEF AtTextNow
<1> QED BY <1>2, Zenon DEF AtTextNow, AtText

(* The locals have their types, as numbers. *)
LEMMA LocalsAre ==
  ASSUME PrintfInv
  PROVE  /\ ulIdx \in Nat /\ ulValue \in Nat /\ ulCount \in Nat /\ ulStrlen \in Nat
         /\ ulCount < ULONG /\ ULONG \in Nat /\ ULONG >= USHORT
<1>1. /\ ulIdx \in 0..(ULONG - 1) /\ ulValue \in 0..(ULONG - 1)
      /\ ulCount \in 0..(ULONG - 1) /\ ulStrlen \in 0..(ULONG - 1)
  BY Zenon DEF PrintfInv, PrintfTypeOK
<1> QED BY <1>1, LongIsShort, SMT DEF USHORT

(* A text that is given, up to its terminator. *)
LEMMA TextIs ==
  ASSUME NEW text \in Texts
  PROVE  /\ text \in Seq(DOMAIN Ascii) /\ strlen(text) \in Nat /\ strlen(text) <= Len(text)
         /\ UpTo("NUL", text) = SubSeq(text, 1, strlen(text))
<1>1. text \in Seq(DOMAIN Ascii)  BY TextAssumption, Zenon
<1>2. LET n == Len(UpTo("NUL", text))
      IN  n \in Nat /\ n <= Len(text) /\ UpTo("NUL", text) = SubSeq(text, 1, n)
  BY <1>1, UpToIs, Zenon
<1> QED BY <1>1, <1>2 DEF strlen

(* "%c" prints the character it is given. *)
LEMMA CharStep ==
  ASSUME PrintfInv, Char
  PROVE  PrintfInv'
<1>1. PICK c \in DOMAIN Ascii : Take("char", c) /\ Printed(prints(<<c>>))
  BY Zenon DEF Char
<1>2. pc = "again" /\ Head(format) = "c" /\ format' = Tail(format)  BY Zenon DEF Char, Reads
<1>3. ReadyNow /\ ThisItem.conv = "c"  BY <1>2, CharacterRead, Zenon
<1>4. ThisArgs = <<>> /\ format' = ThisRest
  <2>1. "c" \in Single  BY SMT DEF Single
  <2> QED BY <1>2, <1>3, <2>1, ReadyRead, Zenon
<1> DEFINE text == IF c = "NUL" THEN <<>> ELSE <<c>>
<1>5. text \in Seq(Characters) /\ prints(<<c>>) = text  BY CharPrinted
<1>6. Printed(text)  BY <1>1, <1>5
<1>7. \A args : args[1] = c => Meaning(ThisItem, args) = text  BY <1>3, MeaningBy, Zenon
<1>8. Takes[ThisItem.conv] = <<"char">>  BY <1>3, TakesAre
<1>9. pc \notin {"scan", "done"}  BY <1>2, SMT
<1> HIDE DEF text
<1> QED BY <1>1, <1>4, <1>5, <1>6, <1>7, <1>8, <1>9, PrintedOfOne, Zenon

(* "%%" prints a percent sign and takes nothing. *)
LEMMA PercentStep ==
  ASSUME PrintfInv, Percent
  PROVE  PrintfInv'
<1> DEFINE text == <<"%">>
<1>1. Printed(text) /\ UNCHANGED given  BY Zenon DEF Percent
<1>2. pc = "again" /\ Head(format) = "%" /\ format' = Tail(format)  BY Zenon DEF Percent, Reads
<1>3. ReadyNow /\ ThisItem.conv = "percent"  BY <1>2, CharacterRead, Zenon
<1>4. ThisArgs = <<>> /\ format' = ThisRest
  <2>1. "percent" \in Single  BY SMT DEF Single
  <2> QED BY <1>2, <1>3, <2>1, ReadyRead, Zenon
<1>5. text \in Seq(Characters)
  <2>1. "%" \in Characters  BY Literals, Zenon
  <2> QED BY <2>1, SMT
<1>6. Meaning(ThisItem, <<>>) = text  BY <1>3, MeaningBy, Zenon
<1>7. Takes[ThisItem.conv] = <<>>  BY <1>3, TakesAre
<1>8. pc \notin {"scan", "done"}  BY <1>2, SMT
<1> HIDE DEF text
<1> QED BY <1>1, <1>4, <1>5, <1>6, <1>7, <1>8, PrintedOfNone, Zenon

(* What is not known is "%." and "%*" that no size is behind, or "%q".     *)
LEMMA UnknownStep ==
  ASSUME PrintfInv, Unknown
  PROVE  PrintfInv'
<1>1. /\ pc = "again" /\ format # <<>> /\ format' = Tail(format)
      /\ Printed(ERROR) /\ UNCHANGED given
      /\ \/ Head(format) \notin Known
         \/ /\ format[1] = "."
            /\ ~(Len(format) > 2 /\ format[2] = "*" /\ format[3] \in {"s", "h", "H"})
         \/ format[1] = "*" /\ ~(Len(format) > 1 /\ format[2] = "s")
  BY Zenon DEF Unknown
<1>2. format[1] = Head(format)  BY <1>1, CharacterRead, Zenon
<1>3. ReadyNow /\ ThisItem.conv \in {"dot", "star", "q"}
  <2>1. CASE Head(format) \notin Known
    <3>1. ReadyNow /\ ThisItem.conv = "q"  BY <1>1, <2>1, CharacterRead, Zenon
    <3> QED BY <3>1, Zenon
  <2>2. CASE /\ Head(format) = "."
             /\ ~(Len(format) > 2 /\ format[2] = "*" /\ format[3] \in {"s", "h", "H"})
    <3>1. ReadyNow /\ ThisItem.conv \in {"dot", "dot_s", "dot_h", "dot_H"}
      BY <1>1, <2>2, CharacterRead, Zenon
    <3>2. Continues(format, ThisItem.conv, ThisRest)  BY <1>1, <3>1, ReadyRead, Zenon
    <3>3. ThisItem.conv \in {"dot_s", "dot_h", "dot_H"} =>
            Len(format) > 2 /\ format[2] = "*" /\ format[3] = SizedTexts[ThisItem.conv]
      BY <3>2, Zenon DEF Continues
    <3>4. ThisItem.conv \notin {"dot_s", "dot_h", "dot_H"}
      BY <2>2, <3>3, SizedTextsAre, Zenon
    <3> QED BY <3>1, <3>4, Zenon
  <2>3. CASE Head(format) = "*" /\ ~(Len(format) > 1 /\ format[2] = "s")
    <3>1. ReadyNow /\ ThisItem.conv \in {"star", "star_s"}
      BY <1>1, <2>3, CharacterRead, Zenon
    <3>2. Continues(format, ThisItem.conv, ThisRest)  BY <1>1, <3>1, ReadyRead, Zenon
    <3>3. ThisItem.conv = "star_s" => Len(format) > 1 /\ format[2] = "s"
      BY <3>2, Zenon DEF Continues
    <3> QED BY <2>3, <3>1, <3>3, Zenon
  <2> QED BY <1>1, <1>2, <2>1, <2>2, <2>3, Zenon
<1>4. ThisArgs = <<>> /\ format' = ThisRest
  <2>1. ThisItem.conv \in Single  BY <1>3, Zenon DEF Single
  <2> QED BY <1>1, <1>3, <2>1, ReadyRead, Zenon
<1>5. Meaning(ThisItem, <<>>) = ERROR  BY <1>3, MeaningBy, Zenon
<1>6. Takes[ThisItem.conv] = <<>>
  <2>1. ThisItem.conv = "dot" \/ ThisItem.conv = "star" \/ ThisItem.conv = "q"  BY <1>3, Zenon
  <2> QED BY <2>1, TakesAre
<1>7. pc \notin {"scan", "done"}  BY <1>1, SMT
<1> QED BY <1>1, <1>4, <1>5, <1>6, <1>7, ErrorTyped, PrintedOfNone, Zenon

(* "%s" and "%.*s" print the text to its terminator or to its size. *)
LEMMA TextStep ==
  ASSUME PrintfInv, Text
  PROVE  PrintfInv'
<1>1. PICK text \in Texts :
        /\ Holds(text, strlen(text)) /\ Take("text", text)
        /\ Printed(prints(SubSeq(text, 1, LengthOf(text))) \o Padding(LengthOf(text)))
  BY Zenon DEF Text
<1>2. pc = "again" /\ Head(format) = "s" /\ format' = Tail(format) /\ cStrlenSet # 2
  BY Zenon DEF Text, Reads
<1>3. pc \notin {"scan", "done"}  BY <1>2, SMT
<1>4. ThisItem.width \in Nat  BY <1>3, ReadingIs, Zenon
<1>5. /\ strlen(text) \in Nat /\ strlen(text) <= Len(text)
      /\ UpTo("NUL", text) = SubSeq(text, 1, strlen(text))
  BY TextIs, Zenon
<1> DEFINE n == LengthOf(text)
           t == SubSeq(text, 1, n)
           said == TextMeaning(ThisItem, t)
<1>6. ASSUME n \in Nat, n <= strlen(text), ulCount = ThisItem.width
      PROVE  said \in Seq(Characters) /\ Printed(said)
  <2>1. /\ said \in Seq(Characters)
        /\ prints(t) \o Spaces(IF ulCount > n THEN ulCount - n ELSE 0) = said
    BY <1>4, <1>6, TextMeans
  <2>2. prints(t) \o Padding(n) = said  BY <2>1 DEF Padding
  <2> QED BY <1>1, <2>1, <2>2
<1>7. CASE ReadyNow /\ ThisItem.conv = "s"
  <2>1. /\ ThisArgs = <<>> /\ ulCount = ThisItem.width /\ cStrlenSet = 0 /\ format' = ThisRest
    <3>1. "s" \in Single  BY SMT DEF Single
    <3> QED BY <1>2, <1>7, <3>1, ReadyRead, Zenon
  <2>2. n = strlen(text)
    <3>1. ~(cStrlenSet = 1)  BY <2>1, SMT
    <3> QED BY <3>1, Zenon DEF LengthOf
  <2>3. n \in Nat /\ n <= strlen(text)  BY <1>5, <2>2, SMT
  <2>4. said \in Seq(Characters) /\ Printed(said)  BY <1>6, <2>1, <2>3
  <2>5. UpTo("NUL", text) = t  BY <1>5, <2>2
  <2>6. \A args : args[1] = text => Meaning(ThisItem, args) = said
    BY <1>7, <2>5, MeaningBy, Zenon
  <2>7. Takes[ThisItem.conv] = <<"text">>  BY <1>7, TakesAre
  <2> HIDE DEF said
  <2> QED BY <1>1, <1>3, <2>1, <2>4, <2>6, <2>7, PrintedOfOne, Zenon
<1>8. CASE AtTextNow /\ ThisItem.conv \in {"dot_s", "star_s"}
  <2>1. /\ ThisArgs = <<[kind |-> "size", value |-> ulStrlen]>> /\ ulCount = ThisItem.width
        /\ cStrlenSet = (IF ThisItem.conv = "star_s" THEN 2 ELSE 1) /\ format' = ThisRest
    BY <1>2, <1>8, SizedRead, Zenon
  <2>2. ThisItem.conv = "dot_s" /\ cStrlenSet = 1
    <3>1. ThisItem.conv # "star_s"  BY <1>2, <2>1, Zenon
    <3> QED BY <1>8, <2>1, <3>1, Zenon
  <2>3. n = ulStrlen  BY <2>2, Zenon DEF LengthOf
  <2>4. n \in Nat /\ n <= strlen(text)
    <3>1. strlen(text) >= ulStrlen  BY <1>1, <2>2, Zenon DEF Holds
    <3>2. ulStrlen \in Nat  BY LocalsAre, Zenon
    <3> HIDE DEF n
    <3> QED BY <1>5, <2>3, <3>1, <3>2, SMT
  <2>5. said \in Seq(Characters) /\ Printed(said)  BY <1>6, <2>1, <2>4
  <2>6. \A args : args[1] = ulStrlen /\ args[2] = text => Meaning(ThisItem, args) = said
    <3>1. t = SubSeq(text, 1, ulStrlen)  BY <2>3
    <3> QED BY <2>2, <3>1, MeaningBy, Zenon
  <2>7. Takes[ThisItem.conv] = <<"size", "text">>  BY <2>2, TakesAre
  <2> HIDE DEF said
  <2> QED BY <1>1, <1>3, <2>1, <2>5, <2>6, <2>7, PrintedOfTwo, Zenon
<1> QED BY <1>2, <1>7, <1>8, CharacterRead, Zenon

(* "%h" and "%H", with a size or without, print the bytes of the text. *)
LEMMA DumpStep ==
  ASSUME PrintfInv,
         NEW c \in {"h", "H"}, NEW digits \in {g_pcHex, g_pcHex_cap},
         digits = (IF c = "H" THEN g_pcHex_cap ELSE g_pcHex), Dump(c, digits)
  PROVE  PrintfInv'
<1> DEFINE sized == IF c = "H" THEN "dot_H" ELSE "dot_h"
           Nibbles(t, n) == FlattenSeq([i \in 1..n |->
                <<digits[Ascii[t[i]] \div 16 + 1], digits[(Ascii[t[i]] % 16) + 1]>>])
<1>1. PICK text \in Texts :
        /\ Holds(text, Len(text)) /\ Take("text", text)
        /\ Printed(Nibbles(text, LengthOf(text)))
  BY Zenon DEF Dump
<1>2. pc = "again" /\ Head(format) = c /\ format' = Tail(format)  BY Zenon DEF Dump, Reads
<1>3. pc \notin {"scan", "done"}  BY <1>2, SMT
<1>5. /\ strlen(text) \in Nat /\ strlen(text) <= Len(text) /\ Len(text) \in Nat
      /\ UpTo("NUL", text) = SubSeq(text, 1, strlen(text))
  BY TextIs, LenProperties, Zenon
<1> DEFINE n == LengthOf(text)
           t == SubSeq(text, 1, n)
           said == DumpMeaning(t, digits)
<1>6. ASSUME n \in Nat, n <= Len(text)
      PROVE  said \in Seq(Characters) /\ Printed(said)
  <2>1. said \in Seq(Characters) /\ Nibbles(text, n) = said
    BY <1>6, DumpMeans
  <2> QED BY <1>1, <2>1
<1>7. (c = "h" /\ digits = g_pcHex /\ sized = "dot_h")
      \/ (c = "H" /\ digits = g_pcHex_cap /\ sized = "dot_H")
  <2>1. "h" # "H"  OBVIOUS
  <2> QED BY <2>1, Zenon
<1>8. CASE ReadyNow /\ ThisItem.conv = c
  <2>1. /\ ThisArgs = <<>> /\ cStrlenSet = 0 /\ format' = ThisRest
    <3>1. c \in Single  BY SMT DEF Single
    <3> QED BY <1>2, <1>8, <3>1, ReadyRead, Zenon
  <2>2. n = strlen(text)
    <3>1. ~(cStrlenSet = 1)  BY <2>1, SMT
    <3> QED BY <3>1, Zenon DEF LengthOf
  <2>3. n \in Nat /\ n <= Len(text)  BY <1>5, <2>2, SMT
  <2>4. said \in Seq(Characters) /\ Printed(said)  BY <1>6, <2>3
  <2>5. UpTo("NUL", text) = t  BY <1>5, <2>2
  <2>6. \A args : args[1] = text => Meaning(ThisItem, args) = said
    BY <1>7, <1>8, <2>5, MeaningBy, Zenon
  <2>7. Takes[ThisItem.conv] = <<"text">>  BY <1>8, TakesAre, Zenon
  <2> HIDE DEF said
  <2> QED BY <1>1, <1>3, <2>1, <2>4, <2>6, <2>7, PrintedOfOne, Zenon
<1>9. CASE AtTextNow /\ ThisItem.conv = sized
  <2>1. /\ ThisArgs = <<[kind |-> "size", value |-> ulStrlen]>>
        /\ cStrlenSet = (IF ThisItem.conv = "star_s" THEN 2 ELSE 1) /\ format' = ThisRest
    BY <1>2, <1>9, SizedRead, Zenon
  <2>2. cStrlenSet = 1
    <3>1. ThisItem.conv # "star_s"  BY <1>7, <1>9, Zenon
    <3> QED BY <2>1, <3>1, Zenon
  <2>3. n = ulStrlen  BY <2>2, Zenon DEF LengthOf
  <2>4. n \in Nat /\ n <= Len(text)
    <3>1. Len(text) >= ulStrlen  BY <1>1, <2>2, Zenon DEF Holds
    <3>2. ulStrlen \in Nat  BY LocalsAre, Zenon
    <3> HIDE DEF n
    <3> QED BY <1>5, <2>3, <3>1, <3>2, SMT
  <2>5. said \in Seq(Characters) /\ Printed(said)  BY <1>6, <2>4
  <2>6. \A args : args[1] = ulStrlen /\ args[2] = text => Meaning(ThisItem, args) = said
    <3>1. t = SubSeq(text, 1, ulStrlen)  BY <2>3
    <3> QED BY <1>7, <1>9, <3>1, MeaningBy, Zenon
  <2>7. Takes[ThisItem.conv] = <<"size", "text">>  BY <1>7, <1>9, TakesAre, Zenon
  <2> HIDE DEF said
  <2> QED BY <1>1, <1>3, <2>1, <2>5, <2>6, <2>7, PrintedOfTwo, Zenon
<1>10. (ReadyNow /\ ThisItem.conv = c) \/ (AtTextNow /\ ThisItem.conv = sized)
  <2>1. Head(format) = "h" \/ Head(format) = "H"  BY <1>2, Zenon
  <2> QED BY <1>2, <1>7, <2>1, CharacterRead, Zenon
<1> QED BY <1>8, <1>9, <1>10

(* "%*s" prints spaces for an empty text. *)
LEMMA StarTextStep ==
  ASSUME PrintfInv, StarText
  PROVE  PrintfInv'
<1>1. PICK text \in Texts :
        /\ Take("text", text)
        /\ Printed(IF strlen(text) = 0 THEN Spaces(ulStrlen + 1) \o Padding(ulIdx) ELSE ERROR)
  BY Zenon DEF StarText
<1>2. pc = "again" /\ Head(format) = "s" /\ format' = Tail(format) /\ cStrlenSet = 2
  BY Zenon DEF StarText, Reads
<1>3. pc \notin {"scan", "done"}  BY <1>2, SMT
<1>4. AtTextNow /\ ThisItem.conv = "star_s"
  <2>1. \/ ReadyNow /\ ThisItem.conv = "s"
        \/ AtTextNow /\ ThisItem.conv \in {"dot_s", "star_s"}
    BY <1>2, CharacterRead, Zenon
  <2>2. ~ReadyNow
    <3>1. ReadyNow => cStrlenSet = 0  BY <1>2, ReadyRead, Zenon
    <3> QED BY <1>2, <3>1, SMT
  <2>3. AtTextNow => cStrlenSet = (IF ThisItem.conv = "star_s" THEN 2 ELSE 1)
    BY <1>2, SizedRead, Zenon
  <2>4. ThisItem.conv # "dot_s"
    <3>1. ThisItem.conv = "dot_s" => cStrlenSet = 1  BY <2>1, <2>2, <2>3, Zenon
    <3> QED BY <1>2, <3>1, SMT
  <2> QED BY <2>1, <2>2, <2>4, Zenon
<1>5. /\ ThisArgs = <<[kind |-> "size", value |-> ulStrlen]>> /\ ulCount = ThisItem.width
      /\ format' = ThisRest
  BY <1>2, <1>4, SizedRead, Zenon
<1>6. ThisItem.width = 0  BY <1>3, <1>4, ReadingIs, Zenon
<1>7. ulIdx \in Nat /\ ulStrlen \in Nat  BY LocalsAre, Zenon
<1>8. Padding(ulIdx) = <<>>
  <2>1. ~(ulCount > ulIdx)  BY <1>5, <1>6, <1>7, SMT
  <2>2. Padding(ulIdx) = Spaces(0)  BY <2>1, Zenon DEF Padding
  <2>3. Spaces(0) = <<>>
    <3>1. 0 \in Int /\ 0 <= 0  BY SMT
    <3> QED BY <3>1, SpacesTyped, Zenon
  <2> QED BY <2>2, <2>3
<1> DEFINE said == IF strlen(text) = 0 THEN Spaces(ulStrlen + 1) ELSE ERROR
           s == Spaces(ulStrlen + 1)
<1>9. s \in Seq(Characters)
  <2>1. ulStrlen + 1 \in Int  BY <1>7, SMT
  <2> QED BY <2>1, SpacesTyped, Zenon
<1>10. s \o <<>> = s
  <2> HIDE DEF s
  <2> QED BY <1>9, SMT
<1>11. said \in Seq(Characters)  BY <1>9, ErrorTyped, Zenon
<1>12. Printed(said)
  <2>1. CASE strlen(text) = 0
    <3>1. Spaces(ulStrlen + 1) \o Padding(ulIdx) = said  BY <1>8, <1>10, <2>1
    <3> QED BY <1>1, <2>1, <3>1
  <2>2. CASE strlen(text) # 0  BY <1>1, <2>2
  <2> QED BY <2>1, <2>2
<1>13. \A args : args[1] = ulStrlen /\ args[2] = text => Meaning(ThisItem, args) = said
  BY <1>4, MeaningBy, Zenon
<1>14. Takes[ThisItem.conv] = <<"size", "text">>  BY <1>4, TakesAre
<1> HIDE DEF said
<1> QED BY <1>1, <1>3, <1>5, <1>11, <1>12, <1>13, <1>14, PrintedOfTwo, Zenon

(* A step inside a directive. *)
LEMMA StillReading ==
  ASSUME PrintfInv, pc \notin {"scan", "done"}, pc' \notin {"scan", "done"},
         UNCHANGED <<plan, out>>, given' \in Seq(Seq(Argument)), Len(given') = Len(given),
         \A i \in 1..(Len(given) - 1) : given'[i] = given[i],
         PrintfTypeOK', BufferHeld', pcBuf' \in Seq(Characters),
         pc' = "again" => /\ ulCap' = 0
                          /\ \/ InWidth(ThisItem, ThisArgs, ThisRest)'
                             \/ AtText(ThisItem, ThisArgs, ThisRest)',
         pc' # "again" => InNumber(ThisItem, ThisArgs, ThisRest)'
  PROVE  PrintfInv'
<1> DEFINE k == Len(given)
<1>1. /\ k \in 1..Len(plan) /\ k \in Nat
      /\ PastOf(plan, given, k - 1)
      /\ out = ServedOf(plan, given, k - 1) \o ThisItem.before
  BY ReadingIs, Zenon
<1>2. ThisItem' = ThisItem  BY DEF ThisItem
<1>3. k - 1 \in Nat /\ k >= 1  BY <1>1, SMT
<1>4. ServedOf(plan, given', k - 1) = ServedOf(plan, given, k - 1) /\ PastOf(plan, given', k - 1)
  BY <1>1, <1>3, ServedSame, Zenon
<1>5. Len(given') >= 1 /\ PastOf(plan', given', Len(given') - 1)  BY <1>3, <1>4
<1>6. out' = ServedOf(plan', given', Len(given') - 1) \o ThisItem'.before
  <2>1. ServedOf(plan', given', Len(given') - 1) = ServedOf(plan, given, k - 1)  BY <1>4
  <2> QED BY <1>1, <1>2, <2>1
<1>7. Reading'  BY <1>5, <1>6, Zenon DEF Reading
<1>8. GivenOK'
  <2>1. GivenOK  BY Zenon DEF PrintfInv
  <2> QED BY <2>1, Zenon DEF GivenOK
<1> QED BY <1>7, <1>8, Zenon DEF PrintfInv

(* The directive is the same while no argument list is added. *)
LEMMA ThisStays ==
  ASSUME UNCHANGED plan, Len(given') = Len(given)
  PROVE  ThisItem' = ThisItem /\ ThisRest' = ThisRest /\ ThisArgs' = given'[Len(given)]
BY DEF ThisItem, ThisRest, ThisArgs

(* One digit more of the width, which is no more than the width.           *)
LEMMA WidthDigit ==
  ASSUME NEW item \in Items, NEW c \in Decimal, NEW r \in Seq(Decimal), ulCount \in Nat,
         ReadAndNext(item, c, r)
  PROVE  LET u == ulCount * 10 + DigitValue(c)
         IN  /\ u \in Nat /\ u # 0 /\ u <= item.width
             /\ WidthText(item) = Numeral(u, 10, g_pcHex) \o r
             /\ ulCount = 0 => c # "0"
<1> DEFINE N(n) == Numeral(n, 10, g_pcHex)
           w == item.width
           d == DigitValue(c)
           u == ulCount * 10 + d
<1>1. w \in Nat  BY ItemParts, Zenon
<1>2. d \in 0..9 /\ g_pcHex[d + 1] = c /\ (c = "0" <=> d = 0)  BY DecimalHasValue, Zenon
<1>3. \A n \in Nat : N(n) \in Seq(Decimal) /\ Len(N(n)) >= 1  BY NumeralOfDigits, Zenon
<1>4. WidthText(item) = IF w = 0 THEN <<>> ELSE N(w)  BY Zenon DEF WidthText
<1>5. u \in Nat  BY <1>2, SMT
<1> HIDE DEF w, d
<1>6. ASSUME WidthText(item) = N(u) \o r
      PROVE  u <= w
  <2> DEFINE a == N(u)
             b == WidthText(item)
  <2>1. a \in Seq(Decimal) /\ Len(a) >= 1 /\ b = a \o r  BY <1>3, <1>5, <1>6
  <2>2. b # <<>>
    <3> HIDE DEF a, b
    <3> QED BY <2>1, SMT
  <2>3. b = N(w)  BY <1>4, <2>2
  <2>4. N(w) = N(u) \o r  BY <1>6, <2>3
  <2>5. 10 \in Bases  BY SMT DEF Bases
  <2> HIDE DEF u
  <2> QED BY <1>1, <1>5, <2>4, <2>5, DecimalDigits, PrefixNotGreater, Zenon
<1>7. CASE ulCount = 0 /\ WidthText(item) = <<c>> \o r
  <2> DEFINE cr == <<c>> \o r
  <2>1. cr # <<>> /\ Head(cr) = c  BY PutInFront
  <2>2. w # 0 /\ N(w) = cr
    <3>1. WidthText(item) = cr  BY <1>7
    <3> HIDE DEF cr
    <3> QED BY <1>4, <2>1, <3>1
  <2>3. PICK e \in 1..9, t \in Seq(Decimal) : N(w) = N(e) \o t
    BY <1>1, <2>2, FirstDigit
  <2>4. e \in 0..9 /\ e # 0  BY SMT
  <2>5. N(e) = <<g_pcHex[e + 1]>> /\ g_pcHex[e + 1] \in Decimal /\ DigitValue(g_pcHex[e + 1]) = e
    BY <2>4, NumeralOfDigits, DigitValueOf, Zenon
  <2> DEFINE f == g_pcHex[e + 1]
             ft == <<f>> \o t
  <2>6. f \in Decimal /\ Head(ft) = f
    <3>1. f \in Decimal  BY <2>5
    <3> HIDE DEF f
    <3> QED BY <3>1, PutInFront
  <2>7. cr = ft  BY <2>2, <2>3, <2>5
  <2>8. c = f
    <3> HIDE DEF cr, ft, f
    <3> QED BY <2>1, <2>6, <2>7
  <2>9. d = e /\ c # "0"
    <3>1. d = e  BY <2>5, <2>8 DEF d
    <3> QED BY <1>2, <2>4, <3>1
  <2>10. u = d  BY <1>2, <1>7, SMT
  <2>11. N(u) = <<c>>  BY <2>5, <2>8, <2>9, <2>10
  <2>12. WidthText(item) = N(u) \o r  BY <1>7, <2>11
  <2>13. u # 0  BY <2>4, <2>9, <2>10
  <2> QED BY <1>5, <1>6, <2>9, <2>12, <2>13 DEF w, d
<1>8. CASE ulCount # 0 /\ WidthText(item) = N(ulCount) \o (<<c>> \o r)
  <2>1. N(u) = Append(N(ulCount), c)
    <3>1. d \in 0..9 /\ g_pcHex[d + 1] = c  BY <1>2
    <3>2. N(ulCount * 10 + d) = Append(N(ulCount), g_pcHex[d + 1])
      BY <1>8, <3>1, NumeralOfDigits, Zenon
    <3> QED BY <3>1, <3>2
  <2> DEFINE a == N(ulCount)
  <2>2. a \in Seq(Decimal)  BY <1>3
  <2> HIDE DEF a
  <2>3. Append(a, c) \o r = a \o (<<c>> \o r)
    <3> DEFINE b == <<c>>
    <3>1. Append(a, c) = a \o b  BY <2>2, SMT
    <3>2. b \in Seq(Decimal)  BY SMT
    <3> HIDE DEF b
    <3>3. (a \o b) \o r = a \o (b \o r)  BY <2>2, <3>2, SMT
    <3> QED BY <3>1, <3>3 DEF b
  <2>4. WidthText(item) = N(u) \o r  BY <1>8, <2>1, <2>3 DEF a
  <2>5. u # 0  BY <1>2, <1>8, SMT
  <2> QED BY <1>5, <1>6, <1>8, <2>4, <2>5 DEF w, d
<1> QED BY <1>7, <1>8, Zenon DEF ReadAndNext

(* In the width, after a step that leaves r of it.                         *)
LEMMA InWidthNext ==
  ASSUME UNCHANGED <<plan, given>>, ThisArgs = <<>>, NEW r \in Seq(Decimal),
         format' = r \o (Spelled[ThisItem.conv] \o ThisRest),
         \/ ulCount' = 0 /\ r = WidthText(ThisItem)
         \/ ulCount' # 0 /\ WidthText(ThisItem) = Numeral(ulCount', 10, g_pcHex) \o r,
         ulCount' <= ThisItem.width, cFill' = FillOf(ThisItem), cStrlenSet' = 0
  PROVE  InWidth(ThisItem, ThisArgs, ThisRest)'
<1>1. ThisItem' = ThisItem /\ ThisRest' = ThisRest /\ ThisArgs' = ThisArgs
  BY DEF ThisItem, ThisRest, ThisArgs
<1>2. ThisArgs' = <<>>  BY <1>1
<1> DEFINE behind == Spelled[ThisItem.conv] \o ThisRest
           n == Numeral(ulCount', 10, g_pcHex)
           w == WidthText(ThisItem)
<1>3. /\ format' = r \o behind
      /\ (ulCount' = 0 /\ r = w) \/ (ulCount' # 0 /\ w = n \o r)
  OBVIOUS
<1>4. behind = Spelled[ThisItem'.conv] \o ThisRest' /\ w = WidthText(ThisItem')
  BY <1>1
<1> HIDE DEF behind, w
<1>5. \E s \in Seq(Decimal) :
        /\ format' = s \o behind
        /\ (ulCount' = 0 /\ s = w) \/ (ulCount' # 0 /\ w = n \o s)
  BY <1>3, Zenon
<1>6. ulCount' <= ThisItem'.width /\ cFill' = FillOf(ThisItem')  BY <1>1
<1> QED BY <1>2, <1>4, <1>5, <1>6, Zenon DEF InWidth

(* At the last character of a directive, after a step that takes its size. *)
LEMMA AtTextNext ==
  ASSUME UNCHANGED plan, Len(given') = Len(given), NEW n \in Sizes,
         given'[Len(given)] = Append(ThisArgs, ArgumentOf("size", n)), ThisArgs = <<>>,
         ulStrlen' = n, ThisItem.conv \in DOMAIN SizedTexts,
         format' = <<SizedTexts[ThisItem.conv]>> \o ThisRest,
         ulCount' = ThisItem.width,
         cStrlenSet' = (IF ThisItem.conv = "star_s" THEN 2 ELSE 1)
  PROVE  AtText(ThisItem, ThisArgs, ThisRest)'
<1>1. ThisItem' = ThisItem /\ ThisRest' = ThisRest /\ ThisArgs' = given'[Len(given)]
  BY ThisStays, Zenon
<1> DEFINE a == ArgumentOf("size", n)
<1>2. Append(<<>>, a) = <<a>>
  <2> HIDE DEF a
  <2> QED BY SMT
<1>3. ThisArgs' = <<a>>  BY <1>1, <1>2
<1>4. a = [kind |-> "size", value |-> ulStrlen']  BY DEF ArgumentOf
<1>5. ThisArgs' = <<[kind |-> "size", value |-> ulStrlen']>>  BY <1>3, <1>4
<1>6. format' = <<SizedTexts[ThisItem'.conv]>> \o ThisRest'  BY <1>1
<1> QED BY <1>1, <1>5, <1>6, Zenon DEF AtText

(* A digit is a "0" flag or the next digit of the width. *)
LEMMA DigitStep ==
  ASSUME PrintfInv, NEW c \in Decimal, Digit(c)
  PROVE  PrintfInv'
<1>1. /\ pc = "again" /\ Head(format) = c /\ format' = Tail(format)
      /\ cFill' = (IF c = "0" /\ ulCount = 0 THEN "0" ELSE cFill)
      /\ ulCount' = (ulCount * 10 + DigitValue(c)) % ULONG
      /\ UNCHANGED <<plan, given, pc, out, numberLocals, textLocals, ulCap>>
  BY Zenon DEF Digit, Reads
<1>2. pc \notin {"scan", "done"} /\ pc' \notin {"scan", "done"}  BY <1>1, SMT
<1>3. /\ ThisItem \in Items /\ ThisRest \in Seq(Characters)
      /\ ThisItem.width \in Nat /\ ThisItem.width < ULONG /\ ulCap = 0
  BY <1>1, <1>2, ReadingIs, Zenon
<1>4. ulCount \in Nat /\ ULONG \in Nat /\ ULONG # 0
  BY LocalsAre, SMT DEF USHORT
<1> DEFINE u == ulCount * 10 + DigitValue(c)
<1>5. ASSUME NEW r \in Seq(Decimal), Tail(format) = r \o (Spelled[ThisItem.conv] \o ThisRest),
             ThisArgs = <<>>, cStrlenSet = 0, u \in Nat, u <= ThisItem.width,
             \/ u = 0 /\ r = WidthText(ThisItem)
             \/ u # 0 /\ WidthText(ThisItem) = Numeral(u, 10, g_pcHex) \o r,
             cFill' = FillOf(ThisItem)
      PROVE  PrintfInv'
  <2>1. ulCount' = u
    <3>1. ulCount' = u % ULONG  BY <1>1
    <3>2. u < ULONG /\ u \in Nat  BY <1>3, <1>4, <1>5, SMT
    <3> HIDE DEF u
    <3>3. u % ULONG = u  BY <1>4, <3>2, SMT
    <3> QED BY <3>1, <3>3
  <2>2. cStrlenSet' = 0  BY <1>1, <1>5, Zenon DEF textLocals
  <2> HIDE DEF u
  <2>3. InWidth(ThisItem, ThisArgs, ThisRest)'
    BY <1>1, <1>5, <2>1, <2>2, InWidthNext
  <2>4. PrintfTypeOK /\ BufferHeld /\ pcBuf \in Seq(Characters)  BY Zenon DEF PrintfInv
  <2>5. ulCount' \in 0..(ULONG - 1)  BY <1>3, <1>4, <1>5, <2>1, SMT
  <2>6. cFill' \in {" ", "0"}  BY <1>5, Zenon DEF FillOf
  <2>7. PrintfTypeOK'
    BY <1>1, <2>4, <2>5, <2>6, Zenon DEF PrintfTypeOK, numberLocals, textLocals
  <2>8. BufferHeld' /\ pcBuf' \in Seq(Characters) /\ ulCap' = 0
    BY <1>1, <1>3, <2>4, Zenon DEF BufferHeld, numberLocals
  <2>9. given' \in Seq(Seq(Argument)) /\ given' = given /\ Len(given') = Len(given)
    BY <1>1, Zenon DEF PrintfInv, GivenOK
  <2>10. pc' = "again"  BY <1>1
  <2> QED BY <1>1, <1>2, <2>3, <2>7, <2>8, <2>9, <2>10, StillReading, Zenon
<1>6. CASE AtFlag(ThisItem, ThisArgs, ThisRest) /\ ThisItem.flag = "0" /\ c = "0"
  <2>1. ThisArgs = <<>> /\ ulCount = 0 /\ cStrlenSet = 0  BY <1>6, Zenon DEF AtFlag
  <2>2. Tail(format) = WidthText(ThisItem) \o (Spelled[ThisItem.conv] \o ThisRest)
    BY <1>3, <1>6, FlagRead, Zenon
  <2>3. u = 0
    <3>1. DigitValue(c) = 0  BY <1>6, DecimalHasValue, Zenon
    <3> QED BY <2>1, <3>1, SMT
  <2>4. WidthText(ThisItem) \in Seq(Decimal)  BY <1>3, ItemParts, Zenon
  <2>5. cFill' = FillOf(ThisItem)  BY <1>1, <1>6, <2>1, Zenon DEF FillOf
  <2>6. u \in Nat /\ u <= ThisItem.width  BY <1>3, <2>3, SMT
  <2> HIDE DEF u
  <2> QED BY <1>5, <2>1, <2>2, <2>3, <2>4, <2>5, <2>6
<1>7. CASE NextDigit(ThisItem, ThisArgs, ThisRest, c)
  <2>1. ThisArgs = <<>> /\ cStrlenSet = 0 /\ cFill = FillOf(ThisItem)
    BY <1>7, Zenon DEF NextDigit
  <2>2. PICK r \in Seq(Decimal) :
          /\ Tail(format) = r \o (Spelled[ThisItem.conv] \o ThisRest)
          /\ ReadAndNext(ThisItem, c, r)
    BY <1>3, <1>7, DigitRead, Zenon
  <2>3. /\ u \in Nat /\ u # 0 /\ u <= ThisItem.width
        /\ WidthText(ThisItem) = Numeral(u, 10, g_pcHex) \o r
        /\ ulCount = 0 => c # "0"
    BY <1>3, <1>4, <2>2, WidthDigit
  <2>4. cFill' = FillOf(ThisItem)  BY <1>1, <2>1, <2>3, Zenon
  <2> HIDE DEF u
  <2> QED BY <1>5, <2>1, <2>2, <2>3, <2>4
<1> QED BY <1>1, <1>6, <1>7, CharacterRead, Zenon

(* A "-" is a flag, which changes nothing. *)
LEMMA MinusStep ==
  ASSUME PrintfInv, Minus
  PROVE  PrintfInv'
<1>1. /\ pc = "again" /\ Head(format) = "-" /\ format' = Tail(format) /\ cStrlenSet' = 0
      /\ UNCHANGED <<plan, given, pc, out, numberLocals, ulStrlen, flagLocals>>
  BY Zenon DEF Minus, Reads
<1>2. pc \notin {"scan", "done"} /\ pc' \notin {"scan", "done"}  BY <1>1, SMT
<1>3. /\ ThisItem \in Items /\ ThisRest \in Seq(Characters)
      /\ ThisItem.width \in Nat /\ ulCap = 0
  BY <1>1, <1>2, ReadingIs, Zenon
<1>4. AtFlag(ThisItem, ThisArgs, ThisRest) /\ ThisItem.flag = "-"
  BY <1>1, CharacterRead, Zenon
<1>5. ThisArgs = <<>> /\ ulCount = 0 /\ cFill = " "  BY <1>4, Zenon DEF AtFlag
<1>6. Tail(format) = WidthText(ThisItem) \o (Spelled[ThisItem.conv] \o ThisRest)
  BY <1>3, <1>4, FlagRead, Zenon
<1>7. WidthText(ThisItem) \in Seq(Decimal)  BY <1>3, ItemParts, Zenon
<1>8. cFill' = FillOf(ThisItem)
  <2>1. ThisItem.flag # "0"  BY <1>4, SMT
  <2> QED BY <1>1, <1>5, <2>1, Zenon DEF FillOf, flagLocals
<1>9. ulCount' = 0 /\ ulCap' = 0  BY <1>1, <1>3, <1>5, Zenon DEF flagLocals
<1>10. ulCount' <= ThisItem.width  BY <1>3, <1>9, SMT
<1>11. InWidth(ThisItem, ThisArgs, ThisRest)'
  BY <1>1, <1>5, <1>6, <1>7, <1>8, <1>9, <1>10, InWidthNext
<1>12. PrintfTypeOK /\ BufferHeld /\ pcBuf \in Seq(Characters)  BY Zenon DEF PrintfInv
<1>13. PrintfTypeOK'
  BY <1>1, <1>12, Zenon DEF PrintfTypeOK, numberLocals, flagLocals
<1>14. BufferHeld' /\ pcBuf' \in Seq(Characters)
  BY <1>1, <1>12, Zenon DEF BufferHeld, numberLocals
<1>15. given' \in Seq(Seq(Argument)) /\ given' = given /\ Len(given') = Len(given)
  BY <1>1, Zenon DEF PrintfInv, GivenOK
<1>16. pc' = "again"  BY <1>1
<1> QED BY <1>1, <1>2, <1>9, <1>11, <1>13, <1>14, <1>15, <1>16, StillReading, Zenon

(* The size that ".*" or "*" takes; the last character is left to be read. *)
LEMMA SizeTaken ==
  ASSUME PrintfInv, pc = "again", ReadyNow, ThisItem.conv \in DOMAIN SizedTexts,
         UNCHANGED <<plan, pc, out, numberLocals, flagLocals>>,
         NEW n \in Sizes, ulStrlen' = n, Take("size", n),
         format' = <<SizedTexts[ThisItem.conv]>> \o ThisRest,
         cStrlenSet' = (IF ThisItem.conv = "star_s" THEN 2 ELSE 1)
  PROVE  PrintfInv'
<1>1. pc \notin {"scan", "done"} /\ pc' \notin {"scan", "done"} /\ pc' = "again"  BY SMT
<1>2. ThisArgs = <<>> /\ ulCount = ThisItem.width  BY ReadyRead, Zenon
<1>3. ulCount' = ThisItem.width /\ ulCap' = 0
  BY <1>1, <1>2, ReadingIs, Zenon DEF flagLocals
<1>4. /\ given' \in Seq(Seq(Argument)) /\ Len(given') = Len(given)
      /\ \A i \in 1..(Len(given) - 1) : given'[i] = given[i]
      /\ given'[Len(given)] = Append(ThisArgs, ArgumentOf("size", n))
  BY <1>1, TakeIs, Zenon
<1>5. AtText(ThisItem, ThisArgs, ThisRest)'
  BY <1>2, <1>3, <1>4, AtTextNext, Zenon
<1>6. PrintfTypeOK /\ BufferHeld /\ pcBuf \in Seq(Characters)  BY Zenon DEF PrintfInv
<1>7. ulStrlen' \in 0..(ULONG - 1)  BY PrintfAssumption, Zenon
<1>8. cStrlenSet' \in {0, 1, 2}  BY Zenon
<1>9. PrintfTypeOK'
  BY <1>6, <1>7, <1>8, Zenon DEF PrintfTypeOK, numberLocals, flagLocals
<1>10. BufferHeld' /\ pcBuf' \in Seq(Characters)
  BY <1>6, Zenon DEF BufferHeld, numberLocals
<1> QED BY <1>1, <1>3, <1>4, <1>5, <1>9, <1>10, StillReading, Zenon

(* ".*" takes the size of a text. *)
LEMMA DotStep ==
  ASSUME PrintfInv, Dot
  PROVE  PrintfInv'
<1>1. /\ pc = "again" /\ Len(format) > 2 /\ format[1] = "."
      /\ format[2] = "*" /\ format' = SubSeq(format, 3, Len(format))
      /\ cStrlenSet' = 1
      /\ UNCHANGED <<plan, pc, out, numberLocals, flagLocals>>
  BY Zenon DEF Dot
<1>2. PICK n \in Sizes : ulStrlen' = n /\ Take("size", n)  BY Zenon DEF Dot
<1>3. pc \notin {"scan", "done"}  BY <1>1, SMT
<1>4. ReadyNow /\ ThisItem.conv \in {"dot", "dot_s", "dot_h", "dot_H"}
  BY <1>1, CharacterRead, Zenon
<1>5. Continues(format, ThisItem.conv, ThisRest)  BY <1>1, <1>4, ReadyRead, Zenon
<1>6. ThisItem.conv # "dot"
  <2>1. ThisItem.conv = "dot" => Head(ThisRest) # "*" /\ ThisRest # <<>>
    BY <1>3, ReadingIs, Zenon
  <2>2. ThisItem.conv = "dot" => ThisItem.conv \in Single  BY Zenon DEF Single
  <2>3. ThisItem.conv = "dot" => format[2] = Head(ThisRest)
    BY <1>5, <2>1, <2>2, Zenon DEF Continues
  <2> QED BY <1>1, <2>1, <2>3, Zenon
<1>7. ThisItem.conv \in {"dot_s", "dot_h", "dot_H"}  BY <1>4, <1>6, Zenon
<1>8. format' = <<SizedTexts[ThisItem.conv]>> \o ThisRest
  <2>1. SubSeq(format, 3, Len(format)) = <<SizedTexts[ThisItem.conv]>> \o ThisRest
    BY <1>5, <1>7, Zenon DEF Continues
  <2> QED BY <1>1, <2>1
<1>9. ThisItem.conv \in DOMAIN SizedTexts  BY <1>7, SizedTextsAre, Zenon
<1>10. cStrlenSet' = (IF ThisItem.conv = "star_s" THEN 2 ELSE 1)
  <2>1. ThisItem.conv # "star_s"  BY <1>7, SMT
  <2> QED BY <1>1, <2>1, Zenon
<1> QED BY <1>1, <1>2, <1>4, <1>8, <1>9, <1>10, SizeTaken, Zenon

(* "*" takes the number of spaces. *)
LEMMA StarStep ==
  ASSUME PrintfInv, Star
  PROVE  PrintfInv'
<1>1. /\ pc = "again" /\ Head(format) = "*" /\ format[2] = "s" /\ format' = Tail(format)
      /\ cStrlenSet' = 2
      /\ UNCHANGED <<plan, pc, out, numberLocals, flagLocals>>
  BY Zenon DEF Star, Reads
<1>2. PICK n \in Sizes : ulStrlen' = n /\ Take("size", n)  BY Zenon DEF Star
<1>3. pc \notin {"scan", "done"}  BY <1>1, SMT
<1>4. ReadyNow /\ ThisItem.conv \in {"star", "star_s"}  BY <1>1, CharacterRead, Zenon
<1>5. Continues(format, ThisItem.conv, ThisRest)  BY <1>1, <1>4, ReadyRead, Zenon
<1>6. ThisItem.conv # "star"
  <2>1. ThisItem.conv = "star" => Head(ThisRest) # "s" /\ ThisRest # <<>>
    BY <1>3, ReadingIs, Zenon
  <2>2. ThisItem.conv = "star" => ThisItem.conv \in Single  BY Zenon DEF Single
  <2>3. ThisItem.conv = "star" => format[2] = Head(ThisRest)
    BY <1>5, <2>1, <2>2, Zenon DEF Continues
  <2> QED BY <1>1, <2>1, <2>3, Zenon
<1>7. ThisItem.conv = "star_s"  BY <1>4, <1>6, Zenon
<1>8. format' = <<SizedTexts[ThisItem.conv]>> \o ThisRest
  <2>1. Tail(format) = <<"s">> \o ThisRest  BY <1>5, <1>7, Zenon DEF Continues
  <2>2. SizedTexts[ThisItem.conv] = "s"  BY <1>7, SizedTextsAre
  <2> QED BY <1>1, <2>1, <2>2
<1>9. ThisItem.conv \in DOMAIN SizedTexts  BY <1>7, SizedTextsAre, Zenon
<1>10. cStrlenSet' = (IF ThisItem.conv = "star_s" THEN 2 ELSE 1)  BY <1>1, <1>7, Zenon
<1> QED BY <1>1, <1>2, <1>4, <1>8, <1>9, <1>10, SizeTaken, Zenon

(* A number is taken. *)
LEMMA NumberTaken ==
  ASSUME PrintfInv, NEW c, NEW base, NEW cap, Number(c, base, cap), ReadyNow,
         ThisItem.conv \in NumberConversions, base = BaseOf(ThisItem),
         cap = (IF ThisItem.conv = "X" THEN 1 ELSE 0), c = "d" <=> ThisItem.conv = "d"
  PROVE  PrintfInv'
<1>1. /\ pc = "again" /\ format' = Tail(format)
      /\ ulIdx' = 1 /\ ulBase' = base /\ ulCap' = cap /\ pcBuf' = <<>> /\ pc' = "convert"
      /\ UNCHANGED <<plan, out, textLocals, ulCount, cFill>>
  BY Zenon DEF Number, Reads
<1>2. PICK n \in Numbers :
        /\ Take("number", n)
        /\ ulNeg' = (c = "d" /\ n >= ULONG \div 2)
        /\ ulValue' = IF ulNeg' THEN (-n) % ULONG ELSE n
  BY Zenon DEF Number
<1>3. pc \notin {"scan", "done"} /\ pc' \notin {"scan", "done"}  BY <1>1, SMT
<1> DEFINE v == Magnitude(ThisItem, n)
           Num(m) == NumeralOfNumber(ThisItem, m)
<1>4. n \in 0..(ULONG - 1)  BY PrintfAssumption, Zenon
<1>5. ulNeg' = Negative(ThisItem, n)  BY <1>2, Zenon DEF Negative
<1>6. ulValue' = v /\ v \in 0..(ULONG - 1)
  <2>1. v \in 0..(ULONG - 1) /\ (Negative(ThisItem, n) => (-n) % ULONG = v)
    BY <1>4, Magnitudes, Zenon
  <2>2. ~Negative(ThisItem, n) => v = n  BY Zenon DEF Magnitude
  <2> QED BY <1>2, <1>5, <2>1, <2>2, Zenon
<1>7. /\ given' \in Seq(Seq(Argument)) /\ Len(given') = Len(given)
      /\ \A i \in 1..(Len(given) - 1) : given'[i] = given[i]
      /\ given'[Len(given)] = Append(ThisArgs, ArgumentOf("number", n))
  BY <1>2, <1>3, TakeIs, Zenon
<1>8. ThisArgs = <<>> /\ ulCount = ThisItem.width /\ cFill = FillOf(ThisItem)
  BY <1>1, ReadyRead, Zenon
<1>9. format' = ThisRest
  <2>1. ThisItem.conv \in Single  BY Zenon DEF Single, NumberConversions
  <2> QED BY <1>1, <2>1, ReadyRead, Zenon
<1>10. ThisItem' = ThisItem /\ ThisRest' = ThisRest /\ ThisArgs' = given'[Len(given)]
  BY <1>1, <1>7, ThisStays, Zenon
<1>11. ThisArgs' = <<[kind |-> "number", value |-> n]>>
  <2> DEFINE a == ArgumentOf("number", n)
  <2>1. a = [kind |-> "number", value |-> n]  BY DEF ArgumentOf
  <2>2. ThisArgs' = Append(<<>>, a)  BY <1>7, <1>8, <1>10
  <2> HIDE DEF a
  <2>3. Append(<<>>, a) = <<a>>  BY SMT
  <2> QED BY <2>1, <2>2, <2>3
<1>12. base \in Bases /\ 1 \in PowersOf(base)
  <2>1. base \in Bases  BY BaseAndDigits, Zenon
  <2>2. base = 10 => 1 \in PowersOf(base)  BY SMT DEF PowersOf, Powers
  <2>3. base = 16 => 1 \in PowersOf(base)  BY SMT DEF PowersOf, HexPowers
  <2> QED BY <2>1, <2>2, <2>3, SMT DEF Bases
<1>13. OfNumber(ThisItem, n)'
  <2>1. 1 <= 1  BY SMT
  <2>2. cFill' = FillOf(ThisItem)  BY <1>1, <1>8
  <2> QED BY <1>1, <1>6, <1>10, <1>12, <2>1, <2>2, Zenon DEF OfNumber
<1>14. Scaling(ThisItem, n)'
  <2>1. v \in Nat /\ v \div 1 = v
    <3>1. ULONG \in Nat  BY LocalsAre, Zenon
    <3> HIDE DEF v
    <3> QED BY <1>6, <3>1, SMT
  <2>2. Len(Num(v)) \in Nat  BY <2>1, NumeralOfNumberTyped, Zenon
  <2> DEFINE l == Len(Num(v))
             w == ThisItem.width
  <2>3. w \in Nat  BY <1>3, ReadingIs, Zenon
  <2> HIDE DEF l, w
  <2>4. l = 0 + l /\ 0 <= w /\ w - 0 = w /\ 0 \in 0..9
    <3>1. l \in Nat  BY <2>2 DEF l
    <3> QED BY <2>3, <3>1, SMT
  <2> DEFINE u == ulValue'
             x == ulIdx'
  <2>5. Len(Num(u)) = 0 + Len(Num(u \div x))
    <3>1. u = v /\ u \div x = v  BY <1>1, <1>6, <2>1
    <3> QED BY <2>4, <3>1 DEF l
  <2>6. ulCount' = IF 0 <= w THEN w - 0 ELSE ULONG + w - 0
    <3>1. ulCount' = w  BY <1>1, <1>8 DEF w
    <3> QED BY <2>4, <3>1
  <2>7. \E j \in 0..9 : /\ Len(Num(u)) = j + Len(Num(u \div x))
                        /\ ulCount' = IF j <= w THEN w - j ELSE ULONG + w - j
    BY <2>4, <2>5, <2>6
  <2>8. pc' \in {"convert", "pad"} /\ pc' # "pad" /\ ulIdx' # 0  BY <1>1, SMT
  <2> HIDE DEF u, x
  <2> QED BY <1>1, <1>5, <1>10, <2>7, <2>8, Zenon DEF Scaling, u, x, w
<1>15. InNumber(ThisItem, ThisArgs, ThisRest)'
  BY <1>9, <1>10, <1>11, <1>13, <1>14, Zenon DEF InNumber
<1>16. PrintfTypeOK  BY Zenon DEF PrintfInv
<1>17. PrintfTypeOK'
  <2>1. 1 \in 0..(ULONG - 1)
    <3>1. ULONG \in Nat /\ ULONG >= USHORT  BY LocalsAre
    <3> QED BY <3>1, SMT DEF USHORT
  <2>2. ulNeg' \in BOOLEAN  BY <1>2, Zenon
  <2>3. cap \in {0, 1} /\ base \in {10, 16}
    <3>1. cap \in {0, 1}  BY Zenon
    <3>2. base \in {10, 16}  BY <1>12 DEF Bases
    <3> QED BY <3>1, <3>2
  <2>4. ulValue' \in 0..(ULONG - 1)  BY <1>6
  <2> DEFINE B == {10, 16}
  <2> HIDE DEF v
  <2>5. /\ pc' \in {"scan", "again", "convert", "pad", "digits", "done"}
        /\ ulIdx' \in 0..(ULONG - 1) /\ ulBase' \in {10, 16} /\ ulCap' \in {0, 1}
    BY <1>1, <2>1, <2>3
  <2>6. ulCount' = ulCount /\ ulStrlen' = ulStrlen /\ cFill' = cFill /\ cStrlenSet' = cStrlenSet
    BY <1>1, Zenon DEF textLocals
  <2> QED BY <1>16, <2>2, <2>4, <2>5, <2>6, Zenon DEF PrintfTypeOK
<1>18. BufferHeld' /\ pcBuf' \in Seq(Characters)
  <2>1. <<>> \in Seq(Characters)  BY EmptySeq, Zenon
  <2>2. Len(pcBuf') <= PcBufSize
    <3>1. Len(<<>>) = 0 /\ 0 <= 16  BY SMT
    <3> QED BY <1>1, <3>1 DEF PcBufSize
  <2> QED BY <1>1, <2>1, <2>2 DEF BufferHeld
<1>19. pc' # "again"  BY <1>1, SMT
<1> QED BY <1>1, <1>3, <1>7, <1>15, <1>17, <1>18, <1>19, StillReading, Zenon

(* Each number directive takes its number with the base and case of its     *)
(* conversion.                                                              *)
LEMMA NumberStep ==
  ASSUME PrintfInv, NumberDirective
  PROVE  PrintfInv'
<1>1. \A c, base, cap : Number(c, base, cap) => pc = "again" /\ Head(format) = c
  BY Zenon DEF Number, Reads
<1>2. pc = "again" => ulCap = 0
  <2>1. pc = "again" => pc \notin {"scan", "done"}  BY SMT
  <2> QED BY <2>1, ReadingIs, Zenon
<1>3. CASE Number("d", 10, ulCap)
  <2>1. pc = "again" /\ ReadyNow /\ ThisItem.conv = "d"  BY <1>1, <1>3, CharacterRead, Zenon
  <2>2. /\ ThisItem.conv \in NumberConversions /\ ThisItem.conv \notin {"x", "X", "p"}
        /\ ThisItem.conv # "X"
    BY <2>1, SMT DEF NumberConversions
  <2>3. 10 = BaseOf(ThisItem) /\ ulCap = (IF ThisItem.conv = "X" THEN 1 ELSE 0)
    BY <1>2, <2>1, <2>2, Zenon DEF BaseOf
  <2> QED BY <1>3, <2>1, <2>2, <2>3, NumberTaken, Zenon
<1>4. CASE Number("u", 10, ulCap)
  <2>1. pc = "again" /\ ReadyNow /\ ThisItem.conv = "u"  BY <1>1, <1>4, CharacterRead, Zenon
  <2>2. /\ ThisItem.conv \in NumberConversions /\ ThisItem.conv \notin {"x", "X", "p"}
        /\ ThisItem.conv # "X" /\ ThisItem.conv # "d" /\ "u" # "d"
    BY <2>1, SMT DEF NumberConversions
  <2>3. 10 = BaseOf(ThisItem) /\ ulCap = (IF ThisItem.conv = "X" THEN 1 ELSE 0)
    BY <1>2, <2>1, <2>2, Zenon DEF BaseOf
  <2> QED BY <1>4, <2>1, <2>2, <2>3, NumberTaken, Zenon
<1>5. CASE Number("x", 16, ulCap)
  <2>1. pc = "again" /\ ReadyNow /\ ThisItem.conv = "x"  BY <1>1, <1>5, CharacterRead, Zenon
  <2>2. /\ ThisItem.conv \in NumberConversions /\ ThisItem.conv \in {"x", "X", "p"}
        /\ ThisItem.conv # "X" /\ ThisItem.conv # "d" /\ "x" # "d"
    BY <2>1, SMT DEF NumberConversions
  <2>3. 16 = BaseOf(ThisItem) /\ ulCap = (IF ThisItem.conv = "X" THEN 1 ELSE 0)
    BY <1>2, <2>1, <2>2, Zenon DEF BaseOf
  <2> QED BY <1>5, <2>1, <2>2, <2>3, NumberTaken, Zenon
<1>6. CASE Number("p", 16, ulCap)
  <2>1. pc = "again" /\ ReadyNow /\ ThisItem.conv = "p"  BY <1>1, <1>6, CharacterRead, Zenon
  <2>2. /\ ThisItem.conv \in NumberConversions /\ ThisItem.conv \in {"x", "X", "p"}
        /\ ThisItem.conv # "X" /\ ThisItem.conv # "d" /\ "p" # "d"
    BY <2>1, SMT DEF NumberConversions
  <2>3. 16 = BaseOf(ThisItem) /\ ulCap = (IF ThisItem.conv = "X" THEN 1 ELSE 0)
    BY <1>2, <2>1, <2>2, Zenon DEF BaseOf
  <2> QED BY <1>6, <2>1, <2>2, <2>3, NumberTaken, Zenon
<1>7. CASE Number("X", 16, 1)
  <2>1. pc = "again" /\ ReadyNow /\ ThisItem.conv = "X"  BY <1>1, <1>7, CharacterRead, Zenon
  <2>2. /\ ThisItem.conv \in NumberConversions /\ ThisItem.conv \in {"x", "X", "p"}
        /\ ThisItem.conv # "d" /\ "X" # "d"
    BY <2>1, SMT DEF NumberConversions
  <2>3. 16 = BaseOf(ThisItem) /\ 1 = (IF ThisItem.conv = "X" THEN 1 ELSE 0)
    BY <1>2, <2>1, <2>2, Zenon DEF BaseOf
  <2> QED BY <1>7, <2>1, <2>2, <2>3, NumberTaken, Zenon
<1> QED BY <1>3, <1>4, <1>5, <1>6, <1>7, Zenon DEF NumberDirective

Arg(n) == <<[kind |-> "number", value |-> n]>>

(* While a number is written. *)
LEMMA NumberNow ==
  ASSUME PrintfInv, pc \in {"convert", "pad", "digits"}
  PROVE  /\ ThisItem \in Items /\ ThisItem.conv \in NumberConversions /\ format = ThisRest
         /\ ThisItem.width \in Nat /\ ThisItem.width < PcBufSize
         /\ ulValue \in 0..(ULONG - 1) /\ ulValue \in Nat
         /\ \E n \in Numbers : /\ n \in 0..(ULONG - 1) /\ ThisArgs = Arg(n)
                               /\ OfNumber(ThisItem, n)
                               /\ pc \in {"convert", "pad"} => Scaling(ThisItem, n)
                               /\ pc = "digits" => Emitting(ThisItem, n)
<1>1. pc \notin {"scan", "done"} /\ pc # "again"  BY SMT
<1>2. /\ ThisItem \in Items /\ InNumber(ThisItem, ThisArgs, ThisRest)
      /\ ThisItem.width \in Nat
      /\ ThisItem.conv \in NumberConversions => ThisItem.width < PcBufSize
  BY <1>1, ReadingIs, Zenon
<1>3. /\ ThisItem.conv \in NumberConversions /\ format = ThisRest
      /\ \E n \in Numbers : /\ ThisArgs = Arg(n)
                            /\ OfNumber(ThisItem, n)
                            /\ Scaling(ThisItem, n) \/ Emitting(ThisItem, n)
  BY <1>2, Zenon DEF InNumber, Arg
<1>4. ulValue \in 0..(ULONG - 1) /\ ulValue \in Nat
  <2>1. ulValue \in 0..(ULONG - 1)  BY Zenon DEF PrintfInv, PrintfTypeOK
  <2> QED BY <2>1, LocalsAre, Zenon
<1>5. \A n \in Numbers : n \in 0..(ULONG - 1)  BY PrintfAssumption, Zenon
<1>6. \A n : Scaling(ThisItem, n) => pc # "digits"
  <2>1. pc \in {"convert", "pad"} => pc # "digits"  BY SMT
  <2> QED BY <2>1, Zenon DEF Scaling
<1>7. \A n : Emitting(ThisItem, n) => pc \notin {"convert", "pad"}
  <2>1. pc = "digits" => pc \notin {"convert", "pad"}  BY SMT
  <2> QED BY <2>1, Zenon DEF Emitting
<1> QED BY <1>2, <1>3, <1>4, <1>5, <1>6, <1>7, Zenon

(* A step that goes on writing it. *)
LEMMA StillWriting ==
  ASSUME PrintfInv, pc \in {"convert", "pad", "digits"}, pc' \in {"convert", "pad", "digits"},
         NEW n \in Numbers, ThisArgs = Arg(n), OfNumber(ThisItem, n),
         UNCHANGED <<plan, given, format, out, ulValue, ulBase, textLocals, cFill, ulCap>>,
         ulIdx' \in PowersOf(ulBase) \cup {0}, ulIdx' <= ulValue \/ ulIdx' <= 1,
         Scaling(ThisItem, n)' \/ Emitting(ThisItem, n)',
         ulCount' \in 0..(ULONG - 1), ulNeg' \in BOOLEAN, pcBuf' \in Seq(Characters),
         Len(pcBuf') <= PcBufSize
  PROVE  PrintfInv'
<1>1. pc \notin {"scan", "done"} /\ pc' \notin {"scan", "done"} /\ pc' # "again"  BY SMT
<1>2. /\ ThisItem.conv \in NumberConversions /\ format = ThisRest
      /\ ulValue \in 0..(ULONG - 1) /\ ulValue \in Nat
  BY NumberNow, Zenon
<1>3. ThisItem' = ThisItem /\ ThisRest' = ThisRest /\ ThisArgs' = ThisArgs
  BY DEF ThisItem, ThisRest, ThisArgs
<1>4. OfNumber(ThisItem, n)'  BY <1>3, Zenon DEF OfNumber
<1>5. InNumber(ThisItem, ThisArgs, ThisRest)'
  <2>1. ThisItem'.conv \in NumberConversions /\ format' = ThisRest' /\ ThisArgs' = Arg(n)
    BY <1>2, <1>3
  <2> QED BY <1>4, <2>1, Zenon DEF InNumber, Arg
<1>6. ulIdx' \in 0..(ULONG - 1)
  <2>1. ulBase \in Bases  BY BaseAndDigits, Zenon DEF OfNumber
  <2>2. ulIdx' \in Nat
    <3>1. \A x \in PowersOf(ulBase) : x \in Nat  BY <2>1, PowerProperties, Zenon
    <3>2. 0 \in Nat  BY SMT
    <3> QED BY <3>1, <3>2, Zenon
  <2>3. ULONG \in Nat /\ ULONG >= 2
    <3>1. ULONG \in Nat /\ ULONG >= USHORT  BY LocalsAre
    <3> QED BY <3>1, SMT DEF USHORT
  <2> QED BY <1>2, <2>2, <2>3, SMT
<1>7. PrintfTypeOK'
  <2>1. PrintfTypeOK  BY Zenon DEF PrintfInv
  <2>2. pc' \in {"scan", "again", "convert", "pad", "digits", "done"}  BY Zenon
  <2> QED BY <1>6, <2>1, <2>2, Zenon DEF PrintfTypeOK, textLocals
<1>8. given' \in Seq(Seq(Argument)) /\ Len(given') = Len(given) /\ given' = given
  BY Zenon DEF PrintfInv, GivenOK
<1>9. BufferHeld'  BY DEF BufferHeld
<1> QED BY <1>1, <1>5, <1>7, <1>8, <1>9, StillReading, Zenon

(* The power of the first digit is found without a product that wraps, and  *)
(* each digit is taken off the width.                                       *)
LEMMA ScaleStep ==
  ASSUME PrintfInv, Scale
  PROVE  PrintfInv'
<1> DEFINE item == ThisItem
           v == ulValue
           x == ulIdx
           scaled == (ulIdx * ulBase) % ULONG
           Num(m) == NumeralOfNumber(item, m)
           w == item.width
<1>1. /\ pc = "convert"
      /\ UNCHANGED <<plan, given, format, out, ulValue, ulBase, ulNeg, pcBuf, textLocals,
                     cFill, ulCap>>
      /\ \/ /\ scaled <= v /\ scaled \div ulBase = x
            /\ ulIdx' = scaled /\ ulCount' = (ulCount - 1) % ULONG /\ pc' = pc
         \/ /\ ~(scaled <= v /\ scaled \div ulBase = x)
            /\ pc' = "pad" /\ UNCHANGED <<ulIdx, ulCount>>
  BY Zenon DEF Scale
<1>2. pc \in {"convert", "pad", "digits"} /\ pc \in {"convert", "pad"} /\ pc # "pad"
  BY <1>1, SMT
<1>3. /\ item \in Items /\ w \in Nat /\ w < PcBufSize /\ v \in 0..(ULONG - 1) /\ v \in Nat
  BY <1>2, NumberNow, Zenon
<1>4. PICK n \in Numbers : ThisArgs = Arg(n) /\ OfNumber(item, n) /\ Scaling(item, n)
  BY <1>2, NumberNow, Zenon
<1>5. ulBase = BaseOf(item) /\ ulIdx \in PowersOf(ulBase) \cup {0} /\ (x <= v \/ x <= 1)
  BY <1>4, Zenon DEF OfNumber
<1>6. /\ ulNeg = Negative(item, n) /\ pcBuf = <<>> /\ ulIdx # 0
  BY <1>4, Zenon DEF Scaling
<1>7. PICK j \in 0..9 :
        /\ Len(Num(v)) = j + Len(Num(v \div x))
        /\ ulCount = IF j <= w THEN w - j ELSE ULONG + w - j
  BY <1>4, Zenon DEF Scaling
<1>8. x \in PowersOf(BaseOf(item)) /\ ulBase \in Bases  BY <1>5, <1>6, BaseAndDigits, Zenon
<1>9. /\ scaled <= v /\ scaled \div ulBase = x =>
           /\ scaled \in PowersOf(ulBase) /\ scaled # 0
           /\ Len(Num(v \div x)) = 1 + Len(Num(v \div scaled))
      /\ ~(scaled <= v /\ scaled \div ulBase = x) => v \div x < ulBase
  BY <1>3, <1>5, <1>8, ScaleFinds
<1>10. pcBuf \in Seq(Characters) /\ Len(pcBuf) <= PcBufSize /\ ulNeg \in BOOLEAN
       /\ ulCount \in 0..(ULONG - 1)
  BY Zenon DEF PrintfInv, BufferHeld, PrintfTypeOK
<1>11. ThisItem' = ThisItem  BY <1>1 DEF ThisItem
<1>12. CASE /\ scaled <= v /\ scaled \div ulBase = x
            /\ ulIdx' = scaled /\ ulCount' = (ulCount - 1) % ULONG /\ pc' = pc
  <2>1. /\ scaled \in PowersOf(ulBase) /\ scaled # 0
        /\ Len(Num(v \div x)) = 1 + Len(Num(v \div scaled))
    BY <1>9, <1>12, Zenon
  <2>2. scaled \in Nat  BY <1>8, <2>1, PowerProperties, Zenon
  <2>3. v \div scaled \in Nat  BY <1>3, <2>1, <2>2, DivisionOf, Zenon
  <2>4. Len(Num(v)) \in 1..10 /\ Len(Num(v \div scaled)) \in Nat /\ Len(Num(v \div scaled)) >= 1
    <3>1. v < ULONG  BY <1>3, LocalsAre, SMT
    <3> QED BY <1>3, <2>3, <3>1, NumeralOfNumberTyped, Zenon
  <2> DEFINE a == Len(Num(v))
             b == Len(Num(v \div x))
             e == Len(Num(v \div scaled))
  <2>5. a \in 1..10 /\ e \in Nat /\ e >= 1 /\ b = 1 + e /\ a = j + b
    BY <1>7, <2>1, <2>4
  <2> HIDE DEF a, b, e
  <2>6. j + 1 \in 0..9 /\ a = (j + 1) + e  BY <2>5, SMT
  <2>7. /\ (ulCount - 1) % ULONG = IF j + 1 <= w THEN w - (j + 1) ELSE ULONG + w - (j + 1)
        /\ (ulCount - 1) % ULONG \in 0..(ULONG - 1)
    <3>1. ULONG \in Nat /\ ULONG >= USHORT  BY LocalsAre
    <3> HIDE DEF w
    <3>2. ulCount = IF j <= w THEN w - j ELSE ULONG + w - j  BY <1>7
    <3>3. w \in Nat /\ w < 16  BY <1>3 DEF PcBufSize
    <3>4. CASE j + 1 <= w
      <4>1. ulCount = w - j /\ ulCount - 1 = w - (j + 1) /\ w - (j + 1) \in 0..(ULONG - 1)
        BY <3>1, <3>2, <3>3, <3>4, SMT DEF USHORT
      <4> DEFINE d == w - (j + 1)
      <4>2. d \in 0..(ULONG - 1) /\ ulCount - 1 = d  BY <4>1
      <4> HIDE DEF d
      <4>3. d % ULONG = d  BY <3>1, <4>2, SMT DEF USHORT
      <4> QED BY <3>4, <4>2, <4>3 DEF d
    <3>5. CASE j = w
      <4>1. ulCount - 1 = -1 /\ ~(j + 1 <= w)  BY <3>2, <3>3, <3>5, SMT
      <4>2. (-1) % ULONG = ULONG - 1 /\ ULONG - 1 \in 0..(ULONG - 1)  BY <3>1, SMT DEF USHORT
      <4>3. ULONG - 1 = ULONG + w - (j + 1)  BY <3>1, <3>3, <3>5, SMT
      <4> QED BY <4>1, <4>2, <4>3
    <3>6. CASE ~(j <= w)
      <4>1. ulCount - 1 = ULONG + w - (j + 1) /\ ~(j + 1 <= w)
            /\ ULONG + w - (j + 1) \in 0..(ULONG - 1)
        BY <3>1, <3>2, <3>3, <3>6, SMT DEF USHORT
      <4> DEFINE d == ULONG + w - (j + 1)
      <4>2. d \in 0..(ULONG - 1) /\ ulCount - 1 = d  BY <4>1
      <4> HIDE DEF d
      <4>3. d % ULONG = d  BY <3>1, <4>2, SMT DEF USHORT
      <4> QED BY <4>1, <4>2, <4>3 DEF d
    <3>7. j + 1 <= w \/ j = w \/ ~(j <= w)  BY <3>3, SMT
    <3> QED BY <3>4, <3>5, <3>6, <3>7
  <2>8. \E i \in 0..9 : /\ Len(Num(v)) = i + Len(Num(v \div scaled))
                        /\ ulCount' = IF i <= w THEN w - i ELSE ULONG + w - i
    <3>1. Len(Num(v)) = (j + 1) + Len(Num(v \div scaled))  BY <2>6 DEF a, e
    <3>2. ulCount' = IF j + 1 <= w THEN w - (j + 1) ELSE ULONG + w - (j + 1)
      BY <1>12, <2>7
    <3> HIDE DEF w, Num, v, scaled
    <3> QED BY <2>6, <3>1, <3>2
  <2>9. pc' = "convert" /\ pc' \in {"convert", "pad"} /\ pc' # "pad"  BY <1>1, <1>2, <1>12
  <2>10. ulIdx' = scaled /\ ulValue' = v  BY <1>1, <1>12
  <2> HIDE DEF scaled
  <2>11. Scaling(item, n)'
    BY <1>1, <1>6, <1>11, <2>1, <2>8, <2>9, <2>10, Zenon DEF Scaling
  <2>12. ulIdx' \in PowersOf(ulBase) \cup {0} /\ ulIdx' <= ulValue
    BY <1>12, <2>1, <2>10, Zenon
  <2>13. pc' \in {"convert", "pad", "digits"} /\ ulCount' \in 0..(ULONG - 1)
    BY <1>2, <1>12, <2>7, Zenon
  <2> QED BY <1>1, <1>2, <1>4, <1>10, <2>11, <2>12, <2>13, StillWriting, Zenon
<1>13. CASE /\ ~(scaled <= v /\ scaled \div ulBase = x)
            /\ pc' = "pad" /\ UNCHANGED <<ulIdx, ulCount>>
  <2>1. v \div x < ulBase  BY <1>9, <1>13
  <2>2. \E i \in 0..9 : /\ Len(Num(v)) = i + Len(Num(v \div x))
                        /\ ulCount' = IF i <= w THEN w - i ELSE ULONG + w - i
    BY <1>7, <1>13
  <2>3. Scaling(item, n)'
    BY <1>1, <1>6, <1>11, <1>13, <2>1, <2>2, Zenon DEF Scaling
  <2>4. pc' \in {"convert", "pad", "digits"} /\ ulCount' \in 0..(ULONG - 1)
        /\ ulIdx' = ulIdx /\ pcBuf' = pcBuf /\ ulNeg' = ulNeg
    BY <1>1, <1>10, <1>13, Zenon
  <2>5. ulIdx' \in PowersOf(ulBase) \cup {0} /\ (ulIdx' <= ulValue \/ ulIdx' <= 1)
    BY <1>5, <2>4, Zenon
  <2> QED BY <1>1, <1>2, <1>4, <1>10, <2>3, <2>4, <2>5, StillWriting, Zenon
<1> QED BY <1>1, <1>12, <1>13

Counted(w, j, count) == count = IF j <= w THEN w - j ELSE ULONG + w - j
LeftAfter(sg, count, left) == left = IF sg = 1 THEN (count - 1) % ULONG ELSE count
PadsExactly(left, missing) ==
  /\ left \in 0..(ULONG - 1) /\ missing \in Int
  /\ left > 1 /\ left < PcBufSize => left - 1 = missing
  /\ ~(left > 1 /\ left < PcBufSize) => missing <= 0

(* What is left of the width is one more than what is missing, or wrapped. *)
LEMMA LeftIs ==
  ASSUME NEW w \in Nat, w < PcBufSize, NEW j \in 0..9, NEW sg \in {0, 1}, NEW count,
         Counted(w, j, count), NEW left, LeftAfter(sg, count, left)
  PROVE  PadsExactly(left, w - sg - (j + 1))
<1>0. /\ count = IF j <= w THEN w - j ELSE ULONG + w - j
      /\ left = IF sg = 1 THEN (count - 1) % ULONG ELSE count
  BY DEF Counted, LeftAfter
<1>1. ULONG \in Nat /\ ULONG >= 65536 /\ w < 16
  <2>1. ULONG \in Nat /\ ULONG >= USHORT  BY LongIsShort
  <2> QED BY <2>1, SMT DEF USHORT, PcBufSize
<1>2. left = IF j + sg <= w THEN w - (j + sg) ELSE ULONG + w - (j + sg)
  <2>1. CASE sg = 0
    <3>1. left = count /\ j + sg = j  BY <1>0, <2>1, SMT
    <3> QED BY <1>0, <3>1
  <2>2. CASE sg = 1
    <3>1. left = (count - 1) % ULONG /\ j + sg = j + 1  BY <1>0, <2>2, SMT
    <3>2. CASE j + 1 <= w
      <4> DEFINE d == w - (j + 1)
      <4>1. d \in 0..(ULONG - 1) /\ count - 1 = d  BY <1>0, <1>1, <3>2, SMT
      <4> HIDE DEF d
      <4>2. d % ULONG = d  BY <1>1, <4>1, SMT
      <4> QED BY <3>1, <3>2, <4>1, <4>2 DEF d
    <3>3. CASE j = w
      <4>1. count - 1 = -1 /\ ~(j + 1 <= w)  BY <1>0, <3>3, SMT
      <4>2. (-1) % ULONG = ULONG - 1  BY <1>1, SMT
      <4>3. ULONG - 1 = ULONG + w - (j + 1)  BY <1>1, <3>3, SMT
      <4> QED BY <3>1, <4>1, <4>2, <4>3
    <3>4. CASE ~(j <= w)
      <4> DEFINE d == ULONG + w - (j + 1)
      <4>1. d \in 0..(ULONG - 1) /\ count - 1 = d /\ ~(j + 1 <= w)  BY <1>0, <1>1, <3>4, SMT
      <4> HIDE DEF d
      <4>2. d % ULONG = d  BY <1>1, <4>1, SMT
      <4> QED BY <3>1, <4>1, <4>2 DEF d
    <3>5. j + 1 <= w \/ j = w \/ ~(j <= w)  BY SMT
    <3> QED BY <3>2, <3>3, <3>4, <3>5
  <2> QED BY <2>1, <2>2
<1>3. j + sg \in 0..10  BY SMT
<1> DEFINE m == j + sg
<1>4. w - sg - (j + 1) = w - m - 1  BY SMT
<1>5. m \in 0..10 /\ left = IF m <= w THEN w - m ELSE ULONG + w - m  BY <1>2, <1>3
<1> HIDE DEF m
<1>6. /\ left \in 0..(ULONG - 1) /\ w - m - 1 \in Int
      /\ left > 1 /\ left < 16 => left - 1 = w - m - 1
      /\ ~(left > 1 /\ left < 16) => w - m - 1 <= 0
  BY <1>1, <1>5, SMT
<1> QED BY <1>4, <1>6 DEF PcBufSize, PadsExactly

(* What the width leaves is put before the digits, on the side of the sign  *)
(* that the fill asks for.                                                  *)
LEMMA PadStep ==
  ASSUME PrintfInv, Pad
  PROVE  PrintfInv'
<1> DEFINE item == ThisItem
           v == ulValue
           x == ulIdx
           Num(m) == NumeralOfNumber(item, m)
           w == item.width
           left == IF ulNeg THEN (ulCount - 1) % ULONG ELSE ulCount
           sign == IF ulNeg THEN <<"-">> ELSE <<>>
           fill == [i \in 1..(left - 1) |-> cFill]
           fits == left > 1 /\ left < PcBufSize
<1>1. /\ pc = "pad" /\ pc' = "digits"
      /\ UNCHANGED <<plan, given, format, out, ulIdx, ulValue, ulBase, textLocals, cFill, ulCap>>
      /\ ulCount' = (IF fits THEN 0 ELSE left)
      /\ pcBuf' = IF ~fits THEN sign ELSE IF cFill = "0" THEN sign \o fill ELSE fill \o sign
      /\ ulNeg' = (ulNeg /\ cFill # "0")
  BY Zenon DEF Pad
<1>2. pc \in {"convert", "pad", "digits"} /\ pc \in {"convert", "pad"}
      /\ pc' \in {"convert", "pad", "digits"}
  BY <1>1, SMT
<1>3. /\ item \in Items /\ w \in Nat /\ w < PcBufSize /\ v \in 0..(ULONG - 1) /\ v \in Nat
      /\ item.conv \in NumberConversions
  BY <1>2, NumberNow, Zenon
<1>4. PICK n \in Numbers : /\ n \in 0..(ULONG - 1) /\ ThisArgs = Arg(n) /\ OfNumber(item, n)
                           /\ Scaling(item, n)
  BY <1>2, NumberNow, Zenon
<1>5. /\ ulBase = BaseOf(item) /\ ulIdx \in PowersOf(ulBase) \cup {0} /\ (x <= v \/ x <= 1)
      /\ v = Magnitude(item, n) /\ cFill = FillOf(item)
  BY <1>4, Zenon DEF OfNumber
<1>6. /\ ulNeg = Negative(item, n) /\ ulIdx # 0 /\ v \div x < ulBase
  BY <1>1, <1>4, Zenon DEF Scaling
<1>7. PICK j \in 0..9 :
        /\ Len(Num(v)) = j + Len(Num(v \div x))
        /\ ulCount = IF j <= w THEN w - j ELSE ULONG + w - j
  BY <1>4, Zenon DEF Scaling
<1>8. x \in PowersOf(ulBase) /\ ulBase \in Bases /\ x \in Nat /\ x # 0
  BY <1>5, <1>6, BaseAndDigits, PowerProperties, Zenon
<1>9. v \div x \in Nat  BY <1>3, <1>8, DivisionOf, Zenon
<1>10. Len(Num(v)) = j + 1
  <2>1. Len(Num(v \div x)) = 1
    <3>1. HasDigits(DigitsOf(item), BaseOf(item), Printable) /\ BaseOf(item) \in Bases
      BY BaseAndDigits, Zenon
    <3> QED BY <1>5, <1>6, <1>9, <3>1, NumeralLength, Zenon DEF NumeralOfNumber
  <2> QED BY <1>7, <2>1
<1> DEFINE sg == IF ulNeg THEN 1 ELSE 0
           missing == w - sg - (j + 1)
<1>11. sign = SignOf(item, n) /\ Len(SignOf(item, n)) = sg /\ SignOf(item, n) \in Seq(Printable)
  BY <1>6, SignTyped, Zenon DEF SignOf
<1>12. missing = MissingOf(item, n)  BY <1>5, <1>10, <1>11 DEF MissingOf
<1>13. /\ left \in 0..(ULONG - 1) /\ missing \in Int
       /\ fits => left - 1 = missing
       /\ ~fits => missing <= 0
  <2>1. sg \in {0, 1} /\ (sg = 1 <=> ulNeg)  BY SMT
  <2>2. Counted(w, j, ulCount)  BY <1>7 DEF Counted
  <2>3. LeftAfter(sg, ulCount, left)  BY <2>1, Zenon DEF LeftAfter
  <2> HIDE DEF w, sg, left
  <2>4. PadsExactly(left, missing)  BY <1>3, <2>1, <2>2, <2>3, LeftIs, Zenon
  <2> QED BY <2>4 DEF PadsExactly
<1>14. FillOf(item) = "0" <=> item.flag = "0"
  <2>1. " " # "0"  OBVIOUS
  <2> QED BY <2>1, Zenon DEF FillOf
<1>15. FillOf(item) # "0" => FillOf(item) = " "  BY Zenon DEF FillOf
<1>16. fits => (fill = IF cFill = "0" THEN Zeros(missing) ELSE Spaces(missing))
  <2> HIDE DEF missing, left
  <2>1. ASSUME fits, cFill = "0" PROVE fill = Zeros(missing)
    <3>1. left - 1 = missing  BY <1>13, <2>1
    <3> QED BY <2>1, <3>1 DEF Zeros
  <2>2. ASSUME fits, cFill # "0" PROVE fill = Spaces(missing)
    <3>1. left - 1 = missing  BY <1>13, <2>2
    <3>2. cFill = " "  BY <1>5, <1>15, <2>2
    <3> QED BY <3>1, <3>2 DEF Spaces
  <2> QED BY <2>1, <2>2
<1>17. missing <= 0 => Zeros(missing) = <<>> /\ Spaces(missing) = <<>>
  <2> HIDE DEF missing
  <2> QED BY <1>13, SpacesTyped, Zenon
<1>18. pcBuf' = PrefixOf(item, n)
  <2> DEFINE s == SignOf(item, n)
             zs == Zeros(missing)
             ss == Spaces(missing)
  <2>1. PrefixOf(item, n) = IF item.flag = "0" THEN s \o zs ELSE ss \o s
    BY <1>12 DEF PrefixOf
  <2>2. cFill = "0" <=> item.flag = "0"  BY <1>5, <1>14
  <2>3. s \in Seq(Printable) /\ sign = s  BY <1>11
  <2>4. ~fits => zs = <<>> /\ ss = <<>>  BY <1>13, <1>17
  <2>5. fits => (fill = IF cFill = "0" THEN zs ELSE ss)  BY <1>16
  <2>6. pcBuf' = IF ~fits THEN s ELSE IF cFill = "0" THEN s \o fill ELSE fill \o s
    BY <1>1, <2>3
  <2> HIDE DEF s, zs, ss, fits, fill
  <2>7. s \o <<>> = s /\ <<>> \o s = s  BY <2>3, SMT
  <2>8. CASE fits
    <3>1. CASE cFill = "0"  BY <2>1, <2>2, <2>5, <2>6, <2>8, <3>1
    <3>2. CASE cFill # "0"  BY <2>1, <2>2, <2>5, <2>6, <2>8, <3>2
    <3> QED BY <3>1, <3>2
  <2>9. CASE ~fits
    <3>1. pcBuf' = s /\ zs = <<>> /\ ss = <<>>  BY <2>4, <2>6, <2>9
    <3> QED BY <2>1, <2>7, <3>1
  <2> QED BY <2>8, <2>9
<1>19. /\ PrefixOf(item, n) \in Seq(Printable) /\ Len(PrefixOf(item, n)) \in Nat
       /\ Len(PrefixOf(item, n)) + Len(Num(v)) <= PcBufSize
  BY <1>3, <1>4, <1>5, NumberMeans
<1>20. pcBuf' \in Seq(Characters) /\ Len(pcBuf') <= PcBufSize
  <2> DEFINE s == PrefixOf(item, n)
             l == Len(s)
  <2>1. s \in Seq(Characters)
    <3>1. s \in Seq(Printable) /\ Printable \subseteq Characters  BY <1>19 DEF Printable
    <3> HIDE DEF s
    <3> QED BY <3>1, SMT
  <2>2. l \in Nat /\ l + (j + 1) <= 16  BY <1>10, <1>19 DEF PcBufSize
  <2> HIDE DEF l
  <2>3. l <= 16  BY <2>2, SMT
  <2> QED BY <1>18, <2>1, <2>3 DEF l, PcBufSize
<1>21. Emitting(item, n)'
  <2> DEFINE s == PrefixOf(item, n)
  <2>1. EmittedOf(item, v, x) = <<>>  BY <1>5, <1>6, Zenon DEF EmittedOf
  <2>2. s \o <<>> = s
    <3>1. s \in Seq(Printable)  BY <1>19
    <3> HIDE DEF s
    <3> QED BY <3>1, SMT
  <2>3. item' = item  BY <1>1 DEF ThisItem
  <2>4. ulValue' = v /\ ulIdx' = x  BY <1>1
  <2>5. pcBuf' = s \o EmittedOf(item, v, x)  BY <1>18, <2>1, <2>2
  <2>6. PrefixOf(ThisItem', n) = s /\ EmittedOf(ThisItem', ulValue', ulIdx') = EmittedOf(item, v, x)
    BY <2>3, <2>4
  <2> HIDE DEF s
  <2>7. pcBuf' = PrefixOf(ThisItem', n) \o EmittedOf(ThisItem', ulValue', ulIdx')
    BY <2>5, <2>6
  <2> QED BY <1>1, <2>7 DEF Emitting
<1>22. ulCount' \in 0..(ULONG - 1)
  <2>1. 0 \in 0..(ULONG - 1)
    <3>1. ULONG \in Nat /\ ULONG >= USHORT  BY LocalsAre
    <3> QED BY <3>1, SMT DEF USHORT
  <2> HIDE DEF left
  <2> QED BY <1>1, <1>13, <2>1, Zenon
<1>23. ulNeg' \in BOOLEAN  BY <1>1, Zenon
<1>24. ulIdx' \in PowersOf(ulBase) \cup {0} /\ (ulIdx' <= ulValue \/ ulIdx' <= 1)
  BY <1>1, <1>5
<1> QED BY <1>1, <1>2, <1>4, <1>20, <1>21, <1>22, <1>23, <1>24, StillWriting, Zenon

(* What is out of a numeral is no longer than it. *)
LEMMA EmittedFits ==
  ASSUME NEW item, NEW v \in Nat, NEW x \in Nat
  PROVE  /\ EmittedOf(item, v, x) \in Seq(Printable)
         /\ Len(EmittedOf(item, v, x)) \in Nat
         /\ Len(EmittedOf(item, v, x)) <= Len(NumeralOfNumber(item, v))
<1> DEFINE Num(m) == NumeralOfNumber(item, m)
           base == BaseOf(item)
           q == v \div x
           e == EmittedOf(item, v, x)
<1>1. base \in Bases /\ HasDigits(DigitsOf(item), base, Printable)  BY BaseAndDigits, Zenon
<1>2. Num(v) \in Seq(Printable) /\ Len(Num(v)) \in Nat /\ Len(Num(v)) >= 1
  BY NumeralOfNumberTyped, Zenon
<1>3. CASE x = 0
  <2>1. e = Num(v)  BY <1>3, Zenon DEF EmittedOf
  <2> DEFINE l == Len(Num(v))
  <2>2. l \in Nat  BY <1>2
  <2> HIDE DEF l
  <2>3. l <= l  BY <2>2, SMT
  <2> QED BY <1>2, <2>1, <2>3 DEF l
<1>4. CASE x # 0
  <2>1. q \in Nat /\ q <= v
    <3>1. q \in Nat /\ v % x \in 0..(x - 1) /\ v = x * q + (v % x)
      BY <1>4, DivisionOf, Zenon
    <3> DEFINE r == v % x
    <3>2. r \in 0..(x - 1) /\ v = x * q + r  BY <3>1
    <3> HIDE DEF q, r
    <3>3. x * q >= q  BY <1>4, <3>1, SMT
    <3>4. x * q \in Nat  BY <3>1, SMT
    <3> DEFINE a == x * q
    <3>5. a >= q /\ a \in Nat /\ v = a + r  BY <3>2, <3>3, <3>4
    <3> HIDE DEF a
    <3> QED BY <1>4, <3>1, <3>2, <3>5, SMT
  <2> HIDE DEF q
  <2>2. CASE q < base
    <3>1. e = <<>>  BY <1>4, <2>2, Zenon DEF EmittedOf, q, base
    <3>2. <<>> \in Seq(Printable) /\ Len(<<>>) = 0  BY EmptySeq, SMT
    <3> DEFINE l == Len(Num(v))
    <3>3. l \in Nat  BY <1>2
    <3> HIDE DEF l
    <3>4. 0 <= l /\ 0 \in Nat  BY <3>3, SMT
    <3> QED BY <3>1, <3>2, <3>4 DEF l
  <2>3. CASE ~(q < base)
    <3>1. e = Num(q \div base)  BY <1>4, <2>3, Zenon DEF EmittedOf, q, base
    <3>2. q \div base \in Nat /\ q \div base <= q  BY <1>1, <2>1, Quotient, Zenon
    <3> DEFINE p == q \div base
    <3>3. p \in 0..v /\ p \in Nat  BY <2>1, <3>2, SMT
    <3> HIDE DEF p
    <3>4. Len(Num(p)) <= Len(Num(v))
      BY <1>1, <3>3, NumeralGrows, Zenon DEF NumeralOfNumber
    <3>5. Num(p) \in Seq(Printable) /\ Len(Num(p)) \in Nat  BY <3>3, NumeralOfNumberTyped, Zenon
    <3> QED BY <3>1, <3>4, <3>5 DEF p
  <2> QED BY <2>2, <2>3
<1> QED BY <1>3, <1>4

(* A character appended to a text behind another one. *)
AppendsBehind(s, e, c) == Append(s \o e, c) = s \o Append(e, c)

(* ... goes behind both. *)
LEMMA AppendBehind ==
  ASSUME NEW A, NEW s \in Seq(A), NEW e \in Seq(A), NEW c \in A
  PROVE  AppendsBehind(s, e, c)
<1>1. Append(e, c) = e \o <<c>>  OBVIOUS
<1> DEFINE t == s \o e
<1>2. t \in Seq(A)  OBVIOUS
<1> HIDE DEF t
<1>3. Append(t, c) = t \o <<c>>  BY <1>2, SMT
<1> DEFINE d == <<c>>
<1>4. d \in Seq(A)  OBVIOUS
<1> HIDE DEF d
<1>5. (s \o e) \o d = s \o (e \o d)  BY <1>4, SMT
<1> QED BY <1>1, <1>3, <1>5 DEF d, t, AppendsBehind

(* One digit more is put into pcBuf, which still has room. *)
LEMMA EmitStep ==
  ASSUME PrintfInv, EmitDigit
  PROVE  PrintfInv'
<1> DEFINE item == ThisItem
           v == ulValue
           x == ulIdx
           base == BaseOf(item)
           next == x \div base
           digit == DigitsOf(item)[((v \div x) % base) + 1]
           Num(m) == NumeralOfNumber(item, m)
<1>1. /\ pc = "digits" /\ ulIdx # 0 /\ pc' = pc
      /\ pcBuf' = Append(pcBuf, (IF ulCap = 0 THEN g_pcHex ELSE g_pcHex_cap)
                                  [((v \div x) % ulBase) + 1])
      /\ ulIdx' = x \div ulBase
      /\ UNCHANGED <<plan, given, format, out, ulValue, ulBase, ulNeg, textLocals, ulCount,
                     cFill, ulCap>>
  BY Zenon DEF EmitDigit, flagLocals
<1>2. pc \in {"convert", "pad", "digits"} /\ pc' \in {"convert", "pad", "digits"}
  BY <1>1, SMT
<1>3. /\ item \in Items /\ item.width \in Nat /\ item.width < PcBufSize
      /\ v \in 0..(ULONG - 1) /\ v \in Nat
      /\ item.conv \in NumberConversions
  BY <1>2, NumberNow, Zenon
<1>4. PICK n \in Numbers : /\ n \in 0..(ULONG - 1) /\ ThisArgs = Arg(n) /\ OfNumber(item, n)
                           /\ Emitting(item, n)
  BY <1>1, <1>2, NumberNow, Zenon
<1>5. /\ ulBase = base /\ x \in PowersOf(base) \cup {0} /\ (x <= v \/ x <= 1)
      /\ v = Magnitude(item, n) /\ ulCap = (IF item.conv = "X" THEN 1 ELSE 0)
  BY <1>4, Zenon DEF OfNumber
<1>6. pcBuf = PrefixOf(item, n) \o EmittedOf(item, v, x)  BY <1>4 DEF Emitting
<1>7. x \in PowersOf(base)  BY <1>1, <1>5, Zenon
<1>8. /\ next \in PowersOf(base) \cup {0} /\ (next <= v \/ next <= 1)
      /\ EmittedOf(item, v, x) \in Seq(Printable) /\ digit \in Printable
      /\ Append(EmittedOf(item, v, x), digit) = EmittedOf(item, v, next)
  BY <1>3, <1>5, <1>7, EmitAdds
<1>9. next \in Nat
  <2>1. base \in Bases  BY BaseAndDigits, Zenon
  <2>2. \A y \in PowersOf(base) : y \in Nat  BY <2>1, PowerProperties, Zenon
  <2>3. 0 \in Nat  BY SMT
  <2> HIDE DEF next
  <2> QED BY <1>8, <2>2, <2>3, Zenon
<1>10. pcBuf' = Append(pcBuf, digit)
  <2>1. (IF ulCap = 0 THEN g_pcHex ELSE g_pcHex_cap) = DigitsOf(item)
    <3>1. ulCap = 0 <=> item.conv # "X"  BY <1>5, SMT
    <3> QED BY <3>1, Zenon DEF DigitsOf
  <2> QED BY <1>1, <1>5, <2>1
<1> DEFINE s == PrefixOf(item, n)
           e == EmittedOf(item, v, x)
           f == EmittedOf(item, v, next)
<1>11. /\ s \in Seq(Printable) /\ Len(s) \in Nat /\ Len(s) + Len(Num(v)) <= PcBufSize
  BY <1>3, <1>4, <1>5, NumberMeans
<1>12. f \in Seq(Printable) /\ Len(f) \in Nat /\ Len(f) <= Len(Num(v))
  <2> HIDE DEF next
  <2> QED BY <1>3, <1>9, EmittedFits, Zenon
<1>13. pcBuf' = s \o f
  <2>1. pcBuf' = Append(s \o e, digit) /\ e \in Seq(Printable) /\ digit \in Printable
        /\ Append(e, digit) = f
    BY <1>6, <1>8, <1>10
  <2> HIDE DEF s, e, f, digit
  <2>2. Append(s \o e, digit) = s \o Append(e, digit)
    <3>1. s \in Seq(Printable) /\ e \in Seq(Printable) /\ digit \in Printable  BY <1>11, <2>1
    <3>2. AppendsBehind(s, e, digit)  BY <3>1, AppendBehind, Zenon
    <3> QED BY <3>2 DEF AppendsBehind
  <2> QED BY <2>1, <2>2
<1>14. pcBuf' \in Seq(Characters) /\ Len(pcBuf') <= PcBufSize
  <2> DEFINE l == Len(Num(v))
  <2>1. /\ s \in Seq(Printable) /\ f \in Seq(Printable) /\ Len(s) + l <= 16 /\ Len(f) <= l
        /\ l \in Nat
    <3>1. l \in Nat  BY <1>3, NumeralOfNumberTyped, Zenon
    <3> QED BY <1>11, <1>12, <3>1 DEF PcBufSize
  <2>2. Printable \subseteq Characters  BY DEF Printable
  <2> HIDE DEF s, f, l
  <2>3. s \o f \in Seq(Characters) /\ Len(s \o f) <= 16  BY <2>1, <2>2, SMT
  <2> QED BY <1>13, <2>3 DEF PcBufSize
<1>15. Emitting(item, n)'
  <2>1. item' = item  BY <1>1 DEF ThisItem
  <2>2. ulValue' = v /\ ulIdx' = next /\ pc' = "digits"  BY <1>1, <1>5
  <2>3. PrefixOf(ThisItem', n) = s /\ EmittedOf(ThisItem', ulValue', ulIdx') = f
    BY <2>1, <2>2
  <2> HIDE DEF s, f
  <2>4. pcBuf' = PrefixOf(ThisItem', n) \o EmittedOf(ThisItem', ulValue', ulIdx')
    BY <1>13, <2>3
  <2> QED BY <2>2, <2>4 DEF Emitting
<1>16. ulCount \in 0..(ULONG - 1) /\ ulNeg \in BOOLEAN  BY Zenon DEF PrintfInv, PrintfTypeOK
<1>17. ulCount' \in 0..(ULONG - 1) /\ ulNeg' \in BOOLEAN  BY <1>1, <1>16, Zenon
<1>18. ulIdx' \in PowersOf(ulBase) \cup {0} /\ (ulIdx' <= ulValue \/ ulIdx' <= 1)
  <2>1. ulIdx' = next  BY <1>1, <1>5
  <2> HIDE DEF next, base
  <2> QED BY <1>5, <1>8, <2>1, Zenon
<1> QED BY <1>1, <1>2, <1>4, <1>14, <1>15, <1>17, <1>18, StillWriting, Zenon

(* The number is printed when its last digit is out. *)
LEMMA EndStep ==
  ASSUME PrintfInv, EndNumber
  PROVE  PrintfInv'
<1> DEFINE item == ThisItem
           v == ulValue
<1>1. /\ pc = "digits" /\ ulIdx = 0 /\ Printed(prints(pcBuf)) /\ UNCHANGED <<given, format>>
  BY Zenon DEF EndNumber
<1>2. pc \in {"convert", "pad", "digits"} /\ pc \notin {"scan", "done"}  BY <1>1, SMT
<1>3. /\ item.width \in Nat /\ item.width < PcBufSize /\ item.conv \in NumberConversions
      /\ format = ThisRest
  BY <1>2, NumberNow, Zenon
<1>4. PICK n \in Numbers : /\ n \in 0..(ULONG - 1) /\ ThisArgs = Arg(n) /\ OfNumber(item, n)
                           /\ Emitting(item, n)
  BY <1>1, <1>2, NumberNow, Zenon
<1> DEFINE text == PrefixOf(item, n) \o NumeralOfNumber(item, Magnitude(item, n))
<1>5. pcBuf = text
  <2>1. v = Magnitude(item, n)  BY <1>4, Zenon DEF OfNumber
  <2>2. pcBuf = PrefixOf(item, n) \o EmittedOf(item, v, ulIdx)  BY <1>4 DEF Emitting
  <2>3. EmittedOf(item, v, ulIdx) = NumeralOfNumber(item, v)  BY <1>1, Zenon DEF EmittedOf
  <2> QED BY <2>1, <2>2, <2>3
<1>6. /\ NumberMeaning(item, n) = text /\ text \in Seq(Characters) /\ prints(text) = text
  BY <1>3, <1>4, NumberMeans
<1>7. Printed(text)  BY <1>1, <1>5, <1>6
<1> HIDE DEF text
<1>8. given' = given /\ given' \in Seq(Seq(Argument)) /\ Len(given') = Len(given)
  BY <1>1, Zenon DEF PrintfInv, GivenOK
<1>9. given'[Len(given)] = <<ArgumentOf("number", n)>>
  BY <1>4, <1>8 DEF ThisArgs, Arg, ArgumentOf
<1>10. /\ KindsOf(<<ArgumentOf("number", n)>>) = <<"number">>
       /\ ValuesOf(<<ArgumentOf("number", n)>>)[1] = n
  BY ArgumentsTaken, Zenon
<1>11. KindsOf(given'[Len(given)]) = Takes[item.conv]
  <2>1. Takes[item.conv] = <<"number">>
    <3>1. \/ item.conv = "d" \/ item.conv = "u" \/ item.conv = "x" \/ item.conv = "X"
          \/ item.conv = "p"
      BY <1>3, Zenon DEF NumberConversions
    <3> QED BY <3>1, TakesAre
  <2> QED BY <1>9, <1>10, <2>1
<1>12. Meaning(item, ValuesOf(given'[Len(given)])) = text
  <2>1. ValuesOf(given'[Len(given)])[1] = n  BY <1>9, <1>10
  <2>2. Meaning(item, ValuesOf(given'[Len(given)]))
        = NumberMeaning(item, ValuesOf(given'[Len(given)])[1])
    BY <1>3, MeaningBy, Zenon DEF NumberConversions
  <2> QED BY <1>6, <2>1, <2>2
<1>13. format' = ThisRest /\ \A i \in 1..(Len(given) - 1) : given'[i] = given[i]
  BY <1>1, <1>3, <1>8, Zenon
<1> QED BY <1>2, <1>6, <1>7, <1>8, <1>11, <1>12, <1>13, DirectiveDone, Zenon

(* Between two directives. *)
LEMMA BetweenIs ==
  ASSUME PrintfInv, pc \in {"scan", "done"}
  PROVE  LET k == Len(given)
         IN  /\ k \in Nat /\ k \in 0..Len(plan) /\ plan \in Seq(Items) /\ Len(plan) \in Nat
             /\ given \in Seq(Seq(Argument))
             /\ PastOf(plan, given, k) /\ ServedOf(plan, given, k) \in Seq(Characters)
             /\ \/ format = RestOf(plan, k) /\ out = ServedOf(plan, given, k)
                \/ k = Len(plan) /\ format = <<>> /\ out = ServedOf(plan, given, k) \o <<"\n">>
<1> DEFINE k == Len(given)
<1>1. plan \in Plans /\ given \in Seq(Seq(Argument)) /\ k <= Len(plan) /\ Between
  BY Zenon DEF PrintfInv, GivenOK
<1>2. k \in Nat /\ Len(plan) \in Nat /\ plan \in Seq(Items)  BY <1>1, PlanIs, LenProperties, Zenon
<1>3. k \in 0..Len(plan)  BY <1>1, <1>2, SMT
<1>4. PastOf(plan, given, k)  BY <1>1, Zenon DEF Between
<1>5. ServedOf(plan, given, k) \in Seq(Characters)  BY <1>2, <1>3, <1>4, ServedTyped, Zenon
<1> QED BY <1>1, <1>2, <1>3, <1>4, <1>5, Zenon DEF Between

(* The last text, behind all directives. *)
LEMMA LastScan ==
  ASSUME PrintfInv, pc = "scan", format = <<"\n">>, Scan, Len(given) = Len(plan),
         out = ServedOf(plan, given, Len(given)), PastOf(plan, given, Len(given))
  PROVE  PrintfInv'
<1> DEFINE text == UpTo("%", format)
           t == <<"\n">>
<1>1. t \in Seq(Characters) /\ Len(t) = 1 /\ \A i \in 1..Len(t) : t[i] # "%" /\ t[i] # "NUL"
  <2>1. "\n" \in Characters  BY Literals, Zenon
  <2> QED BY <2>1, SMT
<1>2. text = t
  <2>1. \A i \in 1..Len(format) : format[i] # "%"  BY <1>1
  <2> QED BY <2>1, UpToNone
<1>3. prints(text) = t
  <2>1. Len(t) < USHORT  BY <1>1, SMT DEF USHORT
  <2>2. prints(t) = t
    <3> HIDE DEF t
    <3> QED BY <1>1, <2>1, PrintsAll, Zenon
  <2> QED BY <1>2, <2>2
<1>4. Len(text) = Len(format) /\ Len(text) = 1
  BY <1>1, <1>2
<1>5. /\ out' = out \o prints(text) /\ ulIdx' = Len(text)
      /\ pc' = "scan" /\ format' = <<>>
      /\ UNCHANGED <<given, ulBase, textLocals, flagLocals>>
      /\ UNCHANGED <<plan, ulValue, ulNeg, pcBuf>>
  <2> HIDE DEF text
  <2> QED BY <1>4, Zenon DEF Scan, text
<1>6. Between'
  <2>1. out' = ServedOf(plan', given', Len(given')) \o t
    BY <1>3, <1>5
  <2>2. PastOf(plan', given', Len(given')) /\ format' = <<>> /\ Len(given') = Len(plan')
    BY <1>5
  <2> QED BY <2>1, <2>2 DEF Between
<1>7. PrintfTypeOK /\ GivenOK /\ BufferHeld /\ pcBuf \in Seq(Characters)  BY Zenon DEF PrintfInv
<1>8. ulIdx' \in 0..(ULONG - 1)
  <2>1. ULONG \in Nat /\ ULONG >= USHORT  BY LocalsAre
  <2>2. 1 \in 0..(ULONG - 1)  BY <2>1, SMT DEF USHORT
  <2> QED BY <1>4, <1>5, <2>2
<1>9. PrintfTypeOK'
  BY <1>5, <1>7, <1>8, Zenon DEF PrintfTypeOK, textLocals, flagLocals
<1>10. GivenOK'  BY <1>5, <1>7, Zenon DEF GivenOK
<1>11. BufferHeld' /\ pcBuf' \in Seq(Characters)  BY <1>5, <1>7, Zenon DEF BufferHeld
<1>12. pc' \in {"scan", "done"}  BY <1>5, Zenon
<1> QED BY <1>6, <1>9, <1>10, <1>11, <1>12, Zenon DEF PrintfInv

(* The text before a directive, which is read next.                        *)
LEMMA NextScan ==
  ASSUME PrintfInv, pc = "scan", Scan, Len(given) < Len(plan),
         format = RestOf(plan, Len(given)), out = ServedOf(plan, given, Len(given)),
         PastOf(plan, given, Len(given))
  PROVE  PrintfInv'
<1> DEFINE k == Len(given)
           item == plan[k + 1]
           rest == RestOf(plan, k + 1)
           b == item.before
           r == Rest(item, rest)
           text == UpTo("%", format)
<1>1. /\ k \in Nat /\ k \in 0..Len(plan) /\ plan \in Seq(Items) /\ Len(plan) \in Nat
      /\ given \in Seq(Seq(Argument))
  <2>1. pc \in {"scan", "done"}  BY SMT
  <2> QED BY <2>1, BetweenIs, Zenon
<1>2. /\ item \in Items /\ rest \in Seq(Characters) /\ format = b \o (<<"%">> \o r)
  BY <1>1, RestUnfolds, Zenon
<1>3. /\ b \in Seq(Characters) /\ r \in Seq(Characters) /\ "%" \in Characters
      /\ \A i \in 1..Len(b) : b[i] # "%" /\ b[i] # "NUL"
  BY <1>2, ItemParts, SpellingFollowed, Literals, Zenon
<1>4. k + 1 \in 1..Len(plan) /\ k + 1 <= Len(plan)  BY <1>1, SMT
<1>5. Len(b) < USHORT
  <2>1. plan \in Plans  BY Zenon DEF PrintfInv, GivenOK
  <2> QED BY <1>4, <2>1, PlanIs, Zenon
<1>6. text = b
  <2> DEFINE u == b \o (<<"%">> \o r)
             c == "%"
  <2> HIDE DEF b, r
  <2>1. UpTo(c, b \o (<<c>> \o r)) = b
    <3>1. c \in Characters /\ \A i \in 1..Len(b) : b[i] # c  BY <1>3
    <3> HIDE DEF c
    <3> QED BY <1>3, <3>1, UpToFirst
  <2> QED BY <1>2, <2>1
<1>7. prints(b) = b
  <2> HIDE DEF b
  <2> QED BY <1>3, <1>5, PrintsAll, Zenon
<1>8. Len(b) # Len(format) /\ SubSeq(format, Len(b) + 2, Len(format)) = r
  <2> DEFINE c == "%"
             u == b \o (<<c>> \o r)
  <2>1. c \in Characters /\ format = u  BY <1>2, <1>3
  <2> HIDE DEF b, r, c
  <2>2. Len(b) # Len(u) /\ SubSeq(u, Len(b) + 2, Len(u)) = r
    BY <1>3, <2>1, Behind
  <2> QED BY <2>1, <2>2
<1>9. /\ out' = out \o b /\ ulIdx' = Len(b)
      /\ pc' = "again" /\ format' = r /\ given' = Append(given, <<>>)
      /\ ulCount' = 0 /\ cFill' = " " /\ ulStrlen' = 0 /\ cStrlenSet' = 0
      /\ ulCap' = 0 /\ ulBase' = 10
      /\ UNCHANGED <<plan, ulValue, ulNeg, pcBuf>>
  <2>1. /\ out' = out \o prints(text)
        /\ ulIdx' = Len(text)
        /\ Len(text) # Len(format) =>
             /\ pc' = "again" /\ format' = SubSeq(format, Len(text) + 2, Len(format))
             /\ given' = Append(given, <<>>)
             /\ ulCount' = 0 /\ cFill' = " " /\ ulStrlen' = 0 /\ cStrlenSet' = 0
             /\ ulCap' = 0 /\ ulBase' = 10
        /\ UNCHANGED <<plan, ulValue, ulNeg, pcBuf>>
    <3> HIDE DEF text
    <3> QED BY Zenon DEF Scan, text
  <2> HIDE DEF text, b, r
  <2> QED BY <1>6, <1>7, <1>8, <2>1
<1>10. /\ given' \in Seq(Seq(Argument)) /\ Len(given') = k + 1 /\ given'[k + 1] = <<>>
       /\ \A i \in 1..k : given'[i] = given[i]
  <2> DEFINE e == <<>>
             A == Seq(Argument)
  <2>1. e \in A /\ given \in Seq(A) /\ given' = Append(given, e)  BY <1>1, <1>9, EmptySeq, Zenon
  <2> HIDE DEF e, A
  <2>2. /\ given' \in Seq(A) /\ Len(given') = Len(given) + 1 /\ given'[Len(given) + 1] = e
        /\ \A i \in 1..Len(given) : given'[i] = given[i]
    BY <2>1, SMT
  <2> QED BY <2>2 DEF e, A
<1>11. ThisItem' = item /\ ThisRest' = rest /\ ThisArgs' = <<>>
  BY <1>9, <1>10 DEF ThisItem, ThisRest, ThisArgs
<1>12. (k + 1) - 1 = k /\ k + 1 >= 1  BY <1>1, SMT
<1>13. ServedOf(plan, given', k) = ServedOf(plan, given, k) /\ PastOf(plan, given', k)
  BY <1>1, <1>10, ServedSame, Zenon
<1>14. /\ Len(given') >= 1 /\ PastOf(plan', given', Len(given') - 1)
       /\ out' = ServedOf(plan', given', Len(given') - 1) \o ThisItem'.before
  <2>1. Len(given') - 1 = k /\ plan' = plan  BY <1>9, <1>10, <1>12
  <2>2. out' = ServedOf(plan, given', k) \o b  BY <1>9, <1>13
  <2> QED BY <1>10, <1>11, <1>12, <1>13, <2>1, <2>2
<1>15. r = FlagText(item) \o (WidthText(item) \o (Spelled[item.conv] \o rest))
  BY DEF Rest
<1>16. item.width \in Nat /\ WidthText(item) \in Seq(Decimal) /\ item.flag \in {"", "-", "0"}
       /\ WidthText(item) \o (Spelled[item.conv] \o rest) \in Seq(Characters)
  <2>1. /\ item.width \in Nat /\ WidthText(item) \in Seq(Decimal) /\ item.flag \in {"", "-", "0"}
        /\ WidthText(item) \in Seq(Characters) /\ Spelled[item.conv] \in Seq(Characters)
    BY <1>2, ItemParts, Zenon
  <2>2. Spelled[item.conv] \o rest \in Seq(Characters)  BY <1>2, <2>1, ConcatProperties, Zenon
  <2> QED BY <2>1, <2>2, ConcatProperties, Zenon
<1>17. ASSUME item.flag # ""
       PROVE  AtFlag(ThisItem, ThisArgs, ThisRest)'
  <2> DEFINE t == WidthText(item) \o (Spelled[item.conv] \o rest)
  <2>1. format' = <<item.flag>> \o t
    <3>1. FlagText(item) = <<item.flag>>  BY <1>17, Zenon DEF FlagText
    <3> QED BY <1>9, <1>15, <3>1
  <2>2. ThisItem'.flag # "" /\ ThisArgs' = <<>>  BY <1>11, <1>17
  <2>3. format' = <<ThisItem'.flag>> \o
                    (WidthText(ThisItem') \o (Spelled[ThisItem'.conv] \o ThisRest'))
    BY <1>11, <2>1
  <2> QED BY <1>9, <2>2, <2>3 DEF AtFlag
<1>18. ASSUME item.flag = ""
       PROVE  InWidth(ThisItem, ThisArgs, ThisRest)'
  <2> DEFINE t == WidthText(item) \o (Spelled[item.conv] \o rest)
  <2>1. format' = t
    <3>1. FlagText(item) = <<>>  BY <1>18, Zenon DEF FlagText
    <3>2. t \in Seq(Characters)  BY <1>16
    <3>3. r = <<>> \o t  BY <1>15, <3>1
    <3> HIDE DEF t
    <3>4. <<>> \o t = t  BY <3>2, SMT
    <3> QED BY <1>9, <3>3, <3>4
  <2>2. FillOf(item) = " "
    <3> DEFINE f == item.flag
    <3>1. f = ""  BY <1>18
    <3> HIDE DEF f
    <3>2. f # "0"
      <4>1. "" # "0"  OBVIOUS
      <4> QED BY <3>1, <4>1, Zenon
    <3>3. item.flag # "0"  BY <3>2 DEF f
    <3> QED BY <3>3, Zenon DEF FillOf
  <2>3. 0 <= item.width
    <3> DEFINE w == item.width
    <3>1. w \in Nat  BY <1>16
    <3> HIDE DEF w
    <3>2. 0 <= w  BY <3>1, SMT
    <3> QED BY <3>2 DEF w
  <2>4. \E s \in Seq(Decimal) :
          /\ format' = s \o (Spelled[item.conv] \o rest)
          /\ ulCount' = 0 /\ s = WidthText(item)
    BY <1>9, <1>16, <2>1
  <2>5. \E s \in Seq(Decimal) :
          /\ format' = s \o (Spelled[ThisItem'.conv] \o ThisRest')
          /\ ulCount' = 0 /\ s = WidthText(ThisItem')
    BY <1>11, <2>4
  <2>6. ulCount' <= ThisItem'.width /\ cFill' = FillOf(ThisItem') /\ cStrlenSet' = 0
        /\ ThisArgs' = <<>>
    BY <1>9, <1>11, <2>2, <2>3
  <2> QED BY <2>5, <2>6, Zenon DEF InWidth
<1>19. pc' = "again" /\ ulCap' = 0  BY <1>9
<1>20. Reading'
  <2>1. AtFlag(ThisItem, ThisArgs, ThisRest)' \/ InWidth(ThisItem, ThisArgs, ThisRest)'
    BY <1>17, <1>18
  <2> QED BY <1>14, <1>19, <2>1, Zenon DEF Reading
<1>21. PrintfTypeOK /\ GivenOK /\ BufferHeld /\ pcBuf \in Seq(Characters)  BY Zenon DEF PrintfInv
<1>22. PrintfTypeOK'
  <2>1. ULONG \in Nat /\ ULONG >= USHORT  BY LocalsAre
  <2>2. 0 \in 0..(ULONG - 1)  BY <2>1, SMT DEF USHORT
  <2>3. Len(b) \in 0..(ULONG - 1)
    <3>1. Len(b) \in Nat  BY <1>3, LenProperties, Zenon
    <3> DEFINE l == Len(b)
    <3>2. l \in Nat /\ l < USHORT  BY <1>5, <3>1
    <3> HIDE DEF l
    <3>3. l \in 0..(ULONG - 1)  BY <2>1, <3>2, SMT DEF USHORT
    <3> QED BY <3>3 DEF l
  <2>4. ulIdx' \in 0..(ULONG - 1) /\ ulCount' \in 0..(ULONG - 1) /\ ulStrlen' \in 0..(ULONG - 1)
    BY <1>9, <2>2, <2>3
  <2>5. /\ pc' \in {"scan", "again", "convert", "pad", "digits", "done"}
        /\ ulBase' \in {10, 16} /\ ulCap' \in {0, 1} /\ cFill' \in {" ", "0"}
        /\ cStrlenSet' \in {0, 1, 2}
    BY <1>9
  <2> QED BY <1>9, <1>21, <2>4, <2>5, Zenon DEF PrintfTypeOK
<1>23. GivenOK'  BY <1>4, <1>9, <1>10, <1>21 DEF GivenOK
<1>24. BufferHeld' /\ pcBuf' \in Seq(Characters)  BY <1>9, <1>21, Zenon DEF BufferHeld
<1>25. pc' \notin {"scan", "done"}  BY <1>19, SMT
<1> QED BY <1>20, <1>22, <1>23, <1>24, <1>25, Zenon DEF PrintfInv

(* Up to the next directive or to the end of the format.                   *)
LEMMA ScanStep ==
  ASSUME PrintfInv, Scan
  PROVE  PrintfInv'
<1> DEFINE k == Len(given)
<1>1. pc = "scan" /\ format # <<>>  BY Zenon DEF Scan
<1>2. pc \in {"scan", "done"}  BY <1>1, SMT
<1>3. /\ k \in 0..Len(plan) /\ k \in Nat /\ plan \in Seq(Items) /\ Len(plan) \in Nat
      /\ PastOf(plan, given, k)
      /\ \/ format = RestOf(plan, k) /\ out = ServedOf(plan, given, k)
         \/ k = Len(plan) /\ format = <<>> /\ out = ServedOf(plan, given, k) \o <<"\n">>
  BY <1>2, BetweenIs
<1>4. format = RestOf(plan, k) /\ out = ServedOf(plan, given, k)  BY <1>1, <1>3
<1>5. k = Len(plan) \/ k < Len(plan)  BY <1>3, SMT
<1>6. CASE k = Len(plan)
  <2>1. RestOf(plan, k) = <<"\n">>  BY <1>3, <1>6, RestUnfolds
  <2>2. format = <<"\n">>  BY <1>4, <2>1
  <2> QED BY <1>1, <1>3, <1>4, <1>6, <2>2, LastScan, Zenon
<1>7. CASE k < Len(plan)
  BY <1>1, <1>3, <1>4, <1>7, NextScan, Zenon
<1> QED BY <1>5, <1>6, <1>7

(* The call returns at the end of the format. *)
LEMMA ReturnStep ==
  ASSUME PrintfInv, Return
  PROVE  PrintfInv'
<1>1. /\ pc = "scan" /\ pc' = "done"
      /\ UNCHANGED <<plan, given, format, out, locals>>
  BY Zenon DEF Return
<1>2. /\ plan' = plan /\ given' = given /\ format' = format /\ out' = out
      /\ ulIdx' = ulIdx /\ ulValue' = ulValue /\ ulCount' = ulCount /\ ulBase' = ulBase
      /\ ulNeg' = ulNeg /\ ulStrlen' = ulStrlen /\ ulCap' = ulCap /\ cFill' = cFill
      /\ cStrlenSet' = cStrlenSet /\ pcBuf' = pcBuf
  BY <1>1, Zenon DEF locals, numberLocals, textLocals, flagLocals
<1>3. pc \in {"scan", "done"} /\ pc' \in {"scan", "done"}  BY <1>1, SMT
<1>4. Between /\ PrintfTypeOK /\ GivenOK /\ BufferHeld /\ pcBuf \in Seq(Characters)
  BY <1>3, Zenon DEF PrintfInv
<1>5. Between'  BY <1>2, <1>4, Zenon DEF Between
<1>6. GivenOK' /\ BufferHeld' /\ pcBuf' \in Seq(Characters)
  BY <1>2, <1>4, Zenon DEF GivenOK, BufferHeld
<1>7. PrintfTypeOK'
  <2>1. pc' \in {"scan", "again", "convert", "pad", "digits", "done"}  BY <1>1, SMT
  <2> QED BY <1>2, <1>4, <2>1, Zenon DEF PrintfTypeOK
<1> QED BY <1>3, <1>5, <1>6, <1>7, Zenon DEF PrintfInv

(* Nothing has been served of the whole format. *)
LEMMA InitHolds ==
  ASSUME PrintfInit
  PROVE  PrintfInv
<1>1. /\ plan \in Plans /\ format = FormatOf(plan)
      /\ given = <<>> /\ out = <<>> /\ pc = "scan"
      /\ ulIdx = 0 /\ ulValue = 0 /\ ulCount = 0 /\ ulBase = 10 /\ ulNeg = FALSE
      /\ ulStrlen = 0 /\ ulCap = 0 /\ cFill = " " /\ cStrlenSet = 0 /\ pcBuf = <<>>
  BY Zenon DEF PrintfInit
<1>2. pc \in {"scan", "done"}  BY <1>1
<1>3. plan \in Seq(Items) /\ Len(plan) \in Nat  BY <1>1, PlanIs, Zenon
<1>4. Len(given) = 0 /\ Len(given) <= Len(plan) /\ given \in Seq(Seq(Argument))
  <2>1. Len(given) = 0  BY <1>1
  <2> DEFINE l == Len(plan)
  <2>2. l \in Nat  BY <1>3
  <2> HIDE DEF l
  <2>3. 0 <= l  BY <2>2, SMT
  <2>4. given \in Seq(Seq(Argument))  BY <1>1, EmptySeq, Zenon
  <2> QED BY <2>1, <2>3, <2>4 DEF l
<1>5. RestOf(plan, 0) = FormatOf(plan)
  <2>1. SubSeq(plan, 1, Len(plan)) = plan
    <3> HIDE DEF Items
    <3> QED BY <1>3, SMT
  <2>2. 0 + 1 = 1  BY SMT
  <2> QED BY <2>1, <2>2 DEF RestOf
<1>6. ServedOf(plan, given, 0) = <<>>  BY ServedNothing
<1>7. PastOf(plan, given, 0)
  <2>1. 1..0 = {}  BY SMT
  <2> QED BY <2>1, Zenon DEF PastOf
<1>8. Between  BY <1>1, <1>4, <1>5, <1>6, <1>7 DEF Between
<1>9. PrintfTypeOK
  <2>1. ULONG \in Nat /\ ULONG >= USHORT  BY PrintfAssumption, Zenon
  <2>2. 0 \in 0..(ULONG - 1)  BY <2>1, SMT DEF USHORT
  <2> QED BY <1>1, <2>2 DEF PrintfTypeOK
<1>10. BufferHeld /\ pcBuf \in Seq(Characters)
  <2>1. Len(pcBuf) = 0  BY <1>1
  <2>2. 0 <= PcBufSize  BY SMT DEF PcBufSize
  <2> QED BY <1>1, <2>1, <2>2, EmptySeq DEF BufferHeld
<1>11. GivenOK  BY <1>1, <1>4, Zenon DEF GivenOK
<1> QED BY <1>2, <1>8, <1>9, <1>10, <1>11, Zenon DEF PrintfInv

(* A step that changes nothing. *)
LEMMA StutterStep ==
  ASSUME PrintfInv, UNCHANGED printfVars
  PROVE  PrintfInv'
<1>1. /\ plan' = plan /\ given' = given /\ pc' = pc /\ format' = format /\ out' = out
      /\ ulIdx' = ulIdx /\ ulValue' = ulValue /\ ulCount' = ulCount /\ ulBase' = ulBase
      /\ ulNeg' = ulNeg /\ ulStrlen' = ulStrlen /\ ulCap' = ulCap /\ cFill' = cFill
      /\ cStrlenSet' = cStrlenSet /\ pcBuf' = pcBuf
  BY Zenon DEF printfVars, locals, numberLocals, textLocals, flagLocals
<1>2. PrintfTypeOK'  BY <1>1, Zenon DEF PrintfInv, PrintfTypeOK
<1>3. GivenOK' /\ BufferHeld' /\ pcBuf' \in Seq(Characters)
  BY <1>1, Zenon DEF PrintfInv, GivenOK, BufferHeld
<1>4. pc' \in {"scan", "done"} => Between'
  BY <1>1, Zenon DEF PrintfInv, Between
<1>5. pc' \notin {"scan", "done"} => Reading'
  <2>1. ThisItem' = ThisItem /\ ThisArgs' = ThisArgs /\ ThisRest' = ThisRest
    BY <1>1 DEF ThisItem, ThisArgs, ThisRest
  <2> QED BY <1>1, <2>1 DEF PrintfInv, Reading, AtFlag, InWidth, AtText, InNumber, OfNumber,
                             Scaling, Emitting
<1> QED BY <1>2, <1>3, <1>4, <1>5, Zenon DEF PrintfInv

(* Every step keeps the inductive invariant. *)
LEMMA StepHolds ==
  ASSUME PrintfInv, PrintfNext
  PROVE  PrintfInv'
<1>1. CASE Scan  BY <1>1, ScanStep
<1>2. CASE Directive
  <2>1. CASE \E c \in Decimal : Digit(c)  BY <2>1, DigitStep, Zenon
  <2>2. CASE Minus  BY <2>2, MinusStep
  <2>3. CASE Dot  BY <2>3, DotStep
  <2>4. CASE Star  BY <2>4, StarStep
  <2>5. CASE Char  BY <2>5, CharStep
  <2>6. CASE Percent  BY <2>6, PercentStep
  <2>7. CASE Unknown  BY <2>7, UnknownStep
  <2>8. CASE Text  BY <2>8, TextStep
  <2>9. CASE Dump("h", g_pcHex)
    <3> DEFINE c == "h"
    <3>1. c \in {"h", "H"} /\ c # "H"  OBVIOUS
    <3>2. g_pcHex \in {g_pcHex, g_pcHex_cap}  BY Zenon
    <3>3. Dump(c, g_pcHex)  BY <2>9
    <3> HIDE DEF c
    <3>4. g_pcHex = (IF c = "H" THEN g_pcHex_cap ELSE g_pcHex)  BY <3>1, Zenon
    <3> QED BY <3>1, <3>2, <3>3, <3>4, DumpStep, Zenon
  <2>10. CASE Dump("H", g_pcHex_cap)
    <3> DEFINE c == "H"
    <3>1. c \in {"h", "H"} /\ c = "H"  OBVIOUS
    <3>2. g_pcHex_cap \in {g_pcHex, g_pcHex_cap}  BY Zenon
    <3>3. Dump(c, g_pcHex_cap)  BY <2>10
    <3> HIDE DEF c
    <3>4. g_pcHex_cap = (IF c = "H" THEN g_pcHex_cap ELSE g_pcHex)  BY <3>1, Zenon
    <3> QED BY <3>1, <3>2, <3>3, <3>4, DumpStep, Zenon
  <2>11. CASE StarText  BY <2>11, StarTextStep
  <2>12. CASE NumberDirective  BY <2>12, NumberStep
  <2> QED BY <1>2, <2>1, <2>2, <2>3, <2>4, <2>5, <2>6, <2>7, <2>8, <2>9, <2>10, <2>11, <2>12,
             Zenon DEF Directive
<1>3. CASE Scale  BY <1>3, ScaleStep
<1>4. CASE Pad  BY <1>4, PadStep
<1>5. CASE EmitDigit  BY <1>5, EmitStep
<1>6. CASE EndNumber  BY <1>6, EndStep
<1>7. CASE Return  BY <1>7, ReturnStep
<1> QED BY <1>1, <1>2, <1>3, <1>4, <1>5, <1>6, <1>7, Zenon DEF PrintfNext

(* The inductive invariant says what PrintedAsAsked says. *)
LEMMA InvTells ==
  ASSUME PrintfInv
  PROVE  PrintedAsAsked
<1> SUFFICES ASSUME pc \in {"scan", "done"} PROVE UpToDirective(Len(given))
  BY Zenon DEF PrintedAsAsked
<1> DEFINE k == Len(given)
<1>1. /\ PastOf(plan, given, k)
      /\ \/ format = RestOf(plan, k) /\ out = ServedOf(plan, given, k)
         \/ k = Len(plan) /\ format = <<>> /\ out = ServedOf(plan, given, k) \o <<"\n">>
  BY BetweenIs
<1>2. \A i \in 1..k : Kinds(i) = Takes[plan[i].conv]
  <2>1. \A i \in 1..k : KindsOf(given[i]) = Takes[plan[i].conv]  BY <1>1, Zenon DEF PastOf
  <2>2. \A i : Kinds(i) = KindsOf(given[i])  BY DEF Kinds, KindsOf
  <2> QED BY <2>1, <2>2
<1>3. Served(k) = ServedOf(plan, given, k)
  <2>1. \A i : Values(i) = ValuesOf(given[i])  BY DEF Values, ValuesOf
  <2>2. [i \in 1..k |-> plan[i].before \o Meaning(plan[i], Values(i))]
        = [i \in 1..k |-> SaysOf(plan[i], given[i])]
    BY <2>1 DEF SaysOf
  <2> QED BY <2>2 DEF Served, ServedOf
<1>4. RestOf(plan, k) = FormatOf(SubSeq(plan, k + 1, Len(plan)))  BY DEF RestOf
<1> QED BY <1>1, <1>2, <1>3, <1>4 DEF UpToDirective

(* The inductive invariant holds of every call. *)
THEOREM PrintfInvariant == PrintfSpec => []PrintfInv
<1>1. PrintfInit => PrintfInv  BY InitHolds
<1>2. PrintfInv /\ [PrintfNext]_printfVars => PrintfInv'
  <2>1. ASSUME PrintfInv, PrintfNext PROVE PrintfInv'  BY <2>1, StepHolds
  <2>2. ASSUME PrintfInv, UNCHANGED printfVars PROVE PrintfInv'  BY <2>2, StutterStep
  <2> QED BY <2>1, <2>2
<1> QED BY <1>1, <1>2, PTL DEF PrintfSpec

(* The locals of semihosted_printf keep to their C types, whatever the     *)
(* format and the arguments.                                               *)
THEOREM PrintfTypeCorrect == PrintfSpec => []PrintfTypeOK
<1>1. PrintfInv => PrintfTypeOK  BY DEF PrintfInv
<1> QED BY <1>1, PrintfInvariant, PTL

(* A number of any value and of any width below 16 never leaves pcBuf.     *)
THEOREM BufferIsHeld == PrintfSpec => []BufferHeld
<1>1. PrintfInv => BufferHeld  BY DEF PrintfInv
<1> QED BY <1>1, PrintfInvariant, PTL

(* Every directive prints what it means on its own, for every format and   *)
(* every value of the arguments.                                           *)
THEOREM PrintsAsAsked == PrintfSpec => []PrintedAsAsked
<1>1. PrintfInv => PrintedAsAsked  BY InvTells
<1> QED BY <1>1, PrintfInvariant, PTL
=============================================================================
