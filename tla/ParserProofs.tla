---------------------------- MODULE ParserProofs ----------------------------
(***************************************************************************)
(* Proofs about Parser, for every alphabet and every size of its buffers:  *)
(* it never writes outside them, whatever bytes arrive, it completes a     *)
(* sentence exactly when the grammar has a frame, and it hands on the      *)
(* fields of that frame.                                                   *)
(*                                                                         *)
(* The grammar defines checksum, counts and joined fields by recursion     *)
(* along a sequence; the parser has them of the bytes so far.  The lemmas  *)
(* of the first two parts say what one more byte does to each.             *)
(***************************************************************************)
EXTENDS Parser, SequenceTheorems, WellFoundedInduction, TLAPS

----------------------------------------------------------------------------
(***************************************************************************)
(* Natural numbers, functions defined from their value one below, and      *)
(* pieces of sequences.                                                    *)
(***************************************************************************)

(* A set of natural numbers that is not empty has a least element.         *)
LEMMA LeastNatural ==
    ASSUME NEW T \in SUBSET Nat, T # {}
    PROVE  \E x \in T : \A y \in T : x <= y
<1> DEFINE R == OpToRel(<, Nat)
<1>1. PICK x \in T : \A y \in T : ~ (<<y, x>> \in R)
  <2>1. IsWellFoundedOn(R, Nat)
    BY NatLessThanWellFounded
  <2> HIDE DEF R
  <2> QED
    BY <2>1, WFMin
<1>2. R = {ss \in Nat \X Nat : ss[1] < ss[2]}
  BY DEF OpToRel
<1> HIDE DEF R
<1>3. ASSUME NEW y \in T PROVE x <= y
  <2>1. <<y, x>> \in R <=> y < x
    BY <1>2
  <2> QED
    BY <1>1, <2>1
<1> QED
  BY <1>3

(***************************************************************************)
(* Induction on the numbers up to n, for the set of those that have the    *)
(* property.                                                               *)
(***************************************************************************)
LEMMA UpTo ==
    ASSUME NEW n \in Nat, NEW Good,
           0 \in Good, \A i \in 1..n : i - 1 \in Good => i \in Good
    PROVE  \A i \in 0..n : i \in Good
<1> SUFFICES ASSUME {i \in 0..n : i \notin Good} # {} PROVE FALSE
  OBVIOUS
<1> DEFINE Bad == {i \in 0..n : i \notin Good}
<1>0. PICK x \in Bad : \A y \in Bad : x <= y
  <2>1. Bad \in SUBSET Nat /\ Bad # {}
    OBVIOUS
  <2> HIDE DEF Bad
  <2> QED
    BY <2>1, LeastNatural
<1>1. x \in 0..n /\ x \notin Good /\ \A y \in 0..n : y \notin Good => x <= y
  BY <1>0
<1>2. x \in 1..n /\ x - 1 \in 0..n
  BY <1>1
<1> QED
  BY <1>1, <1>2

(***************************************************************************)
(* A function may be defined by its value at 0 and, at i, by a step G[i]   *)
(* from its value at i - 1.                                                *)
(***************************************************************************)
Unrolls(f, n, A, base, G) ==
    /\ f \in [0..n -> A]
    /\ f[0] = base /\ \A i \in 1..n : f[i] = G[i][f[i - 1]]

LEMMA RecursionExists ==
    ASSUME NEW n \in Nat, NEW A, NEW base \in A, NEW G \in [1..n -> [A -> A]]
    PROVE  \E f : Unrolls(f, n, A, base, G)
<1> DEFINE Solves(f, k) == f[0] = base /\ \A i \in 1..k : f[i] = G[i][f[i - 1]]
           Good == {k \in 0..n : \E f \in [0..k -> A] : Solves(f, k)}
<1>1. 0 \in Good
  <2> DEFINE g == [i \in 0..0 |-> base]
  <2>1. g \in [0..0 -> A] /\ Solves(g, 0)
    OBVIOUS
  <2> HIDE DEF g
  <2>2. \E f \in [0..0 -> A] : Solves(f, 0)
    BY <2>1
  <2> QED
    BY <2>2
<1>2. ASSUME NEW k \in 1..n, k - 1 \in Good PROVE k \in Good
  <2>1. PICK f \in [0..(k - 1) -> A] : Solves(f, k - 1)
    BY <1>2
  <2> DEFINE g == [i \in 0..k |-> IF i = k THEN G[k][f[k - 1]] ELSE f[i]]
  <2>2. f[k - 1] \in A /\ G[k] \in [A -> A]
    OBVIOUS
  <2>3. g \in [0..k -> A]
    BY <2>2
  <2>4. g[0] = base
    BY <2>1
  <2>5. ASSUME NEW i \in 1..k PROVE g[i] = G[i][g[i - 1]]
    <3>1. CASE i = k
      BY <3>1
    <3>2. CASE i # k
      <4>1. i \in 1..(k - 1) /\ i - 1 \in 0..(k - 1) /\ i - 1 # k
        BY <3>2
      <4> QED
        BY <2>1, <3>2, <4>1
    <3> QED
      BY <3>1, <3>2
  <2> HIDE DEF g
  <2>6. Solves(g, k)
    BY <2>4, <2>5
  <2> HIDE DEF Solves
  <2>7. \E h \in [0..k -> A] : Solves(h, k)
    BY <2>3, <2>6
  <2>8. k \in 0..n
    OBVIOUS
  <2> QED
    BY <2>7, <2>8
<1> HIDE DEF Good
<1>3. \A i \in 1..n : i - 1 \in Good => i \in Good
  BY <1>2
<1>4. \A i \in 0..n : i \in Good
  BY <1>1, <1>3, UpTo
<1>5. n \in Good
  BY <1>4
<1>6. PICK f \in [0..n -> A] : Solves(f, n)
  BY <1>5 DEF Good
<1>7. Unrolls(f, n, A, base, G)
  BY <1>6 DEF Unrolls
<1> QED
  BY <1>7

(* Two functions that start alike and step alike are alike.                *)
StepAlike(f, g, n) ==
    f[0] = g[0] /\ \A i \in 1..n : f[i - 1] = g[i - 1] => f[i] = g[i]

LEMMA RecursionUnique ==
    ASSUME NEW n \in Nat, NEW f, NEW g, StepAlike(f, g, n)
    PROVE  \A i \in 0..n : f[i] = g[i]
<1> DEFINE Good == {k \in 0..n : f[k] = g[k]}
<1>1. 0 \in Good /\ \A i \in 1..n : i - 1 \in Good => i \in Good
  BY DEF StepAlike
<1> HIDE DEF Good
<1>2. \A i \in 0..n : i \in Good
  BY <1>1, UpTo
<1> QED
  BY <1>2 DEF Good

(* What a piece of a sequence is made of.                                  *)
LEMMA PieceShape ==
    ASSUME NEW S, NEW s \in Seq(S), NEW from \in Nat, NEW to \in Nat, to <= Len(s)
    PROVE  /\ SubSeq(s, from + 1, to) \in Seq(S)
           /\ Len(SubSeq(s, from + 1, to)) = IF from <= to THEN to - from ELSE 0
           /\ \A i \in 1..(to - from) : SubSeq(s, from + 1, to)[i] = s[from + i]
<1> DEFINE m == from + 1
<1>1. m \in Int /\ to \in Int /\ \A i \in m..to : s[i] \in S
  OBVIOUS
<1> HIDE DEF m
<1>2. /\ SubSeq(s, m, to) \in Seq(S)
      /\ Len(SubSeq(s, m, to)) = IF m <= to THEN to - m + 1 ELSE 0
      /\ \A i \in 1..(to - m + 1) : SubSeq(s, m, to)[i] = s[m + i - 1]
  BY <1>1, SubSeqProperties
<1> DEFINE u == SubSeq(s, m, to)
<1> HIDE DEF u
<1>3. /\ u \in Seq(S) /\ Len(u) = IF m <= to THEN to - m + 1 ELSE 0
      /\ \A i \in 1..(to - m + 1) : u[i] = s[m + i - 1]
  BY <1>2 DEF u
<1>4. Len(u) = IF from <= to THEN to - from ELSE 0
  BY <1>3 DEF m
<1>5. ASSUME NEW i \in 1..(to - from) PROVE u[i] = s[from + i]
  <2>1. i \in 1..(to - m + 1) /\ m + i - 1 = from + i
    BY DEF m
  <2> QED
    BY <1>3, <2>1
<1> QED
  BY <1>3, <1>4, <1>5 DEF u, m

(* A piece of a longer sequence.                                           *)
LEMMA PieceGrows ==
    ASSUME NEW S, NEW s \in Seq(S), NEW x \in S, NEW from \in Nat
    PROVE  /\ \A to \in Nat : to <= Len(s) =>
                SubSeq(Append(s, x), from + 1, to) = SubSeq(s, from + 1, to)
           /\ from <= Len(s) =>
                SubSeq(Append(s, x), from + 1, Len(s) + 1)
                  = Append(SubSeq(s, from + 1, Len(s)), x)
<1> DEFINE t == Append(s, x)
           n == Len(s)
<1>1. /\ n \in Nat /\ t \in Seq(S) /\ Len(t) = n + 1 /\ t[n + 1] = x
      /\ \A i \in 1..n : t[i] = s[i]
  OBVIOUS
<1> HIDE DEF t
<1>2. ASSUME NEW to \in Nat, to <= n
      PROVE  SubSeq(t, from + 1, to) = SubSeq(s, from + 1, to)
  <2> DEFINE u == SubSeq(s, from + 1, to)
             v == SubSeq(t, from + 1, to)
  <2>1. /\ u \in Seq(S) /\ Len(u) = IF from <= to THEN to - from ELSE 0
        /\ \A i \in 1..(to - from) : u[i] = s[from + i]
    BY <1>2, PieceShape
  <2>2. /\ v \in Seq(S) /\ Len(v) = IF from <= to THEN to - from ELSE 0
        /\ \A i \in 1..(to - from) : v[i] = t[from + i]
    BY <1>1, <1>2, PieceShape
  <2> HIDE DEF u, v
  <2>3. ASSUME NEW i \in 1..Len(u) PROVE u[i] = v[i]
    <3>1. i \in 1..(to - from) /\ from + i \in 1..n
      BY <1>1, <1>2, <2>1
    <3> QED
      BY <1>1, <2>1, <2>2, <3>1
  <2>4. u = v
    BY <2>1, <2>2, <2>3
  <2> QED
    BY <2>4 DEF u, v
<1>3. ASSUME from <= n
      PROVE  SubSeq(t, from + 1, n + 1) = Append(SubSeq(s, from + 1, n), x)
  <2> DEFINE u == SubSeq(s, from + 1, n)
             v == SubSeq(t, from + 1, n + 1)
  <2>1. u \in Seq(S) /\ Len(u) = n - from /\ \A i \in 1..(n - from) : u[i] = s[from + i]
    BY <1>1, <1>3, PieceShape
  <2>2. /\ v \in Seq(S) /\ Len(v) = (n + 1) - from
        /\ \A i \in 1..((n + 1) - from) : v[i] = t[from + i]
    <3> DEFINE to == n + 1
    <3>1. to \in Nat /\ to <= Len(t) /\ from <= to
      BY <1>1, <1>3
    <3> HIDE DEF to
    <3>2. /\ SubSeq(t, from + 1, to) \in Seq(S) /\ Len(SubSeq(t, from + 1, to)) = to - from
          /\ \A i \in 1..(to - from) : SubSeq(t, from + 1, to)[i] = t[from + i]
      BY <1>1, <3>1, PieceShape
    <3> QED
      BY <3>2 DEF to
  <2> HIDE DEF u, v
  <2>3. ASSUME NEW i \in 1..(n - from) PROVE v[i] = u[i]
    <3>1. i \in 1..((n + 1) - from) /\ from + i \in 1..n
      BY <1>1, <1>3
    <3> QED
      BY <1>1, <2>1, <2>2, <3>1
  <2>4. v[Len(u) + 1] = x
    <3>1. Len(u) + 1 \in 1..((n + 1) - from) /\ from + (Len(u) + 1) = n + 1
      BY <1>1, <1>3, <2>1
    <3> QED
      BY <1>1, <2>2, <3>1
  <2>5. Len(v) = Len(u) + 1
    BY <1>1, <1>3, <2>1, <2>2
  <2> HIDE DEF n
  <2>6. v = Append(u, x)
    BY <2>1, <2>2, <2>3, <2>4, <2>5
  <2> QED
    BY <2>6 DEF u, v
<1> QED
  BY <1>2, <1>3 DEF t

----------------------------------------------------------------------------
(***************************************************************************)
(* The operators of the grammar: checksum, counts, joined fields.          *)
(***************************************************************************)

BodyBytes == Payload \cup {Comma}

(* x[i] is the checksum of the first i bytes.                              *)
ChecksumRun(x, s) ==
    /\ x \in [0..Len(s) -> 0..255]
    /\ x[0] = 0 /\ \A i \in 1..Len(s) : x[i] = ChecksumXor(x[i-1], Code[s[i]])

IsChecksum(x, s) ==
    x = [i \in 0..Len(s) |-> IF i = 0 THEN 0 ELSE ChecksumXor(x[i-1], Code[s[i]])]

(* The checksum is the last value of such a run.                           *)
LEMMA ChecksumEquation ==
    ASSUME NEW s \in Seq(BodyBytes)
    PROVE  \E x : ChecksumRun(x, s) /\ Checksum(s) = x[Len(s)]
<1> DEFINE n == Len(s)
           A == 0..255
           zero == 0
           G == [i \in 1..n |-> [a \in A |-> ChecksumXor(a, Code[s[i]])]]
<1>0. n \in Nat /\ zero \in A
  OBVIOUS
<1>1. G \in [1..n -> [A -> A]]
  <2>1. ASSUME NEW i \in 1..n, NEW a \in A
        PROVE  ChecksumXor(a, Code[s[i]]) \in A
    <3>1. s[i] \in BodyBytes
      OBVIOUS
    <3>2. Code[s[i]] \in 0..255
      BY <3>1, GrammarAssumption DEF GrammarAssumption, BodyBytes
    <3> QED
      BY <3>2, XorAssumption DEF XorAssumption
  <2> QED
    BY <2>1
<1>2. PICK f : Unrolls(f, n, A, zero, G)
  <2> HIDE DEF G, n, A, zero
  <2> QED
    BY <1>0, <1>1, RecursionExists
<1>3. f \in [0..n -> A] /\ f[0] = 0 /\ \A i \in 1..n : f[i] = G[i][f[i - 1]]
  BY <1>2 DEF Unrolls
<1>4. \A i \in 1..n : f[i] = ChecksumXor(f[i-1], Code[s[i]])
  <2> SUFFICES ASSUME NEW i \in 1..n PROVE f[i] = ChecksumXor(f[i-1], Code[s[i]])
    OBVIOUS
  <2>1. f[i - 1] \in A
    <3>1. i - 1 \in 0..n
      BY <1>0
    <3> HIDE DEF A, n
    <3> QED
      BY <1>3, <3>1
  <2> QED
    BY <1>3, <2>1
<1>5. IsChecksum(f, s)
  BY <1>3, <1>4 DEF IsChecksum
<1> DEFINE x == CHOOSE x : IsChecksum(x, s)
<1>6. IsChecksum(x, s) /\ Checksum(s) = x[Len(s)]
  BY <1>5 DEF Checksum, IsChecksum
<1> HIDE DEF x
<1>7. \A i \in 0..n : x[i] = f[i]
  <2>1. StepAlike(x, f, n)
    BY <1>3, <1>4, <1>6 DEF IsChecksum, StepAlike
  <2>2. n \in Nat
    BY <1>0
  <2> HIDE DEF n
  <2> QED
    BY <2>1, <2>2, RecursionUnique
<1> HIDE DEF G
<1>8. ChecksumRun(f, s) /\ Checksum(s) = f[n]
  BY <1>0, <1>3, <1>4, <1>6, <1>7 DEF ChecksumRun
<1> QED
  BY <1>8

(* No byte, no checksum.                                                   *)
LEMMA ChecksumEmpty == Checksum(<< >>) = 0
<1>1. << >> \in Seq(BodyBytes) /\ Len(<< >>) = 0
  OBVIOUS
<1> QED
  BY <1>1, ChecksumEquation DEF ChecksumRun

(* The checksum of one byte more, as the parser keeps it.                  *)
LEMMA ChecksumAppend ==
    ASSUME NEW s \in Seq(BodyBytes), NEW b \in BodyBytes
    PROVE  /\ Checksum(s) \in 0..255
           /\ Checksum(Append(s, b)) = ChecksumXor(Checksum(s), Code[b])
<1> DEFINE t == Append(s, b)
           n == Len(s)
<1>1. /\ n \in Nat /\ t \in Seq(BodyBytes) /\ Len(t) = n + 1
      /\ t[n + 1] = b /\ \A i \in 1..n : t[i] = s[i]
  OBVIOUS
<1> HIDE DEF t
<1>2. PICK x : ChecksumRun(x, s) /\ Checksum(s) = x[n]
  BY ChecksumEquation
<1>3. PICK y : ChecksumRun(y, t) /\ Checksum(t) = y[n + 1]
  BY <1>1, ChecksumEquation
<1>4. \A i \in 0..n : x[i] = y[i]
  <2>1. StepAlike(x, y, n)
    BY <1>1, <1>2, <1>3 DEF ChecksumRun, StepAlike
  <2>2. n \in Nat
    OBVIOUS
  <2> HIDE DEF n
  <2> QED
    BY <2>1, <2>2, RecursionUnique
<1>5. y[n + 1] = ChecksumXor(y[n], Code[b]) /\ x[n] \in 0..255
  <2>1. n + 1 \in 1..Len(t) /\ n + 1 - 1 = n
    BY <1>1
  <2>2. y[n + 1] = ChecksumXor(y[n + 1 - 1], Code[t[n + 1]])
    BY <1>3, <2>1 DEF ChecksumRun
  <2>3. x[n] \in 0..255
    <3>1. n \in 0..n
      OBVIOUS
    <3> QED
      BY <1>2, <3>1 DEF ChecksumRun
  <2> QED
    BY <1>1, <2>1, <2>2, <2>3
<1>6. x[n] = y[n]
  BY <1>1, <1>4
<1> QED
  BY <1>2, <1>3, <1>5, <1>6 DEF t

(* c[i] is how many of the first i elements are in the set.                *)
CountRun(c, s, set) ==
    /\ c \in [0..Len(s) -> Nat]
    /\ c[0] = 0
    /\ \A i \in 1..Len(s) : c[i] = c[i-1] + (IF s[i] \in set THEN 1 ELSE 0)

IsCount(c, s, set) ==
    c = [i \in 0..Len(s) |-> IF i = 0 THEN 0 ELSE c[i-1] + (IF s[i] \in set THEN 1 ELSE 0)]

(* A count is the last value of such a run.                                *)
LEMMA CountEquation ==
    ASSUME NEW E, NEW s \in Seq(E), NEW set
    PROVE  \E c : CountRun(c, s, set) /\ Count(s, set) = c[Len(s)]
<1> DEFINE n == Len(s)
           zero == 0
           One(i) == IF s[i] \in set THEN 1 ELSE 0
           G == [i \in 1..n |-> [a \in Nat |-> a + One(i)]]
<1>0. n \in Nat /\ zero \in Nat
  OBVIOUS
<1>1. G \in [1..n -> [Nat -> Nat]]
  <2>1. \A i \in 1..n : \A a \in Nat : a + One(i) \in Nat
    OBVIOUS
  <2> HIDE DEF One, n
  <2> QED
    BY <2>1
<1>2. PICK f : Unrolls(f, n, Nat, zero, G)
  <2> HIDE DEF G, n, zero
  <2> QED
    BY <1>0, <1>1, RecursionExists
<1>3. f \in [0..n -> Nat] /\ f[0] = 0 /\ \A i \in 1..n : f[i] = G[i][f[i - 1]]
  BY <1>2 DEF Unrolls
<1>4. \A i \in 1..n : f[i] = f[i - 1] + One(i)
  <2> SUFFICES ASSUME NEW i \in 1..n PROVE f[i] = f[i-1] + One(i)
    OBVIOUS
  <2>1. f[i - 1] \in Nat
    BY <1>0, <1>3
  <2> HIDE DEF n, One
  <2> QED
    BY <1>3, <2>1
<1>5. IsCount(f, s, set)
  BY <1>3, <1>4 DEF IsCount
<1> DEFINE x == CHOOSE c : IsCount(c, s, set)
<1>6. IsCount(x, s, set) /\ Count(s, set) = x[Len(s)]
  BY <1>5 DEF Count, IsCount
<1> HIDE DEF x
<1>7. \A i \in 0..n : x[i] = f[i]
  <2>1. StepAlike(x, f, n)
    <3>1. x[0] = 0 /\ \A i \in 1..n : x[i] = x[i - 1] + One(i)
      BY <1>0, <1>6 DEF IsCount
    <3> HIDE DEF One
    <3> QED
      BY <1>3, <1>4, <3>1 DEF StepAlike
  <2>2. n \in Nat
    BY <1>0
  <2> HIDE DEF n
  <2> QED
    BY <2>1, <2>2, RecursionUnique
<1> HIDE DEF G
<1>8. CountRun(f, s, set) /\ Count(s, set) = f[n]
  BY <1>0, <1>3, <1>4, <1>6, <1>7 DEF CountRun
<1> QED
  BY <1>8

(* Nothing to count.                                                       *)
LEMMA CountEmpty == \A set : Count(<< >>, set) = 0
<1> SUFFICES ASSUME NEW set PROVE Count(<< >>, set) = 0
  OBVIOUS
<1>1. << >> \in Seq(Bytes) /\ Len(<< >>) = 0
  OBVIOUS
<1> QED
  BY <1>1, CountEquation DEF CountRun

(* The count of a prefix is never the larger, and they step alike.         *)
LEMMA CountPrefix ==
    ASSUME NEW E, NEW s \in Seq(E), NEW t \in Seq(E), NEW set,
           Len(s) <= Len(t), \A i \in 1..Len(s) : t[i] = s[i]
    PROVE  /\ Count(s, set) \in Nat /\ Count(t, set) \in Nat
           /\ Count(s, set) <= Count(t, set)
           /\ Len(t) = Len(s) + 1 =>
                Count(t, set) = Count(s, set) + (IF t[Len(t)] \in set THEN 1 ELSE 0)
<1> DEFINE m == Len(s)
           n == Len(t)
<1>0. m \in Nat /\ n \in Nat /\ m <= n
  OBVIOUS
<1>1. PICK x : CountRun(x, s, set) /\ Count(s, set) = x[m]
  BY CountEquation
<1>2. PICK y : CountRun(y, t, set) /\ Count(t, set) = y[n]
  BY CountEquation
<1>3. \A i \in 0..m : x[i] = y[i]
  <2>1. StepAlike(x, y, m)
    <3> DEFINE One(i) == IF s[i] \in set THEN 1 ELSE 0
    <3>1. x[0] = 0 /\ \A i \in 1..m : x[i] = x[i - 1] + One(i)
      BY <1>1 DEF CountRun
    <3>2. y[0] = 0 /\ \A i \in 1..n : y[i] = y[i - 1] + (IF t[i] \in set THEN 1 ELSE 0)
      BY <1>2 DEF CountRun
    <3>3. \A i \in 1..m : i \in 1..n /\ t[i] = s[i]
      BY <1>0
    <3>4. \A i \in 1..m : y[i] = y[i - 1] + One(i)
      BY <3>2, <3>3
    <3> HIDE DEF One
    <3> QED
      BY <3>1, <3>2, <3>4 DEF StepAlike
  <2>2. m \in Nat
    OBVIOUS
  <2> HIDE DEF m
  <2> QED
    BY <2>1, <2>2, RecursionUnique
<1>4. x[m] \in Nat /\ x[m] = y[m] /\ \A i \in 0..n : y[i] \in Nat
  <2>1. m \in 0..m
    BY <1>0
  <2>2. x \in [0..m -> Nat] /\ y \in [0..n -> Nat]
    BY <1>1, <1>2 DEF CountRun
  <2> QED
    BY <1>3, <2>1, <2>2
<1> DEFINE Good == {i \in 0..n : i < m \/ y[m] <= y[i]}
<1>5. 0 \in Good
  BY <1>0, <1>4
<1>6. \A i \in 1..n : i - 1 \in Good => i \in Good
  <2> SUFFICES ASSUME NEW i \in 1..n, i - 1 \in Good PROVE i \in Good
    OBVIOUS
  <2>1. y[i] = y[i-1] + (IF t[i] \in set THEN 1 ELSE 0)
    BY <1>2 DEF CountRun
  <2>2. i \in 0..n /\ i - 1 \in 0..n
    BY <1>0
  <2>3. CASE i <= m
    BY <1>0, <1>4, <2>2, <2>3
  <2>4. CASE i > m
    BY <1>0, <1>4, <2>1, <2>2, <2>4
  <2> QED
    BY <1>0, <2>3, <2>4
<1>7. \A i \in 0..n : i \in Good
  <2> HIDE DEF Good
  <2> QED
    BY <1>0, <1>5, <1>6, UpTo
<1>8. y[m] <= y[n]
  BY <1>0, <1>7
<1>9. n = m + 1 => y[n] = y[m] + (IF t[n] \in set THEN 1 ELSE 0)
  BY <1>0, <1>2 DEF CountRun
<1> QED
  BY <1>0, <1>1, <1>2, <1>4, <1>8, <1>9

(* The count of one element more.                                          *)
LEMMA CountAppend ==
    ASSUME NEW E, NEW s \in Seq(E), NEW b \in E, NEW set
    PROVE  /\ Count(s, set) \in Nat
           /\ Count(Append(s, b), set) = Count(s, set) + (IF b \in set THEN 1 ELSE 0)
<1> DEFINE t == Append(s, b)
<1>1. /\ t \in Seq(E) /\ Len(t) = Len(s) + 1 /\ Len(s) <= Len(t)
      /\ t[Len(t)] = b /\ \A i \in 1..Len(s) : t[i] = s[i]
  OBVIOUS
<1> HIDE DEF t
<1>2. Count(s, set) \in Nat /\ Count(t, set) = Count(s, set) + (IF b \in set THEN 1 ELSE 0)
  BY <1>1, CountPrefix
<1> QED
  BY <1>2 DEF t

(* Nothing counted, nothing there.                                         *)
LEMMA CountZero ==
    ASSUME NEW E, NEW s \in Seq(E), NEW set
    PROVE  Count(s, set) = 0 <=> \A i \in 1..Len(s) : s[i] \notin set
<1> DEFINE n == Len(s)
<1>0. n \in Nat
  OBVIOUS
<1>1. PICK c : CountRun(c, s, set) /\ Count(s, set) = c[n]
  BY CountEquation
<1>2. ASSUME \A i \in 1..n : s[i] \notin set PROVE c[n] = 0
  <2> DEFINE Good == {i \in 0..n : c[i] = 0}
  <2>1. 0 \in Good /\ \A i \in 1..n : i - 1 \in Good => i \in Good
    BY <1>0, <1>1, <1>2 DEF CountRun
  <2>2. \A i \in 0..n : i \in Good
    <3>1. n \in Nat
      BY <1>0
    <3> HIDE DEF Good, n
    <3> QED
      BY <2>1, <3>1, UpTo
  <2> QED
    BY <1>0, <2>2
<1>3. ASSUME NEW i \in 1..n, s[i] \in set PROVE c[n] # 0
  <2> DEFINE Good == {k \in 0..n : k < i \/ c[k] >= 1}
  <2>0. \A k \in 0..n : c[k] \in Nat
    BY <1>1 DEF CountRun
  <2>1. 0 \in Good
    BY <1>0, <1>3
  <2>2. \A k \in 1..n : k - 1 \in Good => k \in Good
    <3> SUFFICES ASSUME NEW k \in 1..n, k - 1 \in Good PROVE k \in Good
      OBVIOUS
    <3>1. c[k] = c[k-1] + (IF s[k] \in set THEN 1 ELSE 0)
      BY <1>1 DEF CountRun
    <3>2. c[k - 1] \in Nat /\ c[k] \in Nat /\ k \in 0..n
      BY <1>0, <2>0
    <3>3. CASE k < i
      BY <1>0, <3>2, <3>3
    <3>4. CASE k = i
      BY <1>0, <1>3, <3>1, <3>2, <3>4
    <3>5. CASE k > i
      BY <1>0, <3>1, <3>2, <3>5
    <3> QED
      BY <1>0, <3>3, <3>4, <3>5
  <2>3. \A k \in 0..n : k \in Good
    <3>1. n \in Nat
      BY <1>0
    <3> HIDE DEF Good, n
    <3> QED
      BY <2>1, <2>2, <3>1, UpTo
  <2> QED
    BY <1>0, <2>0, <2>3
<1> QED
  BY <1>1, <1>2, <1>3

Glue(a, b) == a \o <<Comma>> \o b

Glued(j, p, n) == \A i \in 2..n : j[i] = Glue(j[i-1], p[i])

(* j[i] is the first i pieces, put together.                               *)
JoinRun(j, p, E) ==
    /\ j \in [1..Len(p) -> Seq(E)]
    /\ j[1] = p[1] /\ Glued(j, p, Len(p))

IsJoin(j, p) ==
    j = [i \in 1..Len(p) |-> IF i = 1 THEN p[1] ELSE j[i-1] \o <<Comma>> \o p[i]]

(* Two pieces glued together are a sequence of the same elements.          *)
LEMMA GlueType ==
    ASSUME NEW E, Comma \in E, NEW a \in Seq(E), NEW b \in Seq(E)
    PROVE  Glue(a, b) \in Seq(E)
<1>1. <<Comma>> \in Seq(E)
  OBVIOUS
<1>2. a \o <<Comma>> \in Seq(E)
  BY <1>1
<1> QED
  BY <1>2 DEF Glue

(* Two runs that start alike are alike where the pieces are.               *)
LEMMA JoinUnique ==
    ASSUME NEW n \in Nat, n >= 1, NEW x, NEW y, NEW p, x[1] = y[1],
           Glued(x, p, n), Glued(y, p, n)
    PROVE  \A i \in 1..n : x[i] = y[i]
<1> DEFINE m == n - 1
           f == [i \in 0..m |-> x[i + 1]]
           g == [i \in 0..m |-> y[i + 1]]
<1>1. m \in Nat /\ f[0] = g[0]
  OBVIOUS
<1>2. \A i \in 1..m : f[i - 1] = g[i - 1] => f[i] = g[i]
  <2> SUFFICES ASSUME NEW i \in 1..m, f[i - 1] = g[i - 1] PROVE f[i] = g[i]
    OBVIOUS
  <2>1. i - 1 \in 0..m /\ i \in 0..m /\ i + 1 \in 2..n /\ (i - 1) + 1 = i /\ (i + 1) - 1 = i
    OBVIOUS
  <2>2. x[i] = y[i]
    BY <2>1
  <2>3. x[i + 1] = Glue(x[i], p[i + 1]) /\ y[i + 1] = Glue(y[i], p[i + 1])
    BY <2>1 DEF Glued
  <2> QED
    BY <2>1, <2>2, <2>3
<1>3. StepAlike(f, g, m)
  BY <1>1, <1>2 DEF StepAlike
<1>4. \A i \in 0..m : f[i] = g[i]
  <2> HIDE DEF f, g, m
  <2> QED
    BY <1>1, <1>3, RecursionUnique
<1>5. ASSUME NEW i \in 1..n PROVE x[i] = y[i]
  <2>1. i - 1 \in 0..m /\ (i - 1) + 1 = i
    OBVIOUS
  <2>2. f[i - 1] = g[i - 1]
    BY <1>4, <2>1
  <2> QED
    BY <2>1, <2>2
<1> QED
  BY <1>5

(* Pieces put together are the last value of such a run.                   *)
LEMMA JoinEquation ==
    ASSUME NEW E, Comma \in E, NEW p \in Seq(Seq(E)), p # << >>
    PROVE  \E j : JoinRun(j, p, E) /\ JoinedByCommas(p) = j[Len(p)]
<1> DEFINE n == Len(p)
           m == n - 1
           A == Seq(E)
           first == p[1]
           G == [k \in 1..m |-> [a \in A |-> Glue(a, p[k + 1])]]
<1>0. n \in Nat /\ n >= 1 /\ m \in Nat /\ first \in A
  OBVIOUS
<1>1. G \in [1..m -> [A -> A]]
  <2>1. \A k \in 1..m : \A a \in A : Glue(a, p[k + 1]) \in A
    <3> SUFFICES ASSUME NEW k \in 1..m, NEW a \in A PROVE Glue(a, p[k + 1]) \in A
      OBVIOUS
    <3>1. p[k + 1] \in Seq(E)
      BY <1>0
    <3> QED
      BY <3>1, GlueType
  <2> HIDE DEF A, m
  <2> QED
    BY <2>1
<1>2. PICK f : Unrolls(f, m, A, first, G)
  <2> HIDE DEF G, m, A, first
  <2> QED
    BY <1>0, <1>1, RecursionExists
<1>3. f \in [0..m -> A] /\ f[0] = p[1] /\ \A i \in 1..m : f[i] = G[i][f[i - 1]]
  BY <1>2 DEF Unrolls
<1>4. \A i \in 1..m : f[i] = Glue(f[i-1], p[i + 1])
  <2> SUFFICES ASSUME NEW i \in 1..m PROVE f[i] = Glue(f[i-1], p[i + 1])
    OBVIOUS
  <2>1. f[i - 1] \in A
    <3>1. i - 1 \in 0..m
      BY <1>0
    <3> HIDE DEF A, m
    <3> QED
      BY <1>3, <3>1
  <2> HIDE DEF A
  <2> QED
    BY <1>3, <2>1
<1> DEFINE g == [i \in 1..n |-> f[i - 1]]
<1> HIDE DEF G
<1>5. g \in [1..n -> A] /\ g[1] = p[1] /\ Glued(g, p, n)
  <2>1. g \in [1..n -> A]
    <3>1. \A i \in 1..n : i - 1 \in 0..m
      BY <1>0
    <3> HIDE DEF A, m, n
    <3> QED
      BY <1>3, <3>1
  <2>2. g[1] = p[1]
    BY <1>0, <1>3
  <2>3. ASSUME NEW i \in 2..n PROVE g[i] = Glue(g[i-1], p[i])
    <3>1. i - 1 \in 1..m /\ i \in 1..n /\ i - 1 \in 1..n /\ (i - 1) + 1 = i
      BY <1>0
    <3>2. f[i - 1] = Glue(f[(i - 1) - 1], p[(i - 1) + 1])
      BY <1>4, <3>1
    <3> QED
      BY <3>1, <3>2
  <2> QED
    BY <2>1, <2>2, <2>3 DEF Glued
<1> HIDE DEF g
<1>6. IsJoin(g, p)
  <2>1. g = [i \in 1..n |-> g[i]]
    BY <1>5
  <2>2. \A i \in 1..n : g[i] = IF i = 1 THEN p[1] ELSE g[i-1] \o <<Comma>> \o p[i]
    <3> SUFFICES ASSUME NEW i \in 1..n
                 PROVE  g[i] = IF i = 1 THEN p[1] ELSE g[i-1] \o <<Comma>> \o p[i]
      OBVIOUS
    <3>1. i = 1 \/ i \in 2..n
      BY <1>0
    <3> QED
      BY <1>5, <3>1 DEF Glue, Glued
  <2> HIDE DEF n
  <2>3. g = [i \in 1..n |-> IF i = 1 THEN p[1] ELSE g[i-1] \o <<Comma>> \o p[i]]
    BY <2>1, <2>2
  <2> QED
    BY <2>3 DEF n, IsJoin
<1> DEFINE x == CHOOSE j : IsJoin(j, p)
<1>7. IsJoin(x, p) /\ JoinedByCommas(p) = x[Len(p)]
  BY <1>6 DEF JoinedByCommas, IsJoin
<1> HIDE DEF x
<1>8. x[1] = p[1] /\ Glued(x, p, n)
  <2>1. \A i \in 2..n : i \in 1..n /\ i # 1
    BY <1>0
  <2>2. \A i \in 2..n : x[i] = x[i-1] \o <<Comma>> \o p[i]
    BY <1>7, <2>1 DEF IsJoin
  <2>3. x[1] = p[1]
    BY <1>0, <1>7 DEF IsJoin
  <2> QED
    BY <2>2, <2>3 DEF Glue, Glued
<1>9. x[n] = g[n]
  <2>1. \A i \in 1..n : x[i] = g[i]
    <3>1. x[1] = g[1] /\ Glued(x, p, n) /\ Glued(g, p, n)
      BY <1>5, <1>8
    <3> HIDE DEF n
    <3> QED
      BY <1>0, <3>1, JoinUnique
  <2> QED
    BY <1>0, <2>1
<1>10. JoinRun(g, p, E)
  BY <1>5 DEF JoinRun
<1> QED
  BY <1>7, <1>9, <1>10

(* The pieces of a body are put together from the left.                    *)
LEMMA JoinAppend ==
    ASSUME NEW E, Comma \in E, NEW p \in Seq(Seq(E)), NEW piece \in Seq(E)
    PROVE  /\ JoinedByCommas(<<piece>>) = piece
           /\ p # << >> =>
                /\ JoinedByCommas(p) \in Seq(E)
                /\ JoinedByCommas(Append(p, piece))
                     = JoinedByCommas(p) \o <<Comma>> \o piece
<1>1. JoinedByCommas(<<piece>>) = piece
  <2>1. <<piece>> \in Seq(Seq(E)) /\ <<piece>> # << >> /\ Len(<<piece>>) = 1 /\ <<piece>>[1] = piece
    OBVIOUS
  <2>2. PICK j : JoinRun(j, <<piece>>, E) /\ JoinedByCommas(<<piece>>) = j[1]
    BY <2>1, JoinEquation
  <2> QED
    BY <2>1, <2>2 DEF JoinRun
<1>2. ASSUME p # << >>
      PROVE  /\ JoinedByCommas(p) \in Seq(E)
             /\ JoinedByCommas(Append(p, piece)) = Glue(JoinedByCommas(p), piece)
  <2> DEFINE q == Append(p, piece)
             n == Len(p)
  <2>1. /\ n \in Nat /\ n >= 1 /\ q \in Seq(Seq(E)) /\ q # << >> /\ Len(q) = n + 1
        /\ q[n + 1] = piece /\ \A i \in 1..n : q[i] = p[i]
    <3>1. n \in Nat /\ n >= 1
      BY <1>2
    <3>2. q \in Seq(Seq(E)) /\ Len(q) = n + 1
      OBVIOUS
    <3>3. q[n + 1] = piece /\ \A i \in 1..n : q[i] = p[i]
      OBVIOUS
    <3>4. q # << >>
      BY <3>1, <3>2
    <3> QED
      BY <3>1, <3>2, <3>3, <3>4
  <2> HIDE DEF q
  <2>2. PICK x : JoinRun(x, p, E) /\ JoinedByCommas(p) = x[n]
    BY <1>2, JoinEquation
  <2>3. PICK y : JoinRun(y, q, E) /\ JoinedByCommas(q) = y[n + 1]
    BY <2>1, JoinEquation
  <2>4. x[1] = y[1]
    BY <2>1, <2>2, <2>3 DEF JoinRun
  <2>5. Glued(x, p, n) /\ Glued(y, p, n)
    <3>1. \A i \in 2..n : i \in 2..Len(q) /\ q[i] = p[i]
      BY <2>1
    <3> QED
      BY <2>2, <2>3, <3>1 DEF JoinRun, Glued
  <2>6. \A i \in 1..n : x[i] = y[i]
    <3>1. n \in Nat /\ n >= 1
      BY <2>1
    <3> HIDE DEF n
    <3> QED
      BY <2>4, <2>5, <3>1, JoinUnique
  <2>7. x[n] = y[n] /\ x[n] \in Seq(E)
    BY <2>1, <2>2, <2>6 DEF JoinRun
  <2>8. y[n + 1] = Glue(y[n], piece)
    <3>1. n + 1 \in 2..Len(q) /\ (n + 1) - 1 = n
      BY <2>1
    <3>2. y[n + 1] = Glue(y[(n + 1) - 1], q[n + 1])
      BY <2>3, <3>1 DEF JoinRun, Glued
    <3> QED
      BY <2>1, <3>1, <3>2
  <2> QED
    BY <2>2, <2>3, <2>7, <2>8 DEF q
<1> QED
  BY <1>1, <1>2 DEF Glue

----------------------------------------------------------------------------
(***************************************************************************)
(* Which sequences of bytes are frames.                                    *)
(***************************************************************************)

Extends(f, s) == Len(s) <= Len(f) /\ \A i \in 1..Len(s) : f[i] = s[i]

(* No frame goes on after s; no frame begins with s.                       *)
Spent(s) == \A f \in Seq(Bytes) : Extends(f, s) /\ Len(f) > Len(s) => ~IsFrame(f)
Dead(s)  == \A f \in Seq(Bytes) : Extends(f, s) => ~IsFrame(f)

(* The kinds of byte do not overlap.                                       *)
LEMMA ByteKinds ==
    /\ BodyBytes \subseteq Bytes /\ Hex \subseteq BodyBytes /\ Star \in Bytes
    /\ Star \notin BodyBytes /\ Star \notin Hex
    /\ \A byte \in Eol : byte \notin BodyBytes /\ byte \notin Hex /\ byte # Star
    /\ Comma \in BodyBytes /\ Comma \notin Payload
  BY GrammarAssumption DEF BodyBytes, Bytes, GrammarAssumption

(* The body of a frame is what precedes its last three bytes.              *)
LEMMA BodyShape ==
    ASSUME NEW f \in Seq(Bytes), Len(f) >= 3
    PROVE  /\ Body(f) \in Seq(Bytes) /\ Len(Body(f)) = Len(f) - 3
           /\ \A i \in 1..(Len(f) - 3) : Body(f)[i] = f[i]
<1> DEFINE m == Len(f) - 3
<1>1. 1 \in Int /\ m \in Int /\ m >= 0 /\ \A i \in 1..m : f[i] \in Bytes
  OBVIOUS
<1> HIDE DEF m
<1>2. /\ SubSeq(f, 1, m) \in Seq(Bytes)
      /\ Len(SubSeq(f, 1, m)) = IF 1 <= m THEN m - 1 + 1 ELSE 0
      /\ \A i \in 1..(m - 1 + 1) : SubSeq(f, 1, m)[i] = f[1 + i - 1]
  BY <1>1, SubSeqProperties
<1>3. /\ SubSeq(f, 1, m) \in Seq(Bytes) /\ Len(SubSeq(f, 1, m)) = m
      /\ \A i \in 1..m : SubSeq(f, 1, m)[i] = f[i]
  BY <1>1, <1>2
<1> QED
  BY <1>3 DEF Body, m

(* Where the star of a frame is, and what it may not hold before it.       *)
LEMMA FrameShape ==
    ASSUME NEW f \in Seq(Bytes), IsFrame(f)
    PROVE  /\ Len(f) >= 3 /\ f[Len(f) - 2] = Star
           /\ f[Len(f) - 1] \in Hex /\ f[Len(f)] \in Hex
           /\ \A i \in 1..(Len(f) - 3) : f[i] # Star /\ f[i] \notin Eol
<1> DEFINE n == Len(f)
<1>1. n \in Nat /\ n >= 3
  BY DEF IsFrame
<1>2. /\ Body(f) \in Seq(Bytes) /\ Len(Body(f)) = n - 3
      /\ \A i \in 1..(n - 3) : Body(f)[i] = f[i]
  BY <1>1, BodyShape
<1>3. Count(Body(f), Eol \cup {Star}) = 0
  BY DEF IsFrame
<1>4. \A i \in 1..(n - 3) : Body(f)[i] \notin Eol \cup {Star}
  BY <1>2, <1>3, CountZero
<1> QED
  BY <1>1, <1>2, <1>4 DEF IsFrame

(* The first star of a byte sequence is the star of its frame.             *)
LEMMA StarPlace ==
    ASSUME NEW f \in Seq(Bytes), IsFrame(f), NEW k \in 1..Len(f), f[k] = Star
    PROVE  k = Len(f) - 2
<1>1. Len(f) \in Nat /\ f[Len(f) - 1] # Star /\ f[Len(f)] # Star
  BY FrameShape, ByteKinds
<1>2. k \notin 1..(Len(f) - 3)
  BY FrameShape
<1>3. k # Len(f) - 1 /\ k # Len(f)
  BY <1>1
<1> QED
  BY <1>1, <1>2, <1>3

(* No frame has a body that does not fit, whatever follows.                *)
LEMMA Overfull ==
    ASSUME NEW s \in Seq(BodyBytes), NEW f \in Seq(Bytes), Extends(f, s),
           \/ Count(s, Payload) > kMaxSentence
           \/ Count(s, {Comma}) > kMaxFields
    PROVE  ~IsFrame(f)
<1> SUFFICES ASSUME IsFrame(f) PROVE FALSE
  OBVIOUS
<1> DEFINE n == Len(f)
<1>1. n \in Nat /\ n >= 3 /\ f[n - 2] = Star
  BY FrameShape
<1>2. Len(s) < n - 2
  <2> SUFFICES ASSUME n - 2 <= Len(s) PROVE FALSE
    BY <1>1
  <2>1. n - 2 \in 1..Len(s)
    BY <1>1
  <2>2. f[n - 2] = s[n - 2] /\ s[n - 2] \in BodyBytes
    BY <2>1 DEF Extends
  <2> QED
    BY <1>1, <2>2, ByteKinds
<1>3. /\ Body(f) \in Seq(Bytes) /\ Len(Body(f)) = n - 3
      /\ \A i \in 1..(n - 3) : Body(f)[i] = f[i]
  BY <1>1, BodyShape
<1>4. /\ s \in Seq(Bytes) /\ Len(s) <= Len(Body(f))
      /\ \A i \in 1..Len(s) : Body(f)[i] = s[i]
  <2>1. s \in Seq(Bytes)
    BY ByteKinds
  <2>2. \A i \in 1..Len(s) : i \in 1..(n - 3)
    BY <1>1, <1>2
  <2> QED
    BY <1>1, <1>2, <1>3, <2>1, <2>2 DEF Extends
<1>5. \A set : /\ Count(s, set) \in Nat /\ Count(Body(f), set) \in Nat
               /\ Count(s, set) <= Count(Body(f), set)
  BY <1>3, <1>4, CountPrefix
<1> QED
  BY <1>5, GrammarAssumption DEF IsFrame, GrammarAssumption

(* No frame goes on with a byte that ends the line.                        *)
LEMMA EolBreaks ==
    ASSUME NEW s \in Seq(BodyBytes), NEW byte \in Eol, NEW f \in Seq(Bytes),
           Extends(f, Append(s, byte))
    PROVE  ~IsFrame(f)
<1> SUFFICES ASSUME IsFrame(f) PROVE FALSE
  OBVIOUS
<1> DEFINE n == Len(f)
           k == Len(s) + 1
<1>1. /\ n \in Nat /\ k \in 1..n /\ f[k] = byte
      /\ \A i \in 1..Len(s) : f[i] \in BodyBytes
  <2>1. /\ Len(Append(s, byte)) = k /\ Append(s, byte)[k] = byte
        /\ \A i \in 1..Len(s) : Append(s, byte)[i] = s[i] /\ s[i] \in BodyBytes
    OBVIOUS
  <2> QED
    BY <2>1 DEF Extends
<1>2. n >= 3 /\ f[n - 2] = Star /\ f[n - 1] \in Hex /\ f[n] \in Hex
  BY FrameShape
<1>3. \A i \in 1..(n - 3) : f[i] \notin Eol
  BY FrameShape
<1>4. k \notin 1..(n - 3) /\ k # n - 2 /\ k # n - 1 /\ k # n
  BY <1>1, <1>2, <1>3, ByteKinds
<1> QED
  BY <1>1, <1>2, <1>4

(* Nor with anything but a digit, once and twice, after its star.          *)
LEMMA DigitBreaks ==
    ASSUME NEW b \in Seq(BodyBytes), NEW f \in Seq(Bytes), NEW x, NEW y,
           NEW s, s = Append(b, Star),
           \/ Extends(f, Append(s, x)) /\ x \notin Hex
           \/ Extends(f, Append(Append(s, x), y)) /\ y \notin Hex
    PROVE  ~IsFrame(f)
<1> SUFFICES ASSUME IsFrame(f) PROVE FALSE
  OBVIOUS
<1> DEFINE n == Len(f)
           k == Len(b) + 1
           t == Append(s, x)
           u == Append(t, y)
<1>0. n \in Nat /\ k \in Nat /\ k >= 1
  OBVIOUS
<1>1. /\ Len(s) = k /\ Len(t) = k + 1 /\ Len(u) = k + 2
      /\ t[k] = Star /\ t[k + 1] = x /\ u[k] = Star /\ u[k + 2] = y
  <2> DEFINE E == Bytes \cup {x, y}
  <2>1. b \in Seq(E) /\ Star \in E /\ x \in E /\ y \in E
    BY ByteKinds
  <2> HIDE DEF E
  <2>2. s \in Seq(E) /\ Len(s) = k /\ s[k] = Star
    BY <2>1
  <2>3. t \in Seq(E) /\ Len(t) = k + 1 /\ t[k] = Star /\ t[k + 1] = x
    BY <1>0, <2>1, <2>2
  <2> HIDE DEF t
  <2>4. Len(u) = k + 2 /\ u[k] = Star /\ u[k + 2] = y
    BY <1>0, <2>1, <2>3
  <2> QED
    BY <2>2, <2>3, <2>4
<1> HIDE DEF t, u
<1>2. \/ k + 1 <= n /\ f[k] = Star /\ f[k + 1] \notin Hex
      \/ k + 2 <= n /\ f[k] = Star /\ f[k + 2] \notin Hex
  <2>1. k \in 1..(k+1) /\ k + 1 \in 1..(k+1) /\ k \in 1..(k+2) /\ k + 2 \in 1..(k+2)
    BY <1>0
  <2> QED
    BY <1>1, <2>1 DEF Extends, t, u
<1>3. k = n - 2
  BY <1>0, <1>2, StarPlace
<1> QED
  BY <1>0, <1>2, <1>3, FrameShape

(* What the reader has while a sentence is open is never a frame.          *)
LEMMA OpenIsNoFrame ==
    ASSUME NEW b \in Seq(BodyBytes), NEW x \in Bytes
    PROVE  /\ ~IsFrame(b)
           /\ ~IsFrame(Append(b, Star))
           /\ ~IsFrame(Append(Append(b, Star), x))
<1> DEFINE k == Len(b) + 1
           s == Append(b, Star)
           t == Append(s, x)
<1>0. k \in Nat /\ k >= 1
  OBVIOUS
<1>1. b \in Seq(Bytes) /\ Star \in Bytes
  BY ByteKinds
<1>2. s \in Seq(Bytes) /\ Len(s) = k /\ s[k] = Star
  BY <1>1
<1> HIDE DEF s
<1>3. t \in Seq(Bytes) /\ Len(t) = k + 1 /\ t[k] = Star
  BY <1>0, <1>2
<1> HIDE DEF t
<1>4. ~IsFrame(b)
  <2> SUFFICES ASSUME IsFrame(b) PROVE FALSE
    OBVIOUS
  <2>1. Len(b) >= 3 /\ b[Len(b) - 2] = Star
    BY <1>1, FrameShape
  <2>2. b[Len(b) - 2] \in BodyBytes
    BY <2>1
  <2> QED
    BY <2>1, <2>2, ByteKinds
<1>5. ~IsFrame(s)
  BY <1>0, <1>2, StarPlace
<1>6. ~IsFrame(t)
  BY <1>0, <1>3, StarPlace
<1> QED
  BY <1>4, <1>5, <1>6 DEF s, t

(* A body that fits and two digits are a frame, and the last with it.      *)
LEMMA ClosedIsFrame ==
    ASSUME NEW b \in Seq(BodyBytes), NEW x \in Hex, NEW y \in Hex, NEW f,
           f = Append(Append(Append(b, Star), x), y),
           Count(b, Payload) <= kMaxSentence, Count(b, {Comma}) <= kMaxFields
    PROVE  /\ f \in Seq(Bytes) /\ IsFrame(f) /\ Body(f) = b
           /\ Announced(f) = 16 * HexNibble[x] + HexNibble[y]
           /\ Spent(f)
<1> DEFINE k == Len(b)
           s == Append(b, Star)
           t == Append(s, x)
<1>0. k \in Nat
  OBVIOUS
<1>1. b \in Seq(Bytes) /\ Star \in Bytes /\ x \in Bytes /\ y \in Bytes
  BY ByteKinds
<1>2. s \in Seq(Bytes) /\ Len(s) = k + 1 /\ s[k + 1] = Star /\ \A i \in 1..k : s[i] = b[i]
  BY <1>1
<1> HIDE DEF s
<1>3. /\ t \in Seq(Bytes) /\ Len(t) = k + 2 /\ t[k + 1] = Star /\ t[k + 2] = x
      /\ \A i \in 1..k : t[i] = b[i]
  BY <1>0, <1>1, <1>2
<1> HIDE DEF t
<1>4. /\ f \in Seq(Bytes) /\ Len(f) = k + 3
      /\ f[k + 1] = Star /\ f[k + 2] = x /\ f[k + 3] = y
      /\ \A i \in 1..k : f[i] = b[i]
  <2>1. f = Append(t, y)
    BY DEF s, t
  <2> QED
    BY <1>0, <1>1, <1>3, <2>1
<1>5. Body(f) = b
  <2>1. /\ Body(f) \in Seq(Bytes) /\ Len(Body(f)) = k
        /\ \A i \in 1..k : Body(f)[i] = b[i]
    BY <1>0, <1>4 DEF Body
  <2> QED
    BY <1>1, <2>1
<1>6. Count(b, Eol \cup {Star}) = 0
  <2>1. \A i \in 1..Len(b) : b[i] \notin Eol \cup {Star}
    <3>1. \A i \in 1..Len(b) : b[i] \in BodyBytes
      OBVIOUS
    <3> QED
      BY <3>1, ByteKinds
  <2> QED
    BY <1>1, <2>1, CountZero
<1>7. /\ Len(f) - 2 = k + 1 /\ Len(f) - 1 = k + 2 /\ Len(f) = k + 3 /\ Len(f) >= 3
  BY <1>0, <1>4
<1>8. IsFrame(f)
  BY <1>4, <1>5, <1>6, <1>7 DEF IsFrame
<1>9. Announced(f) = 16 * HexNibble[x] + HexNibble[y]
  BY <1>4, <1>7 DEF Announced
<1>10. ASSUME NEW g \in Seq(Bytes), Extends(g, f), Len(g) > Len(f), IsFrame(g) PROVE FALSE
  <2>1. k + 1 \in 1..Len(f) /\ k + 1 \in 1..Len(g) /\ Len(g) \in Nat
    BY <1>0, <1>7, <1>10
  <2>2. g[k + 1] = Star
    BY <1>4, <1>10, <2>1 DEF Extends
  <2>3. k + 1 = Len(g) - 2
    BY <1>10, <2>1, <2>2, StarPlace
  <2> QED
    BY <1>0, <1>7, <1>10, <2>1, <2>3
<1> QED
  BY <1>4, <1>5, <1>8, <1>9, <1>10 DEF Spent

----------------------------------------------------------------------------
(***************************************************************************)
(* The buffers.                                                            *)
(***************************************************************************)

(* What finalize() relies on beside the tiling.                            *)
Inv ==
    /\ TypeOK
    /\ TokensTileTheBuffer
    /\ fsm = "Csum2" => expected <= 240

(* The parser starts with empty buffers.                                   *)
LEMMA InitInv == Init => Inv
  BY GrammarAssumption DEF Init, Inv, TypeOK, TokensTileTheBuffer, Token

(* The history takes any byte.                                             *)
LEMMA SeenType ==
    ASSUME stream \in Seq(Bytes) \cup {NoStream}, NEW byte \in Bytes, Seen(byte)
    PROVE  stream' \in Seq(Bytes) \cup {NoStream}
  BY DEF Seen

(* A delimiter empties them.                                               *)
LEMMA DelimiterInv ==
    ASSUME Inv, NEW byte \in Bytes, Delimiter(byte)
    PROVE  Inv'
  BY GrammarAssumption
     DEF Inv, TypeOK, TokensTileTheBuffer, Delimiter, GoOn, Token

(* The checksum keeps its eight bits.                                      *)
LEMMA XorType ==
    ASSUME NEW c \in 0..255, NEW byte \in Payload \cup {Comma}
    PROVE  ChecksumXor(c, Code[byte]) \in 0..255
  <1>1. Code[byte] \in 0..255
    BY GrammarAssumption
  <1> QED
    BY <1>1, XorAssumption

(* Bytes that leave the buffers alone.                                     *)
LEMMA PassInv ==
    ASSUME Inv, NEW byte \in Bytes,
           \/ Skip(byte) \/ EndOfLine(byte) \/ FirstDigit(byte)
           \/ NotADigit(byte) \/ SecondDigit(byte)
    PROVE  Inv'
  <1>1. stream' \in Seq(Bytes) \cup {NoStream}
    BY SeenType DEF Inv, TypeOK, Skip, EndOfLine, FirstDigit, NotADigit, SecondDigit
  <1>2. UNCHANGED tokenVars
    BY DEF Skip, EndOfLine, FirstDigit, NotADigit, SecondDigit
  <1>3. /\ fsm' \in {"WaitStart", "Body", "Csum1", "Csum2"}
        /\ result' \in {"Incomplete", "Complete", "ChecksumError", "Overflow", "Framing"}
    BY DEF Skip, EndOfLine, FirstDigit, NotADigit, SecondDigit, GoOn, GiveUp
  <1>4. checksum' \in 0..255 /\ expected' \in 0..255
        /\ (fsm' = "Csum2" => expected' <= 240)
    <2>1. checksum \in 0..255 /\ expected \in 0..255
          /\ (fsm = "Csum2" => expected <= 240)
      BY DEF Inv, TypeOK
    <2>2. byte \in Hex => HexNibble[byte] \in 0..15
      BY GrammarAssumption
    <2>3. CASE Skip(byte) \/ EndOfLine(byte) \/ NotADigit(byte)
      BY <2>1, <2>3 DEF Skip, EndOfLine, NotADigit, GoOn, GiveUp
    <2>4. CASE FirstDigit(byte)
      BY <2>1, <2>2, <2>4 DEF FirstDigit
    <2>5. CASE SecondDigit(byte)
      BY <2>1, <2>2, <2>5 DEF SecondDigit
    <2> QED
      BY <2>3, <2>4, <2>5
  <1>5. TypeOK'
    BY <1>1, <1>2, <1>3, <1>4 DEF Inv, TypeOK, tokenVars
  <1>6. /\ fsm' # "Body"
        /\ fsm' \in {"Csum1", "Csum2"} => fsm \in {"Csum1", "Csum2"}
    BY DEF Skip, EndOfLine, FirstDigit, NotADigit, SecondDigit, GoOn, GiveUp
  <1>7. TokensTileTheBuffer'
    BY <1>2, <1>6 DEF Inv, TokensTileTheBuffer, tokenVars
  <1> QED
    BY <1>4, <1>5, <1>7 DEF Inv

(* There is room for the token, and it ends where the buffer does.         *)
LEMMA CurrentTokenType ==
    ASSUME Inv, fsm = "Body"
    PROVE  /\ CurrentToken \in Token
           /\ CurrentToken.start = token_start
           /\ CurrentToken.start + CurrentToken.len = Len(buf)
  BY GrammarAssumption DEF Inv, TypeOK, TokensTileTheBuffer, CurrentToken, Token

(* Closing a token extends the tiling to the end of the buffer.            *)
LEMMA CloseTiles ==
    ASSUME Inv, fsm = "Body", tokens' = Append(tokens, CurrentToken), UNCHANGED buf,
           token_start' = Len(buf) \/ fsm' = "Csum1"
    PROVE  TokensTileTheBuffer'
  <1> DEFINE End(ts, i) == IF i = 0 THEN 0 ELSE ts[i].start + ts[i].len
  <1>1. /\ tokens \in Seq(Token) /\ CurrentToken \in Token
        /\ CurrentToken.start = End(tokens, Len(tokens))
        /\ CurrentToken.start + CurrentToken.len = Len(buf)
    BY CurrentTokenType DEF Inv, TypeOK, TokensTileTheBuffer
  <1>2. /\ Len(tokens') = Len(tokens) + 1
        /\ \A i \in 1..Len(tokens) : tokens'[i] = tokens[i]
        /\ tokens'[Len(tokens) + 1] = CurrentToken
    BY <1>1
  <1>3. End(tokens', Len(tokens')) = Len(buf)
    BY <1>1, <1>2
  <1>4. \A i \in 1..Len(tokens') : tokens'[i].start = End(tokens', i - 1)
    <2> TAKE i \in 1..Len(tokens')
    <2>1. CASE i = Len(tokens) + 1
      BY <1>1, <1>2, <2>1
    <2>2. CASE i \in 1..Len(tokens)
      <3>1. tokens[i].start = End(tokens, i - 1)
        BY <2>2 DEF Inv, TokensTileTheBuffer
      <3>2. i - 1 \in 1..Len(tokens) \/ i - 1 = 0
        BY <2>2, <1>1
      <3> QED
        BY <1>2, <2>2, <3>1, <3>2
    <2> QED
      BY <1>1, <1>2, <2>1, <2>2
  <1>5. Len(tokens') > 0
    BY <1>1, <1>2
  <1> QED
    BY <1>3, <1>4, <1>5, <1>1, <1>2 DEF TokensTileTheBuffer, Inv, TypeOK

(* Closing a token, with room for it and without.                          *)
LEMMA CloseInv ==
    ASSUME Inv, CloseBody \/ CloseField
    PROVE  Inv'
  <1>1. /\ fsm = "Body" /\ UNCHANGED <<buf, expected>>
        /\ Star \in Bytes /\ Comma \in Bytes
    BY DEF CloseBody, CloseField, Bytes
  <1>2. stream' \in Seq(Bytes) \cup {NoStream}
    BY <1>1, SeenType DEF Inv, TypeOK, CloseBody, CloseField
  <1>3. /\ fsm' \in {"WaitStart", "Body", "Csum1"}
        /\ result' \in {"Incomplete", "Overflow"}
        /\ checksum' \in 0..255
    <2>1. checksum' \in {checksum, ChecksumXor(checksum, Code[Comma])}
      BY DEF CloseBody, CloseField
    <2>2. checksum' \in 0..255
      BY <2>1, XorType DEF Inv, TypeOK
    <2> QED
      BY <2>2 DEF CloseBody, CloseField, GoOn, GiveUp
  <1>4. CASE TokenRoom
    <2>1. /\ tokens' = Append(tokens, CurrentToken)
          /\ token_start' = Len(buf) \/ fsm' = "Csum1"
          /\ token_start' \in {token_start, Len(buf)}
      BY <1>4 DEF CloseBody, CloseField, GoOn
    <2>2. TokensTileTheBuffer'
      BY <1>1, <2>1, CloseTiles
    <2>3. tokens' \in Seq(Token) /\ Len(tokens') <= kMaxFields + 1
      BY <1>1, <1>4, <2>1, CurrentTokenType, GrammarAssumption
         DEF Inv, TypeOK, TokenRoom
    <2>4. token_start' \in 0..kMaxSentence
      BY <2>1, GrammarAssumption DEF Inv, TypeOK
    <2> QED
      BY <1>1, <1>2, <1>3, <2>2, <2>3, <2>4 DEF Inv, TypeOK
  <1>5. CASE ~TokenRoom
    <2>1. fsm' = "WaitStart" /\ UNCHANGED <<tokens, token_start>>
      BY <1>5 DEF CloseBody, CloseField, GiveUp
    <2>2. TokensTileTheBuffer'
      BY <2>1 DEF Inv, TokensTileTheBuffer
    <2> QED
      BY <1>1, <1>2, <1>3, <2>1, <2>2 DEF Inv, TypeOK
  <1> QED
    BY <1>4, <1>5

(* Storing a byte, with room for it and without.                           *)
LEMMA StoreInv ==
    ASSUME Inv, NEW byte \in Bytes, Store(byte)
    PROVE  Inv'
  <1>1. /\ fsm = "Body" /\ byte \in Payload
        /\ UNCHANGED <<tokens, token_start, expected>>
    BY DEF Store
  <1>2. stream' \in Seq(Bytes) \cup {NoStream}
    BY SeenType DEF Inv, TypeOK, Store
  <1>3. /\ fsm' \in {"WaitStart", "Body"} /\ result' \in {"Incomplete", "Overflow"}
        /\ checksum' \in 0..255
    <2>1. checksum' \in {checksum, ChecksumXor(checksum, Code[byte])}
      BY DEF Store
    <2>2. checksum' \in 0..255
      BY <1>1, <2>1, XorType DEF Inv, TypeOK
    <2> QED
      BY <2>2 DEF Store, GoOn, GiveUp
  <1>4. /\ buf' \in Seq(Payload) /\ Len(buf') <= kMaxSentence
        /\ Len(buf') >= Len(buf)
    <2>1. buf \in Seq(Payload) /\ Len(buf) <= kMaxSentence /\ kMaxSentence \in Nat
      BY GrammarAssumption DEF Inv, TypeOK
    <2>2. CASE Len(buf) >= kMaxSentence
      BY <2>1, <2>2 DEF Store
    <2>3. CASE Len(buf) < kMaxSentence
      <3>1. buf' = Append(buf, byte)
        BY <2>1, <2>3 DEF Store
      <3> QED
        BY <1>1, <2>1, <2>3, <3>1
    <2> QED
      BY <2>1, <2>2, <2>3
  <1>5. TokensTileTheBuffer'
    BY <1>1, <1>3, <1>4 DEF Inv, TypeOK, TokensTileTheBuffer
  <1> QED
    BY <1>1, <1>2, <1>3, <1>4, <1>5 DEF Inv, TypeOK

(* No step breaks the invariant.                                           *)
LEMMA StepInv == Inv /\ [Next]_vars => Inv'
  <1> SUFFICES ASSUME Inv, [Next]_vars PROVE Inv'
    OBVIOUS
  <1>1. CASE UNCHANGED vars
    BY <1>1 DEF vars, tokenVars, Inv, TypeOK, TokensTileTheBuffer
  <1>2. ASSUME NEW byte \in Bytes, Consume(byte)
        PROVE  Inv'
    BY <1>2, DelimiterInv, PassInv, CloseInv, StoreInv DEF Consume
  <1> QED
    BY <1>1, <1>2 DEF Next

(* It holds in every state.                                                *)
LEMMA Invariance == Spec => []Inv
  BY InitInv, StepInv, PTL DEF Spec

(***************************************************************************)
(* No byte sequence makes the parser store outside buf_, tokens_ or, in    *)
(* finalize(), field_views_ (Parser.cpp:62-86).                            *)
(***************************************************************************)
THEOREM BufferBounds == Spec => []TypeOK
  <1>1. Inv => TypeOK
    BY DEF Inv
  <1> QED
    BY <1>1, Invariance, PTL

(***************************************************************************)
(* The tokens of a sentence are consecutive, cover its bytes, and there is *)
(* an address when finalize() takes the number of fields.                  *)
(***************************************************************************)
THEOREM TokensTile == Spec => []TokensTileTheBuffer
  <1>1. Inv => TokensTileTheBuffer
    BY DEF Inv
  <1> QED
    BY <1>1, Invariance, PTL

----------------------------------------------------------------------------
(***************************************************************************)
(* The history: what the parser keeps is what the grammar says of the bytes*)
(* since the delimiter.                                                    *)
(***************************************************************************)

(* The texts of the closed tokens, and the bytes of the one that is open.  *)
Texts == [i \in 1..Len(tokens) |-> Text(tokens[i])]
Rest  == SubSeq(buf, token_start + 1, Len(buf))

BodyIs(b) ==
    /\ b \in Seq(BodyBytes)
    /\ checksum = Checksum(b)
    /\ Len(buf) = Count(b, Payload)

Open(b) ==
    /\ BodyIs(b)
    /\ Len(tokens) = Count(b, {Comma})
    /\ JoinedByCommas(Append(Texts, Rest)) = b

Closed(b) ==
    /\ BodyIs(b)
    /\ Len(tokens) = Count(b, {Comma}) + 1
    /\ JoinedByCommas(Texts) = b

AfterStar(b) == stream = Append(b, Star) /\ Closed(b)

AfterDigit(b, digit) ==
    /\ stream = Append(Append(b, Star), digit)
    /\ expected = 16 * HexNibble[digit]
    /\ Closed(b)

TokensEnd == \A i \in 1..Len(tokens) : tokens[i].start + tokens[i].len <= Len(buf)

History ==
    /\ fsm # "WaitStart" => result = "Incomplete" /\ stream # NoStream
    /\ fsm = "Body" => Open(stream)
    /\ fsm = "Csum1" => \E b : AfterStar(b)
    /\ fsm = "Csum2" => \E b, digit : digit \in Hex /\ AfterDigit(b, digit)
    /\ fsm = "WaitStart" /\ stream # NoStream => Spent(stream)

Outcome == ResultMatchesGrammar /\ FieldsAreTheSplit

(* A parser that completes nothing has nothing to be right about, if what  *)
(* arrived is no frame.                                                    *)
LEMMA NoOutcome ==
    ASSUME result \notin {"Complete", "ChecksumError"},
           stream # NoStream => ~IsFrame(stream)
    PROVE  Outcome
  BY DEF Outcome, ResultMatchesGrammar, FieldsAreTheSplit

LEMMA NoOutcomeNext ==
    ASSUME result' \notin {"Complete", "ChecksumError"},
           stream' # NoStream => ~IsFrame(stream')
    PROVE  Outcome'
  BY DEF Outcome, ResultMatchesGrammar, FieldsAreTheSplit

(* What is no beginning of a frame is none, and no frame goes on after it. *)
LEMMA DeadIsSpent ==
    ASSUME NEW s \in Seq(Bytes), Dead(s)
    PROVE  Spent(s) /\ ~IsFrame(s)
  BY DEF Dead, Spent, Extends

(* The texts are made of stored bytes.                                     *)
LEMMA TextsType ==
    ASSUME Inv, TokensEnd
    PROVE  /\ Texts \in Seq(Seq(BodyBytes)) /\ Len(Texts) = Len(tokens)
           /\ fsm = "Body" => /\ Rest \in Seq(BodyBytes)
                              /\ Text(CurrentToken) = Rest
<1>1. /\ buf \in Seq(Payload) /\ Len(buf) \in Nat /\ tokens \in Seq(Token)
      /\ token_start \in Nat
      /\ fsm = "Body" => token_start <= Len(buf)
  BY GrammarAssumption DEF Inv, TypeOK, TokensTileTheBuffer
<1>2. \A i \in 1..Len(buf) : buf[i] \in BodyBytes
  BY <1>1 DEF BodyBytes
<1>3. ASSUME NEW from \in Nat, NEW to \in Nat, to <= Len(buf)
      PROVE  SubSeq(buf, from + 1, to) \in Seq(BodyBytes)
  <2>1. from + 1 \in Int /\ to \in Int /\ \A i \in (from + 1)..to : buf[i] \in BodyBytes
    BY <1>1, <1>2, <1>3
  <2> QED
    BY <2>1, SubSeqProperties
<1>4. ASSUME NEW i \in 1..Len(tokens) PROVE Text(tokens[i]) \in Seq(BodyBytes)
  <2>1. /\ tokens[i].start \in Nat /\ tokens[i].start + tokens[i].len \in Nat
        /\ tokens[i].start + tokens[i].len <= Len(buf)
    <3>1. tokens[i] \in Token
      BY <1>1
    <3> QED
      BY <3>1, GrammarAssumption DEF Token, TokensEnd
  <2> QED
    BY <1>3, <2>1 DEF Text
<1>5. Texts \in Seq(Seq(BodyBytes)) /\ Len(Texts) = Len(tokens)
  BY <1>1, <1>4 DEF Texts
<1>6. ASSUME fsm = "Body" PROVE Rest \in Seq(BodyBytes) /\ Text(CurrentToken) = Rest
  <2>1. Rest \in Seq(BodyBytes)
    BY <1>1, <1>3 DEF Rest
  <2>2. CurrentToken.start = token_start /\ CurrentToken.start + CurrentToken.len = Len(buf)
    BY <1>6, CurrentTokenType
  <2> QED
    BY <2>1, <2>2 DEF Text, Rest
<1> QED
  BY <1>5, <1>6

(* One more byte in the open token is one more byte of the body.           *)
LEMMA JoinGrows ==
    ASSUME NEW p \in Seq(Seq(BodyBytes)), NEW c \in Seq(BodyBytes), NEW byte \in BodyBytes
    PROVE  JoinedByCommas(Append(p, Append(c, byte)))
             = Append(JoinedByCommas(Append(p, c)), byte)
<1>1. Comma \in BodyBytes /\ Append(c, byte) \in Seq(BodyBytes)
  BY ByteKinds
<1>2. CASE p = << >>
  <2>1. Append(p, c) = <<c>> /\ Append(p, Append(c, byte)) = <<Append(c, byte)>>
    BY <1>2
  <2> DEFINE d == Append(c, byte)
  <2> HIDE DEF d
  <2>2. d \in Seq(BodyBytes)
    BY <1>1 DEF d
  <2>3. JoinedByCommas(<<c>>) = c /\ JoinedByCommas(<<d>>) = d
    BY <1>1, <2>2, JoinAppend
  <2> QED
    BY <2>1, <2>3 DEF d
<1>3. CASE p # << >>
  <2> DEFINE j == JoinedByCommas(p)
  <2>1. /\ j \in Seq(BodyBytes)
        /\ JoinedByCommas(Append(p, c)) = j \o <<Comma>> \o c
        /\ JoinedByCommas(Append(p, Append(c, byte))) = j \o <<Comma>> \o Append(c, byte)
    BY <1>1, <1>3, JoinAppend
  <2> HIDE DEF j
  <2>2. j \o <<Comma>> \in Seq(BodyBytes)
    <3>1. <<Comma>> \in Seq(BodyBytes)
      BY <1>1
    <3> QED
      BY <2>1, <3>1
  <2> DEFINE k == j \o <<Comma>>
  <2> HIDE DEF k
  <2>3. k \in Seq(BodyBytes)
    BY <2>2 DEF k
  <2>4. k \o Append(c, byte) = Append(k \o c, byte)
    BY <2>3
  <2> QED
    BY <2>1, <2>4 DEF k
<1> QED
  BY <1>2, <1>3

(* A comma more and an empty token.                                        *)
LEMMA JoinOpens ==
    ASSUME NEW p \in Seq(Seq(BodyBytes)), p # << >>
    PROVE  JoinedByCommas(Append(p, << >>)) = Append(JoinedByCommas(p), Comma)
<1> DEFINE j == JoinedByCommas(p)
           e == << >>
<1>1. Comma \in BodyBytes /\ e \in Seq(BodyBytes)
  BY ByteKinds
<1>2. j \in Seq(BodyBytes) /\ JoinedByCommas(Append(p, e)) = j \o <<Comma>> \o e
  <2> HIDE DEF e
  <2> QED
    BY <1>1, JoinAppend
<1> HIDE DEF j
<1>3. j \o <<Comma>> \o << >> = Append(j, Comma)
  BY <1>1, <1>2
<1> QED
  BY <1>2, <1>3 DEF j

(* After a delimiter every byte that is seen is appended to the history.   *)
LEMMA SeenAppends ==
    ASSUME NEW byte, Seen(byte), stream # NoStream
    PROVE  stream' = Append(stream, byte)
  BY DEF Seen

(* Giving up a body that can become no frame.                              *)
LEMMA GiveUpHistory ==
    ASSUME stream' \in Seq(Bytes), Dead(stream'), fsm' = "WaitStart",
           result' \in {"Framing", "Overflow"}
    PROVE  History' /\ Outcome'
<1>1. Spent(stream') /\ ~IsFrame(stream')
  BY DeadIsSpent
<1>2. Outcome'
  BY <1>1, NoOutcomeNext
<1>3. (fsm = "WaitStart" /\ stream # NoStream => Spent(stream))'
  BY <1>1 DEF Spent
<1> QED
  BY <1>2, <1>3 DEF History

(* A delimiter begins an empty body.                                       *)
LEMMA DelimiterHistory ==
    ASSUME Inv, NEW byte \in Bytes, Delimiter(byte)
    PROVE  History' /\ TokensEnd' /\ Outcome'
<1>1. /\ fsm' = "Body" /\ result' = "Incomplete" /\ stream' = << >> /\ buf' = << >>
      /\ tokens' = << >> /\ token_start' = 0 /\ checksum' = 0
  BY DEF Delimiter, GoOn
<1>2. << >> \in Seq(BodyBytes) /\ << >> \in Seq(Bytes) /\ Len(<< >>) = 0
  OBVIOUS
<1>3. << >> # NoStream
  BY <1>2, StreamAssumption DEF StreamAssumption
<1>4. ~IsFrame(<< >>)
  BY <1>2, ByteKinds, OpenIsNoFrame
<1>5. BodyIs(stream)'
  BY <1>1, <1>2, ChecksumEmpty, CountEmpty DEF BodyIs
<1>6. JoinedByCommas(Append(Texts', Rest')) = << >>
  <2>1. Texts' = << >>
    BY <1>1 DEF Texts
  <2>2. Rest' = << >>
    BY <1>1, SubSeqEmpty DEF Rest
  <2>3. Append(<< >>, << >>) = << << >> >>
    OBVIOUS
  <2> DEFINE e == << >>
             p == <<e>>
  <2>4. e \in Seq(BodyBytes) /\ p \in Seq(Seq(BodyBytes))
    OBVIOUS
  <2> HIDE DEF e, p
  <2>5. JoinedByCommas(<<e>>) = e
    BY <2>4, ByteKinds, JoinAppend
  <2> QED
    BY <2>1, <2>2, <2>3, <2>5 DEF e
<1>7. Open(stream)'
  BY <1>1, <1>2, <1>5, <1>6, CountEmpty DEF Open
<1>8. Outcome'
  BY <1>1, <1>4, NoOutcomeNext
<1>9. TokensEnd'
  BY <1>1 DEF TokensEnd
<1> QED
  BY <1>1, <1>3, <1>7, <1>8, <1>9 DEF History

(* What is skipped begins no frame.                                        *)
LEMMA SkipHistory ==
    ASSUME Inv, History, NEW byte \in Bytes, Skip(byte)
    PROVE  History' /\ Outcome'
<1>1. fsm = "WaitStart" /\ fsm' = "WaitStart" /\ result' = "Incomplete" /\ Seen(byte)
  BY DEF Skip, GoOn
<1>2. CASE stream = NoStream
  <2>1. stream' = NoStream
    BY <1>1, <1>2 DEF Seen
  <2> QED
    BY <1>1, <2>1, NoOutcomeNext DEF History
<1>3. CASE stream # NoStream
  <2>1. stream \in Seq(Bytes) /\ stream' = Append(stream, byte) /\ Spent(stream)
    BY <1>1, <1>3, SeenAppends DEF Inv, TypeOK, History
  <2>2. /\ stream' \in Seq(Bytes) /\ Len(stream') = Len(stream) + 1
        /\ \A i \in 1..Len(stream) : stream'[i] = stream[i]
    BY <2>1
  <2>3. ASSUME NEW f \in Seq(Bytes), Extends(f, stream') PROVE ~IsFrame(f)
    <3>1. Extends(f, stream) /\ Len(f) > Len(stream)
      BY <2>1, <2>2, <2>3 DEF Extends
    <3> QED
      BY <2>1, <3>1 DEF Spent
  <2>4. Dead(stream')
    BY <2>3 DEF Dead
  <2>5. Spent(stream') /\ ~IsFrame(stream')
    BY <2>2, <2>4, DeadIsSpent
  <2>6. Outcome'
    BY <1>1, <2>5, NoOutcomeNext
  <2>7. (fsm = "WaitStart" /\ stream # NoStream => Spent(stream))'
    BY <2>5 DEF Spent
  <2> QED
    BY <1>1, <2>6, <2>7 DEF History
<1> QED
  BY <1>2, <1>3

(* The body of an open sentence is not NoStream, and the byte is appended. *)
LEMMA OpenSeen ==
    ASSUME Inv, History, fsm # "WaitStart", NEW byte \in Bytes, Seen(byte)
    PROVE  stream \in Seq(Bytes) /\ stream' = Append(stream, byte) /\ stream' \in Seq(Bytes)
           /\ stream' # NoStream
<1>1. stream \in Seq(Bytes) /\ stream' = Append(stream, byte)
  BY SeenAppends DEF Inv, TypeOK, History
<1> QED
  BY <1>1, StreamAssumption DEF StreamAssumption

(* A line that ends in a body begins no frame.                             *)
LEMMA EndOfLineHistory ==
    ASSUME Inv, History, NEW byte \in Bytes, EndOfLine(byte)
    PROVE  History' /\ Outcome'
<1>1. /\ fsm = "Body" /\ byte \in Eol /\ fsm' = "WaitStart" /\ result' = "Framing"
      /\ Seen(byte)
  BY DEF EndOfLine, GiveUp
<1>2. stream \in Seq(BodyBytes) /\ stream' = Append(stream, byte) /\ stream' \in Seq(Bytes)
  BY <1>1, OpenSeen DEF History, Open, BodyIs
<1>3. Dead(stream')
  BY <1>1, <1>2, EolBreaks DEF Dead
<1> QED
  BY <1>1, <1>2, <1>3, GiveUpHistory

(* A body that holds more commas than a sentence may have.                 *)
LEMMA OverfullIsDead ==
    ASSUME NEW s \in Seq(BodyBytes), NEW t \in Seq(Bytes), Extends(t, s),
           \/ Count(s, Payload) > kMaxSentence
           \/ Count(s, {Comma}) > kMaxFields
    PROVE  Dead(t)
<1>1. ASSUME NEW f \in Seq(Bytes), Extends(f, t) PROVE ~IsFrame(f)
  <2>1. Extends(f, s)
    <3>1. Len(s) \in Nat /\ Len(t) \in Nat /\ Len(f) \in Nat
      OBVIOUS
    <3> QED
      BY <1>1, <3>1 DEF Extends
  <2> QED
    BY <2>1, Overfull
<1> QED
  BY <1>1 DEF Dead

(* Closing a token: its text becomes the last.                             *)
LEMMA CloseTexts ==
    ASSUME Inv, TokensEnd, fsm = "Body",
           tokens' = Append(tokens, CurrentToken), buf' = buf
    PROVE  /\ Texts' = Append(Texts, Rest)
           /\ TokensEnd'
           /\ Len(tokens') = Len(tokens) + 1
<1>1. /\ tokens \in Seq(Token) /\ CurrentToken \in Token
      /\ CurrentToken.start + CurrentToken.len = Len(buf) /\ Len(buf) \in Nat
  BY CurrentTokenType DEF Inv, TypeOK
<1>2. /\ Len(tokens') = Len(tokens) + 1 /\ Len(tokens) \in Nat
      /\ \A i \in 1..Len(tokens) : tokens'[i] = tokens[i]
      /\ tokens'[Len(tokens) + 1] = CurrentToken
  BY <1>1
<1>3. TokensEnd'
  <2> SUFFICES ASSUME NEW i \in 1..(Len(tokens) + 1)
               PROVE  tokens'[i].start + tokens'[i].len <= Len(buf)
    BY <1>2 DEF TokensEnd
  <2>1. i \in 1..Len(tokens) \/ i = Len(tokens) + 1
    BY <1>2
  <2> QED
    BY <1>1, <1>2, <2>1 DEF TokensEnd
<1>4. Texts' = Append(Texts, Rest)
  <2>1. Texts \in Seq(Seq(BodyBytes)) /\ Len(Texts) = Len(tokens) /\ Rest \in Seq(BodyBytes)
        /\ Text(CurrentToken) = Rest
    BY TextsType
  <2>2. Texts' = [i \in 1..(Len(tokens) + 1) |-> Text(tokens'[i])]
    BY <1>2 DEF Texts, Text
  <2>3. /\ Append(Texts, Rest) \in Seq(Seq(BodyBytes))
        /\ Len(Append(Texts, Rest)) = Len(tokens) + 1
        /\ \A i \in 1..Len(tokens) : Append(Texts, Rest)[i] = Texts[i]
        /\ Append(Texts, Rest)[Len(tokens) + 1] = Rest
    BY <2>1, AppendProperties
  <2>4. ASSUME NEW i \in 1..(Len(tokens) + 1)
        PROVE  Append(Texts, Rest)[i] = Text(tokens'[i])
    <3>1. CASE i \in 1..Len(tokens)
      <4>1. Texts[i] = Text(tokens[i])
        BY <3>1 DEF Texts
      <4> QED
        BY <1>2, <2>3, <3>1, <4>1
    <3>2. CASE i = Len(tokens) + 1
      <4>1. tokens'[i] = CurrentToken
        BY <1>2, <3>2
      <4>2. Append(Texts, Rest)[i] = Rest
        BY <2>3, <3>2
      <4>3. Text(tokens'[i]) = Text(CurrentToken)
        BY <4>1 DEF Text
      <4> QED
        BY <2>1, <4>2, <4>3
    <3>3. i \in 1..Len(tokens) \/ i = Len(tokens) + 1
      BY <1>2
    <3> QED
      BY <3>1, <3>2, <3>3
  <2> DEFINE t == Append(Texts, Rest)
  <2> HIDE DEF t
  <2>5. t = [i \in 1..(Len(tokens) + 1) |-> t[i]]
    <3>1. t \in Seq(Seq(BodyBytes)) /\ Len(t) = Len(tokens) + 1
      BY <2>3 DEF t
    <3>2. t = [i \in 1..Len(t) |-> t[i]]
      BY <3>1
    <3> QED
      BY <3>1, <3>2
  <2>6. t = [i \in 1..(Len(tokens) + 1) |-> Text(tokens'[i])]
    BY <2>4, <2>5 DEF t
  <2> QED
    BY <2>2, <2>6 DEF t
<1> QED
  BY <1>2, <1>3, <1>4

(* The counts of a body of a sentence that is open.                        *)
LEMMA BodyCounts ==
    ASSUME NEW b \in Seq(BodyBytes), NEW byte \in BodyBytes
    PROVE  /\ Append(b, byte) \in Seq(BodyBytes)
           /\ Count(b, Payload) \in Nat /\ Count(b, {Comma}) \in Nat
           /\ byte = Comma => /\ Count(Append(b, byte), Payload) = Count(b, Payload)
                              /\ Count(Append(b, byte), {Comma}) = Count(b, {Comma}) + 1
           /\ byte \in Payload => /\ Count(Append(b, byte), Payload) = Count(b, Payload) + 1
                                  /\ Count(Append(b, byte), {Comma}) = Count(b, {Comma})
           /\ Checksum(Append(b, byte)) = ChecksumXor(Checksum(b), Code[byte])
<1>1. \A set : /\ Count(b, set) \in Nat
               /\ Count(Append(b, byte), set) = Count(b, set) + (IF byte \in set THEN 1 ELSE 0)
  BY CountAppend
<1>2. Comma \notin Payload
  BY ByteKinds
<1>3. Checksum(Append(b, byte)) = ChecksumXor(Checksum(b), Code[byte])
  BY ChecksumAppend
<1>4. /\ Count(b, Payload) \in Nat /\ Count(b, {Comma}) \in Nat
      /\ Count(Append(b, byte), Payload) = Count(b, Payload) + (IF byte \in Payload THEN 1 ELSE 0)
      /\ Count(Append(b, byte), {Comma}) = Count(b, {Comma}) + (IF byte \in {Comma} THEN 1 ELSE 0)
  BY <1>1
<1>5. Append(b, byte) \in Seq(BodyBytes)
  OBVIOUS
<1> QED
  BY <1>2, <1>3, <1>4, <1>5

(* A sequence goes on with one element more.                               *)
LEMMA ExtendsAppend ==
    ASSUME NEW E, NEW s \in Seq(E), NEW x \in E
    PROVE  Extends(s, s) /\ Extends(Append(s, x), s)
  BY DEF Extends

(* The star: the texts are the fields of the body, or do not fit.          *)
LEMMA CloseBodyHistory ==
    ASSUME Inv, History, TokensEnd, CloseBody
    PROVE  History' /\ TokensEnd' /\ Outcome'
<1>1. /\ fsm = "Body" /\ Seen(Star) /\ UNCHANGED <<buf, token_start, checksum, expected>>
      /\ Open(stream) /\ Star \in Bytes
  BY ByteKinds DEF CloseBody, History
<1>2. /\ stream \in Seq(BodyBytes) /\ stream' = Append(stream, Star)
      /\ stream' \in Seq(Bytes) /\ stream' # NoStream
  BY <1>1, OpenSeen DEF Open, BodyIs
<1>3. ~IsFrame(stream')
  BY <1>1, <1>2, OpenIsNoFrame
<1>4. CASE TokenRoom
  <2>1. /\ tokens' = Append(tokens, CurrentToken) /\ buf' = buf
        /\ fsm' = "Csum1" /\ result' = "Incomplete"
    BY <1>4 DEF CloseBody, GoOn
  <2>2. Texts' = Append(Texts, Rest) /\ TokensEnd' /\ Len(tokens') = Len(tokens) + 1
    BY <1>1, <2>1, CloseTexts
  <2>3. /\ checksum' = Checksum(stream) /\ Len(buf') = Count(stream, Payload)
        /\ Len(tokens') = Count(stream, {Comma}) + 1
        /\ JoinedByCommas(Texts') = stream
    BY <1>1, <2>1, <2>2 DEF Open, BodyIs
  <2>4. \E b : AfterStar(b)'
    <3> DEFINE b == stream
    <3>2. b \in Seq(BodyBytes) /\ checksum' = Checksum(b) /\ Len(buf') = Count(b, Payload)
          /\ Len(tokens') = Count(b, {Comma}) + 1 /\ JoinedByCommas(Texts') = b
          /\ stream' = Append(b, Star)
      BY <1>2, <2>3
    <3>3. \E c : /\ c \in Seq(BodyBytes) /\ checksum' = Checksum(c) /\ Len(buf') = Count(c, Payload)
          /\ Len(tokens') = Count(c, {Comma}) + 1 /\ JoinedByCommas(Texts') = c
          /\ stream' = Append(c, Star)
      BY <3>2
    <3> QED
      BY <3>3 DEF AfterStar, Closed, BodyIs
  <2>5. Outcome'
    BY <1>3, <2>1, NoOutcomeNext
  <2> QED
    BY <1>2, <2>1, <2>2, <2>4, <2>5 DEF History
<1>5. CASE ~TokenRoom
  <2>1. tokens' = tokens /\ buf' = buf /\ fsm' = "WaitStart" /\ result' = "Overflow"
    BY <1>5 DEF CloseBody, GiveUp
  <2>2. Count(stream, {Comma}) > kMaxFields
    <3>1. Len(tokens) = Count(stream, {Comma}) /\ Len(tokens) \in Nat
      BY <1>1 DEF Open, Inv, TypeOK
    <3> QED
      BY <1>5, <3>1, GrammarAssumption DEF TokenRoom, GrammarAssumption
  <2>3. Extends(stream', stream)
    <3>1. stream \in Seq(Bytes)
      BY <1>1, OpenSeen
    <3> QED
      BY <1>1, <1>2, <3>1, ExtendsAppend
  <2>4. Dead(stream')
    BY <1>2, <2>2, <2>3, OverfullIsDead
  <2>5. TokensEnd'
    BY <2>1 DEF TokensEnd, History
  <2> QED
    BY <1>2, <2>1, <2>4, <2>5, GiveUpHistory
<1> QED
  BY <1>4, <1>5

(* The comma: one more text and an empty one, or a body that does not fit. *)
LEMMA CloseFieldHistory ==
    ASSUME Inv, History, TokensEnd, CloseField
    PROVE  History' /\ TokensEnd' /\ Outcome'
<1>1. /\ fsm = "Body" /\ Seen(Comma) /\ UNCHANGED <<buf, expected>>
      /\ Open(stream) /\ Comma \in Bytes /\ Comma \in BodyBytes
      /\ checksum' = ChecksumXor(checksum, Code[Comma])
  BY ByteKinds DEF CloseField, History
<1>2. /\ stream \in Seq(BodyBytes) /\ stream' = Append(stream, Comma)
      /\ stream' \in Seq(Bytes) /\ stream' # NoStream
  BY <1>1, OpenSeen DEF Open, BodyIs
<1>3. /\ stream' \in Seq(BodyBytes)
      /\ Count(stream, {Comma}) \in Nat
      /\ Count(stream', Payload) = Count(stream, Payload)
      /\ Count(stream', {Comma}) = Count(stream, {Comma}) + 1
      /\ Checksum(stream') = ChecksumXor(Checksum(stream), Code[Comma])
  BY <1>1, <1>2, BodyCounts
<1>4. CASE TokenRoom
  <2>1. /\ tokens' = Append(tokens, CurrentToken) /\ buf' = buf /\ token_start' = Len(buf)
        /\ fsm' = "Body" /\ result' = "Incomplete"
    BY <1>1, <1>4 DEF CloseField, GoOn
  <2>2. Texts' = Append(Texts, Rest) /\ TokensEnd' /\ Len(tokens') = Len(tokens) + 1
    BY <1>1, <2>1, CloseTexts
  <2>3. Rest' = << >>
    <3>1. Len(buf) \in Nat
      BY DEF Inv, TypeOK
    <3>2. SubSeq(buf, Len(buf) + 1, Len(buf)) = << >>
      BY <3>1, SubSeqEmpty
    <3> QED
      BY <2>1, <3>2 DEF Rest
  <2>4. JoinedByCommas(Append(Texts', Rest')) = stream'
    <3> DEFINE p == Append(Texts, Rest)
    <3>1. p \in Seq(Seq(BodyBytes)) /\ p # << >>
      BY <1>1, TextsType, AppendProperties
    <3>2. JoinedByCommas(p) = stream
      BY <1>1 DEF Open
    <3> HIDE DEF p
    <3>3. JoinedByCommas(Append(p, << >>)) = Append(stream, Comma)
      BY <3>1, <3>2, JoinOpens
    <3> QED
      BY <1>2, <2>2, <2>3, <3>3 DEF p
  <2>5. Open(stream)'
    <3>1. /\ checksum' = Checksum(stream') /\ Len(buf') = Count(stream', Payload)
          /\ Len(tokens') = Count(stream', {Comma})
      BY <1>1, <1>3, <2>1, <2>2 DEF Open, BodyIs
    <3> QED
      BY <1>3, <2>4, <3>1 DEF Open, BodyIs
  <2>6. ~IsFrame(stream')
    BY <1>1, <1>3, OpenIsNoFrame
  <2>7. Outcome'
    BY <2>1, <2>6, NoOutcomeNext
  <2> QED
    BY <1>2, <2>1, <2>2, <2>5, <2>7 DEF History
<1>5. CASE ~TokenRoom
  <2>1. tokens' = tokens /\ buf' = buf /\ fsm' = "WaitStart" /\ result' = "Overflow"
    BY <1>1, <1>5 DEF CloseField, GiveUp
  <2>2. Count(stream', {Comma}) > kMaxFields
    <3>1. Len(tokens) = Count(stream, {Comma}) /\ Len(tokens) \in Nat
      BY <1>1 DEF Open, Inv, TypeOK
    <3> QED
      BY <1>3, <1>5, <3>1, GrammarAssumption DEF TokenRoom, GrammarAssumption
  <2>3. Extends(stream', stream')
    BY <1>2 DEF Extends
  <2>4. Dead(stream')
    BY <1>2, <1>3, <2>2, <2>3, OverfullIsDead
  <2>5. TokensEnd'
    BY <2>1 DEF TokensEnd
  <2> QED
    BY <1>2, <2>1, <2>4, <2>5, GiveUpHistory
<1> QED
  BY <1>4, <1>5

(* Storing a byte leaves the closed tokens' texts and prolongs the open one. *)
LEMMA StoreTexts ==
    ASSUME Inv, TokensEnd, fsm = "Body", NEW byte \in Payload,
           buf' = Append(buf, byte), tokens' = tokens, token_start' = token_start
    PROVE  Texts' = Texts /\ Rest' = Append(Rest, byte) /\ TokensEnd'
<1>1. /\ buf \in Seq(Payload) /\ Len(buf) \in Nat /\ tokens \in Seq(Token)
      /\ token_start \in Nat /\ token_start <= Len(buf)
  BY GrammarAssumption DEF Inv, TypeOK, TokensTileTheBuffer
<1>2. /\ buf' \in Seq(Payload) /\ Len(buf') = Len(buf) + 1
      /\ \A i \in 1..Len(buf) : buf'[i] = buf[i]
      /\ buf'[Len(buf) + 1] = byte
  BY <1>1
<1>3. \A i \in 1..Len(tokens) : /\ tokens[i].start \in Nat /\ tokens[i].len \in Nat
                                /\ tokens[i].start + tokens[i].len <= Len(buf)
  <2>1. \A i \in 1..Len(tokens) : tokens[i] \in Token
    BY <1>1
  <2> QED
    BY <2>1, GrammarAssumption DEF Token, TokensEnd
<1>4. TokensEnd'
  BY <1>1, <1>2, <1>3 DEF TokensEnd
<1>6. Texts' = Texts
  <2>1. \A to \in Nat : \A from \in Nat : to <= Len(buf) =>
          SubSeq(buf', from + 1, to) = SubSeq(buf, from + 1, to)
    BY <1>1, PieceGrows
  <2>2. ASSUME NEW i \in 1..Len(tokens)
        PROVE  SubSeq(buf', tokens[i].start + 1, tokens[i].start + tokens[i].len)
                 = SubSeq(buf, tokens[i].start + 1, tokens[i].start + tokens[i].len)
    <3>1. tokens[i].start + tokens[i].len \in Nat
      BY <1>3
    <3> QED
      BY <1>3, <2>1, <3>1
  <2> QED
    BY <2>2 DEF Texts, Text
<1>7. Rest' = Append(Rest, byte)
  <2>1. SubSeq(buf', token_start + 1, Len(buf) + 1)
          = Append(SubSeq(buf, token_start + 1, Len(buf)), byte)
    BY <1>1, PieceGrows
  <2> QED
    BY <1>2, <2>1 DEF Rest
<1> QED
  BY <1>4, <1>6, <1>7

(* A byte of the body is stored, or the body does not fit.                 *)
LEMMA StoreHistory ==
    ASSUME Inv, History, TokensEnd, NEW byte \in Bytes, Store(byte)
    PROVE  History' /\ TokensEnd' /\ Outcome'
<1>1. /\ fsm = "Body" /\ Seen(byte) /\ UNCHANGED <<tokens, token_start, expected>>
      /\ Open(stream) /\ byte \in Payload /\ byte \in BodyBytes
  BY DEF Store, History, BodyBytes
<1>2. /\ stream \in Seq(BodyBytes) /\ stream' = Append(stream, byte)
      /\ stream' \in Seq(Bytes) /\ stream' # NoStream
  BY <1>1, OpenSeen DEF Open, BodyIs
<1>3. /\ stream' \in Seq(BodyBytes)
      /\ Count(stream, Payload) \in Nat
      /\ Count(stream', Payload) = Count(stream, Payload) + 1
      /\ Count(stream', {Comma}) = Count(stream, {Comma})
      /\ Checksum(stream') = ChecksumXor(Checksum(stream), Code[byte])
  BY <1>1, <1>2, BodyCounts
<1>4. buf \in Seq(Payload) /\ Len(buf) \in Nat /\ kMaxSentence \in Nat
  BY GrammarAssumption DEF Inv, TypeOK, GrammarAssumption
<1>5. CASE Len(buf) < kMaxSentence
  <2>1. /\ buf' = Append(buf, byte) /\ checksum' = ChecksumXor(checksum, Code[byte])
        /\ fsm' = "Body" /\ result' = "Incomplete"
    BY <1>4, <1>5 DEF Store, GoOn
  <2>2. Texts' = Texts /\ Rest' = Append(Rest, byte) /\ TokensEnd'
    BY <1>1, <2>1, StoreTexts
  <2>3. JoinedByCommas(Append(Texts', Rest')) = stream'
    <3>1. Texts \in Seq(Seq(BodyBytes)) /\ Rest \in Seq(BodyBytes)
      BY <1>1, TextsType
    <3>2. JoinedByCommas(Append(Texts, Rest)) = stream
      BY <1>1 DEF Open
    <3> QED
      BY <1>1, <1>2, <2>2, <3>1, <3>2, JoinGrows
  <2>4. Open(stream)'
    <3>1. Len(buf') = Len(buf) + 1
      BY <1>4, <2>1
    <3>2. /\ checksum' = Checksum(stream') /\ Len(buf') = Count(stream', Payload)
          /\ Len(tokens') = Count(stream', {Comma})
      BY <1>1, <1>3, <2>1, <3>1 DEF Open, BodyIs
    <3> QED
      BY <1>3, <2>3, <3>2 DEF Open, BodyIs
  <2>5. ~IsFrame(stream')
    BY <1>3, ByteKinds, OpenIsNoFrame
  <2>6. Outcome'
    BY <2>1, <2>5, NoOutcomeNext
  <2> QED
    BY <1>2, <2>1, <2>2, <2>4, <2>6 DEF History
<1>6. CASE Len(buf) >= kMaxSentence
  <2>1. tokens' = tokens /\ buf' = buf /\ fsm' = "WaitStart" /\ result' = "Overflow"
    BY <1>1, <1>6 DEF Store, GiveUp
  <2>2. Count(stream', Payload) > kMaxSentence
    BY <1>1, <1>3, <1>4, <1>6 DEF Open, BodyIs
  <2>3. Extends(stream', stream')
    BY <1>2 DEF Extends
  <2>4. Dead(stream')
    BY <1>2, <1>3, <2>2, <2>3, OverfullIsDead
  <2>5. TokensEnd'
    BY <2>1 DEF TokensEnd
  <2> QED
    BY <1>2, <2>1, <2>4, <2>5, GiveUpHistory
<1> QED
  BY <1>4, <1>5, <1>6

(* Everything the checksum states keep: texts, checksum and counts of b.   *)
LEMMA ClosedStays ==
    ASSUME NEW b, Closed(b), UNCHANGED <<tokenVars, checksum>>
    PROVE  Closed(b)' /\ (TokensEnd => TokensEnd')
<1>1. buf' = buf /\ tokens' = tokens /\ checksum' = checksum
  BY DEF tokenVars
<1>2. Texts' = Texts
  BY <1>1 DEF Texts, Text
<1> QED
  BY <1>1, <1>2 DEF Closed, BodyIs, TokensEnd

(* The first digit is kept as the high half of the announced checksum.     *)
LEMMA FirstDigitHistory ==
    ASSUME Inv, History, NEW byte \in Bytes, FirstDigit(byte)
    PROVE  History' /\ Outcome'
<1>1. /\ fsm = "Csum1" /\ byte \in Hex /\ expected' = 16 * HexNibble[byte]
      /\ fsm' = "Csum2" /\ result' = "Incomplete" /\ Seen(byte)
      /\ UNCHANGED <<tokenVars, checksum>>
  BY DEF FirstDigit, GoOn
<1>2. PICK b : AfterStar(b)
  BY <1>1 DEF History
<1>3. stream = Append(b, Star) /\ Closed(b) /\ b \in Seq(BodyBytes)
  BY <1>2 DEF AfterStar, Closed, BodyIs
<1>4. stream' = Append(stream, byte) /\ stream' # NoStream
  BY <1>1, OpenSeen
<1>5. Closed(b)'
  BY <1>1, <1>3, ClosedStays
<1>6. AfterDigit(b, byte)'
  BY <1>1, <1>3, <1>4, <1>5 DEF AfterDigit
<1>7. ~IsFrame(stream')
  BY <1>3, <1>4, OpenIsNoFrame
<1>8. Outcome'
  BY <1>1, <1>7, NoOutcomeNext
<1>9. (fsm = "Csum2" => \E c, digit : digit \in Hex /\ AfterDigit(c, digit))'
  <2>1. \E c, digit : digit \in Hex /\ AfterDigit(c, digit)'
    BY <1>1, <1>6
  <2> QED
    BY <2>1
<1> QED
  BY <1>1, <1>4, <1>8, <1>9 DEF History

(* What is no digit after the star begins no frame.                        *)
LEMMA NotADigitHistory ==
    ASSUME Inv, History, NEW byte \in Bytes, NotADigit(byte)
    PROVE  History' /\ Outcome'
<1>1. /\ fsm \in {"Csum1", "Csum2"} /\ byte \notin Hex
      /\ fsm' = "WaitStart" /\ result' = "Framing" /\ Seen(byte)
  BY DEF NotADigit, GiveUp
<1>2. stream' = Append(stream, byte) /\ stream' \in Seq(Bytes)
  BY <1>1, OpenSeen
<1>3. CASE fsm = "Csum1"
  <2>1. PICK b : AfterStar(b)
    BY <1>3 DEF History
  <2>2. b \in Seq(BodyBytes) /\ stream' = Append(Append(b, Star), byte)
    BY <1>2, <2>1 DEF AfterStar, Closed, BodyIs
  <2>3. ASSUME NEW f \in Seq(Bytes), Extends(f, stream') PROVE ~IsFrame(f)
    <3> DEFINE s == Append(b, Star)
    <3>1. Extends(f, Append(s, byte))
      BY <2>2, <2>3
    <3> HIDE DEF s
    <3>2. s = Append(b, Star)
      BY DEF s
    <3> QED
      BY <1>1, <2>2, <3>1, <3>2, DigitBreaks
  <2> QED
    BY <1>1, <1>2, <2>3, GiveUpHistory DEF Dead
<1>4. CASE fsm = "Csum2"
  <2>1. PICK b, digit : digit \in Hex /\ AfterDigit(b, digit)
    BY <1>4 DEF History
  <2>2. b \in Seq(BodyBytes) /\ stream' = Append(Append(Append(b, Star), digit), byte)
    BY <1>2, <2>1 DEF AfterDigit, Closed, BodyIs
  <2>3. ASSUME NEW f \in Seq(Bytes), Extends(f, stream') PROVE ~IsFrame(f)
    <3> DEFINE s == Append(b, Star)
    <3>1. Extends(f, Append(Append(s, digit), byte))
      BY <2>2, <2>3
    <3> HIDE DEF s
    <3>2. s = Append(b, Star)
      BY DEF s
    <3> QED
      BY <1>1, <2>2, <3>1, <3>2, DigitBreaks
  <2> QED
    BY <1>1, <1>2, <2>3, GiveUpHistory DEF Dead
<1> QED
  BY <1>1, <1>3, <1>4

(* The second digit completes a frame, and tells whether it is a good one. *)
LEMMA SecondDigitHistory ==
    ASSUME Inv, History, NEW byte \in Bytes, SecondDigit(byte)
    PROVE  History' /\ Outcome'
<1>1. /\ fsm = "Csum2" /\ byte \in Hex /\ expected' = expected + HexNibble[byte]
      /\ fsm' = "WaitStart" /\ Seen(byte)
      /\ result' = IF checksum = expected' THEN "Complete" ELSE "ChecksumError"
      /\ UNCHANGED <<tokenVars, checksum>>
  BY DEF SecondDigit
<1>2. PICK b, digit : digit \in Hex /\ AfterDigit(b, digit)
  BY <1>1 DEF History
<1>3. /\ stream = Append(Append(b, Star), digit) /\ expected = 16 * HexNibble[digit]
      /\ Closed(b) /\ b \in Seq(BodyBytes) /\ checksum = Checksum(b)
  BY <1>2 DEF AfterDigit, Closed, BodyIs
<1>4. stream' = Append(Append(Append(b, Star), digit), byte) /\ stream' # NoStream
  BY <1>1, <1>3, OpenSeen
<1>5. Count(b, Payload) <= kMaxSentence /\ Count(b, {Comma}) <= kMaxFields
  <2>1. /\ Len(buf) <= kMaxSentence /\ Len(tokens) <= kMaxFields + 1
        /\ Count(b, Payload) = Len(buf) /\ Len(tokens) = Count(b, {Comma}) + 1
    BY <1>3 DEF Inv, TypeOK, Closed, BodyIs
  <2>2. Count(b, {Comma}) \in Nat
    BY <1>3, ByteKinds, BodyCounts
  <2> QED
    BY <2>1, <2>2, GrammarAssumption DEF GrammarAssumption
<1>6. /\ stream' \in Seq(Bytes) /\ IsFrame(stream') /\ Body(stream') = b
      /\ Announced(stream') = 16 * HexNibble[digit] + HexNibble[byte]
      /\ Spent(stream')
  <2> DEFINE f == stream'
  <2>1. f = Append(Append(Append(b, Star), digit), byte)
    BY <1>4
  <2> HIDE DEF f
  <2> DEFINE announced == 16 * HexNibble[digit] + HexNibble[byte]
  <2>2. /\ byte \in Hex /\ digit \in Hex /\ b \in Seq(BodyBytes)
        /\ Count(b, Payload) <= kMaxSentence /\ Count(b, {Comma}) <= kMaxFields
    BY <1>1, <1>2, <1>3, <1>5
  <2>3. /\ f \in Seq(Bytes) /\ IsFrame(f) /\ Body(f) = b /\ Announced(f) = announced
        /\ Spent(f)
    BY ONLY <2>1, <2>2, ClosedIsFrame
  <2> QED
    BY <2>3 DEF f
<1>7. (fsm = "WaitStart" /\ stream # NoStream => Spent(stream))'
  BY <1>6 DEF Spent
<1>8. ResultMatchesGrammar'
  <2>1. Checksum(Body(stream')) = Announced(stream') <=> checksum = expected'
    BY <1>1, <1>3, <1>6
  <2> QED
    BY <1>1, <1>4, <1>6, <2>1 DEF ResultMatchesGrammar
<1>9. FieldsAreTheSplit'
  <2>1. Closed(b)'
    BY <1>1, <1>3, ClosedStays
  <2>2. JoinedByCommas(Texts') = Body(stream')
    BY <1>6, <2>1 DEF Closed
  <2> QED
    BY <2>2 DEF FieldsAreTheSplit, Texts
<1> QED
  BY <1>1, <1>4, <1>7, <1>8, <1>9 DEF History, Outcome

(* The buffers, the history and what the two properties say of it.         *)
FrameInv == Inv /\ TokensEnd /\ History /\ Outcome

(* The history invariant holds in every state.                             *)
LEMMA FrameInvariance == Spec => []FrameInv
<1>1. Init => FrameInv
  <2> SUFFICES ASSUME Init PROVE FrameInv
    OBVIOUS
  <2>1. Inv
    BY InitInv
  <2>2. fsm = "WaitStart" /\ stream = NoStream /\ result = "Incomplete" /\ tokens = << >>
    BY DEF Init
  <2>3. Outcome
    BY <2>2, NoOutcome
  <2> QED
    BY <2>1, <2>2, <2>3 DEF FrameInv, History, TokensEnd
<1>2. FrameInv /\ [Next]_vars => FrameInv'
  <2> SUFFICES ASSUME Inv, TokensEnd, History, Outcome, [Next]_vars PROVE FrameInv'
    BY DEF FrameInv
  <2>0. Inv'
    BY StepInv
  <2>1. ASSUME UNCHANGED tokenVars PROVE TokensEnd'
    BY <2>1 DEF tokenVars, TokensEnd
  <2>2. CASE UNCHANGED vars
    <3>1. UNCHANGED <<fsm, buf, tokens, token_start, checksum, expected, result, stream>>
      BY <2>2 DEF vars, tokenVars
    <3>2. Texts' = Texts /\ Rest' = Rest
      BY <3>1 DEF Texts, Text, Rest
    <3>3. TokensEnd' /\ History'
      BY <3>1, <3>2 DEF TokensEnd, History, Open, AfterStar, AfterDigit, Closed, BodyIs, Spent
    <3>4. Outcome'
      BY <3>1 DEF Outcome, ResultMatchesGrammar, FieldsAreTheSplit, Text
    <3> QED
      BY <2>0, <3>3, <3>4 DEF FrameInv
  <2>3. ASSUME NEW byte \in Bytes, Consume(byte) PROVE FrameInv'
    <3>1. CASE Delimiter(byte)
      BY <2>0, <3>1, DelimiterHistory DEF FrameInv
    <3>2. CASE Skip(byte)
      BY <2>0, <2>1, <3>2, SkipHistory DEF FrameInv, Skip
    <3>3. CASE EndOfLine(byte)
      BY <2>0, <2>1, <3>3, EndOfLineHistory DEF FrameInv, EndOfLine
    <3>4. CASE CloseBody
      BY <2>0, <3>4, CloseBodyHistory DEF FrameInv
    <3>5. CASE CloseField
      BY <2>0, <3>5, CloseFieldHistory DEF FrameInv
    <3>6. CASE Store(byte)
      BY <2>0, <3>6, StoreHistory DEF FrameInv
    <3>7. CASE FirstDigit(byte)
      BY <2>0, <2>1, <3>7, FirstDigitHistory DEF FrameInv, FirstDigit
    <3>8. CASE NotADigit(byte)
      BY <2>0, <2>1, <3>8, NotADigitHistory DEF FrameInv, NotADigit
    <3>9. CASE SecondDigit(byte)
      BY <2>0, <2>1, <3>9, SecondDigitHistory DEF FrameInv, SecondDigit
    <3> QED
      BY <2>3, <3>1, <3>2, <3>3, <3>4, <3>5, <3>6, <3>7, <3>8, <3>9 DEF Consume
  <2> QED
    BY <2>2, <2>3 DEF Next
<1> QED
  BY <1>1, <1>2, PTL DEF Spec

(***************************************************************************)
(* Whatever bytes arrive, in any order and from any state, a byte          *)
(* completes a sentence exactly when the bytes since the last delimiter    *)
(* are a frame that fits, and Complete or ChecksumError according to its   *)
(* checksum (Parser.cpp:39-119): for every alphabet, exclusive-or table    *)
(* and size of the buffers.                                                *)
(***************************************************************************)
THEOREM FramesRecognized == Spec => []ResultMatchesGrammar
<1>1. FrameInv => ResultMatchesGrammar
  BY DEF FrameInv, Outcome
<1> QED
  BY <1>1, FrameInvariance, PTL

(***************************************************************************)
(* The address and fields of a complete sentence, with commas between      *)
(* them, are the body of the frame: none is lost, cut, merged or left over *)
(* from an earlier sentence (Parser.cpp:23-36, 68-86).                     *)
(***************************************************************************)
THEOREM FieldsSplit == Spec => []FieldsAreTheSplit
<1>1. FrameInv => FieldsAreTheSplit
  BY DEF FrameInv, Outcome
<1> QED
  BY <1>1, FrameInvariance, PTL
=============================================================================
