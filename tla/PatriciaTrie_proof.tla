-------------------------- MODULE PatriciaTrie_proof --------------------------
(***************************************************************************)
(* The buffers of the changeable dictionary (PatriciaTrie): what holds of  *)
(* them between two calls, what is read from them then, and the changes    *)
(* the operations consist of, each of which keeps it.                      *)
(*                                                                         *)
(* Buffers: no position leads out of them.  Tree: nodes and arrays are a   *)
(* tree, in which letters tell siblings apart.  Ids: nodes and table lead  *)
(* to each other.  Spells: text[p] are the letters from the root to the    *)
(* node p, a word if p is terminal.  Together they are Good(d, text).      *)
(* NativeDictionary_proof goes on from here.                               *)
(***************************************************************************)
EXTENDS PatriciaTrie, Integers, TLAPS, WellFoundedInduction, FiniteSetTheorems, SequenceTheorems

-----------------------------------------------------------------------------
(* Induction over the natural numbers, and functions defined by recursion. *)

Less == {d \in Nat \X Nat : d[1] < d[2]}

LEMMA LeastNatural ==
    ASSUME NEW T, T \subseteq Nat, T # {}
    PROVE  \E n \in T : \A m \in T : ~(m < n)
<1>1. OpToRel(<, Nat) = Less
  BY DEF OpToRel, Less
<1>2. IsWellFoundedOn(Less, Nat)
  BY <1>1, NatLessThanWellFounded
<1>3. PICK n \in T : \A m \in T : ~(<<m, n>> \in Less)
  BY <1>2, WFMin
<1> QED BY <1>3 DEF Less

LEMMA Inductive ==
    ASSUME NEW T, T \subseteq Nat, 0 \in T, \A n \in T : n + 1 \in T
    PROVE  Nat \subseteq T
<1> SUFFICES ASSUME Nat \ T # {} PROVE FALSE
  OBVIOUS
<1>1. PICK n \in Nat \ T : \A m \in Nat \ T : ~(m < n)
  BY LeastNatural
<1>2. n # 0 /\ n - 1 \in Nat
  BY <1>1
<1>3. n - 1 \in T
  BY <1>1, <1>2
<1> QED BY <1>1, <1>3

\* Every statement about a number holds if it holds of a number whenever it
\* holds of the smaller ones.
LEMMA Complete ==
    ASSUME NEW T, T \subseteq Nat, \A n \in Nat : (\A m \in Nat : m < n => m \in T) => n \in T
    PROVE  Nat \subseteq T
<1> SUFFICES ASSUME Nat \ T # {} PROVE FALSE
  OBVIOUS
<1>1. PICK n \in Nat \ T : \A m \in Nat \ T : ~(m < n)
  BY LeastNatural
<1> QED BY <1>1

LEMMA MinOf ==
    ASSUME NEW T, T \subseteq Nat, T # {}
    PROVE  Min(T) \in T /\ \A m \in T : Min(T) <= m
<1>1. PICK n \in T : \A m \in T : ~(m < n)
  BY LeastNatural
<1>2. \A m \in T : n <= m
  BY <1>1
<1> QED BY <1>2 DEF Min

LEMMA MaxOf ==
    ASSUME NEW T, T \subseteq Nat, T # {}, NEW top \in Nat, \A m \in T : m <= top
    PROVE  Max(T) \in T /\ \A m \in T : Max(T) >= m
<1> DEFINE U == {top - m : m \in T}
<1>0. \A m \in T : top - m \in Nat
  OBVIOUS
<1>1. U \subseteq Nat /\ U # {}
  BY <1>0
<1>2. PICK u \in U : \A v \in U : ~(v < u)
  BY <1>1, LeastNatural
<1>3. PICK n \in T : u = top - n
  BY <1>2
<1>4. \A m \in T : top - m \in U
  OBVIOUS
<1>5. \A m \in T : n >= m
  <2> TAKE m \in T
  <2>1. ~(top - m < top - n)
    BY <1>2, <1>3, <1>4
  <2> QED BY <2>1
<1> QED BY <1>5 DEF Max

\* One step B of a recursion over S, whose calls have a smaller measure.
Recursion(S, V, B, m, top) ==
    /\ [S -> V] # {} /\ B \in [[S -> V] -> [S -> V]]
    /\ m \in [S -> Nat] /\ top \in Nat /\ \A x \in S : m[x] <= top
    /\ \A g, h \in [S -> V], x \in S :
          (\A y \in S : m[y] < m[x] => g[y] = h[y]) => B[g][x] = B[h][x]

\* Such a recursion defines a function: the step, taken as often as the measure
\* can fall, changes nothing any more.
LEMMA Fixpoint ==
    ASSUME NEW S, NEW V, NEW B, NEW m, NEW top, Recursion(S, V, B, m, top)
    PROVE  \E f \in [S -> V] : B[f] = f
<1> DEFINE W == [S -> V]
<1>0. /\ W # {} /\ B \in [W -> W]
      /\ m \in [S -> Nat] /\ top \in Nat /\ \A x \in S : m[x] <= top
      /\ \A g, h \in W, x \in S :
            (\A y \in S : m[y] < m[x] => g[y] = h[y]) => B[g][x] = B[h][x]
  BY DEF Recursion
<1>00. PICK f0 \in W : TRUE
  BY <1>0
<1>000. W = [S -> V]
  OBVIOUS
<1> HIDE DEF W
<1> DEFINE T == {n \in Nat : \E f \in W : \A x \in S : m[x] < n => B[f][x] = f[x]}
<1>1. 0 \in T
  BY <1>0, <1>00
<1>2. ASSUME NEW n \in T PROVE n + 1 \in T
  <2>1. PICK f \in W : \A x \in S : m[x] < n => B[f][x] = f[x]
    OBVIOUS
  <2>2. B[f] \in W /\ n \in Nat
    BY <1>0
  <2>3. ASSUME NEW x \in S, m[x] < n + 1 PROVE B[B[f]][x] = B[f][x]
    <3>1. \A y \in S : m[y] < m[x] => B[f][y] = f[y]
      BY <1>0, <2>1, <2>2, <2>3
    <3> QED BY <1>0, <2>2, <3>1
  <2> QED BY <2>2, <2>3
<1>3. top + 1 \in T
  BY <1>0, <1>1, <1>2, Inductive
<1>4. PICK f \in W : \A x \in S : m[x] < top + 1 => B[f][x] = f[x]
  BY <1>3
<1>5. \A x \in S : B[f][x] = f[x]
  BY <1>0, <1>4
<1>6. f \in [S -> V] /\ B[f] \in [S -> V]
  BY <1>0, <1>000
<1>7. B[f] = f
  BY <1>5, <1>6
<1> QED BY <1>000, <1>7

-----------------------------------------------------------------------------
(* Strings of letters.                                                     *)

LEMMA SkipIs ==
    ASSUME NEW S, NEW s \in Seq(S), NEW k \in 0..Len(s)
    PROVE  /\ Skip(s, k) \in Seq(S)
           /\ Len(Skip(s, k)) = Len(s) - k
           /\ \A i \in 1..Len(s) - k : Skip(s, k)[i] = s[k + i]
<1>1. Len(s) \in Nat /\ \A i \in k + 1..Len(s) : s[i] \in S
  BY LenProperties, ElementOfSeq
<1>2. /\ SubSeq(s, k + 1, Len(s)) \in Seq(S)
      /\ Len(SubSeq(s, k + 1, Len(s)))
            = IF k + 1 <= Len(s) THEN Len(s) - (k + 1) + 1 ELSE 0
      /\ \A i \in 1..Len(s) - (k + 1) + 1 :
            SubSeq(s, k + 1, Len(s))[i] = s[(k + 1) + i - 1]
  BY <1>1, SubSeqProperties
<1>3. \A i \in 1..Len(s) - k : i \in 1..Len(s) - (k + 1) + 1 /\ (k + 1) + i - 1 = k + i
  BY <1>1
<1> QED BY <1>1, <1>2, <1>3 DEF Skip

LEMMA TakeIs ==
    ASSUME NEW S, NEW s \in Seq(S), NEW k \in 0..Len(s)
    PROVE  /\ SubSeq(s, 1, k) \in Seq(S)
           /\ Len(SubSeq(s, 1, k)) = k
           /\ \A i \in 1..k : SubSeq(s, 1, k)[i] = s[i]
<1>1. Len(s) \in Nat /\ \A i \in 1..k : s[i] \in S
  BY LenProperties, ElementOfSeq
<1>2. /\ SubSeq(s, 1, k) \in Seq(S)
      /\ Len(SubSeq(s, 1, k)) = IF 1 <= k THEN k - 1 + 1 ELSE 0
      /\ \A i \in 1..k - 1 + 1 : SubSeq(s, 1, k)[i] = s[1 + i - 1]
  BY <1>1, SubSeqProperties
<1>3. \A i \in 1..k : i \in 1..k - 1 + 1 /\ 1 + i - 1 = i
  BY <1>1
<1> QED BY <1>1, <1>2, <1>3

LEMMA PrefixIs ==
    ASSUME NEW S, NEW s \in Seq(S), NEW t \in Seq(S)
    PROVE  IsPrefix(s, t) <=> /\ Len(s) <= Len(t)
                              /\ \A i \in 1..Len(s) : s[i] = t[i]
<1> DEFINE n == Len(s)
<1>1. n \in Nat /\ Len(t) \in Nat
  BY LenProperties
<1>2. SubSeq(s, 1, n) = s
  BY SubSeqFull
<1>3. ASSUME n <= Len(t)
      PROVE  SubSeq(s, 1, n) = SubSeq(t, 1, n) <=> \A i \in 1..n : s[i] = t[i]
  <2>1. n \in 0..Len(t)
    BY <1>1, <1>3
  <2>2. /\ SubSeq(t, 1, n) \in Seq(S) /\ Len(SubSeq(t, 1, n)) = n
        /\ \A i \in 1..n : SubSeq(t, 1, n)[i] = t[i]
    BY <2>1, TakeIs
  <2>3. (\A i \in 1..n : s[i] = SubSeq(t, 1, n)[i]) => s = SubSeq(t, 1, n)
    BY <2>2, SeqEqual
  <2> QED BY <1>2, <2>2, <2>3
<1> QED BY <1>1, <1>3 DEF IsPrefix

\* The letter after the first k ones.
LEMMA HeadOfSkip ==
    ASSUME NEW S, NEW s \in Seq(S), NEW k \in 0..Len(s) - 1
    PROVE  Skip(s, k) # <<>> /\ Head(Skip(s, k)) = s[k + 1]
<1>1. k \in 0..Len(s) /\ Len(s) \in Nat
  BY LenProperties
<1>2. /\ Skip(s, k) \in Seq(S) /\ Len(Skip(s, k)) = Len(s) - k
      /\ \A i \in 1..Len(s) - k : Skip(s, k)[i] = s[k + i]
  BY <1>1, SkipIs
<1> HIDE DEF Skip
<1>5. Skip(s, k)[1] = s[k + 1]
  <2>1. 1 \in 1..Len(s) - k
    BY <1>1
  <2> QED BY <1>2, <2>1
<1>3. Skip(s, k) # <<>>
  BY <1>1, <1>2, EmptySeq
<1>4. Head(Skip(s, k)) = Skip(s, k)[1]
  BY <1>2, <1>3
<1> QED BY <1>3, <1>4, <1>5

LEMMA SkipSkip ==
    ASSUME NEW S, NEW s \in Seq(S), NEW k \in 0..Len(s), NEW j \in 0..Len(s) - k
    PROVE  Skip(Skip(s, k), j) = Skip(s, k + j)
<1> DEFINE t == Skip(s, k)
<1>1. Len(s) \in Nat /\ k + j \in 0..Len(s)
  BY LenProperties
<1>2. t \in Seq(S) /\ Len(t) = Len(s) - k /\ \A i \in 1..Len(s) - k : t[i] = s[k + i]
  BY SkipIs
<1> HIDE DEF t
<1>3. j \in 0..Len(t)
  BY <1>1, <1>2
<1>4. /\ Skip(t, j) \in Seq(S) /\ Len(Skip(t, j)) = Len(t) - j
      /\ \A i \in 1..Len(t) - j : Skip(t, j)[i] = t[j + i]
  <2>1. t \in Seq(S) /\ j \in 0..Len(t)
    BY <1>2, <1>3
  <2> QED BY <2>1, SkipIs
<1>5. /\ Skip(s, k + j) \in Seq(S) /\ Len(Skip(s, k + j)) = Len(s) - (k + j)
      /\ \A i \in 1..Len(s) - (k + j) : Skip(s, k + j)[i] = s[(k + j) + i]
  BY <1>1, SkipIs
<1>6. \A i \in 1..Len(t) - j : /\ j + i \in 1..Len(s) - k /\ i \in 1..Len(s) - (k + j)
                               /\ k + (j + i) = (k + j) + i
  BY <1>1, <1>2
<1>7. Len(Skip(t, j)) = Len(Skip(s, k + j))
  <2>1. Len(Skip(t, j)) = (Len(s) - k) - j /\ Len(Skip(s, k + j)) = Len(s) - (k + j)
    BY <1>2, <1>4, <1>5
  <2> QED BY <1>1, <2>1
<1>8. ASSUME NEW i \in 1..Len(Skip(t, j))
      PROVE  Skip(t, j)[i] = Skip(s, k + j)[i]
  <2>1. i \in 1..Len(t) - j
    BY <1>4
  <2>2. /\ j + i \in 1..Len(s) - k /\ i \in 1..Len(s) - (k + j)
        /\ k + (j + i) = (k + j) + i
    BY <1>6, <2>1
  <2>3. Skip(t, j)[i] = t[j + i]
    BY <1>4, <2>1
  <2>4. t[j + i] = s[k + (j + i)]
    BY <1>2, <2>2
  <2>5. Skip(s, k + j)[i] = s[(k + j) + i]
    BY <1>5, <2>2
  <2> QED BY <2>2, <2>3, <2>4, <2>5
<1>9. Skip(t, j) = Skip(s, k + j)
  BY <1>4, <1>5, <1>7, <1>8, SeqEqual
<1> QED BY <1>9 DEF t

\* s is c followed by the rest of it, if c is a prefix of it.
LEMMA PrefixAndRest ==
    ASSUME NEW S, NEW s \in Seq(S), NEW c \in Seq(S)
    PROVE  /\ IsPrefix(c, s) => c \o Skip(s, Len(c)) = s
           /\ IsPrefix(c, c \o s) /\ Skip(c \o s, Len(c)) = s
           /\ SubSeq(c \o s, 1, Len(c)) = c
<1>1. Len(s) \in Nat /\ Len(c) \in Nat /\ Len(c) \in 0..Len(c) + Len(s)
  BY LenProperties
<1>2. /\ c \o s \in Seq(S) /\ Len(c \o s) = Len(c) + Len(s)
      /\ \A i \in 1..Len(c) + Len(s) :
            (c \o s)[i] = IF i <= Len(c) THEN c[i] ELSE s[i - Len(c)]
  BY ConcatProperties
<1>3. ASSUME IsPrefix(c, s) PROVE c \o Skip(s, Len(c)) = s
  <2> DEFINE r == Skip(s, Len(c))
  <2>1. Len(c) <= Len(s) /\ \A i \in 1..Len(c) : c[i] = s[i]
    BY <1>3, PrefixIs
  <2>2. Len(c) \in 0..Len(s)
    BY <1>1, <2>1
  <2>3. r \in Seq(S) /\ Len(r) = Len(s) - Len(c) /\ \A i \in 1..Len(s) - Len(c) : r[i] = s[Len(c) + i]
    BY <2>2, SkipIs
  <2> HIDE DEF r
  <2>4. /\ c \o r \in Seq(S) /\ Len(c \o r) = Len(c) + Len(r)
        /\ \A i \in 1..Len(c) + Len(r) :
              (c \o r)[i] = IF i <= Len(c) THEN c[i] ELSE r[i - Len(c)]
    BY <2>3, ConcatProperties
  <2>5. Len(c \o r) = Len(s)
    BY <1>1, <2>3, <2>4
  <2>6. ASSUME NEW i \in 1..Len(s) PROVE (c \o r)[i] = s[i]
    <3>1. CASE i <= Len(c)
      <4>1. i \in 1..Len(c) /\ i \in 1..Len(c) + Len(r)
        BY <1>1, <2>3, <3>1
      <4> QED BY <2>1, <2>4, <3>1, <4>1
    <3>2. CASE ~(i <= Len(c))
      <4>1. /\ i - Len(c) \in 1..Len(s) - Len(c) /\ i \in 1..Len(c) + Len(r)
            /\ Len(c) + (i - Len(c)) = i
        BY <1>1, <2>3, <3>2
      <4> QED BY <2>3, <2>4, <3>2, <4>1
    <3> QED BY <3>1, <3>2
  <2>7. c \o r = s
    BY <2>4, <2>5, <2>6, SeqEqual
  <2> QED BY <2>7 DEF r
<1> DEFINE t == c \o s
<1> HIDE DEF t
<1>4. t \in Seq(S) /\ Len(t) = Len(c) + Len(s)
      /\ \A i \in 1..Len(c) : t[i] = c[i]
  <2>1. \A i \in 1..Len(c) : i \in 1..Len(c) + Len(s) /\ i <= Len(c)
    BY <1>1
  <2> QED BY <1>2, <2>1 DEF t
<1>5. \A i \in 1..Len(s) : t[Len(c) + i] = s[i]
  <2>1. \A i \in 1..Len(s) : /\ Len(c) + i \in 1..Len(c) + Len(s) /\ ~(Len(c) + i <= Len(c))
                             /\ (Len(c) + i) - Len(c) = i
    BY <1>1
  <2> QED BY <1>2, <2>1 DEF t
<1>6. IsPrefix(c, t)
  <2>1. Len(c) <= Len(t)
    BY <1>1, <1>4
  <2>2. t \in Seq(S) /\ \A i \in 1..Len(c) : c[i] = t[i]
    BY <1>4
  <2> HIDE DEF t
  <2> QED BY <2>1, <2>2, PrefixIs
<1>7. Len(c) \in 0..Len(t) /\ Len(t) - Len(c) = Len(s)
  BY <1>1, <1>4
<1>8. Skip(t, Len(c)) = s
  <2> DEFINE x == Skip(t, Len(c))
  <2>1. x \in Seq(S) /\ Len(x) = Len(s) /\ \A i \in 1..Len(s) : x[i] = t[Len(c) + i]
    BY <1>4, <1>7, SkipIs
  <2> HIDE DEF x
  <2>2. \A i \in 1..Len(x) : x[i] = s[i]
    BY <1>5, <2>1
  <2>3. x = s
    BY <2>1, <2>2, SeqEqual
  <2> QED BY <2>3 DEF x
<1>9. SubSeq(t, 1, Len(c)) = c
  BY <1>4, <1>7, TakeIs, SeqEqual
<1> QED BY <1>3, <1>6, <1>8, <1>9 DEF t

\* A prefix of u followed by c is a prefix of s exactly if c is one of what u
\* leaves of s.
LEMMA PrefixOfRest ==
    ASSUME NEW S, NEW s \in Seq(S), NEW u \in Seq(S), NEW c \in Seq(S), IsPrefix(u, s)
    PROVE  /\ IsPrefix(u \o c, s) <=> IsPrefix(c, Skip(s, Len(u)))
           /\ u \o c = s <=> c = Skip(s, Len(u))
           /\ Len(u) \in 0..Len(s)
<1> DEFINE r == Skip(s, Len(u))
<1>1. Len(s) \in Nat /\ Len(u) \in Nat /\ Len(c) \in Nat
  BY LenProperties
<1>2. Len(u) <= Len(s) /\ (\A i \in 1..Len(u) : u[i] = s[i]) /\ u \o r = s
  BY PrefixIs, PrefixAndRest
<1>3. Len(u) \in 0..Len(s)
  BY <1>1, <1>2
<1>4. r \in Seq(S) /\ Len(r) = Len(s) - Len(u) /\ \A i \in 1..Len(s) - Len(u) : r[i] = s[Len(u) + i]
  BY <1>3, SkipIs
<1> HIDE DEF r
<1> DEFINE t == u \o c
<1>5. /\ t \in Seq(S) /\ Len(t) = Len(u) + Len(c)
      /\ \A i \in 1..Len(u) + Len(c) : t[i] = IF i <= Len(u) THEN u[i] ELSE c[i - Len(u)]
  BY ConcatProperties
<1>6. Skip(t, Len(u)) = c
  BY PrefixAndRest
<1> HIDE DEF t
<1>7. t = s <=> c = r
  BY <1>2, <1>6 DEF t, r
<1>8. ASSUME IsPrefix(t, s) PROVE IsPrefix(c, r)
  <2>1. Len(t) <= Len(s) /\ \A i \in 1..Len(t) : t[i] = s[i]
    BY <1>5, <1>8, PrefixIs
  <2>2. Len(c) <= Len(r)
    BY <1>1, <1>4, <1>5, <2>1
  <2>3. ASSUME NEW i \in 1..Len(c) PROVE c[i] = r[i]
    <3>1. /\ Len(u) + i \in 1..Len(t) /\ Len(u) + i \in 1..Len(u) + Len(c)
          /\ ~(Len(u) + i <= Len(u)) /\ (Len(u) + i) - Len(u) = i
          /\ i \in 1..Len(s) - Len(u)
      BY <1>1, <1>4, <1>5, <2>2
    <3> QED BY <1>4, <1>5, <2>1, <3>1
  <2> QED BY <1>4, <2>2, <2>3, PrefixIs
<1>9. ASSUME IsPrefix(c, r) PROVE IsPrefix(t, s)
  <2>1. Len(c) <= Len(r) /\ \A i \in 1..Len(c) : c[i] = r[i]
    BY <1>4, <1>9, PrefixIs
  <2>2. Len(t) <= Len(s)
    BY <1>1, <1>4, <1>5, <2>1
  <2>3. ASSUME NEW i \in 1..Len(t) PROVE t[i] = s[i]
    <3>1. CASE i <= Len(u)
      <4>1. i \in 1..Len(u) /\ i \in 1..Len(u) + Len(c)
        BY <1>1, <1>5, <3>1
      <4> QED BY <1>2, <1>5, <3>1, <4>1
    <3>2. CASE ~(i <= Len(u))
      <4>1. /\ i - Len(u) \in 1..Len(c) /\ i \in 1..Len(u) + Len(c)
            /\ i - Len(u) \in 1..Len(s) - Len(u) /\ Len(u) + (i - Len(u)) = i
        BY <1>1, <1>4, <1>5, <2>1, <3>2
      <4> QED BY <1>4, <1>5, <2>1, <3>2, <4>1
    <3> QED BY <3>1, <3>2
  <2> QED BY <1>5, <2>2, <2>3, PrefixIs
<1> QED BY <1>3, <1>7, <1>8, <1>9 DEF t, r

-----------------------------------------------------------------------------
(* What holds of the buffers between two calls.                            *)

Letters == UNION {Range(w) : w \in Words}
Strings == Seq(Letters)
Substrings ==
    (UNION {{Skip(SubSeq(w, 1, n), k) : n \in 1..Len(w), k \in 0..Len(w) - 1} :
               w \in Words}) \ {<<>>}

Node ==
    [flag : {"plain", "moved", "deleted"}, parent : Nat \cup {None},
     chars : Strings, id : Nat \cup {None}, children : Nat \cup {None}]

\* The nodes that are where they are.
Live(d) == {p \in DOMAIN d.trie : d.trie[p].flag # "moved"}

Shape(d) ==
    /\ d.trie \in Seq(Node)
    /\ d.arrays \in Seq(Seq(Nat)) /\ Len(d.arrays) >= 1
    /\ d.table \in Seq(Nat \cup {None})

\* No position leads out of the buffers, and a moved node leads to a later one.
NodeOK(d, p) ==
    /\ d.trie[p].chars \in Substrings
    /\ d.trie[p].id \in 0..Len(d.table) - 1 \cup {None}
    /\ d.trie[p].children \in 2..Len(d.arrays) \cup {None}
    /\ IF d.trie[p].flag = "moved" THEN d.trie[p].parent \in p + 1..Len(d.trie)
       ELSE d.trie[p].parent \in Live(d) \cup {None}

Buffers(d) ==
    /\ Shape(d)
    /\ \A a \in DOMAIN d.arrays : \A i \in DOMAIN d.arrays[a] :
          d.arrays[a][i] \in DOMAIN d.trie
    /\ \A p \in DOMAIN d.trie : NodeOK(d, p)

\* The array a node belongs to.
Home(d, p) ==
    IF d.trie[p].parent = None THEN Root ELSE d.trie[d.trie[p].parent].children

\* The nodes and the arrays are a tree, in which letters tell siblings apart.
Tree(d) ==
    /\ \A a \in DOMAIN d.arrays : \A i \in DOMAIN d.arrays[a] :
          Home(d, Siblings(d, a)[i]) = a
    /\ \A p \in Live(d) :
          /\ Home(d, p) \in DOMAIN d.arrays
          /\ \E i \in DOMAIN d.arrays[Home(d, p)] : Siblings(d, Home(d, p))[i] = p
    /\ \A a \in DOMAIN d.arrays : \A i, j \in DOMAIN d.arrays[a] :
          Head(d.trie[Siblings(d, a)[i]].chars) = Head(d.trie[Siblings(d, a)[j]].chars)
             => i = j
    /\ \A a \in DOMAIN d.arrays \ {Root} : \E p \in Live(d) : d.trie[p].children = a
    /\ \A p, q \in Live(d) :
          d.trie[p].children = d.trie[q].children /\ d.trie[p].children # None => p = q

\* text gives the letters from the root to each node.
Above(d, text, p) ==
    IF d.trie[p].parent = None THEN <<>> ELSE text[d.trie[p].parent]

Spells(d, text) ==
    /\ text \in [Live(d) -> Strings]
    /\ \A p \in Live(d) : text[p] = Above(d, text, p) \o d.trie[p].chars
    /\ \A p \in Live(d) : IsTerminal(d.trie[p]) => text[p] \in Words

\* The nodes with ids and the table lead to each other.
Ids(d) ==
    /\ \A p \in Live(d) : LET n == d.trie[p] IN
          /\ n.flag = "deleted" => IsTerminal(n) /\ d.table[n.id + 1] = None
          /\ n.flag # "deleted" /\ IsTerminal(n) => d.table[n.id + 1] = p
    /\ \A p, q \in Live(d) : IsTerminal(d.trie[p]) /\ d.trie[p].id = d.trie[q].id => p = q
    /\ \A i \in DOMAIN d.table : d.table[i] # None =>
          /\ d.table[i] \in Live(d)
          /\ d.trie[d.table[i]].flag # "deleted"
          /\ d.trie[d.table[i]].id = i - 1

Sound(d) == Buffers(d) /\ Tree(d) /\ Ids(d) /\ \E text : Spells(d, text)

LEMMA Constants ==
    /\ None \notin Nat
    /\ \A w \in Words : w \in Strings /\ w # <<>>
    /\ Words \subseteq Strings
    /\ SizeLimit \in Nat
<1>1. \A w \in Words : w \in Seq(Range(w)) /\ w # <<>>
  BY PatriciaTrieAssumption DEF PatriciaTrieAssumption
<1>2. ASSUME NEW w \in Words PROVE w \in Strings
  <2>1. Range(w) \subseteq Letters
    BY DEF Letters
  <2>2. w \in Seq(Range(w))
    BY <1>1
  <2> QED BY <2>1, <2>2, SeqMonotonic DEF Strings
<1> QED BY <1>1, <1>2, PatriciaTrieAssumption DEF PatriciaTrieAssumption

\* What the parts say of one node.
LEMMA NodeIs ==
    ASSUME NEW d, Buffers(d), NEW p \in DOMAIN d.trie
    PROVE  /\ d.trie[p] \in Node
           /\ p \in Nat /\ p >= 1 /\ p <= Len(d.trie) /\ Len(d.trie) \in Nat
           /\ DOMAIN d.trie = 1..Len(d.trie)
           /\ d.trie[p].chars \in Strings /\ d.trie[p].chars # <<>>
           /\ Len(d.trie[p].chars) \in Nat /\ Len(d.trie[p].chars) > 0
           /\ d.trie[p].children \in DOMAIN d.arrays \cup {None}
           /\ d.trie[p].children # Root
<1>1. d.trie \in Seq(Node) /\ d.arrays \in Seq(Seq(Nat)) /\ NodeOK(d, p)
  BY DEF Buffers, Shape
<1>2. DOMAIN d.trie = 1..Len(d.trie) /\ Len(d.trie) \in Nat
  BY <1>1, LenProperties
<1>3. d.trie[p] \in Node
  BY <1>1, <1>2, ElementOfSeq
<1>4. d.trie[p].chars \in Strings /\ d.trie[p].chars # <<>>
  <2>1. d.trie[p].chars \in Strings
    BY <1>3 DEF Node
  <2>2. d.trie[p].chars # <<>>
    BY <1>1 DEF NodeOK, Substrings
  <2> QED BY <2>1, <2>2
<1>5. Len(d.trie[p].chars) \in Nat \ {0}
  BY <1>4, EmptySeq DEF Strings
<1>6. DOMAIN d.arrays = 1..Len(d.arrays) /\ Len(d.arrays) \in Nat
  BY <1>1, LenProperties
<1>7. /\ d.trie[p].children \in DOMAIN d.arrays \cup {None}
      /\ d.trie[p].children # Root
  <2>1. d.trie[p].children \in 2..Len(d.arrays) \cup {None}
    BY <1>1 DEF NodeOK
  <2>2. None \notin Nat /\ Root = 1
    BY Constants DEF Root
  <2> QED BY <1>6, <2>1, <2>2
<1> QED BY <1>2, <1>3, <1>4, <1>5, <1>7

LEMMA ArraysAre ==
    ASSUME NEW d, Buffers(d)
    PROVE  /\ DOMAIN d.arrays = 1..Len(d.arrays) /\ Len(d.arrays) \in Nat
           /\ Root \in DOMAIN d.arrays
           /\ DOMAIN d.trie = 1..Len(d.trie) /\ Len(d.trie) \in Nat
           /\ DOMAIN d.table = 1..Len(d.table) /\ Len(d.table) \in Nat
           /\ \A a \in DOMAIN d.arrays :
                 /\ d.arrays[a] \in Seq(Nat) /\ Len(d.arrays[a]) \in Nat
                 /\ DOMAIN d.arrays[a] = 1..Len(d.arrays[a])
<1>1. /\ d.arrays \in Seq(Seq(Nat)) /\ Len(d.arrays) >= 1 /\ d.trie \in Seq(Node)
      /\ d.table \in Seq(Nat \cup {None})
  BY DEF Buffers, Shape
<1>2. DOMAIN d.arrays = 1..Len(d.arrays) /\ Len(d.arrays) \in Nat
  BY <1>1, LenProperties
<1>3. DOMAIN d.trie = 1..Len(d.trie) /\ Len(d.trie) \in Nat
  BY <1>1, LenProperties
<1>4. DOMAIN d.table = 1..Len(d.table) /\ Len(d.table) \in Nat
  BY <1>1, LenProperties
<1>5. ASSUME NEW a \in DOMAIN d.arrays
      PROVE  /\ d.arrays[a] \in Seq(Nat) /\ Len(d.arrays[a]) \in Nat
             /\ DOMAIN d.arrays[a] = 1..Len(d.arrays[a])
  <2>1. d.arrays[a] \in Seq(Nat)
    BY <1>1, <1>2, ElementOfSeq
  <2> QED BY <2>1, LenProperties
<1>6. Root \in DOMAIN d.arrays
  BY <1>1, <1>2 DEF Root
<1> QED BY <1>2, <1>3, <1>4, <1>5, <1>6

-----------------------------------------------------------------------------
(* Following the links of moved nodes.                                     *)

\* A moved node leads to a later one.
Links(d) ==
    /\ DOMAIN d.trie = 1..Len(d.trie) /\ Len(d.trie) \in Nat
    /\ \A p \in DOMAIN d.trie :
          d.trie[p].flag = "moved" => d.trie[p].parent \in p + 1..Len(d.trie)

LEMMA BuffersLink ==
    ASSUME NEW d, Buffers(d)
    PROVE  Links(d)
BY ArraysAre DEF Links, Buffers, NodeOK

LEMMA LinksLead ==
    ASSUME NEW d, Links(d)
    PROVE  \A p \in DOMAIN d.trie :
              /\ Fetched(d)[p] \in Live(d)
              /\ p \in Live(d) => Fetched(d)[p] = p
              /\ p \notin Live(d) => Fetched(d)[p] = Fetched(d)[d.trie[p].parent]
<1> DEFINE S == DOMAIN d.trie
           top == Len(d.trie)
           W == [S -> S]
           Step(g, p) == IF d.trie[p].flag = "moved" THEN g[d.trie[p].parent] ELSE p
           f0 == [p \in S |-> p]
           B == [g \in W |-> [p \in S |-> Step(g, p)]]
           m == [p \in S |-> top - p]
           F == Fetched(d)
<1>1. top \in Nat /\ S = 1..top
  BY DEF Links
<1>2. \A p \in S : d.trie[p].flag = "moved" => d.trie[p].parent \in p + 1..top
  BY DEF Links
<1>3. \A p \in S : d.trie[p].flag = "moved" =>
          d.trie[p].parent \in S /\ top - d.trie[p].parent < top - p
  BY <1>1, <1>2
<1>4. f0 \in W
  OBVIOUS
<1>5. \A g \in W : \A p \in S : Step(g, p) \in S
  BY <1>3
<1>6. B \in [W -> W] /\ \A g \in W, p \in S : B[g][p] = Step(g, p)
  BY <1>5
<1>7. m \in [S -> Nat] /\ \A p \in S : m[p] = top - p /\ m[p] <= top
  <2>1. \A p \in S : top - p \in Nat /\ top - p <= top
    BY <1>1
  <2> QED BY <2>1
<1>8. \A g, h \in W, p \in S :
          (\A q \in S : m[q] < m[p] => g[q] = h[q]) => B[g][p] = B[h][p]
  <2> TAKE g, h \in W, p \in S
  <2> HAVE \A q \in S : m[q] < m[p] => g[q] = h[q]
  <2>1. B[g][p] = Step(g, p) /\ B[h][p] = Step(h, p)
    BY <1>6
  <2>2. CASE d.trie[p].flag = "moved"
    <3>1. d.trie[p].parent \in S /\ m[d.trie[p].parent] < m[p]
      BY <1>3, <1>7, <2>2
    <3> QED BY <2>1, <2>2, <3>1
  <2> QED BY <2>1, <2>2
<1> HIDE DEF f0, B, m, W
<1>9. \E f \in W : B[f] = f
  <2>1. W = [S -> S] /\ W # {}
    BY <1>4 DEF W
  <2> HIDE DEF S, top, Step
  <2>2. Recursion(S, S, B, m, top)
    <3>1. [S -> S] # {} /\ B \in [[S -> S] -> [S -> S]]
      BY <1>6, <2>1
    <3>2. m \in [S -> Nat] /\ top \in Nat /\ \A x \in S : m[x] <= top
      BY <1>1, <1>7
    <3>3. \A g, h \in [S -> S], x \in S :
             (\A y \in S : m[y] < m[x] => g[y] = h[y]) => B[g][x] = B[h][x]
      BY <1>8, <2>1
    <3> QED BY <3>1, <3>2, <3>3 DEF Recursion
  <2> QED BY <2>1, <2>2, Fixpoint
<1>10. \E f : f = [p \in S |-> Step(f, p)]
  BY <1>9 DEF B
<1>11. F = [p \in S |-> Step(F, p)]
  BY <1>10 DEF Fetched
<1> HIDE DEF F
<1>12. \A p \in S : F[p] = Step(F, p)
  BY <1>11
<1> DEFINE T == {n \in Nat : \A p \in S : top - p = n => F[p] \in Live(d)}
<1>13. ASSUME NEW n \in Nat, \A k \in Nat : k < n => k \in T PROVE n \in T
  <2> SUFFICES ASSUME NEW p \in S, top - p = n PROVE F[p] \in Live(d)
    OBVIOUS
  <2>1. CASE d.trie[p].flag = "moved"
    <3>1. d.trie[p].parent \in S /\ top - d.trie[p].parent < n
          /\ top - d.trie[p].parent \in Nat
      BY <1>1, <1>3, <2>1
    <3>2. F[d.trie[p].parent] \in Live(d)
      BY <1>13, <3>1
    <3> QED BY <1>12, <2>1, <3>2
  <2>2. CASE d.trie[p].flag # "moved"
    BY <1>12, <2>2 DEF Live
  <2> QED BY <2>1, <2>2
<1>14. Nat \subseteq T
  BY <1>13, Complete
<1>15. \A p \in S : F[p] \in Live(d)
  <2> TAKE p \in S
  <2>1. top - p \in Nat
    BY <1>1
  <2> QED BY <1>14, <2>1
<1> QED BY <1>12, <1>15 DEF F, Live

LEMMA FetchedIs ==
    ASSUME NEW d, Buffers(d)
    PROVE  \A p \in DOMAIN d.trie :
              /\ Fetched(d)[p] \in Live(d)
              /\ p \in Live(d) => Fetched(d)[p] = p
              /\ p \notin Live(d) => Fetched(d)[p] = Fetched(d)[d.trie[p].parent]
BY BuffersLink, LinksLead

LEMMA SiblingsAre ==
    ASSUME NEW d, Buffers(d), NEW a \in DOMAIN d.arrays
    PROVE  /\ DOMAIN Siblings(d, a) = DOMAIN d.arrays[a]
           /\ \A i \in DOMAIN d.arrays[a] :
                 /\ Siblings(d, a)[i] = Fetched(d)[d.arrays[a][i]]
                 /\ Siblings(d, a)[i] \in Live(d)
                 /\ Siblings(d, a)[i] \in DOMAIN d.trie
<1>1. \A i \in DOMAIN d.arrays[a] : d.arrays[a][i] \in DOMAIN d.trie
  BY DEF Buffers
<1> QED BY <1>1, FetchedIs DEF Siblings, Live

\* The first node of an array at one of the given places.
FirstAt(d, a, fitting) ==
    IF fitting = {} THEN None ELSE Siblings(d, a)[Min(fitting)]

LEMMA FirstIs ==
    ASSUME NEW d, Buffers(d), NEW a \in DOMAIN d.arrays,
           NEW fitting \in SUBSET DOMAIN d.arrays[a]
    PROVE  /\ FirstAt(d, a, fitting) = None => fitting = {}
           /\ FirstAt(d, a, fitting) # None =>
                 \E i \in fitting : FirstAt(d, a, fitting) = Siblings(d, a)[i]
           /\ FirstAt(d, a, fitting) \in Live(d) \cup {None}
<1>1. CASE fitting = {}
  BY <1>1 DEF FirstAt
<1>2. CASE fitting # {}
  <2>1. fitting \subseteq Nat
    <3>1. fitting \subseteq 1..Len(d.arrays[a]) /\ Len(d.arrays[a]) \in Nat
      BY ArraysAre
    <3> QED BY <3>1
  <2>2. Min(fitting) \in fitting
    BY <1>2, <2>1, MinOf
  <2>3. Siblings(d, a)[Min(fitting)] \in Live(d)
    BY <2>2, SiblingsAre
  <2>4. Live(d) \subseteq Nat
    <3>1. DOMAIN d.trie = 1..Len(d.trie) /\ Len(d.trie) \in Nat
      BY ArraysAre
    <3> QED BY <3>1 DEF Live
  <2>5. Siblings(d, a)[Min(fitting)] # None
    BY <2>3, <2>4, Constants
  <2> QED BY <1>2, <2>2, <2>3, <2>5 DEF FirstAt
<1> QED BY <1>1, <1>2

-----------------------------------------------------------------------------
(* Finding a word.                                                         *)

Places(d, w) == [array : DOMAIN d.arrays, read : 0..Len(w) - 1]
Start == [array |-> Root, read |-> 0]
Further(d, p, at) ==
    [array |-> d.trie[p].children, read |-> at.read + Len(d.trie[p].chars)]

Matching(d, w, at) ==
    {i \in DOMAIN d.arrays[at.array] :
        /\ Len(d.trie[Siblings(d, at.array)[i]].chars) <= Len(Skip(w, at.read))
        /\ Head(d.trie[Siblings(d, at.array)[i]].chars) = Head(Skip(w, at.read))}

\* One step of TerminalPtNodePositionOfWord, at a node p or None.
FindWith(d, w, f, at, p) ==
    IF p = None \/ ~IsPrefix(d.trie[p].chars, Skip(w, at.read)) THEN None
    ELSE IF d.trie[p].chars = Skip(w, at.read)
         THEN IF IsTerminal(d.trie[p]) THEN p ELSE None
    ELSE IF d.trie[p].children = None THEN None
    ELSE f[Further(d, p, at)]

FindStep(d, w, f, at) ==
    FindWith(d, w, f, at, FirstAt(d, at.array, Matching(d, w, at)))

LEMMA FindUnfolded ==
    ASSUME NEW d, NEW w
    PROVE  TerminalPtNodePositionOfWord(d, w)
              = (CHOOSE f : f = [at \in Places(d, w) |-> FindStep(d, w, f, at)])[Start]
BY DEF TerminalPtNodePositionOfWord, Places, FindStep, FindWith, FirstAt, Matching, First,
       Start, Further

LEMMA PlaceIs ==
    ASSUME NEW d, Buffers(d), NEW w \in Strings, NEW at \in Places(d, w)
    PROVE  /\ Len(w) \in Nat /\ at.array \in DOMAIN d.arrays
           /\ at.read \in Nat /\ at.read < Len(w)
           /\ Skip(w, at.read) \in Strings /\ Skip(w, at.read) # <<>>
           /\ Len(Skip(w, at.read)) = Len(w) - at.read
<1>1. Len(w) \in Nat
  BY LenProperties DEF Strings
<1>2. at.array \in DOMAIN d.arrays /\ at.read \in 0..Len(w) - 1
  BY DEF Places
<1>3. at.read \in 0..Len(w)
  BY <1>1, <1>2
<1>4. Skip(w, at.read) \in Strings /\ Len(Skip(w, at.read)) = Len(w) - at.read
  BY <1>3, SkipIs DEF Strings
<1>5. Skip(w, at.read) # <<>>
  BY <1>2, HeadOfSkip DEF Strings
<1> QED BY <1>1, <1>2, <1>4, <1>5

\* The search goes to a place further on.
LEMMA FurtherIs ==
    ASSUME NEW d, Buffers(d), NEW w \in Strings, NEW at \in Places(d, w),
           NEW p \in Live(d), IsPrefix(d.trie[p].chars, Skip(w, at.read)),
           d.trie[p].chars # Skip(w, at.read), d.trie[p].children # None
    PROVE  /\ Further(d, p, at) \in Places(d, w)
           /\ Len(w) - Further(d, p, at).read < Len(w) - at.read
           /\ Len(w) - Further(d, p, at).read \in Nat
<1> DEFINE c == d.trie[p].chars
           r == Skip(w, at.read)
<1>1. p \in DOMAIN d.trie
  BY DEF Live
<1>2. /\ c \in Strings /\ Len(c) \in Nat /\ Len(c) > 0
      /\ d.trie[p].children \in DOMAIN d.arrays
  BY <1>1, NodeIs
<1>3. /\ Len(w) \in Nat /\ at.read \in Nat /\ at.read < Len(w)
      /\ r \in Strings /\ Len(r) = Len(w) - at.read
  BY PlaceIs
<1> HIDE DEF c, r
<1>4. Len(c) <= Len(r) /\ \A i \in 1..Len(c) : c[i] = r[i]
  <2>1. IsPrefix(c, r)
    BY DEF c, r
  <2> QED BY <1>2, <1>3, <2>1, PrefixIs DEF Strings
<1>5. Len(c) # Len(r)
  <2> SUFFICES ASSUME Len(c) = Len(r) PROVE FALSE
    OBVIOUS
  <2>1. c = r
    BY <1>2, <1>3, <1>4, SeqEqual DEF Strings
  <2> QED BY <2>1 DEF c, r
<1>6. /\ at.read + Len(c) \in 0..Len(w) - 1
      /\ Len(w) - (at.read + Len(c)) < Len(w) - at.read
      /\ Len(w) - (at.read + Len(c)) \in Nat
  BY <1>2, <1>3, <1>4, <1>5
<1> QED BY <1>2, <1>6 DEF Further, Places, c

LEMMA FindDefined ==
    ASSUME NEW d, Buffers(d), NEW w \in Strings, w # <<>>
    PROVE  \E f : /\ \A at \in Places(d, w) : f[at] = FindStep(d, w, f, at)
                  /\ TerminalPtNodePositionOfWord(d, w) = f[Start]
<1> DEFINE S == Places(d, w)
           V == Live(d) \cup {None}
           top == Len(w)
           W == [S -> V]
           Node1(at) == FirstAt(d, at.array, Matching(d, w, at))
           B == [g \in W |-> [at \in S |-> FindStep(d, w, g, at)]]
           m == [at \in S |-> top - at.read]
           f0 == [at \in S |-> None]
<1>1. \A at \in S : Node1(at) \in V
  <2> TAKE at \in S
  <2>1. at.array \in DOMAIN d.arrays
    BY PlaceIs
  <2>2. Matching(d, w, at) \in SUBSET DOMAIN d.arrays[at.array]
    BY DEF Matching
  <2> QED BY <2>1, <2>2, FirstIs
<1>2. \A at \in S, p \in Live(d) :
         IsPrefix(d.trie[p].chars, Skip(w, at.read)) /\ d.trie[p].chars # Skip(w, at.read)
         /\ d.trie[p].children # None
         => /\ Further(d, p, at) \in S
            /\ top - Further(d, p, at).read < top - at.read
  BY FurtherIs
<1>3. top \in Nat /\ m \in [S -> Nat] /\ \A at \in S : m[at] = top - at.read /\ m[at] <= top
  <2>1. top \in Nat
    BY LenProperties DEF Strings
  <2>2. \A at \in S : top - at.read \in Nat /\ top - at.read <= top
    BY PlaceIs
  <2> QED BY <2>1, <2>2
<1>4. f0 \in W
  OBVIOUS
<1>5. ASSUME NEW g \in W, NEW at \in S PROVE FindStep(d, w, g, at) \in V
  <2> DEFINE p == Node1(at)
  <2>1. p \in V
    BY <1>1
  <2>2. p # None /\ IsPrefix(d.trie[p].chars, Skip(w, at.read))
        /\ d.trie[p].chars # Skip(w, at.read) /\ d.trie[p].children # None
        => g[Further(d, p, at)] \in V
    BY <1>2, <2>1
  <2> HIDE DEF p
  <2>3. FindWith(d, w, g, at, p) \in V
    BY <2>1, <2>2 DEF FindWith
  <2> QED BY <2>3 DEF FindStep, p
<1>6. B \in [W -> W] /\ \A g \in W, at \in S : B[g][at] = FindStep(d, w, g, at)
  <2> HIDE DEF W, S, V
  <2>1. \A g \in W : [at \in S |-> FindStep(d, w, g, at)] \in W
    BY <1>5 DEF W
  <2> QED BY <2>1
<1>7. ASSUME NEW g \in W, NEW h \in W, NEW at \in S,
             \A y \in S : m[y] < m[at] => g[y] = h[y]
      PROVE  B[g][at] = B[h][at]
  <2> DEFINE p == Node1(at)
  <2>1. p \in V
    BY <1>1
  <2>2. p # None /\ IsPrefix(d.trie[p].chars, Skip(w, at.read))
        /\ d.trie[p].chars # Skip(w, at.read) /\ d.trie[p].children # None
        => g[Further(d, p, at)] = h[Further(d, p, at)]
    BY <1>2, <1>3, <1>7, <2>1
  <2> HIDE DEF p
  <2>3. FindWith(d, w, g, at, p) = FindWith(d, w, h, at, p)
    BY <2>1, <2>2 DEF FindWith
  <2>4. FindStep(d, w, g, at) = FindStep(d, w, h, at)
    BY <2>3 DEF FindStep, p
  <2> QED BY <1>6, <2>4
<1> HIDE DEF f0, B, m, W, S, V, top
<1>8. Recursion(S, V, B, m, top)
  <2>1. [S -> V] # {} /\ B \in [[S -> V] -> [S -> V]]
    BY <1>4, <1>6 DEF W
  <2>2. \A g, h \in [S -> V], x \in S :
             (\A y \in S : m[y] < m[x] => g[y] = h[y]) => B[g][x] = B[h][x]
    BY <1>7 DEF W
  <2> QED BY <1>3, <2>1, <2>2 DEF Recursion
<1>9. PICK f \in W : B[f] = f
  BY <1>8, Fixpoint DEF W
<1>10. f = [at \in S |-> FindStep(d, w, f, at)]
  BY <1>9 DEF B
<1> DEFINE F == CHOOSE h : h = [at \in S |-> FindStep(d, w, h, at)]
<1>11. F = [at \in S |-> FindStep(d, w, F, at)]
  BY <1>10
<1>12. TerminalPtNodePositionOfWord(d, w) = F[Start]
  BY FindUnfolded DEF S
<1> HIDE DEF F
<1>13. \A at \in S : F[at] = FindStep(d, w, F, at)
  BY <1>11
<1> QED BY <1>12, <1>13 DEF S

LEMMA LiveIs ==
    ASSUME NEW d, Buffers(d), NEW p \in Live(d)
    PROVE  /\ p \in DOMAIN d.trie /\ p \in Nat /\ p # None
           /\ d.trie[p].parent \in Live(d) \cup {None}
           /\ d.trie[p].flag # "moved"
<1>1. p \in DOMAIN d.trie /\ d.trie[p].flag # "moved"
  BY DEF Live
<1>2. NodeOK(d, p)
  BY <1>1 DEF Buffers
<1>3. p \in Nat
  BY <1>1, NodeIs
<1> QED BY <1>1, <1>2, <1>3, Constants DEF NodeOK

LEMMA HomeIs ==
    ASSUME NEW d, Buffers(d), Tree(d), NEW q \in Live(d)
    PROVE  /\ Home(d, q) \in DOMAIN d.arrays
           /\ Home(d, q) = Root <=> d.trie[q].parent = None
           /\ \A p \in Live(d) : /\ d.trie[p].children # None
                                 /\ Home(d, q) = d.trie[p].children
                                 => d.trie[q].parent = p
<1>1. Home(d, q) \in DOMAIN d.arrays
  BY DEF Tree
<1>2. CASE d.trie[q].parent = None
  <2>1. \A p \in Live(d) : d.trie[p].children # Root
    BY LiveIs, NodeIs
  <2> QED BY <1>1, <1>2, <2>1 DEF Home
<1>3. CASE d.trie[q].parent # None
  <2> DEFINE s == d.trie[q].parent
  <2>1. s \in Live(d) /\ Home(d, q) = d.trie[s].children
    BY <1>3, LiveIs DEF Home
  <2>2. d.trie[s].children # Root
    BY <2>1, LiveIs, NodeIs
  <2>4. \A p, q1 \in Live(d) :
           d.trie[p].children = d.trie[q1].children /\ d.trie[p].children # None => p = q1
    BY DEF Tree
  <2>3. \A p \in Live(d) : d.trie[p].children # None /\ d.trie[s].children = d.trie[p].children
                              => s = p
    <3> HIDE DEF s
    <3> QED BY <2>1, <2>4
  <2> QED BY <1>1, <1>3, <2>1, <2>2, <2>3
<1> QED BY <1>2, <1>3

LEMMA AboveIs ==
    ASSUME NEW d, Buffers(d), NEW text, Spells(d, text), NEW p \in Live(d)
    PROVE  /\ Above(d, text, p) \in Strings /\ text[p] \in Strings
           /\ Len(Above(d, text, p)) \in Nat
           /\ text[p] = Above(d, text, p) \o d.trie[p].chars
           /\ Len(text[p]) = Len(Above(d, text, p)) + Len(d.trie[p].chars)
           /\ Len(text[p]) \in Nat /\ Len(Above(d, text, p)) < Len(text[p])
           /\ Len(d.trie[p].chars) \in Nat /\ Len(d.trie[p].chars) > 0
           /\ IsPrefix(Above(d, text, p), text[p])
<1>1. text \in [Live(d) -> Strings] /\ text[p] = Above(d, text, p) \o d.trie[p].chars
  BY DEF Spells
<1>2. Above(d, text, p) \in Strings
  <2>1. <<>> \in Strings
    BY EmptySeq DEF Strings
  <2> QED BY <1>1, <2>1, LiveIs DEF Above
<1>3. /\ d.trie[p].chars \in Strings /\ Len(d.trie[p].chars) \in Nat
      /\ Len(d.trie[p].chars) > 0
  BY LiveIs, NodeIs
<1>4. /\ Len(Above(d, text, p)) \in Nat
      /\ Len(text[p]) = Len(Above(d, text, p)) + Len(d.trie[p].chars)
  BY <1>1, <1>2, <1>3, ConcatProperties, LenProperties DEF Strings
<1>5. IsPrefix(Above(d, text, p), text[p])
  BY <1>1, <1>2, <1>3, PrefixAndRest DEF Strings
<1>6. Len(text[p]) \in Nat /\ Len(Above(d, text, p)) < Len(text[p])
  BY <1>3, <1>4
<1>7. text[p] \in Strings
  BY <1>1
<1> QED BY <1>1, <1>2, <1>3, <1>4, <1>5, <1>6, <1>7

\* The nodes of an array the search is at continue what was read.
Reached(d, text, w, at) ==
    \A q \in Live(d) : Home(d, q) = at.array =>
        IsPrefix(Above(d, text, q), w) /\ Len(Above(d, text, q)) = at.read

LEMMA ReachedStart ==
    ASSUME NEW d, Buffers(d), Tree(d), NEW text, NEW w \in Strings
    PROVE  Reached(d, text, w, Start)
<1>1. \A q \in Live(d) : Home(d, q) = Root => Above(d, text, q) = <<>>
  BY HomeIs DEF Above
<1>2. IsPrefix(<<>>, w) /\ Len(<<>>) = 0
  <2>1. <<>> \in Strings /\ Len(<<>>) = 0
    BY EmptySeq DEF Strings
  <2>2. Len(w) \in Nat
    BY LenProperties DEF Strings
  <2> DEFINE u == <<>>
  <2> HIDE DEF u
  <2>3. u \in Strings /\ Len(u) = 0
    BY <2>1 DEF u
  <2>5. Len(u) <= Len(w) /\ \A i \in 1..Len(u) : u[i] = w[i]
    BY <2>2, <2>3
  <2>4. IsPrefix(u, w)
    BY <2>3, <2>5, PrefixIs DEF Strings
  <2> QED BY <2>1, <2>4 DEF u
<1> QED BY <1>1, <1>2 DEF Reached, Start

LEMMA ReachedFurther ==
    ASSUME NEW d, Buffers(d), Tree(d), NEW text, Spells(d, text), NEW w \in Strings,
           NEW at, Reached(d, text, w, at), NEW p \in Live(d), Home(d, p) = at.array,
           IsPrefix(d.trie[p].chars, Skip(w, at.read)), d.trie[p].children # None
    PROVE  Reached(d, text, w, Further(d, p, at))
<1>1. IsPrefix(Above(d, text, p), w) /\ Len(Above(d, text, p)) = at.read
  BY DEF Reached
<1>2. /\ Above(d, text, p) \in Strings /\ d.trie[p].chars \in Strings
      /\ text[p] = Above(d, text, p) \o d.trie[p].chars
      /\ Len(text[p]) = Len(Above(d, text, p)) + Len(d.trie[p].chars)
  BY AboveIs, LiveIs, NodeIs
<1>3. IsPrefix(text[p], w)
  BY <1>1, <1>2, PrefixOfRest DEF Strings
<1>4. \A q \in Live(d) : Home(d, q) = d.trie[p].children => Above(d, text, q) = text[p]
  <2> TAKE q \in Live(d)
  <2> HAVE Home(d, q) = d.trie[p].children
  <2>1. d.trie[q].parent = p
    BY HomeIs
  <2>2. p # None
    BY LiveIs
  <2> QED BY <2>1, <2>2 DEF Above
<1> QED BY <1>1, <1>2, <1>3, <1>4 DEF Reached, Further

\* The places in an array at which some nodes begin with x.
Beginning(d, a, fitting, x) ==
    /\ fitting \in SUBSET DOMAIN d.arrays[a]
    /\ \A i \in fitting : Head(d.trie[Siblings(d, a)[i]].chars) = x

\* Among siblings the first letter decides.
LEMMA SiblingIs ==
    ASSUME NEW d, Buffers(d), Tree(d), NEW a \in DOMAIN d.arrays,
           NEW fitting, NEW x, Beginning(d, a, fitting, x)
    PROVE  /\ FirstAt(d, a, fitting) # None =>
                 /\ FirstAt(d, a, fitting) \in Live(d)
                 /\ Home(d, FirstAt(d, a, fitting)) = a
                 /\ Head(d.trie[FirstAt(d, a, fitting)].chars) = x
           /\ \A i \in fitting : FirstAt(d, a, fitting) = Siblings(d, a)[i]
<1> DEFINE p == FirstAt(d, a, fitting)
<1>1. /\ p = None => fitting = {}
      /\ p # None => \E i \in fitting : p = Siblings(d, a)[i]
      /\ p \in Live(d) \cup {None}
  BY FirstIs DEF Beginning
<1> HIDE DEF p
<1>6. /\ fitting \in SUBSET DOMAIN d.arrays[a]
      /\ \A i \in fitting : Head(d.trie[Siblings(d, a)[i]].chars) = x
  BY DEF Beginning
<1>2. \A i \in DOMAIN d.arrays[a] : Home(d, Siblings(d, a)[i]) = a
  BY DEF Tree
<1>3. \A i, j \in DOMAIN d.arrays[a] :
         Head(d.trie[Siblings(d, a)[i]].chars) = Head(d.trie[Siblings(d, a)[j]].chars)
             => i = j
  BY DEF Tree
<1>4. \A i, j \in fitting : i = j
  BY <1>3, <1>6
<1>5. \A i \in fitting : p = Siblings(d, a)[i]
  BY <1>1, <1>4
<1> QED BY <1>1, <1>2, <1>5, <1>6 DEF p

LEMMA MatchIs ==
    ASSUME NEW d, Buffers(d), Tree(d), NEW w \in Strings, NEW at \in Places(d, w)
    PROVE  LET p == FirstAt(d, at.array, Matching(d, w, at)) IN
           /\ p # None => p \in Live(d) /\ Home(d, p) = at.array
           /\ \A q \in Live(d) :
                 /\ Home(d, q) = at.array
                 /\ IsPrefix(d.trie[q].chars, Skip(w, at.read))
                 => p = q
<1> DEFINE fitting == Matching(d, w, at)
           a == at.array
           r == Skip(w, at.read)
           p == FirstAt(d, a, fitting)
<1>1. a \in DOMAIN d.arrays /\ r \in Strings /\ r # <<>>
  BY PlaceIs
<1>2. /\ fitting \in SUBSET DOMAIN d.arrays[a]
      /\ \A i \in fitting : Head(d.trie[Siblings(d, a)[i]].chars) = Head(r)
  BY DEF Matching
<1>3. /\ p # None => p \in Live(d) /\ Home(d, p) = a
      /\ \A i \in fitting : p = Siblings(d, a)[i]
  <2>1. Beginning(d, a, fitting, Head(r))
    BY <1>2 DEF Beginning
  <2> HIDE DEF fitting, a, r
  <2> QED BY <1>1, <2>1, SiblingIs
<1>4. ASSUME NEW q \in Live(d), Home(d, q) = a, IsPrefix(d.trie[q].chars, r)
      PROVE  p = q
  <2> DEFINE c == d.trie[q].chars
  <2>1. c \in Strings /\ c # <<>> /\ Len(c) \in Nat /\ Len(c) > 0
    BY LiveIs, NodeIs
  <2>2. Len(c) <= Len(r) /\ \A i \in 1..Len(c) : c[i] = r[i]
    BY <1>1, <1>4, <2>1, PrefixIs DEF Strings
  <2>3. Head(c) = Head(r)
    <3>1. c[1] = r[1]
      BY <2>1, <2>2
    <3>2. Head(c) = c[1] /\ Head(r) = r[1]
      <4> HIDE DEF c, r
      <4> QED BY <1>1, <2>1 DEF Strings
    <3> QED BY <3>1, <3>2
  <2>4. PICK i \in DOMAIN d.arrays[a] : Siblings(d, a)[i] = q
    BY <1>4 DEF Tree
  <2>5. i \in fitting
    BY <2>2, <2>3, <2>4 DEF Matching
  <2> QED BY <1>3, <2>4, <2>5
<1> QED BY <1>3, <1>4

\* Where the search for a word is when it comes to the node r.
At(d, text, r) == [array |-> Home(d, r), read |-> Len(Above(d, text, r))]

\* What is left of a word at a node the search has reached.
LEMMA RestIs ==
    ASSUME NEW d, Buffers(d), NEW text, Spells(d, text), NEW w \in Strings, NEW p \in Live(d),
           IsPrefix(Above(d, text, p), w)
    PROVE  /\ IsPrefix(text[p], w) <=> IsPrefix(d.trie[p].chars, Skip(w, Len(Above(d, text, p))))
           /\ text[p] = w <=> d.trie[p].chars = Skip(w, Len(Above(d, text, p)))
<1>1. /\ Above(d, text, p) \in Strings /\ d.trie[p].chars \in Strings
      /\ text[p] = Above(d, text, p) \o d.trie[p].chars
  BY AboveIs, LiveIs, NodeIs
<1> DEFINE u == Above(d, text, p)
           c == d.trie[p].chars
<1>2. u \in Strings /\ c \in Strings /\ text[p] = u \o c /\ IsPrefix(u, w)
  BY <1>1
<1> HIDE DEF u, c
<1>3. /\ IsPrefix(u \o c, w) <=> IsPrefix(c, Skip(w, Len(u)))
      /\ u \o c = w <=> c = Skip(w, Len(u))
  BY <1>2, PrefixOfRest DEF Strings
<1> QED BY <1>2, <1>3 DEF u, c

LEMMA AtIs ==
    ASSUME NEW d, Buffers(d), Tree(d), NEW text, Spells(d, text), NEW w \in Strings,
           NEW r \in Live(d), IsPrefix(text[r], w)
    PROVE  /\ At(d, text, r) \in Places(d, w)
           /\ IsPrefix(d.trie[r].chars, Skip(w, Len(Above(d, text, r))))
           /\ IsPrefix(Above(d, text, r), w)
           /\ text[r] = w <=> d.trie[r].chars = Skip(w, Len(Above(d, text, r)))
<1> DEFINE u == Above(d, text, r)
<1>1. /\ u \in Strings /\ text[r] \in Strings /\ Len(u) \in Nat /\ Len(text[r]) \in Nat
      /\ Len(u) < Len(text[r]) /\ IsPrefix(u, text[r])
  BY AboveIs
<1> HIDE DEF u
<1>2. Len(w) \in Nat
  BY LenProperties DEF Strings
<1>3. Len(text[r]) <= Len(w) /\ \A i \in 1..Len(text[r]) : text[r][i] = w[i]
  BY <1>1, PrefixIs DEF Strings
<1>4. Len(u) <= Len(text[r]) /\ \A i \in 1..Len(u) : u[i] = text[r][i]
  BY <1>1, PrefixIs DEF Strings
<1>5. Len(u) <= Len(w) /\ \A i \in 1..Len(u) : u[i] = w[i]
  BY <1>1, <1>2, <1>3, <1>4
<1>6. IsPrefix(u, w)
  BY <1>1, <1>5, PrefixIs DEF Strings
<1>7. Len(u) \in 0..Len(w) - 1
  BY <1>1, <1>2, <1>3
<1>8. Home(d, r) \in DOMAIN d.arrays
  BY HomeIs
<1>9. At(d, text, r) \in Places(d, w)
  BY <1>7, <1>8 DEF At, Places, u
<1> QED BY <1>6, <1>9, RestIs DEF u

\* The node that is found for a word spells it, and the node that spells it is
\* found.
Finds(d, text, w, p) ==
    /\ p # None => p \in Live(d) /\ IsTerminal(d.trie[p]) /\ text[p] = w
    /\ \A q \in Live(d) : IsTerminal(d.trie[q]) /\ text[q] = w => p = q

LEMMA FoundIs ==
    ASSUME NEW d, Buffers(d), Tree(d), NEW text, Spells(d, text), NEW w \in Strings, w # <<>>
    PROVE  Finds(d, text, w, TerminalPtNodePositionOfWord(d, w))
<1>1. PICK f : /\ \A at \in Places(d, w) : f[at] = FindStep(d, w, f, at)
               /\ TerminalPtNodePositionOfWord(d, w) = f[Start]
  BY FindDefined
<1> DEFINE p(at) == FirstAt(d, at.array, Matching(d, w, at))
<1>2. \A at \in Places(d, w) : f[at] = FindWith(d, w, f, at, p(at))
  BY <1>1 DEF FindStep
<1>3. \A at \in Places(d, w) :
         /\ p(at) # None => p(at) \in Live(d) /\ Home(d, p(at)) = at.array
         /\ \A q \in Live(d) :
               Home(d, q) = at.array /\ IsPrefix(d.trie[q].chars, Skip(w, at.read)) => p(at) = q
  BY MatchIs
<1>4. Len(w) \in Nat
  BY LenProperties DEF Strings
<1>5. Start \in Places(d, w)
  <2>1. Len(w) # 0
    BY <1>4, EmptySeq DEF Strings
  <2>2. 0 \in 0..Len(w) - 1
    BY <1>4, <2>1
  <2> QED BY <2>2, ArraysAre DEF Start, Places
<1> HIDE DEF p
<1> DEFINE Good(x) == x # None => x \in Live(d) /\ IsTerminal(d.trie[x]) /\ text[x] = w
           T == {n \in Nat : \A at \in Places(d, w) :
                    Len(w) - at.read = n /\ Reached(d, text, w, at) => Good(f[at])}
<1>6. ASSUME NEW n \in Nat, \A k \in Nat : k < n => k \in T PROVE n \in T
  <2> SUFFICES ASSUME NEW at \in Places(d, w), Len(w) - at.read = n,
                      Reached(d, text, w, at)
               PROVE  Good(f[at])
    OBVIOUS
  <2> DEFINE q == p(at)
             r == Skip(w, at.read)
  <2>1. f[at] = FindWith(d, w, f, at, q)
    BY <1>2
  <2>2. q # None => q \in Live(d) /\ Home(d, q) = at.array
    BY <1>3
  <2> HIDE DEF q
  <2>3. CASE q = None \/ ~IsPrefix(d.trie[q].chars, r)
    BY <2>1, <2>3 DEF FindWith
  <2>4. CASE q # None /\ IsPrefix(d.trie[q].chars, r)
    <3>1. q \in Live(d) /\ Home(d, q) = at.array
      BY <2>2, <2>4
    <3>2. IsPrefix(Above(d, text, q), w) /\ Len(Above(d, text, q)) = at.read
      BY <3>1 DEF Reached
    <3>3. CASE d.trie[q].chars = r
      <4>1. text[q] = w
        BY <3>1, <3>2, <3>3, RestIs
      <4>2. f[at] = IF IsTerminal(d.trie[q]) THEN q ELSE None
        BY <2>1, <2>4, <3>3 DEF FindWith
      <4> QED BY <3>1, <4>1, <4>2
    <3>4. CASE d.trie[q].chars # r /\ d.trie[q].children = None
      BY <2>1, <2>4, <3>4 DEF FindWith
    <3>5. CASE d.trie[q].chars # r /\ d.trie[q].children # None
      <4> DEFINE to == Further(d, q, at)
      <4>1. f[at] = f[to]
        BY <2>1, <2>4, <3>5 DEF FindWith
      <4>2. to \in Places(d, w) /\ Len(w) - to.read < n /\ Len(w) - to.read \in Nat
        BY <2>4, <3>1, <3>5, FurtherIs
      <4>3. Reached(d, text, w, to)
        BY <2>4, <3>1, <3>5, ReachedFurther
      <4> HIDE DEF to
      <4> QED BY <1>6, <4>1, <4>2, <4>3
    <3> QED BY <3>3, <3>4, <3>5
  <2> QED BY <2>3, <2>4
<1>7. Nat \subseteq T
  <2> HIDE DEF T
  <2>1. T \subseteq Nat
    BY DEF T
  <2> QED BY <1>6, <2>1, Complete
<1>8. Good(f[Start])
  <2>1. Start.read = 0 /\ Len(w) - 0 = Len(w)
    BY <1>4 DEF Start
  <2> QED BY <1>4, <1>5, <1>7, <2>1, ReachedStart
<1> HIDE DEF Good, T
<1> DEFINE U == {n \in Nat : \A r \in Live(d) :
                    Len(text[r]) = n /\ IsPrefix(text[r], w) => f[Start] = f[At(d, text, r)]}
<1>9. ASSUME NEW n \in Nat, \A k \in Nat : k < n => k \in U PROVE n \in U
  <2> SUFFICES ASSUME NEW r \in Live(d), Len(text[r]) = n, IsPrefix(text[r], w)
               PROVE  f[Start] = f[At(d, text, r)]
    OBVIOUS
  <2>1. CASE d.trie[r].parent = None
    <3>1. Home(d, r) = Root /\ Above(d, text, r) = <<>>
      BY <2>1 DEF Home, Above
    <3>2. Len(<<>>) = 0
      BY EmptySeq
    <3> QED BY <3>1, <3>2 DEF At, Start
  <2>2. CASE d.trie[r].parent # None
    <3> DEFINE s == d.trie[r].parent
    <3>1. s \in Live(d)
      BY <2>2, LiveIs
    <3>2. Home(d, r) = d.trie[s].children /\ Above(d, text, r) = text[s]
      BY <2>2 DEF Home, Above
    <3> HIDE DEF s
    <3>3. /\ IsPrefix(text[s], w) /\ Len(text[s]) \in Nat /\ Len(text[s]) < n
      BY <3>2, AtIs, AboveIs
    <3>4. f[Start] = f[At(d, text, s)]
      BY <1>9, <3>1, <3>3
    <3> DEFINE at == At(d, text, s)
    <3>5. /\ at \in Places(d, w) /\ at.array = Home(d, s) /\ at.read = Len(Above(d, text, s))
          /\ IsPrefix(d.trie[s].chars, Skip(w, at.read))
          /\ text[s] = w <=> d.trie[s].chars = Skip(w, at.read)
      BY <3>1, <3>3, AtIs DEF At
    <3>6. at.read + Len(d.trie[s].chars) = Len(text[s])
      BY <3>1, <3>5, AboveIs
    <3> HIDE DEF at
    <3>7. p(at) = s /\ s # None
      BY <1>3, <3>1, <3>5, LiveIs
    <3>8. d.trie[s].chars # Skip(w, at.read)
      <4>1. Len(text[r]) <= Len(w)
        BY AboveIs, PrefixIs DEF Strings
      <4> QED BY <1>4, <3>3, <3>5, <4>1
    <3>9. d.trie[s].children # None
      <4>1. Home(d, r) \in DOMAIN d.arrays
        BY HomeIs
      <4>2. DOMAIN d.arrays \subseteq Nat
        BY ArraysAre
      <4> QED BY <3>2, <4>1, <4>2, Constants
    <3>10. f[at] = f[Further(d, s, at)]
      BY <1>2, <3>5, <3>7, <3>8, <3>9 DEF FindWith
    <3>11. Further(d, s, at) = At(d, text, r)
      BY <3>2, <3>6 DEF Further, At
    <3> QED BY <3>4, <3>10, <3>11 DEF at
  <2> QED BY <2>1, <2>2
<1>10. Nat \subseteq U
  <2> HIDE DEF U
  <2>1. U \subseteq Nat
    BY DEF U
  <2> QED BY <1>9, <2>1, Complete
<1>11. ASSUME NEW q \in Live(d), IsTerminal(d.trie[q]), text[q] = w PROVE f[Start] = q
  <2>1. IsPrefix(w, w)
    BY <1>4, PrefixIs DEF Strings
  <2>2. f[Start] = f[At(d, text, q)]
    BY <1>4, <1>10, <1>11, <2>1
  <2> DEFINE at == At(d, text, q)
  <2>3. /\ at \in Places(d, w) /\ at.array = Home(d, q)
        /\ IsPrefix(d.trie[q].chars, Skip(w, at.read))
        /\ d.trie[q].chars = Skip(w, at.read)
    BY <1>11, <2>1, AtIs DEF At
  <2> HIDE DEF at
  <2>4. p(at) = q /\ q # None
    BY <1>3, <2>3, LiveIs
  <2>5. f[at] = q
    BY <1>2, <1>11, <2>3, <2>4 DEF FindWith
  <2> QED BY <2>2, <2>5 DEF at
<1> QED BY <1>1, <1>8, <1>11 DEF Finds, Good

\* A finite list of numbers has a bound.
LEMMA Bounded ==
    ASSUME NEW n \in Nat, NEW g \in [1..n -> Nat]
    PROVE  \E top \in Nat : \A i \in 1..n : g[i] <= top
<1> DEFINE T == {k \in Nat : \E top \in Nat : \A i \in 1..n : i <= k => g[i] <= top}
<1>1. 0 \in T
  OBVIOUS
<1>2. ASSUME NEW k \in T PROVE k + 1 \in T
  <2>1. PICK top \in Nat : \A i \in 1..n : i <= k => g[i] <= top
    OBVIOUS
  <2>2. CASE k + 1 \in 1..n
    <3> DEFINE x == g[k + 1]
    <3>1. x \in Nat
      BY <2>2
    <3> DEFINE big == top + x
    <3>2. big \in Nat /\ top <= big /\ x <= big
      BY <3>1
    <3>3. \A i \in 1..n : i <= k + 1 => i <= k \/ i = k + 1
      OBVIOUS
    <3>4. \A i \in 1..n : g[i] \in Nat
      OBVIOUS
    <3> HIDE DEF big
    <3>5. \A i \in 1..n : i <= k + 1 => g[i] <= big
      BY <2>1, <3>1, <3>2, <3>3, <3>4
    <3> QED BY <3>2, <3>5
  <2>3. CASE k + 1 \notin 1..n
    <3>1. \A i \in 1..n : i <= k + 1 => i <= k
      BY <2>3
    <3>2. \A i \in 1..n : i <= k + 1 => g[i] <= top
      BY <2>1, <3>1
    <3> QED BY <3>2
  <2> QED BY <2>2, <2>3
<1>3. Nat \subseteq T
  <2> HIDE DEF T
  <2>1. T \subseteq Nat
    BY DEF T
  <2> QED BY <1>1, <1>2, <2>1, Inductive
<1>4. n \in T
  BY <1>3
<1> QED BY <1>4

\* One step of the way up from a node, or from a link to it.
UpStep(d, g, p) ==
    LET n == d.trie[Fetched(d)[p]]
    IN IF n.parent = None THEN n.chars ELSE g[n.parent] \o n.chars

Up(d) == CHOOSE f : f = [p \in DOMAIN d.trie |-> UpStep(d, f, p)]

LEMMA UpIs ==
    ASSUME NEW d, Buffers(d), Tree(d), NEW text, Spells(d, text), NEW q \in Live(d)
    PROVE  Up(d)[q] = text[q]
<1> DEFINE S == DOMAIN d.trie
           F(p) == Fetched(d)[p]
           W == [S -> Strings]
           B == [g \in W |-> [p \in S |-> UpStep(d, g, p)]]
           m == [p \in S |-> Len(text[F(p)])]
           f0 == [p \in S |-> <<>>]
<1>1. \A p \in S : F(p) \in Live(d) /\ (p \in Live(d) => F(p) = p)
  BY FetchedIs
<1> HIDE DEF F
<1>2. \A p \in Live(d) :
         /\ p \in S /\ d.trie[p].parent \in Live(d) \cup {None}
         /\ d.trie[p].chars \in Strings
  BY LiveIs, NodeIs
<1>3. \A p \in Live(d) :
         /\ text[p] \in Strings /\ Len(text[p]) \in Nat
         /\ d.trie[p].parent = None => text[p] = d.trie[p].chars
         /\ d.trie[p].parent # None =>
               /\ text[p] = text[d.trie[p].parent] \o d.trie[p].chars
               /\ Len(text[d.trie[p].parent]) < Len(text[p])
  <2> TAKE p \in Live(d)
  <2>1. text[p] \in Strings /\ Len(text[p]) \in Nat /\ Len(Above(d, text, p)) < Len(text[p])
        /\ text[p] = Above(d, text, p) \o d.trie[p].chars
    BY AboveIs
  <2>2. CASE d.trie[p].parent = None
    <3>1. <<>> \o d.trie[p].chars = d.trie[p].chars
      BY <1>2, ConcatEmptySeq DEF Strings
    <3> QED BY <2>1, <2>2, <3>1 DEF Above
  <2>3. CASE d.trie[p].parent # None
    BY <2>1, <2>3 DEF Above
  <2> QED BY <2>1, <2>2, <2>3
<1>4. \A s, t \in Strings : s \o t \in Strings
  BY ConcatProperties DEF Strings
<1>5. ASSUME NEW g \in W, NEW p \in S PROVE UpStep(d, g, p) \in Strings
  <2>1. F(p) \in Live(d)
    BY <1>1
  <2>2. d.trie[F(p)].parent # None => g[d.trie[F(p)].parent] \in Strings
    BY <1>2, <2>1
  <2> QED BY <1>2, <1>4, <2>1, <2>2 DEF UpStep, F
<1>6. B \in [W -> W] /\ \A g \in W, p \in S : B[g][p] = UpStep(d, g, p)
  <2> HIDE DEF W, S
  <2>1. \A g \in W : [p \in S |-> UpStep(d, g, p)] \in W
    BY <1>5 DEF W
  <2> QED BY <2>1
<1>7. /\ m \in [S -> Nat]
      /\ \A p \in S : m[p] = Len(text[F(p)])
  BY <1>1, <1>3
<1>8. ASSUME NEW g \in W, NEW h \in W, NEW p \in S,
             \A y \in S : m[y] < m[p] => g[y] = h[y]
      PROVE  B[g][p] = B[h][p]
  <2> DEFINE n == d.trie[F(p)]
  <2>1. F(p) \in Live(d)
    BY <1>1
  <2>2. n.parent # None => g[n.parent] = h[n.parent]
    <3> SUFFICES ASSUME n.parent # None PROVE g[n.parent] = h[n.parent]
      OBVIOUS
    <3>1. n.parent \in Live(d) /\ n.parent \in S /\ F(n.parent) = n.parent
      BY <1>1, <1>2, <2>1
    <3>2. m[n.parent] < m[p]
      BY <1>3, <1>7, <2>1, <3>1
    <3> QED BY <1>8, <3>1, <3>2
  <2>3. UpStep(d, g, p) = UpStep(d, h, p)
    BY <2>2 DEF UpStep, F
  <2> QED BY <1>6, <2>3
<1>9. f0 \in W
  <2>1. <<>> \in Strings
    BY EmptySeq DEF Strings
  <2> QED BY <2>1
<1>10. S = 1..Len(d.trie) /\ Len(d.trie) \in Nat
  BY ArraysAre
<1> HIDE DEF W, B, m, f0, S
<1>11. PICK top \in Nat : \A p \in S : m[p] <= top
  <2>1. m \in [1..Len(d.trie) -> Nat]
    BY <1>7, <1>10
  <2> QED BY <1>10, <2>1, Bounded
<1>12. Recursion(S, Strings, B, m, top)
  <2>1. [S -> Strings] # {} /\ B \in [[S -> Strings] -> [S -> Strings]]
    BY <1>6, <1>9 DEF W
  <2>2. \A g, h \in [S -> Strings], x \in S :
             (\A y \in S : m[y] < m[x] => g[y] = h[y]) => B[g][x] = B[h][x]
    BY <1>8 DEF W
  <2> QED BY <1>7, <1>11, <2>1, <2>2 DEF Recursion
<1>13. PICK f \in W : B[f] = f
  BY <1>12, Fixpoint DEF W
<1>14. f = [p \in S |-> UpStep(d, f, p)]
  BY <1>13 DEF B
<1> DEFINE up == CHOOSE h : h = [p \in S |-> UpStep(d, h, p)]
<1>15. up = [p \in S |-> UpStep(d, up, p)]
  BY <1>14
<1> HIDE DEF up
<1>16. \A p \in S : up[p] = UpStep(d, up, p)
  BY <1>15
<1> DEFINE T == {n \in Nat : \A p \in Live(d) : Len(text[p]) = n => up[p] = text[p]}
<1>17. ASSUME NEW n \in Nat, \A k \in Nat : k < n => k \in T PROVE n \in T
  <2> SUFFICES ASSUME NEW p \in Live(d), Len(text[p]) = n PROVE up[p] = text[p]
    OBVIOUS
  <2>1. F(p) = p /\ p \in S
    BY <1>1, <1>2 DEF S
  <2>2. up[p] = IF d.trie[p].parent = None THEN d.trie[p].chars
                ELSE up[d.trie[p].parent] \o d.trie[p].chars
    BY <1>16, <2>1 DEF UpStep, F
  <2>3. CASE d.trie[p].parent = None
    <3>1. text[p] = d.trie[p].chars
      BY <1>3, <2>3
    <3>2. up[p] = d.trie[p].chars
      BY <2>2, <2>3
    <3> QED BY <3>1, <3>2
  <2>4. CASE d.trie[p].parent # None
    <3>1. d.trie[p].parent \in Live(d)
      BY <1>2, <2>4
    <3>2. up[d.trie[p].parent] = text[d.trie[p].parent]
      BY <1>3, <1>17, <2>4, <3>1
    <3> QED BY <1>3, <2>2, <2>4, <3>2
  <2> QED BY <2>3, <2>4
<1>18. Nat \subseteq T
  <2> HIDE DEF T
  <2>1. T \subseteq Nat
    BY DEF T
  <2> QED BY <1>17, <2>1, Complete
<1>19. up[q] = text[q]
  BY <1>3, <1>18
<1> QED BY <1>19 DEF Up, up, S

LEMMA CodePointsUnfolded ==
    ASSUME NEW d, NEW id
    PROVE  CodePoints(d, id) =
              LET p == IF id + 1 \in DOMAIN d.table THEN d.table[id + 1] ELSE None
              IN IF p = None THEN <<>>
                 ELSE LET n == d.trie[Fetched(d)[p]]
                      IN IF n.flag = "deleted" \/ ~IsTerminal(n) THEN <<>>
                         ELSE Up(d)[p]
BY DEF CodePoints, UpStep, Up

LEMMA CodePointsIs ==
    ASSUME NEW d, Buffers(d), Tree(d), Ids(d), NEW text, Spells(d, text),
           NEW id \in 0..Len(d.table) - 1
    PROVE  /\ d.table[id + 1] = None => CodePoints(d, id) = <<>>
           /\ d.table[id + 1] # None =>
                 /\ CodePoints(d, id) = text[d.table[id + 1]]
                 /\ d.table[id + 1] \in Live(d) /\ IsTerminal(d.trie[d.table[id + 1]])
                 /\ d.trie[d.table[id + 1]].id = id
                 /\ d.trie[d.table[id + 1]].flag # "deleted"
<1> DEFINE p == d.table[id + 1]
<1>1. id \in Nat /\ id + 1 \in DOMAIN d.table /\ (id + 1) - 1 = id /\ id # None
  BY ArraysAre, Constants
<1>2. CodePoints(d, id) =
         IF p = None THEN <<>>
         ELSE LET n == d.trie[Fetched(d)[p]]
              IN IF n.flag = "deleted" \/ ~IsTerminal(n) THEN <<>>
                 ELSE Up(d)[p]
  BY <1>1, CodePointsUnfolded
<1>3. p # None => p \in Live(d) /\ d.trie[p].flag # "deleted" /\ d.trie[p].id = (id + 1) - 1
  BY <1>1 DEF Ids
<1> HIDE DEF p
<1>4. ASSUME p # None PROVE CodePoints(d, id) = text[p] /\ IsTerminal(d.trie[p])
  <2>1. p \in Live(d) /\ Fetched(d)[p] = p
    BY <1>3, <1>4, FetchedIs, LiveIs
  <2>2. IsTerminal(d.trie[p]) /\ d.trie[p].flag # "deleted"
    BY <1>1, <1>3, <1>4 DEF IsTerminal
  <2>3. CodePoints(d, id) = Up(d)[p]
    BY <1>2, <1>4, <2>1, <2>2
  <2> QED BY <2>1, <2>2, <2>3, UpIs
<1> QED BY <1>1, <1>2, <1>3, <1>4 DEF p

\* The language model speaks of ids that exist.
LmOK(d) ==
    \A q \in DOMAIN d.lm :
        /\ q \in Seq(Nat) /\ Range(q) \subseteq 0..Len(d.table) - 1
        /\ d.lm[q] \in {"placeholder", "seen", "used"}

\* What is found for a word.
LEMMA WordIdIs ==
    ASSUME NEW d, Buffers(d), Tree(d), Ids(d), NEW text, Spells(d, text), NEW w \in Words
    PROVE  /\ WordId(d, w) # None =>
                 /\ WordId(d, w) \in 0..Len(d.table) - 1
                 /\ d.table[WordId(d, w) + 1] \in Live(d)
                 /\ text[d.table[WordId(d, w) + 1]] = w
           /\ \A q \in Live(d) : IsTerminal(d.trie[q]) /\ text[q] = w =>
                 /\ d.trie[q].flag = "deleted" => WordId(d, w) = None
                 /\ d.trie[q].flag # "deleted" => WordId(d, w) = d.trie[q].id
<1> DEFINE p == TerminalPtNodePositionOfWord(d, w)
<1>1. /\ p # None => p \in Live(d) /\ IsTerminal(d.trie[p]) /\ text[p] = w
      /\ \A q \in Live(d) : IsTerminal(d.trie[q]) /\ text[q] = w => p = q
  BY FoundIs, Constants DEF Finds
<1>2. WordId(d, w) = IF p = None \/ d.trie[p].flag = "deleted" THEN None ELSE d.trie[p].id
  BY DEF WordId
<1> HIDE DEF p
<1>3. ASSUME WordId(d, w) # None
      PROVE  /\ WordId(d, w) \in 0..Len(d.table) - 1
             /\ d.table[WordId(d, w) + 1] = p
             /\ p \in Live(d) /\ text[p] = w
  <2>1. p # None /\ d.trie[p].flag # "deleted" /\ WordId(d, w) = d.trie[p].id
    BY <1>2, <1>3
  <2>2. p \in Live(d) /\ text[p] = w /\ IsTerminal(d.trie[p])
    BY <1>1, <2>1
  <2>3. d.trie[p].id \in 0..Len(d.table) - 1
    BY <2>2, LiveIs DEF Buffers, NodeOK, IsTerminal
  <2>4. d.table[d.trie[p].id + 1] = p
    BY <2>1, <2>2 DEF Ids
  <2> QED BY <2>1, <2>2, <2>3, <2>4
<1>4. ASSUME NEW q \in Live(d), IsTerminal(d.trie[q]), text[q] = w
      PROVE  /\ d.trie[q].flag = "deleted" => WordId(d, w) = None
             /\ d.trie[q].flag # "deleted" => WordId(d, w) = d.trie[q].id
  <2>1. p = q /\ q # None
    BY <1>1, <1>4, LiveIs
  <2> QED BY <1>2, <2>1
<1> QED BY <1>3, <1>4

LEMMA SoundIsTyped ==
    ASSUME Sound(dict), LmOK(dict), historical \in BOOLEAN
    PROVE  DictTypeOK
<1> DEFINE d == dict
<1>1. Buffers(d) /\ Ids(d)
  BY DEF Sound
<1> HIDE DEF d
<1>2. /\ DOMAIN d.trie = 1..Len(d.trie) /\ DOMAIN d.arrays = 1..Len(d.arrays)
      /\ DOMAIN d.table = 1..Len(d.table)
      /\ Len(d.trie) \in Nat /\ Len(d.arrays) \in Nat /\ Len(d.table) \in Nat
  BY <1>1, ArraysAre
<1>3. ASSUME NEW p \in DOMAIN d.trie PROVE d.trie[p] \in PtNodes(d)
  <2> DEFINE n == d.trie[p]
  <2>1. n \in Node /\ NodeOK(d, p)
    BY <1>1, NodeIs DEF Buffers
  <2>2. n.children \in DOMAIN d.arrays \cup {None}
    BY <1>1, NodeIs
  <2>3. n.parent \in DOMAIN d.trie \cup {None}
    <3>1. CASE n.flag = "moved"
      <4>1. n.parent \in p + 1..Len(d.trie)
        BY <2>1, <3>1 DEF NodeOK
      <4>2. p \in Nat
        BY <1>2
      <4> QED BY <1>2, <4>1, <4>2
    <3>2. CASE n.flag # "moved"
      <4>1. n.parent \in Live(d) \cup {None}
        BY <2>1, <3>2 DEF NodeOK
      <4> QED BY <4>1 DEF Live
    <3> QED BY <3>1, <3>2
  <2>4. n.id \in 0..Len(d.table) - 1 \cup {None}
    BY <2>1 DEF NodeOK
  <2>5. n.chars \in Substrings
    BY <2>1 DEF NodeOK
  <2>6. n = [flag |-> n.flag, parent |-> n.parent, chars |-> n.chars, id |-> n.id,
             children |-> n.children] /\ n.flag \in {"plain", "moved", "deleted"}
    <3> HIDE DEF n
    <3> QED BY <2>1 DEF Node
  <2> HIDE DEF n
  <2>7. n \in PtNodes(d)
    BY <2>2, <2>3, <2>4, <2>5, <2>6 DEF PtNodes, Substrings
  <2> QED BY <2>7 DEF n
<1>4. Range(d.trie) \subseteq PtNodes(d)
  BY <1>3 DEF Range
<1>5. UNION {Range(d.arrays[a]) : a \in DOMAIN d.arrays} \subseteq DOMAIN d.trie
  BY <1>1 DEF Buffers, Range
<1>6. Range(d.table) \subseteq DOMAIN d.trie \cup {None}
  <2>1. \A i \in DOMAIN d.table : d.table[i] \in DOMAIN d.trie \cup {None}
    BY <1>1 DEF Ids, Live
  <2> QED BY <2>1 DEF Range
<1> QED BY <1>4, <1>5, <1>6 DEF DictTypeOK, LmOK, d

LEMMA SoundIsTree ==
    ASSUME Sound(dict)
    PROVE  TreeOK
<1> DEFINE d == dict
           parents(a) == {p \in DOMAIN d.trie :
                             d.trie[p].flag # "moved" /\ d.trie[p].children = a}
<1>1. Buffers(d) /\ Tree(d)
  BY DEF Sound
<1> HIDE DEF d
<1>2. parents(Root) = {}
  BY <1>1, NodeIs
<1>3. ASSUME NEW a \in DOMAIN d.arrays \ {Root} PROVE \E p : parents(a) = {p}
  <2>1. PICK p \in Live(d) : d.trie[p].children = a
    BY <1>1 DEF Tree
  <2>2. a # None
    BY <1>1, ArraysAre, Constants
  <2>3. \A q \in parents(a) : q = p
    BY <1>1, <2>1, <2>2 DEF Tree, Live
  <2> QED BY <2>1, <2>3 DEF Live
<1>4. ASSUME NEW a \in DOMAIN d.arrays
      PROVE  Cardinality(parents(a)) = IF a = Root THEN 0 ELSE 1
  <2>1. CASE a = Root
    BY <1>2, <2>1, FS_EmptySet
  <2>2. CASE a # Root
    <3>1. PICK p : parents(a) = {p}
      BY <1>3, <2>2
    <3> HIDE DEF parents
    <3> QED BY <2>2, <3>1, FS_Singleton
  <2> QED BY <2>1, <2>2
<1>5. ASSUME NEW a \in DOMAIN d.arrays, NEW i \in DOMAIN d.arrays[a]
      PROVE  d.trie[Siblings(d, a)[i]].parent \in IF a = Root THEN {None} ELSE parents(a)
  <2> DEFINE q == Siblings(d, a)[i]
  <2>1. q \in Live(d) /\ Home(d, q) = a
    BY <1>1, SiblingsAre DEF Tree
  <2> HIDE DEF q
  <2>2. CASE a = Root
    BY <1>1, <2>1, <2>2, HomeIs DEF q
  <2>3. CASE a # Root
    <3>1. d.trie[q].parent # None /\ d.trie[q].parent \in Live(d)
      BY <1>1, <2>1, <2>3, HomeIs, LiveIs
    <3>2. d.trie[d.trie[q].parent].children = a
      BY <2>1, <3>1 DEF Home
    <3> QED BY <2>3, <3>1, <3>2 DEF Live, q
  <2> QED BY <2>2, <2>3
<1>6. \A a \in DOMAIN d.arrays : \A i, j \in DOMAIN d.arrays[a] :
         Head(d.trie[Siblings(d, a)[i]].chars) = Head(d.trie[Siblings(d, a)[j]].chars)
            => i = j
  BY <1>1 DEF Tree
<1> QED BY <1>4, <1>5, <1>6 DEF TreeOK, d

LEMMA SoundLeadsBack ==
    ASSUME Sound(dict)
    PROVE  IdsLeadBack
<1> DEFINE d == dict
<1>1. Buffers(d) /\ Tree(d) /\ Ids(d)
  BY DEF Sound
<1>2. PICK text : Spells(d, text)
  BY DEF Sound
<1> HIDE DEF d
<1>3. ASSUME NEW w \in Words, WordId(d, w) # None PROVE CodePoints(d, WordId(d, w)) = w
  <2> DEFINE id == WordId(d, w)
  <2>1. id \in 0..Len(d.table) - 1 /\ d.table[id + 1] \in Live(d) /\ text[d.table[id + 1]] = w
    BY <1>1, <1>2, <1>3, WordIdIs
  <2>2. d.table[id + 1] # None
    BY <1>1, <2>1, LiveIs
  <2> HIDE DEF id
  <2>3. CodePoints(d, id) = w
    BY <1>1, <1>2, <2>1, <2>2, CodePointsIs
  <2> QED BY <2>3 DEF id
<1>4. ASSUME NEW id \in 0..Len(d.table) - 1, CodePoints(d, id) # <<>>
      PROVE  CodePoints(d, id) \in Words /\ WordId(d, CodePoints(d, id)) = id
  <2> DEFINE p == d.table[id + 1]
             w == CodePoints(d, id)
  <2>1. /\ w = text[p] /\ p \in Live(d) /\ IsTerminal(d.trie[p])
        /\ d.trie[p].id = id /\ d.trie[p].flag # "deleted"
    BY <1>1, <1>2, <1>4, CodePointsIs
  <2> HIDE DEF p, w
  <2>2. w \in Words
    BY <1>2, <2>1 DEF Spells
  <2>3. WordId(d, w) = id
    BY <1>1, <1>2, <2>1, <2>2, WordIdIs
  <2> QED BY <2>2, <2>3 DEF w
<1> QED BY <1>3, <1>4 DEF IdsLeadBack, d

-----------------------------------------------------------------------------
(* The changes an operation consists of.                                   *)

Good(d, text) == Buffers(d) /\ Tree(d) /\ Ids(d) /\ Spells(d, text)

Rec(flag, parent, chars, id, children) ==
    [flag |-> flag, parent |-> parent, chars |-> chars, id |-> id, children |-> children]

LEMMA EmptyIsSound == Sound(EmptyDict) /\ LmOK(EmptyDict)
<1> DEFINE d == EmptyDict
           text == [p \in {} |-> <<>>]
<1>1. d.trie = <<>> /\ d.arrays = <<(<<>>)>> /\ d.table = <<>> /\ DOMAIN d.lm = {}
  BY DEF EmptyDict
<1> HIDE DEF d
<1>2. DOMAIN d.trie = {} /\ d.trie \in Seq(Node) /\ Live(d) = {}
  BY <1>1, EmptySeq DEF Live
<1>3. DOMAIN d.table = {} /\ d.table \in Seq(Nat \cup {None})
  BY <1>1, EmptySeq
<1>4. d.arrays \in Seq(Seq(Nat)) /\ Len(d.arrays) = 1 /\ DOMAIN d.arrays = {Root}
      /\ DOMAIN d.arrays[Root] = {}
  BY <1>1 DEF Root
<1>5. Buffers(d)
  BY <1>2, <1>3, <1>4 DEF Buffers, Shape
<1>6. Tree(d)
  BY <1>2, <1>4 DEF Tree
<1>7. Ids(d)
  BY <1>2, <1>3 DEF Ids
<1>8. Spells(d, text)
  BY <1>2 DEF Spells
<1>9. Sound(d)
  <2> HIDE DEF text
  <2> QED BY <1>5, <1>6, <1>7, <1>8 DEF Sound
<1> QED BY <1>1, <1>9 DEF LmOK, d

\* Where the old positions lead to after a change, if it leaves the links as
\* they are and the node p is then at s[p].
Relinked(d, x, s) ==
    /\ s \in [Live(d) -> Live(x)]
    /\ \A p \in DOMAIN d.trie :
          /\ p \in DOMAIN x.trie
          /\ p \notin Live(d) => p \notin Live(x) /\ x.trie[p].parent = d.trie[p].parent
          /\ p \in Live(d) => Fetched(x)[p] = s[p]

LEMMA Relead ==
    ASSUME NEW d, NEW x, Links(d), Links(x), NEW s, Relinked(d, x, s)
    PROVE  \A p \in DOMAIN d.trie : Fetched(x)[p] = s[Fetched(d)[p]]
<1> DEFINE top == Len(d.trie)
           F(p) == Fetched(d)[p]
           G(p) == Fetched(x)[p]
           T == {n \in Nat : \A p \in DOMAIN d.trie : top - p = n => G(p) = s[F(p)]}
<1>1. DOMAIN d.trie = 1..top /\ top \in Nat
  BY DEF Links
<1>2. \A p \in DOMAIN d.trie : /\ F(p) \in Live(d)
                               /\ p \in Live(d) => F(p) = p
                               /\ p \notin Live(d) => F(p) = F(d.trie[p].parent)
  BY LinksLead
<1>3. \A p \in DOMAIN x.trie : p \notin Live(x) => G(p) = G(x.trie[p].parent)
  BY LinksLead
<1>4. \A p \in DOMAIN d.trie : p \notin Live(d) => d.trie[p].parent \in p + 1..top
  BY DEF Links, Live
<1>5. \A p \in DOMAIN d.trie :
          /\ p \in DOMAIN x.trie
          /\ p \notin Live(d) => p \notin Live(x) /\ x.trie[p].parent = d.trie[p].parent
          /\ p \in Live(d) => G(p) = s[p]
  BY DEF Relinked
<1> HIDE DEF F, G, top
<1>6. ASSUME NEW n \in Nat, \A k \in Nat : k < n => k \in T PROVE n \in T
  <2> SUFFICES ASSUME NEW p \in DOMAIN d.trie, top - p = n PROVE G(p) = s[F(p)]
    OBVIOUS
  <2>1. CASE p \in Live(d)
    BY <1>2, <1>5, <2>1
  <2>2. CASE p \notin Live(d)
    <3> DEFINE q == d.trie[p].parent
    <3>1. q \in DOMAIN d.trie /\ top - q \in Nat /\ top - q < n
      BY <1>1, <1>4, <2>2
    <3>2. F(p) = F(q) /\ G(p) = G(q)
      BY <1>2, <1>3, <1>5, <2>2
    <3> HIDE DEF q
    <3>3. G(q) = s[F(q)]
      BY <1>6, <3>1
    <3> QED BY <3>2, <3>3
  <2> QED BY <2>1, <2>2
<1>7. Nat \subseteq T
  <2> HIDE DEF T
  <2>1. T \subseteq Nat
    BY DEF T
  <2> QED BY <1>6, <2>1, Complete
<1>8. ASSUME NEW p \in DOMAIN d.trie PROVE G(p) = s[F(p)]
  <2>1. top - p \in Nat
    BY <1>1
  <2> QED BY <1>7, <2>1
<1> QED BY <1>8 DEF F, G

LEMMA Refetched ==
    ASSUME NEW d, NEW x, Buffers(d), Buffers(x), NEW s, Relinked(d, x, s)
    PROVE  \A p \in DOMAIN d.trie : Fetched(x)[p] = s[Fetched(d)[p]]
BY BuffersLink, Relead

\* The nodes that come after p are those of the array of its children.
LEMMA KidsAre ==
    ASSUME NEW d, Buffers(d), Tree(d), NEW p \in Live(d), d.trie[p].children # None
    PROVE  Range(Siblings(d, d.trie[p].children)) = {q \in Live(d) : d.trie[q].parent = p}
<1> DEFINE a == d.trie[p].children
<1>1. a \in DOMAIN d.arrays /\ p # None
  BY LiveIs, NodeIs
<1>2. /\ DOMAIN Siblings(d, a) = DOMAIN d.arrays[a]
      /\ \A i \in DOMAIN d.arrays[a] : Siblings(d, a)[i] \in Live(d) /\ Home(d, Siblings(d, a)[i]) = a
  BY <1>1, SiblingsAre DEF Tree
<1>3. \A q \in Live(d) : Home(d, q) = a => d.trie[q].parent = p
  BY HomeIs
<1>4. \A q \in Live(d) : d.trie[q].parent = p => Home(d, q) = a
  BY <1>1 DEF Home
<1>5. \A q \in Live(d) : Home(d, q) = a => \E i \in DOMAIN d.arrays[a] : Siblings(d, a)[i] = q
  BY DEF Tree
<1> HIDE DEF a
<1>6. Range(Siblings(d, a)) = {Siblings(d, a)[i] : i \in DOMAIN d.arrays[a]}
  BY <1>2 DEF Range
<1> QED BY <1>2, <1>3, <1>4, <1>5, <1>6 DEF a

\* A node without an array has nothing below it.
LEMMA NoKids ==
    ASSUME NEW d, Buffers(d), Tree(d), NEW p \in Live(d), d.trie[p].children = None
    PROVE  \A q \in Live(d) : d.trie[q].parent # p
<1> SUFFICES ASSUME NEW q \in Live(d), d.trie[q].parent = p PROVE FALSE
  OBVIOUS
<1>1. Home(d, q) = None /\ Home(d, q) \in DOMAIN d.arrays
  BY LiveIs, HomeIs DEF Home
<1> QED BY <1>1, ArraysAre, Constants

LEMMA SeqIs ==
    ASSUME NEW S, NEW n \in Nat, NEW t \in [1..n -> S]
    PROVE  t \in Seq(S) /\ Len(t) = n /\ DOMAIN t = 1..n
BY IsASeq, LenProperties

LEMMA AppendIs ==
    ASSUME NEW S, NEW t \in Seq(S), NEW e \in S
    PROVE  /\ Append(t, e) \in Seq(S) /\ Len(Append(t, e)) = Len(t) + 1
           /\ Append(t, e)[Len(t) + 1] = e
           /\ \A i \in DOMAIN t : Append(t, e)[i] = t[i]
           /\ DOMAIN t = 1..Len(t) /\ Len(t) \in Nat
           /\ DOMAIN Append(t, e) = 1..Len(t) + 1
BY AppendProperties, LenProperties

\* p, which has no id, gets the next one.
GiveId(d, x, p) ==
    /\ x.trie = [q \in DOMAIN d.trie |->
                    IF q = p THEN Rec("plain", d.trie[p].parent, d.trie[p].chars, Len(d.table),
                                      d.trie[p].children)
                    ELSE d.trie[q]]
    /\ x.arrays = d.arrays
    /\ x.table = Append(d.table, p)

LEMMA GiveIdIsGood ==
    ASSUME NEW d, NEW text, Good(d, text), NEW p \in Live(d), d.trie[p].id = None,
           d.trie[p].flag = "plain", text[p] \in Words, NEW x, GiveId(d, x, p)
    PROVE  Good(x, text) /\ Live(x) = Live(d)
<1>1. Buffers(d) /\ Tree(d) /\ Ids(d) /\ Spells(d, text)
  BY DEF Good
<1>2. /\ DOMAIN d.trie = 1..Len(d.trie) /\ DOMAIN d.arrays = 1..Len(d.arrays)
      /\ DOMAIN d.table = 1..Len(d.table)
      /\ Len(d.trie) \in Nat /\ Len(d.arrays) \in Nat /\ Len(d.table) \in Nat
      /\ d.trie \in Seq(Node) /\ d.arrays \in Seq(Seq(Nat)) /\ Len(d.arrays) >= 1
      /\ d.table \in Seq(Nat \cup {None})
  BY <1>1, ArraysAre DEF Buffers, Shape
<1>3. /\ p \in DOMAIN d.trie /\ p \in Nat /\ d.trie[p] \in Node
  BY <1>1, LiveIs, NodeIs
<1>4. x.arrays = d.arrays /\ x.table = Append(d.table, p)
  BY DEF GiveId
<1>5. /\ DOMAIN x.trie = DOMAIN d.trie
      /\ \A q \in DOMAIN d.trie : q # p => x.trie[q] = d.trie[q]
      /\ x.trie[p] = Rec("plain", d.trie[p].parent, d.trie[p].chars, Len(d.table),
                         d.trie[p].children)
  BY <1>3 DEF GiveId
<1>6. /\ x.trie[p].flag = "plain" /\ x.trie[p].parent = d.trie[p].parent
      /\ x.trie[p].chars = d.trie[p].chars /\ x.trie[p].id = Len(d.table)
      /\ x.trie[p].children = d.trie[p].children /\ x.trie[p] \in Node
  BY <1>2, <1>3, <1>5 DEF Rec, Node
<1>7. x.trie \in Seq(Node) /\ Len(x.trie) = Len(d.trie)
  <2>1. \A q \in 1..Len(d.trie) : x.trie[q] \in Node
    BY <1>1, <1>2, <1>5, <1>6, NodeIs
  <2>2. x.trie \in [1..Len(d.trie) -> Node]
    BY <1>2, <2>1 DEF GiveId
  <2> QED BY <1>2, <2>2, SeqIs
<1>8. /\ x.table \in Seq(Nat \cup {None}) /\ Len(x.table) = Len(d.table) + 1
      /\ x.table[Len(d.table) + 1] = p
      /\ \A i \in DOMAIN d.table : x.table[i] = d.table[i]
      /\ DOMAIN x.table = 1..Len(d.table) + 1
  BY <1>2, <1>3, <1>4, AppendIs
<1>9. Live(x) = Live(d)
  BY <1>5, <1>6 DEF Live
<1>10. Buffers(x)
  <2>1. Shape(x)
    BY <1>2, <1>4, <1>7, <1>8 DEF Shape
  <2>2. ASSUME NEW q \in DOMAIN x.trie PROVE NodeOK(x, q)
    <3>1. NodeOK(d, q) /\ q \in DOMAIN d.trie
      BY <1>1, <1>5 DEF Buffers
    <3>2. CASE q = p
      <4>1. Len(d.table) \in 0..Len(x.table) - 1
        BY <1>2, <1>8
      <4> QED BY <1>4, <1>6, <1>9, <3>1, <3>2, <4>1 DEF NodeOK
    <3>3. CASE q # p
      <4>1. 0..Len(d.table) - 1 \subseteq 0..Len(x.table) - 1
        BY <1>2, <1>8
      <4>2. x.trie[q] = d.trie[q]
        BY <1>5, <3>1, <3>3
      <4> QED BY <1>4, <1>7, <1>9, <3>1, <4>1, <4>2 DEF NodeOK
    <3> QED BY <3>2, <3>3
  <2> QED BY <1>1, <1>4, <1>5, <2>1, <2>2 DEF Buffers
<1>11. \A a \in DOMAIN d.arrays : \A i \in DOMAIN d.arrays[a] :
          Siblings(x, a)[i] = Siblings(d, a)[i] /\ Siblings(d, a)[i] \in Live(d)
  <2> DEFINE s == [q \in Live(d) |-> q]
  <2>1. Relinked(d, x, s)
    BY <1>5, <1>9, <1>10, FetchedIs DEF Relinked, Live
  <2> HIDE DEF s
  <2>2. \A q \in DOMAIN d.trie : Fetched(x)[q] = s[Fetched(d)[q]]
    BY <1>1, <1>10, <2>1, Refetched
  <2>3. \A q \in DOMAIN d.trie : Fetched(x)[q] = Fetched(d)[q]
    BY <1>1, <2>2, FetchedIs DEF s
  <2>4. ASSUME NEW a \in DOMAIN d.arrays, NEW i \in DOMAIN d.arrays[a]
        PROVE  Siblings(x, a)[i] = Siblings(d, a)[i] /\ Siblings(d, a)[i] \in Live(d)
    <3>1. Siblings(x, a)[i] = Fetched(x)[x.arrays[a][i]]
      BY <1>4, <1>10, SiblingsAre
    <3>2. Siblings(d, a)[i] = Fetched(d)[d.arrays[a][i]] /\ d.arrays[a][i] \in DOMAIN d.trie
      BY <1>1, SiblingsAre DEF Buffers
    <3> QED BY <1>1, <1>4, <2>3, <3>1, <3>2, SiblingsAre
  <2> QED BY <2>4
<1>12. /\ \A q \in Live(d) : q \in DOMAIN d.trie
                            /\ x.trie[q].parent = d.trie[q].parent
                            /\ x.trie[q].chars = d.trie[q].chars
                            /\ x.trie[q].children = d.trie[q].children
  BY <1>5, <1>6 DEF Live
<1>13. \A q \in Live(d) : Home(x, q) = Home(d, q) /\ Above(x, text, q) = Above(d, text, q)
  BY <1>1, <1>12, LiveIs DEF Home, Above
<1>14. Tree(x)
  <2>1. \A a \in DOMAIN x.arrays : \A i \in DOMAIN x.arrays[a] : Home(x, Siblings(x, a)[i]) = a
    BY <1>1, <1>4, <1>11, <1>13 DEF Tree
  <2>2. \A q \in Live(x) :
          /\ Home(x, q) \in DOMAIN x.arrays
          /\ \E i \in DOMAIN x.arrays[Home(x, q)] : Siblings(x, Home(x, q))[i] = q
    <3> TAKE q \in Live(x)
    <3>1. Home(d, q) \in DOMAIN d.arrays
          /\ \E i \in DOMAIN d.arrays[Home(d, q)] : Siblings(d, Home(d, q))[i] = q
      BY <1>1, <1>9 DEF Tree
    <3>2. Home(x, q) = Home(d, q)
      BY <1>9, <1>13
    <3> QED BY <1>4, <1>11, <3>1, <3>2
  <2>3. \A a \in DOMAIN x.arrays : \A i, j \in DOMAIN x.arrays[a] :
          Head(x.trie[Siblings(x, a)[i]].chars) = Head(x.trie[Siblings(x, a)[j]].chars) => i = j
    <3> TAKE a \in DOMAIN x.arrays
    <3> TAKE i, j \in DOMAIN x.arrays[a]
    <3>1. /\ Siblings(x, a)[i] = Siblings(d, a)[i] /\ Siblings(d, a)[i] \in Live(d)
          /\ Siblings(x, a)[j] = Siblings(d, a)[j] /\ Siblings(d, a)[j] \in Live(d)
      BY <1>4, <1>11
    <3>2. /\ x.trie[Siblings(x, a)[i]].chars = d.trie[Siblings(d, a)[i]].chars
          /\ x.trie[Siblings(x, a)[j]].chars = d.trie[Siblings(d, a)[j]].chars
      BY <1>12, <3>1
    <3> QED BY <1>1, <1>4, <3>2 DEF Tree
  <2>4. \A a \in DOMAIN x.arrays \ {Root} : \E q \in Live(x) : x.trie[q].children = a
    BY <1>1, <1>4, <1>9, <1>12 DEF Tree
  <2>5. \A q, r \in Live(x) :
          x.trie[q].children = x.trie[r].children /\ x.trie[q].children # None => q = r
    BY <1>1, <1>9, <1>12 DEF Tree
  <2> QED BY <2>1, <2>2, <2>3, <2>4, <2>5 DEF Tree
<1>15. Spells(x, text)
  <2>1. \A q \in Live(x) : IsTerminal(x.trie[q]) => text[q] \in Words
    BY <1>1, <1>5, <1>9, <1>12 DEF Spells, IsTerminal
  <2>2. \A q \in Live(x) : text[q] = Above(x, text, q) \o x.trie[q].chars
    BY <1>1, <1>9, <1>12, <1>13 DEF Spells
  <2>3. text \in [Live(x) -> Strings]
    BY <1>1, <1>9 DEF Spells
  <2> QED BY <2>1, <2>2, <2>3 DEF Spells
<1>16. Ids(x)
  <2>1. \A q \in Live(d) : d.trie[q].id \in 0..Len(d.table) - 1 \cup {None}
    BY <1>1, LiveIs DEF Buffers, NodeOK
  <2>2. \A q \in Live(d) : q # p => x.trie[q] = d.trie[q] /\ d.trie[q].id # Len(d.table)
    <3>1. Len(d.table) \notin 0..Len(d.table) - 1 \cup {None}
      BY <1>2, Constants
    <3> QED BY <1>5, <1>12, <2>1, <3>1
  <2>3. ASSUME NEW q \in Live(x)
        PROVE  /\ x.trie[q].flag = "deleted" => IsTerminal(x.trie[q]) /\ x.table[x.trie[q].id + 1] = None
               /\ x.trie[q].flag # "deleted" /\ IsTerminal(x.trie[q])
                     => x.table[x.trie[q].id + 1] = q
    <3>1. CASE q = p
      BY <1>6, <1>8, <3>1 DEF IsTerminal
    <3>2. CASE q # p
      <4>1. x.trie[q] = d.trie[q] /\ q \in Live(d)
        BY <1>9, <2>2, <3>2
      <4>2. IsTerminal(d.trie[q]) => x.table[d.trie[q].id + 1] = d.table[d.trie[q].id + 1]
        <5> SUFFICES ASSUME IsTerminal(d.trie[q])
                     PROVE  x.table[d.trie[q].id + 1] = d.table[d.trie[q].id + 1]
          OBVIOUS
        <5>1. d.trie[q].id \in 0..Len(d.table) - 1
          BY <2>1, <4>1 DEF IsTerminal
        <5>2. d.trie[q].id + 1 \in DOMAIN d.table
          BY <1>2, <5>1
        <5> QED BY <1>8, <5>2
      <4> QED BY <1>1, <4>1, <4>2 DEF Ids
    <3> QED BY <3>1, <3>2
  <2>4. \A q, r \in Live(x) : IsTerminal(x.trie[q]) /\ x.trie[q].id = x.trie[r].id => q = r
    BY <1>1, <1>6, <1>9, <2>2 DEF Ids
  <2>5. ASSUME NEW i \in DOMAIN x.table, x.table[i] # None
        PROVE  /\ x.table[i] \in Live(x)
               /\ x.trie[x.table[i]].flag # "deleted"
               /\ x.trie[x.table[i]].id = i - 1
    <3>1. CASE i = Len(d.table) + 1
      BY <1>2, <1>6, <1>8, <1>9, <3>1
    <3>2. CASE i # Len(d.table) + 1
      <4>1. i \in DOMAIN d.table /\ x.table[i] = d.table[i]
        BY <1>2, <1>8, <3>2
      <4>2. /\ d.table[i] \in Live(d)
            /\ d.trie[d.table[i]].flag # "deleted"
            /\ d.trie[d.table[i]].id = i - 1
        BY <1>1, <2>5, <4>1 DEF Ids
      <4>3. i - 1 # None
        BY <1>2, <4>1, Constants
      <4>4. x.trie[d.table[i]] = d.trie[d.table[i]]
        BY <2>2, <4>2, <4>3
      <4> QED BY <1>9, <4>1, <4>2, <4>4
    <3> QED BY <3>1, <3>2
  <2> QED BY <2>3, <2>4, <2>5 DEF Ids
<1> QED BY <1>9, <1>10, <1>14, <1>15, <1>16 DEF Good

\* The nodes K of d and the arrays A are those of x, at s and al.
NodesImage(d, x, K, s, A, al) ==
    /\ K \subseteq Live(d) /\ s \in [K -> Live(x)]
    /\ \A p, q \in K : s[p] = s[q] => p = q
    /\ \A r \in Live(x) : \E p \in K : s[p] = r
    /\ \A p \in K :
          /\ x.trie[s[p]].chars = d.trie[p].chars
          /\ IF d.trie[p].parent = None THEN x.trie[s[p]].parent = None
             ELSE d.trie[p].parent \in K /\ x.trie[s[p]].parent = s[d.trie[p].parent]
          /\ IF d.trie[p].children \in A THEN x.trie[s[p]].children = al[d.trie[p].children]
             ELSE x.trie[s[p]].children = None
          /\ IsTerminal(x.trie[s[p]]) => IsTerminal(d.trie[p])

ArraysImage(d, x, K, s, A, al) ==
    /\ A \subseteq DOMAIN d.arrays /\ al \in [A -> DOMAIN x.arrays]
    /\ \A a, b \in A : al[a] = al[b] => a = b
    /\ \A b \in DOMAIN x.arrays : \E a \in A : al[a] = b
    /\ Root \in A /\ al[Root] = Root
    /\ \A p \in K : Home(d, p) \in A
    /\ \A a \in A \ {Root} : \E p \in K : d.trie[p].children = a

SlotsImage(d, x, K, s, A, al) ==
    \A a \in A :
        /\ \A i \in DOMAIN x.arrays[al[a]] : \E j \in DOMAIN d.arrays[a] :
              Siblings(d, a)[j] \in K /\ Siblings(x, al[a])[i] = s[Siblings(d, a)[j]]
        /\ \A j \in DOMAIN d.arrays[a] : Siblings(d, a)[j] \in K =>
              \E i \in DOMAIN x.arrays[al[a]] : Siblings(x, al[a])[i] = s[Siblings(d, a)[j]]
        /\ \A i, k \in DOMAIN x.arrays[al[a]] :
              Siblings(x, al[a])[i] = Siblings(x, al[a])[k] => i = k

Image(d, x, K, s, A, al) ==
    /\ NodesImage(d, x, K, s, A, al)
    /\ ArraysImage(d, x, K, s, A, al)
    /\ SlotsImage(d, x, K, s, A, al)

LEMMA ImageHome ==
    ASSUME NEW d, NEW x, Buffers(d), Buffers(x), NEW K, NEW s, NEW A, NEW al, Image(d, x, K, s, A, al)
    PROVE  \A p \in K : Home(x, s[p]) = al[Home(d, p)]
<1> TAKE p \in K
<1>1. /\ IF d.trie[p].parent = None THEN x.trie[s[p]].parent = None
         ELSE d.trie[p].parent \in K /\ x.trie[s[p]].parent = s[d.trie[p].parent]
      /\ Home(d, p) \in A /\ K \subseteq Live(d) /\ al[Root] = Root
  BY DEF Image, NodesImage, ArraysImage
<1>2. CASE d.trie[p].parent = None
  BY <1>1, <1>2 DEF Home
<1>3. CASE d.trie[p].parent # None
  <2> DEFINE u == d.trie[p].parent
  <2>1. u \in K /\ x.trie[s[p]].parent = s[u] /\ d.trie[u].children \in A
    BY <1>1, <1>3 DEF Home
  <2>2. x.trie[s[u]].children = al[d.trie[u].children]
    BY <2>1 DEF Image, NodesImage
  <2>3. s[u] # None
    BY <2>1, LiveIs DEF Image, NodesImage
  <2> QED BY <1>3, <2>1, <2>2, <2>3 DEF Home
<1> QED BY <1>2, <1>3

LEMMA ImageIsTree ==
    ASSUME NEW d, NEW x, Buffers(d), Tree(d), Buffers(x), NEW K, NEW s, NEW A, NEW al,
           Image(d, x, K, s, A, al)
    PROVE  Tree(x)
<1>1. /\ K \subseteq Live(d) /\ s \in [K -> Live(x)]
      /\ \A p, q \in K : s[p] = s[q] => p = q
      /\ \A r \in Live(x) : \E p \in K : s[p] = r
      /\ \A p \in K : x.trie[s[p]].chars = d.trie[p].chars
      /\ \A p \in K : IF d.trie[p].children \in A
                       THEN x.trie[s[p]].children = al[d.trie[p].children]
                       ELSE x.trie[s[p]].children = None
  BY DEF Image, NodesImage
<1>2. /\ A \subseteq DOMAIN d.arrays /\ al \in [A -> DOMAIN x.arrays]
      /\ \A a, b \in A : al[a] = al[b] => a = b
      /\ \A b \in DOMAIN x.arrays : \E a \in A : al[a] = b
      /\ Root \in A /\ al[Root] = Root
      /\ \A p \in K : Home(d, p) \in A
      /\ \A a \in A \ {Root} : \E p \in K : d.trie[p].children = a
  BY DEF Image, ArraysImage
<1>3. \A a \in A :
        /\ \A i \in DOMAIN x.arrays[al[a]] : \E j \in DOMAIN d.arrays[a] :
              Siblings(d, a)[j] \in K /\ Siblings(x, al[a])[i] = s[Siblings(d, a)[j]]
        /\ \A j \in DOMAIN d.arrays[a] : Siblings(d, a)[j] \in K =>
              \E i \in DOMAIN x.arrays[al[a]] : Siblings(x, al[a])[i] = s[Siblings(d, a)[j]]
        /\ \A i, k \in DOMAIN x.arrays[al[a]] :
              Siblings(x, al[a])[i] = Siblings(x, al[a])[k] => i = k
  BY DEF Image, SlotsImage
<1>4. \A p \in K : Home(x, s[p]) = al[Home(d, p)]
  BY ImageHome
<1>5. ASSUME NEW b \in DOMAIN x.arrays, NEW i \in DOMAIN x.arrays[b]
      PROVE  Home(x, Siblings(x, b)[i]) = b
  <2>1. PICK a \in A : al[a] = b
    BY <1>2
  <2>2. PICK j \in DOMAIN d.arrays[a] :
           Siblings(d, a)[j] \in K /\ Siblings(x, b)[i] = s[Siblings(d, a)[j]]
    BY <1>3, <2>1
  <2>3. Home(d, Siblings(d, a)[j]) = a
    BY <1>2 DEF Tree
  <2> QED BY <1>4, <2>1, <2>2, <2>3
<1>6. ASSUME NEW r \in Live(x)
      PROVE  /\ Home(x, r) \in DOMAIN x.arrays
             /\ \E i \in DOMAIN x.arrays[Home(x, r)] : Siblings(x, Home(x, r))[i] = r
  <2>1. PICK p \in K : s[p] = r
    BY <1>1
  <2> DEFINE a == Home(d, p)
  <2>2. a \in A /\ Home(x, r) = al[a]
    BY <1>2, <1>4, <2>1
  <2>3. PICK j \in DOMAIN d.arrays[a] : Siblings(d, a)[j] = p
    BY <1>1 DEF Tree
  <2> HIDE DEF a
  <2>4. PICK i \in DOMAIN x.arrays[al[a]] : Siblings(x, al[a])[i] = s[p]
    BY <1>3, <2>2, <2>3
  <2> QED BY <1>2, <2>1, <2>2, <2>4
<1>7. ASSUME NEW b \in DOMAIN x.arrays, NEW i \in DOMAIN x.arrays[b], NEW k \in DOMAIN x.arrays[b],
             Head(x.trie[Siblings(x, b)[i]].chars) = Head(x.trie[Siblings(x, b)[k]].chars)
      PROVE  i = k
  <2>1. PICK a \in A : al[a] = b
    BY <1>2
  <2>2. PICK j \in DOMAIN d.arrays[a] :
           Siblings(d, a)[j] \in K /\ Siblings(x, b)[i] = s[Siblings(d, a)[j]]
    BY <1>3, <2>1
  <2>3. PICK l \in DOMAIN d.arrays[a] :
           Siblings(d, a)[l] \in K /\ Siblings(x, b)[k] = s[Siblings(d, a)[l]]
    BY <1>3, <2>1
  <2>4. Head(d.trie[Siblings(d, a)[j]].chars) = Head(d.trie[Siblings(d, a)[l]].chars)
    BY <1>1, <1>7, <2>2, <2>3
  <2>5. j = l
    BY <1>2, <2>4 DEF Tree
  <2> QED BY <1>3, <2>1, <2>2, <2>3, <2>5
<1>8. ASSUME NEW b \in DOMAIN x.arrays \ {Root} PROVE \E r \in Live(x) : x.trie[r].children = b
  <2>1. PICK a \in A : al[a] = b
    BY <1>2
  <2>2. PICK p \in K : d.trie[p].children = a
    BY <1>2, <2>1
  <2> QED BY <1>1, <2>1, <2>2
<1>9. ASSUME NEW q \in Live(x), NEW r \in Live(x),
             x.trie[q].children = x.trie[r].children, x.trie[q].children # None
      PROVE  q = r
  <2>1. PICK p \in K : s[p] = q
    BY <1>1
  <2>2. PICK u \in K : s[u] = r
    BY <1>1
  <2>3. /\ d.trie[p].children \in A /\ d.trie[u].children \in A
        /\ al[d.trie[p].children] = al[d.trie[u].children]
    BY <1>1, <1>9, <2>1, <2>2
  <2>4. d.trie[p].children = d.trie[u].children
    BY <1>2, <2>3
  <2>5. d.trie[p].children # None
    <3>1. d.trie[p].children \in DOMAIN d.arrays /\ DOMAIN d.arrays = 1..Len(d.arrays)
      BY <1>2, <2>3, ArraysAre
    <3>2. d.trie[p].children \in Nat
      BY <3>1
    <3> QED BY <3>2, Constants
  <2>6. p = u
    BY <1>1, <2>4, <2>5 DEF Tree
  <2> QED BY <2>1, <2>2, <2>6
<1> QED BY <1>5, <1>6, <1>7, <1>8, <1>9 DEF Tree

LEMMA ImageSpells ==
    ASSUME NEW d, NEW x, Buffers(d), Buffers(x), NEW K, NEW s, NEW A, NEW al,
           Image(d, x, K, s, A, al), NEW text, Spells(d, text),
           NEW text2 \in [Live(x) -> Strings], \A p \in K : text2[s[p]] = text[p]
    PROVE  Spells(x, text2)
<1>1. /\ K \subseteq Live(d) /\ s \in [K -> Live(x)]
      /\ \A r \in Live(x) : \E p \in K : s[p] = r
      /\ \A p \in K :
            /\ x.trie[s[p]].chars = d.trie[p].chars
            /\ IF d.trie[p].parent = None THEN x.trie[s[p]].parent = None
               ELSE d.trie[p].parent \in K /\ x.trie[s[p]].parent = s[d.trie[p].parent]
            /\ IsTerminal(x.trie[s[p]]) => IsTerminal(d.trie[p])
  BY DEF Image, NodesImage
<1>2. ASSUME NEW p \in K
      PROVE  /\ text2[s[p]] = Above(x, text2, s[p]) \o x.trie[s[p]].chars
             /\ IsTerminal(x.trie[s[p]]) => text2[s[p]] \in Words
  <2>1. text[p] = Above(d, text, p) \o d.trie[p].chars
        /\ (IsTerminal(d.trie[p]) => text[p] \in Words)
    BY <1>1 DEF Spells
  <2>2. Above(x, text2, s[p]) = Above(d, text, p)
    <3>1. CASE d.trie[p].parent = None
      BY <1>1, <3>1 DEF Above
    <3>2. CASE d.trie[p].parent # None
      <4> DEFINE u == d.trie[p].parent
      <4>1. u \in K /\ x.trie[s[p]].parent = s[u] /\ text2[s[u]] = text[u]
        BY <1>1, <3>2
      <4>2. s[u] # None
        BY <1>1, <4>1, LiveIs
      <4> QED BY <3>2, <4>1, <4>2 DEF Above
    <3> QED BY <3>1, <3>2
  <2> QED BY <1>1, <2>1, <2>2
<1>3. ASSUME NEW r \in Live(x)
      PROVE  /\ text2[r] = Above(x, text2, r) \o x.trie[r].chars
             /\ IsTerminal(x.trie[r]) => text2[r] \in Words
  <2>1. PICK p \in K : s[p] = r
    BY <1>1
  <2> QED BY <1>2, <2>1
<1> QED BY <1>3 DEF Spells

\* A plain copy of the node p at the end of the buffer takes its place.
End(d) == Len(d.trie) + 1

CopyTo(d, x, p) ==
    /\ x.trie = [q \in 1..End(d) |->
                    IF q = End(d)
                    THEN Rec("plain", d.trie[p].parent, d.trie[p].chars, d.trie[p].id,
                             d.trie[p].children)
                    ELSE IF q = p
                    THEN Rec("moved", End(d), d.trie[p].chars, d.trie[p].id, d.trie[p].children)
                    ELSE IF q \in Live(d) /\ d.trie[q].parent = p
                    THEN Rec(d.trie[q].flag, End(d), d.trie[q].chars, d.trie[q].id,
                             d.trie[q].children)
                    ELSE d.trie[q]]
    /\ x.arrays = d.arrays
    /\ x.table = IF d.trie[p].id = None THEN d.table
                 ELSE [d.table EXCEPT ![d.trie[p].id + 1] = End(d)]

CopyText(d, text, p) ==
    [r \in (Live(d) \ {p}) \cup {End(d)} |-> IF r = End(d) THEN text[p] ELSE text[r]]

LEMMA OneMore ==
    ASSUME NEW n \in Nat
    PROVE  1..n + 1 = 1..n \cup {n + 1}
OBVIOUS

LEMMA BuffersAre ==
    ASSUME NEW d, Buffers(d)
    PROVE  /\ DOMAIN d.trie = 1..Len(d.trie) /\ DOMAIN d.arrays = 1..Len(d.arrays)
           /\ DOMAIN d.table = 1..Len(d.table)
           /\ Len(d.trie) \in Nat /\ Len(d.arrays) \in Nat /\ Len(d.table) \in Nat
           /\ d.trie \in Seq(Node) /\ d.arrays \in Seq(Seq(Nat)) /\ Len(d.arrays) >= 1
           /\ d.table \in Seq(Nat \cup {None})
BY ArraysAre DEF Buffers, Shape

LEMMA NotOwnParent ==
    ASSUME NEW d, Buffers(d), NEW text, Spells(d, text), NEW p \in Live(d)
    PROVE  d.trie[p].parent # p
<1> SUFFICES ASSUME d.trie[p].parent = p PROVE FALSE
  OBVIOUS
<1>1. Above(d, text, p) = text[p]
  BY LiveIs DEF Above
<1>2. Len(text[p]) \in Nat /\ Len(Above(d, text, p)) < Len(text[p])
  BY AboveIs
<1> QED BY <1>1, <1>2

\* The id of a live node, and what the table says of it.
LEMMA IdIs ==
    ASSUME NEW d, Buffers(d), Ids(d), NEW p \in Live(d)
    PROVE  /\ d.trie[p].id \in 0..Len(d.table) - 1 \cup {None}
           /\ IsTerminal(d.trie[p]) => /\ d.trie[p].id \in Nat
                                       /\ d.trie[p].id + 1 \in DOMAIN d.table
                                       /\ d.table[d.trie[p].id + 1] \in {p, None}
           /\ d.trie[p].flag = "deleted" => IsTerminal(d.trie[p])
<1>1. d.trie[p].id \in 0..Len(d.table) - 1 \cup {None}
  BY LiveIs DEF Buffers, NodeOK
<1>2. ASSUME IsTerminal(d.trie[p])
      PROVE  d.trie[p].id \in Nat /\ d.trie[p].id + 1 \in DOMAIN d.table
  <2>1. d.trie[p].id \in 0..Len(d.table) - 1
    BY <1>1, <1>2 DEF IsTerminal
  <2> QED BY <2>1, BuffersAre
<1> QED BY <1>1, <1>2 DEF Ids

LEMMA CopyIsGood ==
    ASSUME NEW d, NEW text, Good(d, text), NEW p \in Live(d), NEW x, CopyTo(d, x, p)
    PROVE  /\ Good(x, CopyText(d, text, p))
           /\ Live(x) = (Live(d) \ {p}) \cup {End(d)}
<1> DEFINE N == End(d)
           text2 == CopyText(d, text, p)
           L2 == (Live(d) \ {p}) \cup {N}
           s == [q \in Live(d) |-> IF q = p THEN N ELSE q]
<1>1. Buffers(d) /\ Tree(d) /\ Ids(d) /\ Spells(d, text)
  BY DEF Good
<1>2. /\ DOMAIN d.trie = 1..Len(d.trie) /\ DOMAIN d.arrays = 1..Len(d.arrays)
      /\ DOMAIN d.table = 1..Len(d.table)
      /\ Len(d.trie) \in Nat /\ Len(d.arrays) \in Nat /\ Len(d.table) \in Nat
      /\ d.trie \in Seq(Node) /\ d.arrays \in Seq(Seq(Nat)) /\ Len(d.arrays) >= 1
      /\ d.table \in Seq(Nat \cup {None})
  BY <1>1, BuffersAre
<1>3. /\ p \in DOMAIN d.trie /\ p \in Nat /\ d.trie[p] \in Node /\ p # None /\ p # N
      /\ d.trie[p].parent \in Live(d) \cup {None} /\ d.trie[p].parent # p
      /\ N \in Nat /\ N \notin DOMAIN d.trie /\ N \notin Live(d) /\ N # None
      /\ d.trie[p].flag # "moved"
  <2>1. N \in Nat /\ N \notin DOMAIN d.trie
    BY <1>2 DEF End
  <2> QED BY <1>1, <2>1, LiveIs, NodeIs, NotOwnParent, Constants DEF Live
<1>4. DOMAIN x.trie = 1..N /\ DOMAIN x.trie = DOMAIN d.trie \cup {N}
  <2>1. 1..Len(d.trie) + 1 = 1..Len(d.trie) \cup {Len(d.trie) + 1}
    BY <1>2, OneMore
  <2> QED BY <1>2, <2>1 DEF CopyTo, End
<1>5. x.trie[N] = Rec("plain", d.trie[p].parent, d.trie[p].chars, d.trie[p].id,
                      d.trie[p].children)
  BY <1>4 DEF CopyTo
<1>6. x.trie[p] = Rec("moved", N, d.trie[p].chars, d.trie[p].id, d.trie[p].children)
  BY <1>3, <1>4 DEF CopyTo
<1>7. \A q \in DOMAIN d.trie : q # p =>
         x.trie[q] = IF q \in Live(d) /\ d.trie[q].parent = p
                     THEN Rec(d.trie[q].flag, N, d.trie[q].chars, d.trie[q].id,
                              d.trie[q].children)
                     ELSE d.trie[q]
  BY <1>3, <1>4 DEF CopyTo
<1>8. /\ x.trie[N].flag = "plain" /\ x.trie[N].parent = d.trie[p].parent
      /\ x.trie[N].chars = d.trie[p].chars /\ x.trie[N].id = d.trie[p].id
      /\ x.trie[N].children = d.trie[p].children
      /\ x.trie[p].flag = "moved" /\ x.trie[p].parent = N
      /\ x.trie[p].chars = d.trie[p].chars /\ x.trie[p].id = d.trie[p].id
      /\ x.trie[p].children = d.trie[p].children
  BY <1>5, <1>6 DEF Rec
<1>9. \A q \in DOMAIN d.trie : q # p =>
         /\ x.trie[q].flag = d.trie[q].flag /\ x.trie[q].chars = d.trie[q].chars
         /\ x.trie[q].id = d.trie[q].id /\ x.trie[q].children = d.trie[q].children
         /\ x.trie[q].parent = IF q \in Live(d) /\ d.trie[q].parent = p THEN N
                               ELSE d.trie[q].parent
  <2> TAKE q \in DOMAIN d.trie
  <2> HAVE q # p
  <2>1. CASE q \in Live(d) /\ d.trie[q].parent = p
    <3>1. x.trie[q] = Rec(d.trie[q].flag, N, d.trie[q].chars, d.trie[q].id, d.trie[q].children)
      BY <1>7, <2>1
    <3> QED BY <2>1, <3>1 DEF Rec
  <2>2. CASE ~(q \in Live(d) /\ d.trie[q].parent = p)
    <3>1. x.trie[q] = d.trie[q]
      BY <1>7, <2>2
    <3> QED BY <2>2, <3>1
  <2> QED BY <2>1, <2>2
<1>10. Live(x) = L2
  BY <1>3, <1>4, <1>8, <1>9 DEF Live
<1> HIDE DEF N
<1>11. x.trie \in Seq(Node) /\ Len(x.trie) = N
  <2>1. ASSUME NEW q \in 1..N PROVE x.trie[q] \in Node
    <3>1. CASE q = N
      BY <1>3, <1>5, <3>1 DEF Rec, Node
    <3>2. CASE q = p
      BY <1>3, <1>6, <3>2 DEF Rec, Node
    <3>3. CASE q # N /\ q # p
      <4>1. q \in DOMAIN d.trie
        BY <1>4, <3>3
      <4>2. d.trie[q] \in Node
        BY <1>1, <4>1, NodeIs
      <4>3. Rec(d.trie[q].flag, N, d.trie[q].chars, d.trie[q].id, d.trie[q].children) \in Node
        BY <1>3, <4>2 DEF Rec, Node
      <4> QED BY <1>7, <3>3, <4>1, <4>2, <4>3
    <3> QED BY <3>1, <3>2, <3>3
  <2>2. x.trie \in [1..N -> Node]
    <3>1. x.trie = [q \in 1..N |-> x.trie[q]]
      BY DEF CopyTo, N
    <3> QED BY <2>1, <3>1
  <2> QED BY <1>3, <2>2, SeqIs
<1>12. x.arrays = d.arrays
  BY DEF CopyTo
<1>13. /\ x.table \in Seq(Nat \cup {None}) /\ Len(x.table) = Len(d.table)
       /\ DOMAIN x.table = DOMAIN d.table
       /\ d.trie[p].id = None => x.table = d.table
       /\ d.trie[p].id # None =>
             /\ x.table[d.trie[p].id + 1] = N
             /\ \A i \in DOMAIN d.table : i # d.trie[p].id + 1 => x.table[i] = d.table[i]
  <2>1. CASE d.trie[p].id = None
    BY <1>2, <2>1 DEF CopyTo
  <2>2. CASE d.trie[p].id # None
    <3> DEFINE k == d.trie[p].id + 1
    <3>1. k \in 1..Len(d.table)
      BY <1>1, <1>2, <2>2, IdIs DEF IsTerminal
    <3>2. x.table = [d.table EXCEPT ![k] = N]
      BY <2>2 DEF CopyTo, N
    <3> HIDE DEF k
    <3>3. /\ x.table \in Seq(Nat \cup {None}) /\ Len(x.table) = Len(d.table)
          /\ \A j \in 1..Len(d.table) : x.table[j] = IF j = k THEN N ELSE d.table[j]
      BY <1>2, <1>3, <3>1, <3>2, ExceptSeq
    <3>4. DOMAIN x.table = 1..Len(x.table)
      BY <3>3, LenProperties
    <3> QED BY <1>2, <2>2, <3>1, <3>3, <3>4 DEF k
  <2> QED BY <2>1, <2>2
<1>14. Buffers(x)
  <2>1. Shape(x)
    BY <1>2, <1>11, <1>12, <1>13 DEF Shape
  <2>2. ASSUME NEW q \in DOMAIN x.trie PROVE NodeOK(x, q)
    <3>1. CASE q = N
      <4>1. NodeOK(d, p)
        BY <1>1, <1>3 DEF Buffers
      <4>2. d.trie[p].parent \in Live(x) \cup {None}
        BY <1>3, <1>10
      <4> QED BY <1>8, <1>12, <1>13, <3>1, <4>1, <4>2 DEF NodeOK
    <3>2. CASE q = p
      <4>1. NodeOK(d, p)
        BY <1>1, <1>3 DEF Buffers
      <4>2. N \in p + 1..Len(x.trie)
        BY <1>2, <1>3, <1>11 DEF N, End
      <4> QED BY <1>8, <1>12, <1>13, <3>2, <4>1, <4>2 DEF NodeOK
    <3>3. CASE q # N /\ q # p
      <4>1. q \in DOMAIN d.trie /\ NodeOK(d, q)
        BY <1>1, <1>4, <3>3 DEF Buffers
      <4>2. CASE d.trie[q].flag = "moved"
        <5>1. q \notin Live(d)
          BY <4>2 DEF Live
        <5>2. d.trie[q].parent \in q + 1..Len(x.trie)
          <6>1. d.trie[q].parent \in q + 1..Len(d.trie)
            BY <4>1, <4>2 DEF NodeOK
          <6> QED BY <1>2, <1>11, <6>1 DEF N, End
        <5> QED BY <1>9, <1>12, <1>13, <3>3, <4>1, <4>2, <5>1, <5>2 DEF NodeOK
      <4>3. CASE d.trie[q].flag # "moved"
        <5>1. q \in Live(d)
          BY <4>1, <4>3 DEF Live
        <5>2. x.trie[q].parent \in Live(x) \cup {None}
          <6>1. d.trie[q].parent \in Live(d) \cup {None}
            BY <4>1, <4>3 DEF NodeOK
          <6> QED BY <1>9, <1>10, <3>3, <4>1, <5>1, <6>1
        <5> QED BY <1>9, <1>12, <1>13, <3>3, <4>1, <4>3, <5>2 DEF NodeOK
      <4> QED BY <4>2, <4>3
    <3> QED BY <3>1, <3>2, <3>3
  <2> QED BY <1>1, <1>4, <1>12, <2>1, <2>2 DEF Buffers
<1>15. s \in [Live(d) -> Live(x)] /\ \A q \in Live(d) : s[q] = IF q = p THEN N ELSE q
  BY <1>10
<1> HIDE DEF s
<1>16. \A q \in DOMAIN d.trie : Fetched(x)[q] = s[Fetched(d)[q]]
  <2>1. \A q \in Live(x) : Fetched(x)[q] = q
    BY <1>14, FetchedIs DEF Live
  <2>2. Fetched(x)[p] = N
    <3>1. p \notin Live(x) /\ p \in DOMAIN x.trie
      BY <1>3, <1>4, <1>10
    <3> QED BY <1>8, <1>10, <1>14, <2>1, <3>1, FetchedIs
  <2>3. ASSUME NEW q \in DOMAIN d.trie
        PROVE  /\ q \in DOMAIN x.trie
               /\ q \notin Live(d) => q \notin Live(x) /\ x.trie[q].parent = d.trie[q].parent
               /\ q \in Live(d) => Fetched(x)[q] = s[q]
    <3>1. CASE q = p
      BY <1>4, <1>15, <2>2, <3>1
    <3>2. CASE q # p
      <4>1. q # N
        BY <1>3
      <4> QED BY <1>4, <1>9, <1>10, <1>15, <2>1, <3>2, <4>1
    <3> QED BY <3>1, <3>2
  <2>4. Relinked(d, x, s)
    BY <1>15, <2>3 DEF Relinked
  <2> QED BY <1>1, <1>14, <2>4, Refetched
<1>17. \A a \in DOMAIN d.arrays : \A i \in DOMAIN d.arrays[a] :
          Siblings(x, a)[i] = s[Siblings(d, a)[i]] /\ Siblings(d, a)[i] \in Live(d)
  <2> TAKE a \in DOMAIN d.arrays
  <2> TAKE i \in DOMAIN d.arrays[a]
  <2>1. Siblings(x, a)[i] = Fetched(x)[d.arrays[a][i]]
    BY <1>12, <1>14, SiblingsAre
  <2>2. Siblings(d, a)[i] = Fetched(d)[d.arrays[a][i]] /\ d.arrays[a][i] \in DOMAIN d.trie
        /\ Siblings(d, a)[i] \in Live(d)
    BY <1>1, SiblingsAre DEF Buffers
  <2> QED BY <1>16, <2>1, <2>2
<1> DEFINE A == DOMAIN d.arrays
           al == [a \in A |-> a]
           K == Live(d)
<1>18. Image(d, x, K, s, A, al)
  <2>1. NodesImage(d, x, K, s, A, al)
    <3>1. \A q, r \in K : s[q] = s[r] => q = r
      BY <1>3, <1>15
    <3>2. \A r \in Live(x) : \E q \in K : s[q] = r
      <4>1. s[p] = N
        BY <1>15
      <4>2. \A r \in Live(d) \ {p} : s[r] = r
        BY <1>15
      <4> QED BY <1>10, <4>1, <4>2
    <3>3. ASSUME NEW q \in K
          PROVE  /\ x.trie[s[q]].chars = d.trie[q].chars
                 /\ IF d.trie[q].parent = None THEN x.trie[s[q]].parent = None
                    ELSE d.trie[q].parent \in K /\ x.trie[s[q]].parent = s[d.trie[q].parent]
                 /\ IF d.trie[q].children \in A
                    THEN x.trie[s[q]].children = al[d.trie[q].children]
                    ELSE x.trie[s[q]].children = None
                 /\ IsTerminal(x.trie[s[q]]) => IsTerminal(d.trie[q])
      <4>1. /\ q \in DOMAIN d.trie /\ d.trie[q].parent \in Live(d) \cup {None}
            /\ d.trie[q].children \in A \cup {None}
        BY <1>1, LiveIs, NodeIs
      <4>2. CASE q = p
        BY <1>3, <1>8, <1>15, <4>1, <4>2 DEF IsTerminal
      <4>3. CASE q # p
        BY <1>3, <1>9, <1>15, <4>1, <4>3 DEF IsTerminal
      <4> QED BY <4>2, <4>3
    <3> HIDE DEF A, al
    <3> QED BY <1>15, <3>1, <3>2, <3>3 DEF NodesImage
  <2>2. ArraysImage(d, x, K, s, A, al)
    BY <1>1, <1>12, ArraysAre DEF ArraysImage, Tree
  <2>3. SlotsImage(d, x, K, s, A, al)
    <3>1. ASSUME NEW a \in A, NEW i \in DOMAIN d.arrays[a], NEW k \in DOMAIN d.arrays[a],
                 Siblings(x, a)[i] = Siblings(x, a)[k]
          PROVE  i = k
      <4>1. Siblings(d, a)[i] = Siblings(d, a)[k]
        BY <1>3, <1>15, <1>17, <3>1
      <4> QED BY <1>1, <4>1 DEF Tree
    <3> QED BY <1>12, <1>17, <3>1 DEF SlotsImage
  <2> QED BY <2>1, <2>2, <2>3 DEF Image
<1>19. Tree(x)
  BY <1>1, <1>14, <1>18, ImageIsTree
<1>20. Spells(x, text2)
  <2>1. text \in [Live(d) -> Strings]
    BY <1>1 DEF Spells
  <2>2. text2 \in [Live(x) -> Strings] /\ \A q \in K : text2[s[q]] = text[q]
    BY <1>3, <1>10, <1>15, <2>1 DEF CopyText, N
  <2> HIDE DEF text2, K, A, al
  <2> QED BY <1>1, <1>14, <1>18, <2>2, ImageSpells
<1>21. Ids(x)
  <2>1. \A q \in Live(d) \ {p} :
           /\ x.trie[q].flag = d.trie[q].flag /\ x.trie[q].id = d.trie[q].id
           /\ IsTerminal(d.trie[q]) => d.trie[q].id # d.trie[p].id
                                       /\ x.table[d.trie[q].id + 1] = d.table[d.trie[q].id + 1]
    <3> TAKE q \in Live(d) \ {p}
    <3>1. x.trie[q].flag = d.trie[q].flag /\ x.trie[q].id = d.trie[q].id
      BY <1>9 DEF Live
    <3>2. ASSUME IsTerminal(d.trie[q])
          PROVE  /\ d.trie[q].id # d.trie[p].id
                 /\ x.table[d.trie[q].id + 1] = d.table[d.trie[q].id + 1]
      <4>1. d.trie[q].id # d.trie[p].id
        BY <1>1, <3>2 DEF Ids
      <4>2. d.trie[q].id \in Nat /\ d.trie[q].id + 1 \in DOMAIN d.table
        BY <1>1, <3>2, IdIs
      <4>3. d.trie[p].id # None => d.trie[p].id \in Nat
        BY <1>1, IdIs DEF IsTerminal
      <4>4. d.trie[p].id # None => d.trie[q].id + 1 # d.trie[p].id + 1
        BY <4>1, <4>2, <4>3
      <4> QED BY <1>13, <4>1, <4>2, <4>4
    <3> QED BY <3>1, <3>2
  <2>2. ASSUME NEW r \in Live(x)
        PROVE  /\ x.trie[r].flag = "deleted" => IsTerminal(x.trie[r]) /\ x.table[x.trie[r].id + 1] = None
               /\ x.trie[r].flag # "deleted" /\ IsTerminal(x.trie[r])
                     => x.table[x.trie[r].id + 1] = r
    <3>1. CASE r = N
      BY <1>8, <1>13, <3>1 DEF IsTerminal
    <3>2. CASE r # N
      BY <1>1, <1>10, <2>1, <3>2 DEF Ids, IsTerminal
    <3> QED BY <3>1, <3>2
  <2>3. ASSUME NEW q \in Live(x), NEW r \in Live(x), IsTerminal(x.trie[q]),
               x.trie[q].id = x.trie[r].id
        PROVE  q = r
    BY <1>1, <1>8, <1>10, <2>1, <2>3 DEF Ids, IsTerminal
  <2>4. ASSUME NEW i \in DOMAIN x.table, x.table[i] # None
        PROVE  /\ x.table[i] \in Live(x)
               /\ x.trie[x.table[i]].flag # "deleted"
               /\ x.trie[x.table[i]].id = i - 1
    <3>1. i \in Nat /\ i - 1 \in Int /\ (i - 1) + 1 = i
      BY <1>2, <1>13
    <3>2. CASE d.trie[p].id # None /\ i = d.trie[p].id + 1
      <4>1. d.trie[p].id \in Nat
        BY <1>1, <3>2, IdIs DEF IsTerminal
      <4>2. i - 1 = d.trie[p].id /\ x.table[i] = N
        BY <1>13, <3>2, <4>1
      <4> QED BY <1>8, <1>10, <4>2
    <3>3. CASE d.trie[p].id = None \/ i # d.trie[p].id + 1
      <4>1. x.table[i] = d.table[i] /\ i \in DOMAIN d.table
        BY <1>13, <3>3
      <4>2. /\ d.table[i] \in Live(d)
            /\ d.trie[d.table[i]].flag # "deleted"
            /\ d.trie[d.table[i]].id = i - 1
        BY <1>1, <2>4, <4>1 DEF Ids
      <4>3. d.table[i] # p
        <5>1. i - 1 # None
          BY <1>2, <4>1, Constants
        <5> QED BY <3>1, <3>3, <4>2, <5>1
      <4> QED BY <1>10, <2>1, <4>1, <4>2, <4>3
    <3> QED BY <3>2, <3>3
  <2> QED BY <2>2, <2>3, <2>4 DEF Ids
<1> QED BY <1>10, <1>14, <1>19, <1>20, <1>21 DEF Good, N

\* The parts of a part of a word.
LEMMA PartsAre ==
    ASSUME NEW c \in Substrings, NEW j \in 1..Len(c) - 1
    PROVE  SubSeq(c, 1, j) \in Substrings /\ Skip(c, j) \in Substrings
<1>0. PICK w \in Words : \E n \in 1..Len(w), k \in 0..Len(w) - 1 : c = Skip(SubSeq(w, 1, n), k)
  BY DEF Substrings
<1>1. PICK n \in 1..Len(w), k \in 0..Len(w) - 1 : c = Skip(SubSeq(w, 1, n), k)
  BY <1>0
<1>2. c # <<>>
  BY DEF Substrings
<1>3. w \in Strings /\ Len(w) \in Nat
  BY Constants, LenProperties DEF Strings
<1> DEFINE v == SubSeq(w, 1, n)
<1>4. v \in Strings /\ Len(v) = n /\ \A i \in 1..n : v[i] = w[i]
  BY <1>3, TakeIs DEF Strings
<1>5. c = Skip(v, k)
  BY <1>1
<1> HIDE DEF v
<1>6. k < n
  <2> SUFFICES ASSUME n < k + 1 PROVE FALSE
    BY <1>3
  <2>1. SubSeq(v, k + 1, Len(v)) = <<>>
    BY <1>3, <1>4, SubSeqEmpty
  <2> QED BY <1>2, <1>5, <2>1 DEF Skip
<1>7. /\ c \in Strings /\ Len(c) = n - k /\ \A i \in 1..n - k : c[i] = v[k + i]
  <2>1. k \in 0..Len(v)
    BY <1>3, <1>4, <1>6
  <2> QED BY <1>4, <1>5, <2>1, SkipIs DEF Strings
<1>8. Skip(c, j) \in Substrings
  <2>1. k \in 0..Len(v) /\ j \in 0..Len(v) - k
    BY <1>3, <1>4, <1>6, <1>7
  <2>2. Skip(c, j) = Skip(v, k + j)
    BY <1>4, <1>5, <2>1, SkipSkip DEF Strings
  <2>3. k + j \in 0..Len(w) - 1
    BY <1>3, <1>6, <1>7
  <2>4. Skip(c, j) # <<>>
    <3>1. j \in 0..Len(c) - 1
      BY <1>3, <1>7
    <3> QED BY <1>7, <3>1, HeadOfSkip DEF Strings
  <2> QED BY <2>2, <2>3, <2>4 DEF Substrings, v
<1>9. SubSeq(c, 1, j) \in Substrings
  <2> DEFINE u == SubSeq(w, 1, k + j)
             s == SubSeq(c, 1, j)
  <2>1. k + j \in 1..Len(w) /\ k \in 0..Len(w) - 1 /\ k + j \in 0..Len(w) /\ j \in 0..Len(c)
    BY <1>3, <1>6, <1>7
  <2>2. u \in Strings /\ Len(u) = k + j /\ \A i \in 1..k + j : u[i] = w[i]
    BY <1>3, <2>1, TakeIs DEF Strings
  <2>3. s \in Strings /\ Len(s) = j /\ \A i \in 1..j : s[i] = c[i]
    BY <1>7, <2>1, TakeIs DEF Strings
  <2> HIDE DEF u, s
  <2>4. Skip(u, k) \in Strings /\ Len(Skip(u, k)) = (k + j) - k
        /\ \A i \in 1..(k + j) - k : Skip(u, k)[i] = u[k + i]
    <3>1. k \in 0..Len(u)
      BY <1>3, <1>7, <2>2
    <3> QED BY <2>2, <3>1, SkipIs DEF Strings
  <2>5. s = Skip(u, k)
    <3>1. ASSUME NEW i \in 1..j PROVE s[i] = Skip(u, k)[i]
      <4>1. i \in 1..n - k /\ i \in 1..(k + j) - k /\ k + i \in 1..k + j /\ k + i \in 1..n
        BY <1>3, <1>6, <1>7
      <4>2. s[i] = c[i] /\ c[i] = w[k + i]
        BY <1>4, <1>7, <2>3, <4>1
      <4>3. Skip(u, k)[i] = u[k + i] /\ u[k + i] = w[k + i]
        BY <2>2, <2>4, <4>1
      <4> QED BY <4>2, <4>3
    <3>2. Len(Skip(u, k)) = j
      BY <1>3, <1>7, <2>4
    <3> QED BY <2>3, <2>4, <3>1, <3>2, SeqEqual DEF Strings
  <2>6. s # <<>>
    BY <1>3, <1>7, <2>3, EmptySeq DEF Strings
  <2>7. s = Skip(SubSeq(w, 1, k + j), k)
    BY <2>5 DEF u
  <2>8. s \in {Skip(SubSeq(w, 1, a), b) : a \in 1..Len(w), b \in 0..Len(w) - 1}
    <3> HIDE DEF s
    <3> QED BY <2>1, <2>7
  <2>9. s \in Substrings
    <3> HIDE DEF s
    <3> QED BY <2>6, <2>8 DEF Substrings
  <2> QED BY <2>9 DEF s
<1> QED BY <1>8, <1>9

\* The node p is broken after its first j letters: what follows is a node of its
\* own, the only one of a new array.
NextArray(d) == Len(d.arrays) + 1

Break(d, x, p, j) ==
    /\ x.trie = [q \in 1..End(d) |->
                    IF q = End(d)
                    THEN Rec("plain", p, Skip(d.trie[p].chars, j), d.trie[p].id,
                             d.trie[p].children)
                    ELSE IF q = p
                    THEN Rec("plain", d.trie[p].parent, SubSeq(d.trie[p].chars, 1, j), None,
                             NextArray(d))
                    ELSE IF q \in Live(d) /\ d.trie[q].parent = p
                    THEN Rec(d.trie[q].flag, End(d), d.trie[q].chars, d.trie[q].id,
                             d.trie[q].children)
                    ELSE d.trie[q]]
    /\ x.arrays = Append(d.arrays, <<End(d)>>)
    /\ x.table = IF d.trie[p].id = None THEN d.table
                 ELSE [d.table EXCEPT ![d.trie[p].id + 1] = End(d)]

BreakText(d, text, p, j) ==
    [r \in Live(d) \cup {End(d)} |->
        IF r = End(d) THEN text[p]
        ELSE IF r = p THEN Above(d, text, p) \o SubSeq(d.trie[p].chars, 1, j) ELSE text[r]]

LEMMA BreakIsGood ==
    ASSUME NEW d, NEW text, Good(d, text), NEW p \in Live(d), d.trie[p].flag = "plain",
           NEW j \in 1..Len(d.trie[p].chars) - 1, NEW x, Break(d, x, p, j)
    PROVE  /\ Good(x, BreakText(d, text, p, j))
           /\ Live(x) = Live(d) \cup {End(d)}
<1> DEFINE t == End(d)
           b == NextArray(d)
           c == d.trie[p].chars
           c1 == SubSeq(c, 1, j)
           c2 == Skip(c, j)
           text2 == BreakText(d, text, p, j)
<1>1. Buffers(d) /\ Tree(d) /\ Ids(d) /\ Spells(d, text)
  BY DEF Good
<1>2. /\ DOMAIN d.trie = 1..Len(d.trie) /\ DOMAIN d.arrays = 1..Len(d.arrays)
      /\ DOMAIN d.table = 1..Len(d.table)
      /\ Len(d.trie) \in Nat /\ Len(d.arrays) \in Nat /\ Len(d.table) \in Nat
      /\ d.trie \in Seq(Node) /\ d.arrays \in Seq(Seq(Nat)) /\ Len(d.arrays) >= 1
      /\ d.table \in Seq(Nat \cup {None})
  BY <1>1, BuffersAre
<1>3. /\ p \in DOMAIN d.trie /\ p \in Nat /\ d.trie[p] \in Node /\ p # None /\ p # t
      /\ d.trie[p].parent \in Live(d) \cup {None} /\ d.trie[p].parent # p
      /\ t \in Nat /\ t \notin DOMAIN d.trie /\ t \notin Live(d) /\ t # None
  <2>1. t \in Nat /\ t \notin DOMAIN d.trie
    BY <1>2 DEF End
  <2> QED BY <1>1, <2>1, LiveIs, NodeIs, NotOwnParent, Constants DEF Live
<1>4. DOMAIN x.trie = 1..t /\ DOMAIN x.trie = DOMAIN d.trie \cup {t}
  <2>1. 1..Len(d.trie) + 1 = 1..Len(d.trie) \cup {Len(d.trie) + 1}
    BY <1>2, OneMore
  <2> QED BY <1>2, <2>1 DEF Break, End
<1>5. x.trie[t] = Rec("plain", p, c2, d.trie[p].id, d.trie[p].children)
  BY <1>4 DEF Break
<1>6. x.trie[p] = Rec("plain", d.trie[p].parent, c1, None, b)
  BY <1>3, <1>4 DEF Break
<1>7. \A q \in DOMAIN d.trie : q # p =>
         x.trie[q] = IF q \in Live(d) /\ d.trie[q].parent = p
                     THEN Rec(d.trie[q].flag, t, d.trie[q].chars, d.trie[q].id,
                              d.trie[q].children)
                     ELSE d.trie[q]
  BY <1>3, <1>4 DEF Break
<1>8. /\ x.trie[t].flag = "plain" /\ x.trie[t].parent = p
      /\ x.trie[t].chars = c2 /\ x.trie[t].id = d.trie[p].id
      /\ x.trie[t].children = d.trie[p].children
      /\ x.trie[p].flag = "plain" /\ x.trie[p].parent = d.trie[p].parent
      /\ x.trie[p].chars = c1 /\ x.trie[p].id = None
      /\ x.trie[p].children = b
  BY <1>5, <1>6 DEF Rec
<1>9. \A q \in DOMAIN d.trie : q # p =>
         /\ x.trie[q].flag = d.trie[q].flag /\ x.trie[q].chars = d.trie[q].chars
         /\ x.trie[q].id = d.trie[q].id /\ x.trie[q].children = d.trie[q].children
         /\ x.trie[q].parent = IF q \in Live(d) /\ d.trie[q].parent = p THEN t
                               ELSE d.trie[q].parent
  <2> TAKE q \in DOMAIN d.trie
  <2> HAVE q # p
  <2>1. CASE q \in Live(d) /\ d.trie[q].parent = p
    <3>1. x.trie[q] = Rec(d.trie[q].flag, t, d.trie[q].chars, d.trie[q].id, d.trie[q].children)
      BY <1>7, <2>1
    <3> QED BY <2>1, <3>1 DEF Rec
  <2>2. CASE ~(q \in Live(d) /\ d.trie[q].parent = p)
    <3>1. x.trie[q] = d.trie[q]
      BY <1>7, <2>2
    <3> QED BY <2>2, <3>1
  <2> QED BY <2>1, <2>2
<1>10. Live(x) = Live(d) \cup {t}
  BY <1>3, <1>4, <1>8, <1>9 DEF Live
<1>11. /\ c \in Strings /\ Len(c) \in Nat /\ j \in 0..Len(c) /\ c \in Substrings
  <2>1. c \in Strings /\ Len(c) \in Nat /\ c \in Substrings
    BY <1>1, <1>3, NodeIs DEF Buffers, NodeOK
  <2> QED BY <2>1
<1>12. /\ c1 \in Strings /\ c2 \in Strings /\ c1 \in Substrings /\ c2 \in Substrings
       /\ c1 \o c2 = c /\ Head(c1) = Head(c)
  <2> HIDE DEF c
  <2>1. c1 \in Strings /\ Len(c1) = j /\ \A i \in 1..j : c1[i] = c[i]
    BY <1>11, TakeIs DEF Strings
  <2>2. c2 \in Strings
    BY <1>11, SkipIs DEF Strings
  <2>3. c1 \in Substrings /\ c2 \in Substrings
    <3>1. j \in 1..Len(c) - 1
      BY DEF c
    <3> QED BY <1>11, <3>1, PartsAre
  <2> HIDE DEF c1
  <2>4. IsPrefix(c1, c)
    BY <1>11, <2>1, PrefixIs DEF Strings
  <2>5. c1 \o c2 = c
    <3>1. c1 \o Skip(c, Len(c1)) = c
      BY <1>11, <2>1, <2>4, PrefixAndRest DEF Strings
    <3> QED BY <2>1, <3>1
  <2>6. Head(c1) = Head(c)
    <3>1. c1 # <<>> /\ c # <<>>
      BY <2>3, <1>11 DEF Substrings
    <3>2. Head(c1) = c1[1] /\ Head(c) = c[1]
      BY <1>11, <2>1, <3>1 DEF Strings
    <3>3. 1 \in 1..j
      BY DEF c
    <3> QED BY <2>1, <3>2, <3>3
  <2> QED BY <2>1, <2>2, <2>3, <2>5, <2>6
<1> HIDE DEF t, c1, c2, c
<1>13. b \in Nat /\ b = Len(d.arrays) + 1 /\ b # None /\ b \notin DOMAIN d.arrays /\ b >= 2
       /\ b # Root
  BY <1>2, Constants DEF NextArray, Root
<1> HIDE DEF b
<1>14. x.trie \in Seq(Node) /\ Len(x.trie) = t
  <2>1. ASSUME NEW q \in 1..t PROVE x.trie[q] \in Node
    <3>1. CASE q = t
      BY <1>3, <1>5, <1>12, <3>1 DEF Rec, Node
    <3>2. CASE q = p
      BY <1>3, <1>6, <1>12, <1>13, <3>2 DEF Rec, Node
    <3>3. CASE q # t /\ q # p
      <4>1. q \in DOMAIN d.trie
        BY <1>4, <3>3
      <4>2. d.trie[q] \in Node
        BY <1>1, <4>1, NodeIs
      <4>3. Rec(d.trie[q].flag, t, d.trie[q].chars, d.trie[q].id, d.trie[q].children) \in Node
        BY <1>3, <4>2 DEF Rec, Node
      <4> QED BY <1>7, <3>3, <4>1, <4>2, <4>3
    <3> QED BY <3>1, <3>2, <3>3
  <2>2. x.trie \in [1..t -> Node]
    <3>1. x.trie = [q \in 1..t |-> x.trie[q]]
      BY DEF Break, t
    <3> QED BY <2>1, <3>1
  <2> QED BY <1>3, <2>2, SeqIs
<1>15. /\ x.arrays \in Seq(Seq(Nat)) /\ Len(x.arrays) = b
       /\ DOMAIN x.arrays = DOMAIN d.arrays \cup {b}
       /\ \A a \in DOMAIN d.arrays : x.arrays[a] = d.arrays[a]
       /\ DOMAIN x.arrays[b] = {1} /\ x.arrays[b][1] = t
  <2> DEFINE new == <<t>>
  <2>1. new \in Seq(Nat) /\ DOMAIN new = {1} /\ new[1] = t
    BY <1>3
  <2>2. x.arrays = Append(d.arrays, new)
    BY DEF Break, t
  <2> HIDE DEF new
  <2>3. /\ x.arrays \in Seq(Seq(Nat)) /\ Len(x.arrays) = Len(d.arrays) + 1
        /\ x.arrays[Len(d.arrays) + 1] = new
        /\ \A a \in DOMAIN d.arrays : x.arrays[a] = d.arrays[a]
        /\ DOMAIN x.arrays = 1..Len(d.arrays) + 1
    BY <1>2, <2>1, <2>2, AppendIs
  <2>4. 1..Len(d.arrays) + 1 = 1..Len(d.arrays) \cup {Len(d.arrays) + 1}
    BY <1>2
  <2> QED BY <1>2, <1>13, <2>1, <2>3, <2>4
<1>16. /\ x.table \in Seq(Nat \cup {None}) /\ Len(x.table) = Len(d.table)
       /\ DOMAIN x.table = DOMAIN d.table
       /\ d.trie[p].id = None => x.table = d.table
       /\ d.trie[p].id # None =>
             /\ x.table[d.trie[p].id + 1] = t
             /\ \A i \in DOMAIN d.table : i # d.trie[p].id + 1 => x.table[i] = d.table[i]
  <2>1. CASE d.trie[p].id = None
    BY <1>2, <2>1 DEF Break
  <2>2. CASE d.trie[p].id # None
    <3> DEFINE k == d.trie[p].id + 1
    <3>1. k \in 1..Len(d.table)
      BY <1>1, <1>2, <2>2, IdIs DEF IsTerminal
    <3>2. x.table = [d.table EXCEPT ![k] = t]
      BY <2>2 DEF Break, t
    <3> HIDE DEF k
    <3>3. /\ x.table \in Seq(Nat \cup {None}) /\ Len(x.table) = Len(d.table)
          /\ \A i \in 1..Len(d.table) : x.table[i] = IF i = k THEN t ELSE d.table[i]
      BY <1>2, <1>3, <3>1, <3>2, ExceptSeq
    <3>4. DOMAIN x.table = 1..Len(x.table)
      BY <3>3, LenProperties
    <3> QED BY <1>2, <2>2, <3>1, <3>3, <3>4 DEF k
  <2> QED BY <2>1, <2>2
<1>17. Buffers(x)
  <2>1. Shape(x)
    BY <1>13, <1>14, <1>15, <1>16 DEF Shape
  <2>0. \A k : k \in 2..Len(d.arrays) \cup {None} => k \in 2..Len(x.arrays) \cup {None}
    BY <1>2, <1>13, <1>15
  <2>2. ASSUME NEW q \in DOMAIN x.trie PROVE NodeOK(x, q)
    <3>1. CASE q = t
      <4>1. NodeOK(d, p)
        BY <1>1, <1>3 DEF Buffers
      <4> QED BY <1>8, <1>10, <1>12, <1>16, <2>0, <3>1, <4>1 DEF NodeOK
    <3>2. CASE q = p
      <4>1. b \in 2..Len(x.arrays)
        BY <1>13, <1>15
      <4> QED BY <1>3, <1>8, <1>10, <1>12, <3>2, <4>1 DEF NodeOK
    <3>3. CASE q # t /\ q # p
      <4>1. q \in DOMAIN d.trie /\ NodeOK(d, q)
        BY <1>1, <1>4, <3>3 DEF Buffers
      <4>2. CASE d.trie[q].flag = "moved"
        <5>1. q \notin Live(d)
          BY <4>2 DEF Live
        <5>2. d.trie[q].parent \in q + 1..Len(x.trie)
          <6>1. d.trie[q].parent \in q + 1..Len(d.trie)
            BY <4>1, <4>2 DEF NodeOK
          <6>2. Len(x.trie) = Len(d.trie) + 1 /\ Len(d.trie) \in Nat
            BY <1>2, <1>14 DEF t, End
          <6>3. q \in Nat
            BY <1>2, <4>1
          <6> QED BY <6>1, <6>2, <6>3
        <5> QED BY <1>9, <1>16, <2>0, <3>3, <4>1, <4>2, <5>1, <5>2 DEF NodeOK
      <4>3. CASE d.trie[q].flag # "moved"
        <5>1. q \in Live(d)
          BY <4>1, <4>3 DEF Live
        <5>2. x.trie[q].parent \in Live(x) \cup {None}
          <6>1. d.trie[q].parent \in Live(d) \cup {None}
            BY <4>1, <4>3 DEF NodeOK
          <6> QED BY <1>9, <1>10, <3>3, <4>1, <5>1, <6>1
        <5> QED BY <1>9, <1>16, <2>0, <3>3, <4>1, <4>3, <5>2 DEF NodeOK
      <4> QED BY <4>2, <4>3
    <3> QED BY <3>1, <3>2, <3>3
  <2>3. ASSUME NEW a \in DOMAIN x.arrays, NEW i \in DOMAIN x.arrays[a]
        PROVE  x.arrays[a][i] \in DOMAIN x.trie
    BY <1>1, <1>4, <1>15 DEF Buffers
  <2> QED BY <2>1, <2>2, <2>3 DEF Buffers
<1>18. \A a \in DOMAIN d.arrays : \A i \in DOMAIN d.arrays[a] :
          Siblings(x, a)[i] = Siblings(d, a)[i] /\ Siblings(d, a)[i] \in Live(d)
  <2> DEFINE s == [q \in Live(d) |-> q]
  <2>1. Relinked(d, x, s)
    <3>1. \A q \in DOMAIN d.trie :
          /\ q \in DOMAIN x.trie
          /\ q \notin Live(d) => q \notin Live(x) /\ x.trie[q].parent = d.trie[q].parent
          /\ q \in Live(d) => Fetched(x)[q] = s[q]
      BY <1>3, <1>4, <1>9, <1>10, <1>17, FetchedIs
    <3> QED BY <1>10, <3>1 DEF Relinked
  <2> HIDE DEF s
  <2>2. \A q \in DOMAIN d.trie : Fetched(x)[q] = s[Fetched(d)[q]]
    BY <1>1, <1>17, <2>1, Refetched
  <2>3. \A q \in DOMAIN d.trie : Fetched(x)[q] = Fetched(d)[q]
    BY <1>1, <2>2, FetchedIs DEF s
  <2> TAKE a \in DOMAIN d.arrays
  <2> TAKE i \in DOMAIN d.arrays[a]
  <2>4. Siblings(x, a)[i] = Fetched(x)[d.arrays[a][i]]
    BY <1>15, <1>17, SiblingsAre
  <2>5. Siblings(d, a)[i] = Fetched(d)[d.arrays[a][i]] /\ d.arrays[a][i] \in DOMAIN d.trie
        /\ Siblings(d, a)[i] \in Live(d)
    BY <1>1, SiblingsAre DEF Buffers
  <2> QED BY <2>3, <2>4, <2>5
<1>19. Siblings(x, b)[1] = t
  <2>1. Siblings(x, b)[1] = Fetched(x)[x.arrays[b][1]]
    BY <1>15, <1>17, SiblingsAre
  <2>2. x.arrays[b][1] = t /\ t \in DOMAIN x.trie /\ t \in Live(x)
    BY <1>4, <1>10, <1>15
  <2>3. Fetched(x)[t] = t
    BY <1>17, <2>2, FetchedIs
  <2> QED BY <2>1, <2>2, <2>3
<1>20. \A q \in Live(d) : /\ q \in DOMAIN d.trie /\ q # t
                          /\ d.trie[q].parent \in Live(d) \cup {None}
                          /\ Home(d, q) \in DOMAIN d.arrays
  BY <1>1, <1>3, LiveIs DEF Tree
<1>21. ASSUME NEW q \in Live(d) PROVE Home(x, q) = Home(d, q)
  <2>1. CASE d.trie[q].parent = None
    BY <1>3, <1>8, <1>9, <1>20, <2>1 DEF Home
  <2>2. CASE d.trie[q].parent = p
    BY <1>3, <1>8, <1>9, <1>20, <2>2 DEF Home
  <2>3. CASE d.trie[q].parent # None /\ d.trie[q].parent # p
    BY <1>3, <1>8, <1>9, <1>20, <2>3 DEF Home
  <2> QED BY <2>1, <2>2, <2>3
<1>22. Home(x, t) = b
  BY <1>3, <1>8 DEF Home
<1>23. \A q \in Live(d) : Head(x.trie[q].chars) = Head(d.trie[q].chars)
  BY <1>8, <1>9, <1>12, <1>20 DEF c
<1>24. Tree(x)
  <2>1. ASSUME NEW a \in DOMAIN x.arrays, NEW i \in DOMAIN x.arrays[a]
        PROVE  Home(x, Siblings(x, a)[i]) = a
    <3>1. CASE a = b
      BY <1>15, <1>19, <1>22, <3>1
    <3>2. CASE a # b
      <4>1. a \in DOMAIN d.arrays /\ i \in DOMAIN d.arrays[a]
        BY <1>15, <3>2
      <4>2. Home(d, Siblings(d, a)[i]) = a
        BY <1>1, <4>1 DEF Tree
      <4> QED BY <1>18, <1>21, <4>1, <4>2
    <3> QED BY <3>1, <3>2
  <2>2. ASSUME NEW q \in Live(x)
        PROVE  /\ Home(x, q) \in DOMAIN x.arrays
               /\ \E i \in DOMAIN x.arrays[Home(x, q)] : Siblings(x, Home(x, q))[i] = q
    <3>1. CASE q = t
      BY <1>15, <1>19, <1>22, <3>1
    <3>2. CASE q # t
      <4>1. q \in Live(d)
        BY <1>10, <3>2
      <4>2. /\ Home(d, q) \in DOMAIN d.arrays
            /\ \E i \in DOMAIN d.arrays[Home(d, q)] : Siblings(d, Home(d, q))[i] = q
        BY <1>1, <4>1 DEF Tree
      <4> QED BY <1>15, <1>18, <1>21, <4>1, <4>2
    <3> QED BY <3>1, <3>2
  <2>3. ASSUME NEW a \in DOMAIN x.arrays, NEW i \in DOMAIN x.arrays[a],
               NEW k \in DOMAIN x.arrays[a],
               Head(x.trie[Siblings(x, a)[i]].chars) = Head(x.trie[Siblings(x, a)[k]].chars)
        PROVE  i = k
    <3>1. CASE a = b
      BY <1>15, <3>1
    <3>2. CASE a # b
      <4>1. /\ a \in DOMAIN d.arrays /\ i \in DOMAIN d.arrays[a] /\ k \in DOMAIN d.arrays[a]
        BY <1>15, <3>2
      <4>2. Head(d.trie[Siblings(d, a)[i]].chars) = Head(d.trie[Siblings(d, a)[k]].chars)
        BY <1>18, <1>23, <2>3, <4>1
      <4> QED BY <1>1, <4>1, <4>2 DEF Tree
    <3> QED BY <3>1, <3>2
  <2>4. ASSUME NEW a \in DOMAIN x.arrays \ {Root}
        PROVE  \E q \in Live(x) : x.trie[q].children = a
    <3>1. CASE a = b
      BY <1>8, <1>10, <3>1
    <3>2. CASE a # b
      <4>1. PICK q \in Live(d) : d.trie[q].children = a
        BY <1>1, <1>15, <3>2 DEF Tree
      <4>2. CASE q = p
        BY <1>8, <1>10, <4>1, <4>2
      <4>3. CASE q # p
        BY <1>9, <1>10, <1>20, <4>1, <4>3
      <4> QED BY <4>2, <4>3
    <3> QED BY <3>1, <3>2
  <2>5. ASSUME NEW q \in Live(x), NEW r \in Live(x),
               x.trie[q].children = x.trie[r].children, x.trie[q].children # None
        PROVE  q = r
    <3> DEFINE old(y) == IF y = t THEN p ELSE y
    <3>1. \A y \in Live(x) \ {p} : /\ old(y) \in Live(d)
                                   /\ x.trie[y].children = d.trie[old(y)].children
                                   /\ x.trie[y].children # b
      <4> TAKE y \in Live(x) \ {p}
      <4>1. old(y) \in Live(d) /\ x.trie[y].children = d.trie[old(y)].children
        BY <1>8, <1>9, <1>10, <1>20
      <4>2. d.trie[old(y)].children \in DOMAIN d.arrays \cup {None}
        BY <1>1, <1>20, <4>1, NodeIs
      <4> QED BY <1>13, <4>1, <4>2
    <3>2. CASE q = p \/ r = p
      BY <1>8, <2>5, <3>1, <3>2
    <3>3. CASE q # p /\ r # p
      <4>1. old(q) = old(r)
        BY <1>1, <2>5, <3>1, <3>3 DEF Tree
      <4> QED BY <3>3, <4>1
    <3> QED BY <3>2, <3>3
  <2> QED BY <2>1, <2>2, <2>3, <2>4, <2>5 DEF Tree
<1>25. Spells(x, text2)
  <2>1. /\ text \in [Live(d) -> Strings] /\ text[p] = Above(d, text, p) \o c
        /\ \A q \in Live(d) : text[q] = Above(d, text, q) \o d.trie[q].chars
        /\ \A q \in Live(d) : IsTerminal(d.trie[q]) => text[q] \in Words
    BY <1>1 DEF Spells, c
  <2>2. Above(d, text, p) \in Strings
    BY <1>1, AboveIs
  <2>3. /\ text2 = [r \in Live(d) \cup {t} |->
                       IF r = t THEN text[p]
                       ELSE IF r = p THEN Above(d, text, p) \o c1 ELSE text[r]]
    BY DEF BreakText, t, c1, c
  <2> HIDE DEF text2
  <2>4. /\ text2[t] = text[p] /\ text2[p] = Above(d, text, p) \o c1
        /\ \A q \in Live(d) : q # p => text2[q] = text[q]
    BY <1>3, <1>20, <2>3
  <2>5. Above(d, text, p) \o c1 \in Strings
    BY <1>12, <2>2, ConcatProperties DEF Strings
  <2>6. text2 \in [Live(x) -> Strings]
    BY <1>10, <2>1, <2>3, <2>5
  <2>7. text2[t] = Above(x, text2, t) \o x.trie[t].chars
    <3>1. Above(x, text2, t) = text2[p]
      BY <1>3, <1>8 DEF Above
    <3>2. (Above(d, text, p) \o c1) \o c2 = Above(d, text, p) \o (c1 \o c2)
      <4> DEFINE u == Above(d, text, p)
      <4>1. u \in Seq(Letters) /\ c1 \in Seq(Letters) /\ c2 \in Seq(Letters)
        BY <1>12, <2>2 DEF Strings
      <4> DEFINE S == Letters
      <4>3. u \in Seq(S) /\ c1 \in Seq(S) /\ c2 \in Seq(S)
        BY <4>1
      <4> HIDE DEF u, S
      <4>2. (u \o c1) \o c2 = u \o (c1 \o c2)
        BY <4>3, ConcatAssociative
      <4> QED BY <4>2 DEF u
    <3> QED BY <1>8, <1>12, <2>1, <2>4, <3>1, <3>2
  <2>8. text2[p] = Above(x, text2, p) \o x.trie[p].chars
    <3>1. Above(x, text2, p) = Above(d, text, p)
      BY <1>3, <1>8, <2>4 DEF Above
    <3> QED BY <1>8, <2>4, <3>1
  <2>9. ASSUME NEW q \in Live(d), q # p PROVE text2[q] = Above(x, text2, q) \o x.trie[q].chars
    <3>1. Above(x, text2, q) = Above(d, text, q)
      <4>1. CASE d.trie[q].parent = p
        BY <1>3, <1>9, <1>20, <2>4, <2>9, <4>1 DEF Above
      <4>2. CASE d.trie[q].parent # p
        BY <1>3, <1>9, <1>20, <2>4, <2>9, <4>2 DEF Above
      <4> QED BY <4>1, <4>2
    <3>2. x.trie[q].chars = d.trie[q].chars
      BY <1>9, <1>20, <2>9
    <3>3. text2[q] = text[q] /\ text[q] = Above(d, text, q) \o d.trie[q].chars
      BY <2>1, <2>4, <2>9
    <3> QED BY <3>1, <3>2, <3>3
  <2>10. \A q \in Live(x) : IsTerminal(x.trie[q]) => text2[q] \in Words
    <3> SUFFICES ASSUME NEW q \in Live(x), IsTerminal(x.trie[q]) PROVE text2[q] \in Words
      OBVIOUS
    <3>1. CASE q = t
      <4>1. x.trie[t].id = d.trie[p].id /\ text2[t] = text[p]
        BY <1>8, <2>4
      <4>2. IsTerminal(d.trie[p])
        BY <3>1, <4>1 DEF IsTerminal
      <4> QED BY <2>1, <3>1, <4>1, <4>2
    <3>2. CASE q = p
      BY <1>8, <3>2 DEF IsTerminal
    <3>3. CASE q # t /\ q # p
      <4>1. q \in Live(d)
        BY <1>10, <3>3
      <4>2. x.trie[q].id = d.trie[q].id /\ text2[q] = text[q]
        BY <1>9, <1>20, <2>4, <3>3, <4>1
      <4>3. IsTerminal(d.trie[q])
        BY <4>2 DEF IsTerminal
      <4> QED BY <2>1, <4>1, <4>2, <4>3
    <3> QED BY <3>1, <3>2, <3>3
  <2> QED BY <1>10, <2>6, <2>7, <2>8, <2>9, <2>10 DEF Spells
<1>26. Ids(x)
  <2>1. \A q \in Live(d) \ {p} :
           /\ x.trie[q].flag = d.trie[q].flag /\ x.trie[q].id = d.trie[q].id
           /\ IsTerminal(d.trie[q]) => d.trie[q].id # d.trie[p].id
                                       /\ x.table[d.trie[q].id + 1] = d.table[d.trie[q].id + 1]
    <3> TAKE q \in Live(d) \ {p}
    <3>1. x.trie[q].flag = d.trie[q].flag /\ x.trie[q].id = d.trie[q].id
      BY <1>9 DEF Live
    <3>2. ASSUME IsTerminal(d.trie[q])
          PROVE  /\ d.trie[q].id # d.trie[p].id
                 /\ x.table[d.trie[q].id + 1] = d.table[d.trie[q].id + 1]
      <4>1. d.trie[q].id # d.trie[p].id
        BY <1>1, <3>2 DEF Ids
      <4>2. d.trie[q].id \in Nat /\ d.trie[q].id + 1 \in DOMAIN d.table
        BY <1>1, <3>2, IdIs
      <4>3. d.trie[p].id # None => d.trie[p].id \in Nat
        BY <1>1, IdIs DEF IsTerminal
      <4>4. d.trie[p].id # None => d.trie[q].id + 1 # d.trie[p].id + 1
        BY <4>1, <4>2, <4>3
      <4> QED BY <1>16, <4>1, <4>2, <4>4
    <3> QED BY <3>1, <3>2
  <2>2. ASSUME NEW r \in Live(x)
        PROVE  /\ x.trie[r].flag = "deleted" => IsTerminal(x.trie[r]) /\ x.table[x.trie[r].id + 1] = None
               /\ x.trie[r].flag # "deleted" /\ IsTerminal(x.trie[r])
                     => x.table[x.trie[r].id + 1] = r
    <3>1. CASE r = t
      BY <1>8, <1>16, <3>1 DEF IsTerminal
    <3>2. CASE r = p
      BY <1>8, <3>2 DEF IsTerminal
    <3>3. CASE r # t /\ r # p
      BY <1>1, <1>10, <2>1, <3>3 DEF Ids, IsTerminal
    <3> QED BY <3>1, <3>2, <3>3
  <2>3. ASSUME NEW q \in Live(x), NEW r \in Live(x), IsTerminal(x.trie[q]),
               x.trie[q].id = x.trie[r].id
        PROVE  q = r
    BY <1>1, <1>8, <1>10, <2>1, <2>3 DEF Ids, IsTerminal
  <2>4. ASSUME NEW i \in DOMAIN x.table, x.table[i] # None
        PROVE  /\ x.table[i] \in Live(x)
               /\ x.trie[x.table[i]].flag # "deleted"
               /\ x.trie[x.table[i]].id = i - 1
    <3>1. i \in Nat /\ i - 1 \in Int /\ (i - 1) + 1 = i
      BY <1>2, <1>16
    <3>2. CASE d.trie[p].id # None /\ i = d.trie[p].id + 1
      <4>1. d.trie[p].id \in Nat
        BY <1>1, <3>2, IdIs DEF IsTerminal
      <4>2. i - 1 = d.trie[p].id /\ x.table[i] = t
        BY <1>16, <3>2, <4>1
      <4> QED BY <1>8, <1>10, <4>2
    <3>3. CASE d.trie[p].id = None \/ i # d.trie[p].id + 1
      <4>1. x.table[i] = d.table[i] /\ i \in DOMAIN d.table
        BY <1>16, <3>3
      <4>2. /\ d.table[i] \in Live(d)
            /\ d.trie[d.table[i]].flag # "deleted"
            /\ d.trie[d.table[i]].id = i - 1
        BY <1>1, <2>4, <4>1 DEF Ids
      <4>3. d.table[i] # p
        <5>1. i - 1 # None
          BY <1>2, <4>1, Constants
        <5> QED BY <3>1, <3>3, <4>2, <5>1
      <4> QED BY <1>10, <2>1, <4>1, <4>2, <4>3
    <3> QED BY <3>2, <3>3
  <2> QED BY <2>2, <2>3, <2>4 DEF Ids
<1> QED BY <1>10, <1>17, <1>24, <1>25, <1>26 DEF Good, t

\* The nodes of d are where they were.
Kept(d, x) ==
    /\ Live(d) \subseteq Live(x)
    /\ \A p \in DOMAIN d.trie :
          /\ p \in DOMAIN x.trie
          /\ p \notin Live(d) => p \notin Live(x) /\ x.trie[p].parent = d.trie[p].parent

LEMMA SiblingsKept ==
    ASSUME NEW d, NEW x, Buffers(d), Buffers(x), Kept(d, x),
           NEW a \in DOMAIN d.arrays, a \in DOMAIN x.arrays, NEW i \in DOMAIN d.arrays[a],
           i \in DOMAIN x.arrays[a], x.arrays[a][i] = d.arrays[a][i]
    PROVE  Siblings(x, a)[i] = Siblings(d, a)[i] /\ Siblings(d, a)[i] \in Live(d)
<1> DEFINE s == [q \in Live(d) |-> q]
<1>1. Relinked(d, x, s)
  <2>1. Live(x) \subseteq DOMAIN x.trie
    BY DEF Live
  <2>2. \A q \in Live(d) : q \in Live(x) /\ Fetched(x)[q] = q
    BY <2>1, FetchedIs DEF Kept
  <2> QED BY <2>2 DEF Kept, Relinked
<1> HIDE DEF s
<1>2. \A q \in DOMAIN d.trie : Fetched(x)[q] = s[Fetched(d)[q]]
  BY <1>1, Refetched
<1>3. \A q \in DOMAIN d.trie : Fetched(x)[q] = Fetched(d)[q]
  BY <1>2, FetchedIs DEF s
<1>4. Siblings(x, a)[i] = Fetched(x)[d.arrays[a][i]]
  BY SiblingsAre
<1>5. Siblings(d, a)[i] = Fetched(d)[d.arrays[a][i]] /\ d.arrays[a][i] \in DOMAIN d.trie
      /\ Siblings(d, a)[i] \in Live(d)
  BY SiblingsAre DEF Buffers
<1> QED BY <1>3, <1>4, <1>5

\* The terminals stay, and the table.
LEMMA SameIds ==
    ASSUME NEW d, NEW x, Ids(d), x.table = d.table, Live(d) \subseteq Live(x),
           \A q \in Live(d) : x.trie[q].flag = d.trie[q].flag /\ x.trie[q].id = d.trie[q].id,
           \A q \in Live(x) \ Live(d) : x.trie[q].flag = "plain" /\ x.trie[q].id = None
    PROVE  Ids(x)
<1>1. ASSUME NEW q \in Live(x)
      PROVE  /\ x.trie[q].flag = "deleted" => IsTerminal(x.trie[q]) /\ x.table[x.trie[q].id + 1] = None
             /\ x.trie[q].flag # "deleted" /\ IsTerminal(x.trie[q])
                   => x.table[x.trie[q].id + 1] = q
  BY DEF Ids, IsTerminal
<1>2. ASSUME NEW q \in Live(x), NEW r \in Live(x), IsTerminal(x.trie[q]),
             x.trie[q].id = x.trie[r].id
      PROVE  q = r
  BY <1>2 DEF Ids, IsTerminal
<1>3. ASSUME NEW i \in DOMAIN x.table, x.table[i] # None
      PROVE  /\ x.table[i] \in Live(x)
             /\ x.trie[x.table[i]].flag # "deleted"
             /\ x.trie[x.table[i]].id = i - 1
  BY <1>3 DEF Ids
<1> QED BY <1>1, <1>2, <1>3 DEF Ids

\* p, which has no children, gets an array for them.
NewArray(d, x, p) ==
    /\ x.trie = [q \in DOMAIN d.trie |->
                    IF q = p THEN Rec(d.trie[p].flag, d.trie[p].parent, d.trie[p].chars,
                                      d.trie[p].id, NextArray(d))
                    ELSE d.trie[q]]
    /\ x.arrays = Append(d.arrays, <<>>)
    /\ x.table = d.table

LEMMA NewArrayIsGood ==
    ASSUME NEW d, NEW text, Good(d, text), NEW p \in Live(d), d.trie[p].children = None,
           NEW x, NewArray(d, x, p)
    PROVE  Good(x, text) /\ Live(x) = Live(d)
<1> DEFINE b == NextArray(d)
<1>1. Buffers(d) /\ Tree(d) /\ Ids(d) /\ Spells(d, text)
  BY DEF Good
<1>2. /\ DOMAIN d.trie = 1..Len(d.trie) /\ DOMAIN d.arrays = 1..Len(d.arrays)
      /\ DOMAIN d.table = 1..Len(d.table)
      /\ Len(d.trie) \in Nat /\ Len(d.arrays) \in Nat /\ Len(d.table) \in Nat
      /\ d.trie \in Seq(Node) /\ d.arrays \in Seq(Seq(Nat)) /\ Len(d.arrays) >= 1
      /\ d.table \in Seq(Nat \cup {None})
  BY <1>1, BuffersAre
<1>3. /\ p \in DOMAIN d.trie /\ p \in Nat /\ d.trie[p] \in Node /\ d.trie[p].flag # "moved"
  BY <1>1, LiveIs, NodeIs
<1>4. x.table = d.table
  BY DEF NewArray
<1>5. /\ DOMAIN x.trie = DOMAIN d.trie
      /\ \A q \in DOMAIN d.trie : q # p => x.trie[q] = d.trie[q]
      /\ x.trie[p] = Rec(d.trie[p].flag, d.trie[p].parent, d.trie[p].chars, d.trie[p].id, b)
  BY <1>3 DEF NewArray
<1>13. b \in Nat /\ b = Len(d.arrays) + 1 /\ b # None /\ b \notin DOMAIN d.arrays /\ b >= 2
       /\ b # Root
  BY <1>2, Constants DEF NextArray, Root
<1> HIDE DEF b
<1>6. /\ x.trie[p].flag = d.trie[p].flag /\ x.trie[p].parent = d.trie[p].parent
      /\ x.trie[p].chars = d.trie[p].chars /\ x.trie[p].id = d.trie[p].id
      /\ x.trie[p].children = b /\ x.trie[p] \in Node
  BY <1>3, <1>5, <1>13 DEF Rec, Node
<1>7. x.trie \in Seq(Node) /\ Len(x.trie) = Len(d.trie)
  <2>1. \A q \in 1..Len(d.trie) : x.trie[q] \in Node
    BY <1>1, <1>2, <1>5, <1>6, NodeIs
  <2>2. x.trie \in [1..Len(d.trie) -> Node]
    BY <1>2, <2>1 DEF NewArray
  <2> QED BY <1>2, <2>2, SeqIs
<1>9. Live(x) = Live(d)
  BY <1>5, <1>6 DEF Live
<1>15. /\ x.arrays \in Seq(Seq(Nat)) /\ Len(x.arrays) = b
       /\ DOMAIN x.arrays = DOMAIN d.arrays \cup {b}
       /\ \A a \in DOMAIN d.arrays : x.arrays[a] = d.arrays[a]
       /\ DOMAIN x.arrays[b] = {}
  <2> DEFINE new == <<>>
  <2>1. new \in Seq(Nat) /\ DOMAIN new = {}
    BY EmptySeq
  <2>2. x.arrays = Append(d.arrays, new)
    BY DEF NewArray
  <2> HIDE DEF new
  <2>3. /\ x.arrays \in Seq(Seq(Nat)) /\ Len(x.arrays) = Len(d.arrays) + 1
        /\ x.arrays[Len(d.arrays) + 1] = new
        /\ \A a \in DOMAIN d.arrays : x.arrays[a] = d.arrays[a]
        /\ DOMAIN x.arrays = 1..Len(d.arrays) + 1
    BY <1>2, <2>1, <2>2, AppendIs
  <2>4. 1..Len(d.arrays) + 1 = 1..Len(d.arrays) \cup {Len(d.arrays) + 1}
    BY <1>2, OneMore
  <2> QED BY <1>2, <1>13, <2>1, <2>3, <2>4
<1>10. Buffers(x)
  <2>1. Shape(x)
    BY <1>2, <1>4, <1>7, <1>13, <1>15 DEF Shape
  <2>0. \A k : k \in 2..Len(d.arrays) \cup {None} => k \in 2..Len(x.arrays) \cup {None}
    BY <1>2, <1>13, <1>15
  <2>2. ASSUME NEW q \in DOMAIN x.trie PROVE NodeOK(x, q)
    <3>1. NodeOK(d, q) /\ q \in DOMAIN d.trie
      BY <1>1, <1>5 DEF Buffers
    <3>2. CASE q = p
      <4>1. b \in 2..Len(x.arrays)
        BY <1>13, <1>15
      <4> QED BY <1>3, <1>4, <1>6, <1>9, <3>1, <3>2, <4>1 DEF NodeOK
    <3>3. CASE q # p
      <4>2. x.trie[q] = d.trie[q]
        BY <1>5, <3>1, <3>3
      <4> QED BY <1>4, <1>7, <1>9, <2>0, <3>1, <4>2 DEF NodeOK
    <3> QED BY <3>2, <3>3
  <2>3. ASSUME NEW a \in DOMAIN x.arrays, NEW i \in DOMAIN x.arrays[a]
        PROVE  x.arrays[a][i] \in DOMAIN x.trie
    BY <1>1, <1>5, <1>15 DEF Buffers
  <2> QED BY <2>1, <2>2, <2>3 DEF Buffers
<1>11. \A a \in DOMAIN d.arrays : \A i \in DOMAIN d.arrays[a] :
          Siblings(x, a)[i] = Siblings(d, a)[i] /\ Siblings(d, a)[i] \in Live(d)
  <2>1. Kept(d, x)
    BY <1>5, <1>9 DEF Kept, Live
  <2> QED BY <1>1, <1>10, <1>15, <2>1, SiblingsKept
<1>12. \A q \in Live(d) : /\ q \in DOMAIN d.trie
                          /\ x.trie[q].parent = d.trie[q].parent
                          /\ x.trie[q].chars = d.trie[q].chars
                          /\ x.trie[q].flag = d.trie[q].flag
                          /\ x.trie[q].id = d.trie[q].id
                          /\ x.trie[q].children = IF q = p THEN b ELSE d.trie[q].children
                          /\ d.trie[q].parent \in Live(d) \cup {None}
                          /\ d.trie[q].parent # p
  BY <1>1, <1>5, <1>6, LiveIs, NoKids
<1>14. \A q \in Live(d) : Home(x, q) = Home(d, q) /\ Above(x, text, q) = Above(d, text, q)
  BY <1>12 DEF Home, Above
<1>16. Tree(x)
  <2>1. ASSUME NEW a \in DOMAIN x.arrays, NEW i \in DOMAIN x.arrays[a]
        PROVE  Home(x, Siblings(x, a)[i]) = a
    <3>1. a \in DOMAIN d.arrays /\ i \in DOMAIN d.arrays[a]
      BY <1>15
    <3>2. Home(d, Siblings(d, a)[i]) = a
      BY <1>1, <3>1 DEF Tree
    <3> QED BY <1>11, <1>14, <3>1, <3>2
  <2>2. ASSUME NEW q \in Live(x)
        PROVE  /\ Home(x, q) \in DOMAIN x.arrays
               /\ \E i \in DOMAIN x.arrays[Home(x, q)] : Siblings(x, Home(x, q))[i] = q
    <3>1. /\ Home(d, q) \in DOMAIN d.arrays /\ q \in Live(d)
          /\ \E i \in DOMAIN d.arrays[Home(d, q)] : Siblings(d, Home(d, q))[i] = q
      BY <1>1, <1>9 DEF Tree
    <3> QED BY <1>11, <1>14, <1>15, <3>1
  <2>3. ASSUME NEW a \in DOMAIN x.arrays, NEW i \in DOMAIN x.arrays[a],
               NEW k \in DOMAIN x.arrays[a],
               Head(x.trie[Siblings(x, a)[i]].chars) = Head(x.trie[Siblings(x, a)[k]].chars)
        PROVE  i = k
    <3>1. /\ a \in DOMAIN d.arrays /\ i \in DOMAIN d.arrays[a] /\ k \in DOMAIN d.arrays[a]
      BY <1>15
    <3> DEFINE q == Siblings(d, a)[i]
               r == Siblings(d, a)[k]
    <3>3. Siblings(x, a)[i] = q /\ Siblings(x, a)[k] = r /\ q \in Live(d) /\ r \in Live(d)
      BY <1>11, <3>1
    <3>4. Head(x.trie[q].chars) = Head(x.trie[r].chars)
      BY <2>3, <3>3
    <3> HIDE DEF q, r
    <3>5. Head(d.trie[q].chars) = Head(d.trie[r].chars)
      BY <1>12, <3>3, <3>4
    <3>2. Head(d.trie[Siblings(d, a)[i]].chars) = Head(d.trie[Siblings(d, a)[k]].chars)
      BY <3>5 DEF q, r
    <3> QED BY <1>1, <3>1, <3>2 DEF Tree
  <2>4. ASSUME NEW a \in DOMAIN x.arrays \ {Root}
        PROVE  \E q \in Live(x) : x.trie[q].children = a
    <3>1. CASE a = b
      BY <1>6, <1>9, <3>1
    <3>2. CASE a # b
      <4>1. PICK q \in Live(d) : d.trie[q].children = a
        BY <1>1, <1>15, <3>2 DEF Tree
      <4>2. a # None
        BY <1>2, <1>15, <3>2, Constants
      <4> QED BY <1>9, <1>12, <4>1, <4>2
    <3> QED BY <3>1, <3>2
  <2>5. ASSUME NEW q \in Live(x), NEW r \in Live(x),
               x.trie[q].children = x.trie[r].children, x.trie[q].children # None
        PROVE  q = r
    <3>1. \A y \in Live(d) : d.trie[y].children \in DOMAIN d.arrays \cup {None}
      BY <1>1, <1>12, NodeIs
    <3> QED BY <1>1, <1>9, <1>12, <1>13, <2>5, <3>1 DEF Tree
  <2> QED BY <2>1, <2>2, <2>3, <2>4, <2>5 DEF Tree
<1>17. Spells(x, text)
  BY <1>1, <1>9, <1>12, <1>14 DEF Spells, IsTerminal
<1>18. Ids(x)
  BY <1>1, <1>4, <1>9, <1>12, SameIds
<1> QED BY <1>9, <1>10, <1>16, <1>17, <1>18 DEF Good

\* A node with the letters c is missing in the array a, the one below u.
Missing(d, a, u, c) ==
    /\ a \in DOMAIN d.arrays /\ c \in Substrings
    /\ IF u = None THEN a = Root ELSE u \in Live(d) /\ d.trie[u].children = a
    /\ \A q \in Live(d) : Home(d, q) = a => Head(d.trie[q].chars) # Head(c)

Leaf(d, x, a, u, c) ==
    /\ x.trie = [q \in 1..End(d) |->
                    IF q = End(d) THEN Rec("plain", u, c, None, None) ELSE d.trie[q]]
    /\ x.arrays = [b \in DOMAIN d.arrays |->
                      IF b = a THEN Append(d.arrays[a], End(d)) ELSE d.arrays[b]]
    /\ x.table = d.table

LeafText(d, text, u, c) ==
    [r \in Live(d) \cup {End(d)} |->
        IF r = End(d) THEN (IF u = None THEN <<>> ELSE text[u]) \o c ELSE text[r]]

LEMMA SubstringIs ==
    ASSUME NEW c \in Substrings
    PROVE  c \in Strings /\ c # <<>> /\ Len(c) \in Nat /\ Len(c) > 0
<1>1. PICK w \in Words : \E n \in 1..Len(w), k \in 0..Len(w) - 1 : c = Skip(SubSeq(w, 1, n), k)
  BY DEF Substrings
<1>2. PICK n \in 1..Len(w), k \in 0..Len(w) - 1 : c = Skip(SubSeq(w, 1, n), k)
  BY <1>1
<1>3. c # <<>>
  BY DEF Substrings
<1>4. w \in Strings /\ Len(w) \in Nat
  BY Constants, LenProperties DEF Strings
<1> DEFINE v == SubSeq(w, 1, n)
<1>5. v \in Strings /\ Len(v) = n
  BY <1>4, TakeIs DEF Strings
<1>6. c = Skip(v, k)
  BY <1>2
<1> HIDE DEF v
<1>7. k < n
  <2> SUFFICES ASSUME n < k + 1 PROVE FALSE
    BY <1>4
  <2>1. SubSeq(v, k + 1, Len(v)) = <<>>
    BY <1>4, <1>5, SubSeqEmpty
  <2> QED BY <1>3, <1>6, <2>1 DEF Skip
<1>8. k \in 0..Len(v)
  BY <1>4, <1>5, <1>7
<1>9. c \in Strings
  BY <1>5, <1>6, <1>8, SkipIs DEF Strings
<1> QED BY <1>3, <1>9, EmptySeq DEF Strings

LEMMA LeafIsGood ==
    ASSUME NEW d, NEW text, Good(d, text), NEW a, NEW u, NEW c, Missing(d, a, u, c),
           NEW x, Leaf(d, x, a, u, c)
    PROVE  Good(x, LeafText(d, text, u, c)) /\ Live(x) = Live(d) \cup {End(d)}
<1> DEFINE t == End(d)
           text2 == LeafText(d, text, u, c)
           k == Len(d.arrays[a]) + 1
<1>1. Buffers(d) /\ Tree(d) /\ Ids(d) /\ Spells(d, text)
  BY DEF Good
<1>2. /\ DOMAIN d.trie = 1..Len(d.trie) /\ DOMAIN d.arrays = 1..Len(d.arrays)
      /\ DOMAIN d.table = 1..Len(d.table)
      /\ Len(d.trie) \in Nat /\ Len(d.arrays) \in Nat /\ Len(d.table) \in Nat
      /\ d.trie \in Seq(Node) /\ d.arrays \in Seq(Seq(Nat)) /\ Len(d.arrays) >= 1
      /\ d.table \in Seq(Nat \cup {None})
  BY <1>1, BuffersAre
<1>3. /\ a \in DOMAIN d.arrays /\ c \in Substrings /\ c \in Strings
      /\ IF u = None THEN a = Root ELSE u \in Live(d) /\ d.trie[u].children = a
      /\ \A q \in Live(d) : Home(d, q) = a => Head(d.trie[q].chars) # Head(c)
  BY SubstringIs DEF Missing
<1>4. /\ t \in Nat /\ t \notin DOMAIN d.trie /\ t \notin Live(d) /\ t # None /\ t = Len(d.trie) + 1
      /\ u # t
  <2>1. t \in Nat /\ t \notin DOMAIN d.trie /\ t = Len(d.trie) + 1
    BY <1>2 DEF End
  <2> QED BY <1>3, <2>1, Constants DEF Live
<1>5. DOMAIN x.trie = 1..t /\ DOMAIN x.trie = DOMAIN d.trie \cup {t}
  <2>1. 1..Len(d.trie) + 1 = 1..Len(d.trie) \cup {Len(d.trie) + 1}
    BY <1>2, OneMore
  <2> QED BY <1>2, <2>1 DEF Leaf, End
<1>6. /\ x.trie[t] = Rec("plain", u, c, None, None)
      /\ \A q \in DOMAIN d.trie : x.trie[q] = d.trie[q]
  BY <1>4, <1>5 DEF Leaf
<1>7. /\ x.trie[t].flag = "plain" /\ x.trie[t].parent = u /\ x.trie[t].chars = c
      /\ x.trie[t].id = None /\ x.trie[t].children = None
  BY <1>6 DEF Rec
<1>8. Live(x) = Live(d) \cup {t}
  BY <1>4, <1>5, <1>6, <1>7 DEF Live
<1>9. /\ d.arrays[a] \in Seq(Nat) /\ Len(d.arrays[a]) \in Nat
      /\ DOMAIN d.arrays[a] = 1..Len(d.arrays[a]) /\ k \in Nat
  BY <1>1, <1>3, ArraysAre
<1>10. /\ DOMAIN x.arrays = DOMAIN d.arrays
       /\ \A b \in DOMAIN d.arrays : b # a => x.arrays[b] = d.arrays[b]
       /\ x.arrays[a] = Append(d.arrays[a], t)
  BY <1>3 DEF Leaf
<1> HIDE DEF t
<1>11. /\ x.arrays[a] \in Seq(Nat) /\ x.arrays[a][k] = t
       /\ \A i \in DOMAIN d.arrays[a] : x.arrays[a][i] = d.arrays[a][i]
       /\ DOMAIN x.arrays[a] = DOMAIN d.arrays[a] \cup {k} /\ k \notin DOMAIN d.arrays[a]
  <2>1. 1..Len(d.arrays[a]) + 1 = 1..Len(d.arrays[a]) \cup {k}
    BY <1>9, OneMore
  <2> QED BY <1>4, <1>9, <1>10, <2>1, AppendIs
<1> HIDE DEF k
<1>12. x.trie \in Seq(Node) /\ Len(x.trie) = t
  <2>1. ASSUME NEW q \in 1..t PROVE x.trie[q] \in Node
    <3>1. CASE q = t
      <4>1. u \in Nat \cup {None}
        BY <1>1, <1>3, LiveIs
      <4> QED BY <1>3, <1>6, <3>1, <4>1 DEF Rec, Node
    <3>2. CASE q # t
      BY <1>1, <1>5, <1>6, <3>2, NodeIs
    <3> QED BY <3>1, <3>2
  <2>2. x.trie \in [1..t -> Node]
    <3>1. x.trie = [q \in 1..t |-> x.trie[q]]
      BY DEF Leaf, t
    <3> QED BY <2>1, <3>1
  <2> QED BY <1>4, <2>2, SeqIs
<1>13. x.arrays \in Seq(Seq(Nat)) /\ Len(x.arrays) = Len(d.arrays)
  <2>1. \A b \in 1..Len(d.arrays) : x.arrays[b] \in Seq(Nat)
    BY <1>1, <1>2, <1>10, <1>11, ArraysAre
  <2>2. x.arrays \in [1..Len(d.arrays) -> Seq(Nat)]
    <3>1. x.arrays = [b \in 1..Len(d.arrays) |-> x.arrays[b]]
      BY <1>2 DEF Leaf
    <3> QED BY <2>1, <3>1
  <2> QED BY <1>2, <2>2, SeqIs
<1>14. x.table = d.table
  BY DEF Leaf
<1>15. Buffers(x)
  <2>1. Shape(x)
    BY <1>2, <1>12, <1>13, <1>14 DEF Shape
  <2>2. ASSUME NEW q \in DOMAIN x.trie PROVE NodeOK(x, q)
    <3>1. CASE q = t
      BY <1>3, <1>7, <1>8, <3>1 DEF NodeOK
    <3>2. CASE q # t
      <4>1. q \in DOMAIN d.trie /\ x.trie[q] = d.trie[q] /\ NodeOK(d, q)
        BY <1>1, <1>5, <1>6, <3>2 DEF Buffers
      <4>2. q + 1..Len(d.trie) \subseteq q + 1..Len(x.trie)
        BY <1>2, <1>4, <1>12
      <4> QED BY <1>8, <1>13, <1>14, <4>1, <4>2 DEF NodeOK
    <3> QED BY <3>1, <3>2
  <2>3. ASSUME NEW b \in DOMAIN x.arrays, NEW i \in DOMAIN x.arrays[b]
        PROVE  x.arrays[b][i] \in DOMAIN x.trie
    <3>1. CASE b = a
      BY <1>1, <1>3, <1>5, <1>11, <3>1 DEF Buffers
    <3>2. CASE b # a
      BY <1>1, <1>5, <1>10, <3>2 DEF Buffers
    <3> QED BY <3>1, <3>2
  <2> QED BY <2>1, <2>2, <2>3 DEF Buffers
<1>16. \A b \in DOMAIN d.arrays : \A i \in DOMAIN d.arrays[b] :
          Siblings(x, b)[i] = Siblings(d, b)[i] /\ Siblings(d, b)[i] \in Live(d)
  <2>1. Kept(d, x)
    <3>1. \A q \in DOMAIN d.trie : q \notin Live(d) => q \notin Live(x)
      BY <1>4, <1>8
    <3> QED BY <1>5, <1>6, <1>8, <3>1 DEF Kept
  <2> TAKE b \in DOMAIN d.arrays
  <2> TAKE i \in DOMAIN d.arrays[b]
  <2>2. b \in DOMAIN x.arrays /\ i \in DOMAIN x.arrays[b] /\ x.arrays[b][i] = d.arrays[b][i]
    <3>1. CASE b = a
      BY <1>10, <1>11, <3>1
    <3>2. CASE b # a
      BY <1>10, <3>2
    <3> QED BY <3>1, <3>2
  <2> QED BY <1>1, <1>15, <2>1, <2>2, SiblingsKept
<1>17. Siblings(x, a)[k] = t
  <2>1. a \in DOMAIN x.arrays /\ k \in DOMAIN x.arrays[a]
    BY <1>3, <1>10, <1>11
  <2>2. Siblings(x, a)[k] = Fetched(x)[x.arrays[a][k]]
    BY <1>15, <2>1, SiblingsAre
  <2> QED BY <1>5, <1>8, <1>11, <1>15, <2>2, FetchedIs
<1>18. \A q \in Live(d) : /\ q \in DOMAIN d.trie /\ q # t /\ x.trie[q] = d.trie[q]
                          /\ d.trie[q].parent \in Live(d) \cup {None}
                          /\ d.trie[q].children \in DOMAIN d.arrays \cup {None}
  BY <1>1, <1>4, <1>6, LiveIs, NodeIs
<1>19. \A q \in Live(d) : Home(x, q) = Home(d, q) /\ Home(d, q) \in DOMAIN d.arrays
  BY <1>1, <1>18 DEF Home, Tree
<1>20. Home(x, t) = a
  BY <1>3, <1>7, <1>18 DEF Home
<1>21. \A b \in DOMAIN x.arrays : \A i \in DOMAIN x.arrays[b] :
          i \in DOMAIN d.arrays[b] \/ (b = a /\ i = k)
  <2> TAKE b \in DOMAIN x.arrays
  <2> TAKE i \in DOMAIN x.arrays[b]
  <2>1. CASE b = a
    BY <1>11, <2>1
  <2>2. CASE b # a
    BY <1>10, <2>2
  <2> QED BY <2>1, <2>2
<1>22. Tree(x)
  <2>1. ASSUME NEW b \in DOMAIN x.arrays, NEW i \in DOMAIN x.arrays[b]
        PROVE  Home(x, Siblings(x, b)[i]) = b
    <3>1. CASE b = a /\ i = k
      BY <1>17, <1>20, <3>1
    <3>2. CASE i \in DOMAIN d.arrays[b]
      <4>1. Home(d, Siblings(d, b)[i]) = b
        BY <1>1, <1>10, <3>2 DEF Tree
      <4> QED BY <1>10, <1>16, <1>19, <3>2, <4>1
    <3> QED BY <1>21, <3>1, <3>2
  <2>2. ASSUME NEW q \in Live(x)
        PROVE  /\ Home(x, q) \in DOMAIN x.arrays
               /\ \E i \in DOMAIN x.arrays[Home(x, q)] : Siblings(x, Home(x, q))[i] = q
    <3>1. CASE q = t
      BY <1>3, <1>10, <1>11, <1>17, <1>20, <3>1
    <3>2. CASE q # t
      <4>1. q \in Live(d)
        BY <1>8, <3>2
      <4>2. PICK i \in DOMAIN d.arrays[Home(d, q)] : Siblings(d, Home(d, q))[i] = q
        BY <1>1, <4>1 DEF Tree
      <4>3. i \in DOMAIN x.arrays[Home(d, q)]
        BY <1>10, <1>11, <1>19, <4>1
      <4> QED BY <1>10, <1>16, <1>19, <4>1, <4>2, <4>3
    <3> QED BY <3>1, <3>2
  <2>3. ASSUME NEW b \in DOMAIN x.arrays, NEW i \in DOMAIN x.arrays[b],
               NEW j \in DOMAIN x.arrays[b],
               Head(x.trie[Siblings(x, b)[i]].chars) = Head(x.trie[Siblings(x, b)[j]].chars)
        PROVE  i = j
    <3>0. \A y \in DOMAIN x.arrays[b] : y \in DOMAIN d.arrays[b] =>
             /\ Siblings(x, b)[y] = Siblings(d, b)[y] /\ Siblings(d, b)[y] \in Live(d)
             /\ x.trie[Siblings(x, b)[y]].chars = d.trie[Siblings(d, b)[y]].chars
             /\ Home(d, Siblings(d, b)[y]) = b
      BY <1>1, <1>10, <1>16, <1>18 DEF Tree
    <3>1. CASE i \in DOMAIN d.arrays[b] /\ j \in DOMAIN d.arrays[b]
      <4>1. Head(d.trie[Siblings(d, b)[i]].chars) = Head(d.trie[Siblings(d, b)[j]].chars)
        BY <2>3, <3>0, <3>1
      <4> QED BY <1>1, <1>10, <3>1, <4>1 DEF Tree
    <3>2. CASE ~(i \in DOMAIN d.arrays[b] /\ j \in DOMAIN d.arrays[b])
      <4>1. b = a /\ x.trie[Siblings(x, a)[k]].chars = c
        BY <1>7, <1>17, <1>21, <3>2
      <4>2. \A y \in DOMAIN x.arrays[b] : y \in DOMAIN d.arrays[b] =>
               Head(x.trie[Siblings(x, b)[y]].chars) # Head(c)
        BY <1>3, <3>0, <4>1
      <4> QED BY <1>21, <2>3, <3>2, <4>1, <4>2
    <3> QED BY <3>1, <3>2
  <2>4. ASSUME NEW b \in DOMAIN x.arrays \ {Root}
        PROVE  \E q \in Live(x) : x.trie[q].children = b
    <3>1. PICK q \in Live(d) : d.trie[q].children = b
      BY <1>1, <1>10 DEF Tree
    <3> QED BY <1>8, <1>18, <3>1
  <2>5. ASSUME NEW q \in Live(x), NEW r \in Live(x),
               x.trie[q].children = x.trie[r].children, x.trie[q].children # None
        PROVE  q = r
    BY <1>1, <1>7, <1>8, <1>18, <2>5 DEF Tree
  <2> QED BY <2>1, <2>2, <2>3, <2>4, <2>5 DEF Tree
<1>23. Spells(x, text2)
  <2>1. /\ text \in [Live(d) -> Strings]
        /\ \A q \in Live(d) : text[q] = Above(d, text, q) \o d.trie[q].chars
        /\ \A q \in Live(d) : IsTerminal(d.trie[q]) => text[q] \in Words
    BY <1>1 DEF Spells
  <2> DEFINE v == IF u = None THEN <<>> ELSE text[u]
  <2>2. v \in Strings
    <3>1. <<>> \in Strings
      BY EmptySeq DEF Strings
    <3> QED BY <1>3, <2>1, <3>1
  <2>3. text2 = [r \in Live(d) \cup {t} |-> IF r = t THEN v \o c ELSE text[r]]
    BY DEF LeafText, t
  <2> HIDE DEF text2
  <2>4. text2[t] = v \o c /\ \A q \in Live(d) : text2[q] = text[q]
    BY <1>18, <2>3
  <2>5. v \o c \in Strings
    <3> HIDE DEF v
    <3> QED BY <1>3, <2>2, ConcatProperties DEF Strings
  <2>6. text2 \in [Live(x) -> Strings]
    <3> HIDE DEF v
    <3> QED BY <1>8, <2>1, <2>3, <2>5
  <2>7. text2[t] = Above(x, text2, t) \o x.trie[t].chars
    <3>1. Above(x, text2, t) = v
      BY <1>3, <1>7, <2>4 DEF Above
    <3> QED BY <1>7, <2>4, <3>1
  <2>8. \A q \in Live(d) : text2[q] = Above(x, text2, q) \o x.trie[q].chars
    <3>1. \A q \in Live(d) : Above(x, text2, q) = Above(d, text, q)
      BY <1>18, <2>4 DEF Above
    <3> QED BY <1>18, <2>1, <2>4, <3>1
  <2>9. \A q \in Live(x) : IsTerminal(x.trie[q]) => text2[q] \in Words
    BY <1>7, <1>8, <1>18, <2>1, <2>4 DEF IsTerminal
  <2> QED BY <1>8, <2>6, <2>7, <2>8, <2>9 DEF Spells
<1>24. Ids(x)
  <2>1. \A q \in Live(x) \ Live(d) : x.trie[q].flag = "plain" /\ x.trie[q].id = None
    BY <1>7, <1>8
  <2>2. \A q \in Live(d) : x.trie[q].flag = d.trie[q].flag /\ x.trie[q].id = d.trie[q].id
    BY <1>18
  <2>3. Live(d) \subseteq Live(x)
    BY <1>8
  <2> QED BY <1>1, <1>14, <2>1, <2>2, <2>3, SameIds
<1> QED BY <1>8, <1>15, <1>22, <1>23, <1>24 DEF Good, t

\* The word of p is removed: p stays, without an entry in the table.
Delete(d, x, p) ==
    /\ x.trie = [q \in DOMAIN d.trie |->
                    IF q = p THEN Rec("deleted", d.trie[p].parent, d.trie[p].chars, d.trie[p].id,
                                      d.trie[p].children)
                    ELSE d.trie[q]]
    /\ x.arrays = d.arrays
    /\ x.table = [d.table EXCEPT ![d.trie[p].id + 1] = None]

LEMMA DeleteIsGood ==
    ASSUME NEW d, NEW text, Good(d, text), NEW p \in Live(d), IsTerminal(d.trie[p]),
           NEW x, Delete(d, x, p)
    PROVE  Good(x, text)
<1> DEFINE k == d.trie[p].id + 1
<1>1. Buffers(d) /\ Tree(d) /\ Ids(d) /\ Spells(d, text)
  BY DEF Good
<1>2. /\ DOMAIN d.trie = 1..Len(d.trie) /\ DOMAIN d.arrays = 1..Len(d.arrays)
      /\ DOMAIN d.table = 1..Len(d.table)
      /\ Len(d.trie) \in Nat /\ Len(d.arrays) \in Nat /\ Len(d.table) \in Nat
      /\ d.trie \in Seq(Node) /\ d.arrays \in Seq(Seq(Nat)) /\ Len(d.arrays) >= 1
      /\ d.table \in Seq(Nat \cup {None})
  BY <1>1, BuffersAre
<1>3. /\ p \in DOMAIN d.trie /\ p \in Nat /\ d.trie[p] \in Node /\ d.trie[p].flag # "moved"
  BY <1>1, LiveIs, NodeIs
<1>4. x.arrays = d.arrays
  BY DEF Delete
<1>5. /\ DOMAIN x.trie = DOMAIN d.trie
      /\ \A q \in DOMAIN d.trie : q # p => x.trie[q] = d.trie[q]
      /\ x.trie[p] = Rec("deleted", d.trie[p].parent, d.trie[p].chars, d.trie[p].id,
                         d.trie[p].children)
  BY <1>3 DEF Delete
<1>6. /\ x.trie[p].flag = "deleted" /\ x.trie[p].parent = d.trie[p].parent
      /\ x.trie[p].chars = d.trie[p].chars /\ x.trie[p].id = d.trie[p].id
      /\ x.trie[p].children = d.trie[p].children /\ x.trie[p] \in Node
  BY <1>3, <1>5 DEF Rec, Node
<1>7. x.trie \in Seq(Node) /\ Len(x.trie) = Len(d.trie)
  <2>1. \A q \in 1..Len(d.trie) : x.trie[q] \in Node
    BY <1>1, <1>2, <1>5, <1>6, NodeIs
  <2>2. x.trie \in [1..Len(d.trie) -> Node]
    BY <1>2, <2>1 DEF Delete
  <2> QED BY <1>2, <2>2, SeqIs
<1>8. /\ x.table \in Seq(Nat \cup {None}) /\ Len(x.table) = Len(d.table)
      /\ DOMAIN x.table = DOMAIN d.table /\ x.table[k] = None /\ k \in DOMAIN d.table
      /\ \A i \in DOMAIN d.table : i # k => x.table[i] = d.table[i]
  <2>1. k \in 1..Len(d.table)
    BY <1>1, <1>2, IdIs
  <2>2. x.table = [d.table EXCEPT ![k] = None]
    BY DEF Delete
  <2> HIDE DEF k
  <2>3. /\ x.table \in Seq(Nat \cup {None}) /\ Len(x.table) = Len(d.table)
        /\ \A i \in 1..Len(d.table) : x.table[i] = IF i = k THEN None ELSE d.table[i]
    BY <1>2, <2>1, <2>2, ExceptSeq
  <2>4. DOMAIN x.table = 1..Len(x.table)
    BY <2>3, LenProperties
  <2> QED BY <1>2, <2>1, <2>3, <2>4
<1>9. Live(x) = Live(d)
  BY <1>3, <1>5, <1>6 DEF Live
<1>10. \A q \in DOMAIN d.trie : /\ x.trie[q].parent = d.trie[q].parent
                                /\ x.trie[q].chars = d.trie[q].chars
                                /\ x.trie[q].id = d.trie[q].id
                                /\ x.trie[q].children = d.trie[q].children
                                /\ q # p => x.trie[q].flag = d.trie[q].flag
  BY <1>5, <1>6
<1>11. Buffers(x)
  <2>1. Shape(x)
    BY <1>2, <1>4, <1>7, <1>8 DEF Shape
  <2>2. ASSUME NEW q \in DOMAIN x.trie PROVE NodeOK(x, q)
    <3>1. NodeOK(d, q) /\ q \in DOMAIN d.trie
      BY <1>1, <1>5 DEF Buffers
    <3>2. x.trie[q].flag = "moved" <=> d.trie[q].flag = "moved"
      BY <1>3, <1>6, <1>10, <3>1
    <3> QED BY <1>4, <1>7, <1>8, <1>9, <1>10, <3>1, <3>2 DEF NodeOK
  <2> QED BY <1>1, <1>4, <1>5, <2>1, <2>2 DEF Buffers
<1>12. \A a \in DOMAIN d.arrays : \A i \in DOMAIN d.arrays[a] :
          Siblings(x, a)[i] = Siblings(d, a)[i] /\ Siblings(d, a)[i] \in Live(d)
  <2>1. Kept(d, x)
    BY <1>5, <1>9, <1>10 DEF Kept
  <2> QED BY <1>1, <1>4, <1>11, <2>1, SiblingsKept
<1> DEFINE K == Live(d)
           A == DOMAIN d.arrays
           s == [q \in K |-> q]
           al == [a \in A |-> a]
<1>13. Image(d, x, K, s, A, al)
  <2>1. NodesImage(d, x, K, s, A, al)
    <3>1. ASSUME NEW q \in K
          PROVE  /\ x.trie[s[q]].chars = d.trie[q].chars
                 /\ IF d.trie[q].parent = None THEN x.trie[s[q]].parent = None
                    ELSE d.trie[q].parent \in K /\ x.trie[s[q]].parent = s[d.trie[q].parent]
                 /\ IF d.trie[q].children \in A
                    THEN x.trie[s[q]].children = al[d.trie[q].children]
                    ELSE x.trie[s[q]].children = None
                 /\ IsTerminal(x.trie[s[q]]) => IsTerminal(d.trie[q])
      <4>1. /\ q \in DOMAIN d.trie /\ d.trie[q].parent \in Live(d) \cup {None}
            /\ d.trie[q].children \in A \cup {None}
        BY <1>1, LiveIs, NodeIs
      <4> QED BY <1>10, <4>1 DEF IsTerminal
    <3> HIDE DEF A, al
    <3> QED BY <1>9, <3>1 DEF NodesImage
  <2>2. ArraysImage(d, x, K, s, A, al)
    BY <1>1, <1>4, ArraysAre DEF ArraysImage, Tree
  <2>3. SlotsImage(d, x, K, s, A, al)
    <3>1. ASSUME NEW a \in A, NEW i \in DOMAIN d.arrays[a], NEW j \in DOMAIN d.arrays[a],
                 Siblings(x, a)[i] = Siblings(x, a)[j]
          PROVE  i = j
      <4>1. Siblings(d, a)[i] = Siblings(d, a)[j]
        BY <1>12, <3>1
      <4> QED BY <1>1, <4>1 DEF Tree
    <3> QED BY <1>4, <1>12, <3>1 DEF SlotsImage
  <2> QED BY <2>1, <2>2, <2>3 DEF Image
<1>14. Tree(x)
  BY <1>1, <1>11, <1>13, ImageIsTree
<1>15. Spells(x, text)
  <2>1. text \in [Live(x) -> Strings] /\ \A q \in K : text[s[q]] = text[q]
    BY <1>1, <1>9 DEF Spells
  <2> HIDE DEF K, s, A, al
  <2> QED BY <1>1, <1>11, <1>13, <2>1, ImageSpells
<1>16. Ids(x)
  <2>1. \A q \in Live(d) \ {p} :
           IsTerminal(d.trie[q]) => /\ d.trie[q].id # d.trie[p].id
                                    /\ x.table[d.trie[q].id + 1] = d.table[d.trie[q].id + 1]
    <3> SUFFICES ASSUME NEW q \in Live(d) \ {p}, IsTerminal(d.trie[q])
                 PROVE  /\ d.trie[q].id # d.trie[p].id
                        /\ x.table[d.trie[q].id + 1] = d.table[d.trie[q].id + 1]
      OBVIOUS
    <3>1. d.trie[q].id # d.trie[p].id
      BY <1>1 DEF Ids
    <3>2. d.trie[q].id \in Nat /\ d.trie[q].id + 1 \in DOMAIN d.table
      BY <1>1, IdIs
    <3>3. d.trie[p].id \in Nat
      BY <1>1, IdIs
    <3>4. d.trie[q].id + 1 # k
      BY <3>1, <3>2, <3>3
    <3> QED BY <1>8, <3>1, <3>2, <3>4
  <2>2. ASSUME NEW r \in Live(x)
        PROVE  /\ x.trie[r].flag = "deleted" => IsTerminal(x.trie[r]) /\ x.table[x.trie[r].id + 1] = None
               /\ x.trie[r].flag # "deleted" /\ IsTerminal(x.trie[r])
                     => x.table[x.trie[r].id + 1] = r
    <3>1. CASE r = p
      BY <1>3, <1>6, <1>8, <3>1 DEF IsTerminal
    <3>2. CASE r # p
      <4>1. r \in Live(d) /\ r \in DOMAIN d.trie
        BY <1>9 DEF Live
      <4> QED BY <1>1, <1>10, <2>1, <3>2, <4>1 DEF Ids, IsTerminal
    <3> QED BY <3>1, <3>2
  <2>3. ASSUME NEW q \in Live(x), NEW r \in Live(x), IsTerminal(x.trie[q]),
               x.trie[q].id = x.trie[r].id
        PROVE  q = r
    <3>1. q \in Live(d) /\ r \in Live(d) /\ q \in DOMAIN d.trie /\ r \in DOMAIN d.trie
      BY <1>9 DEF Live
    <3> QED BY <1>1, <1>10, <2>3, <3>1 DEF Ids, IsTerminal
  <2>4. ASSUME NEW i \in DOMAIN x.table, x.table[i] # None
        PROVE  /\ x.table[i] \in Live(x)
               /\ x.trie[x.table[i]].flag # "deleted"
               /\ x.trie[x.table[i]].id = i - 1
    <3>1. i \in DOMAIN d.table /\ x.table[i] = d.table[i]
      BY <1>8, <2>4
    <3>2. /\ d.table[i] \in Live(d)
          /\ d.trie[d.table[i]].flag # "deleted"
          /\ d.trie[d.table[i]].id = i - 1
      BY <1>1, <2>4, <3>1 DEF Ids
    <3>3. d.table[i] # p
      <4>1. i # k /\ i \in Nat
        BY <1>2, <1>8, <2>4, <3>1
      <4> QED BY <3>2, <4>1
    <3>4. d.table[i] \in DOMAIN d.trie
      BY <3>2 DEF Live
    <3> QED BY <1>9, <1>10, <3>1, <3>2, <3>3, <3>4
  <2> QED BY <2>2, <2>3, <2>4 DEF Ids
<1> QED BY <1>11, <1>14, <1>15, <1>16 DEF Good

-----------------------------------------------------------------------------
(* The operations are made of such changes.                                *)

IsDict(d) ==
    d = [trie |-> d.trie, arrays |-> d.arrays, table |-> d.table, lm |-> d.lm,
         count |-> d.count]

DictOf(trie, arrays, table, lm, count) ==
    [trie |-> trie, arrays |-> arrays, table |-> table, lm |-> lm, count |-> count]

\* What a dictionary is after one of its fields has changed.
LEMMA DictWith ==
    ASSUME NEW d, IsDict(d), NEW v
    PROVE  /\ [d EXCEPT !.trie = v] = DictOf(v, d.arrays, d.table, d.lm, d.count)
           /\ [d EXCEPT !.arrays = v] = DictOf(d.trie, v, d.table, d.lm, d.count)
           /\ [d EXCEPT !.table = v] = DictOf(d.trie, d.arrays, v, d.lm, d.count)
           /\ [d EXCEPT !.lm = v] = DictOf(d.trie, d.arrays, d.table, v, d.count)
           /\ [d EXCEPT !.count = v] = DictOf(d.trie, d.arrays, d.table, d.lm, v)
<1> DEFINE trie == d.trie
           arrays == d.arrays
           table == d.table
           lm == d.lm
           count == d.count
<1>1. d = [trie |-> trie, arrays |-> arrays, table |-> table, lm |-> lm, count |-> count]
  BY DEF IsDict
<1> HIDE DEF trie, arrays, table, lm, count
<1>2. [d EXCEPT !.trie = v]
         = [trie |-> v, arrays |-> arrays, table |-> table, lm |-> lm, count |-> count]
  BY <1>1
<1>3. [d EXCEPT !.arrays = v]
         = [trie |-> trie, arrays |-> v, table |-> table, lm |-> lm, count |-> count]
  BY <1>1
<1>4. [d EXCEPT !.table = v]
         = [trie |-> trie, arrays |-> arrays, table |-> v, lm |-> lm, count |-> count]
  BY <1>1
<1>5. [d EXCEPT !.lm = v]
         = [trie |-> trie, arrays |-> arrays, table |-> table, lm |-> v, count |-> count]
  BY <1>1
<1>6. [d EXCEPT !.count = v]
         = [trie |-> trie, arrays |-> arrays, table |-> table, lm |-> lm, count |-> v]
  BY <1>1
<1> QED BY <1>2, <1>3, <1>4, <1>5, <1>6 DEF DictOf, trie, arrays, table, lm, count

LEMMA NodeWith ==
    ASSUME NEW n \in Node, NEW v
    PROVE  /\ [n EXCEPT !.flag = v] = Rec(v, n.parent, n.chars, n.id, n.children)
           /\ [n EXCEPT !.parent = v] = Rec(n.flag, v, n.chars, n.id, n.children)
           /\ [n EXCEPT !.id = v] = Rec(n.flag, n.parent, n.chars, v, n.children)
           /\ [n EXCEPT !.children = v] = Rec(n.flag, n.parent, n.chars, n.id, v)
           /\ \A u : [n EXCEPT !.flag = v, !.parent = u]
                        = Rec(v, u, n.chars, n.id, n.children)
           /\ \A u, c : [n EXCEPT !.flag = v, !.parent = u, !.chars = c]
                           = Rec(v, u, c, n.id, n.children)
<1> DEFINE flag == n.flag
           parent == n.parent
           chars == n.chars
           id == n.id
           children == n.children
<1>1. n = [flag |-> flag, parent |-> parent, chars |-> chars, id |-> id, children |-> children]
  BY DEF Node
<1> HIDE DEF flag, parent, chars, id, children
<1>2. [n EXCEPT !.flag = v]
         = [flag |-> v, parent |-> parent, chars |-> chars, id |-> id, children |-> children]
  BY <1>1
<1>3. [n EXCEPT !.parent = v]
         = [flag |-> flag, parent |-> v, chars |-> chars, id |-> id, children |-> children]
  BY <1>1
<1>4. [n EXCEPT !.id = v]
         = [flag |-> flag, parent |-> parent, chars |-> chars, id |-> v, children |-> children]
  BY <1>1
<1>5. [n EXCEPT !.children = v]
         = [flag |-> flag, parent |-> parent, chars |-> chars, id |-> id, children |-> v]
  BY <1>1
<1> DEFINE m == [n EXCEPT !.flag = v]
<1>6. m = [flag |-> v, parent |-> parent, chars |-> chars, id |-> id, children |-> children]
  BY <1>2
<1> HIDE DEF m
<1>7. ASSUME NEW u
      PROVE  [m EXCEPT !.parent = u]
                = [flag |-> v, parent |-> u, chars |-> chars, id |-> id, children |-> children]
  BY <1>6
<1>8. ASSUME NEW u, NEW c
      PROVE  [m EXCEPT !.parent = u, !.chars = c]
                = [flag |-> v, parent |-> u, chars |-> c, id |-> id, children |-> children]
  <2> DEFINE k == [m EXCEPT !.parent = u]
  <2>1. k = [flag |-> v, parent |-> u, chars |-> chars, id |-> id, children |-> children]
    BY <1>7
  <2> HIDE DEF k
  <2>2. [k EXCEPT !.chars = c]
           = [flag |-> v, parent |-> u, chars |-> c, id |-> id, children |-> children]
    BY <2>1
  <2> QED BY <2>2 DEF k
<1> QED BY <1>2, <1>3, <1>4, <1>5, <1>7, <1>8 DEF Rec, m, flag, parent, chars, id, children

LEMMA NewNodeIs ==
    ASSUME NEW u, NEW c, NEW id
    PROVE  NewNode(u, c, id) = Rec("plain", u, c, id, None)
BY DEF NewNode, Rec

LmSet(m, path, e) == Content!SetEntry(m, path, e)

LEMMA MaxOfTwo ==
    ASSUME NEW a \in Nat, NEW b \in Nat
    PROVE  Max({a, b}) = IF a >= b THEN a ELSE b
<1> DEFINE T == {a, b}
           top == IF a >= b THEN a ELSE b
<1>1. T \subseteq Nat /\ T # {} /\ top \in Nat /\ \A m \in T : m <= top
  OBVIOUS
<1>2. top \in T
  OBVIOUS
<1> HIDE DEF T
<1>3. Max(T) \in T /\ \A m \in T : Max(T) >= m
  <2> HIDE DEF top
  <2> QED BY <1>1, MaxOf
<1> DEFINE x == Max(T)
<1>4. x \in T /\ x >= top
  BY <1>2, <1>3
<1> HIDE DEF x
<1>5. x = top
  BY <1>4 DEF T
<1> QED BY <1>5 DEF x, T

LEMMA AppendFun ==
    ASSUME NEW S, NEW t \in Seq(S), NEW e
    PROVE  /\ Append(t, e) = [i \in 1..Len(t) + 1 |-> IF i = Len(t) + 1 THEN e ELSE t[i]]
           /\ Len(Append(t, e)) = Len(t) + 1
           /\ Append(t, e) \in Seq(S \cup {e})
<1> DEFINE R == S \cup {e}
           u == Append(t, e)
           n == Len(t)
<1>1. t \in Seq(R) /\ e \in R
  BY SeqMonotonic
<1>2. n \in Nat /\ DOMAIN t = 1..n
  BY LenProperties
<1> HIDE DEF R
<1>3. /\ u \in Seq(R) /\ Len(u) = n + 1 /\ DOMAIN u = 1..n + 1
      /\ u[n + 1] = e /\ \A i \in 1..n : u[i] = t[i]
  BY <1>1, <1>2, AppendIs
<1> HIDE DEF u, n
<1>4. u = [i \in 1..n + 1 |-> u[i]]
  <2>1. u \in [1..n + 1 -> R]
    BY <1>2, <1>3, LenProperties
  <2> QED BY <2>1
<1>5. \A i \in 1..n + 1 : u[i] = IF i = n + 1 THEN e ELSE t[i]
  BY <1>2, <1>3
<1>6. u = [i \in 1..n + 1 |-> IF i = n + 1 THEN e ELSE t[i]]
  BY <1>4, <1>5
<1> QED BY <1>3, <1>6 DEF u, n, R

\* A position is entered in the table, at its end or where there was one.
Placed(table, id, p) ==
    IF id = Len(table) THEN Append(table, p) ELSE [table EXCEPT ![id + 1] = p]

LEMMA PlacedIs ==
    ASSUME NEW S, NEW table \in Seq(S), NEW id \in 0..Len(table), NEW p
    PROVE  [i \in 1..Max({Len(table), id + 1}) |-> IF i = id + 1 THEN p ELSE table[i]]
              = Placed(table, id, p)
<1> DEFINE n == Len(table)
<1>1. n \in Nat /\ DOMAIN table = 1..n /\ id \in Nat /\ id <= n
  BY LenProperties
<1>2. table = [i \in 1..n |-> table[i]]
  BY <1>1, SeqDef
<1>3. Max({n, id + 1}) = IF id = n THEN n + 1 ELSE n
  <2> DEFINE m == id + 1
  <2> HIDE DEF n
  <2>1. m \in Nat /\ m <= n + 1 /\ (m > n <=> id = n) /\ (m = n + 1 <=> id = n)
    BY <1>1
  <2> HIDE DEF m
  <2>2. Max({n, m}) = IF n >= m THEN n ELSE m
    BY <1>1, <2>1, MaxOfTwo
  <2>3. Max({n, m}) = IF id = n THEN n + 1 ELSE n
    BY <1>1, <2>1, <2>2
  <2> QED BY <2>3 DEF m, n
<1>4. CASE id = n
  <2>1. Append(table, p) = [i \in 1..n + 1 |-> IF i = n + 1 THEN p ELSE table[i]]
    BY <1>1, AppendFun
  <2> QED BY <1>3, <1>4, <2>1 DEF Placed
<1>5. CASE id # n
  <2>1. [table EXCEPT ![id + 1] = p] = [i \in 1..n |-> IF i = id + 1 THEN p ELSE table[i]]
    BY <1>1
  <2> QED BY <1>3, <1>5, <2>1 DEF Placed
<1> QED BY <1>4, <1>5

LEMMA SetPositionIs ==
    ASSUME NEW d, IsDict(d), NEW S, d.table \in Seq(S), NEW id \in 0..Len(d.table), NEW p
    PROVE  SetPosition(d, id, p)
              = DictOf(d.trie, d.arrays, Placed(d.table, id, p), d.lm, d.count)
<1> DEFINE t == [i \in 1..Max({Len(d.table), id + 1}) |-> IF i = id + 1 THEN p ELSE d.table[i]]
<1>1. t = Placed(d.table, id, p)
  BY PlacedIs
<1>2. SetPosition(d, id, p) = [d EXCEPT !.table = t]
  BY DEF SetPosition
<1> HIDE DEF t
<1> QED BY <1>1, <1>2, DictWith

LEMMA WritePtNodeIs ==
    ASSUME NEW d, IsDict(d), NEW S, d.table \in Seq(S), NEW n,
           n.id \in 0..Len(d.table) \cup {None}
    PROVE  WritePtNode(d, n)
              = DictOf(Append(d.trie, n), d.arrays,
                       IF n.id = None THEN d.table ELSE Placed(d.table, n.id, Len(d.trie) + 1),
                       d.lm, d.count)
<1> DEFINE t == Append(d.trie, n)
           x == DictOf(t, d.arrays, d.table, d.lm, d.count)
           id == n.id
           e == Len(d.trie) + 1
<1>1. [d EXCEPT !.trie = t] = x
  BY DictWith
<1>2. WritePtNode(d, n) = IF id # None THEN SetPosition([d EXCEPT !.trie = t], id, e)
                          ELSE [d EXCEPT !.trie = t]
  BY DEF WritePtNode, IsTerminal
<1>3. IsDict(x) /\ x.trie = t /\ x.arrays = d.arrays /\ x.table = d.table /\ x.lm = d.lm
      /\ x.count = d.count
  <2> HIDE DEF t
  <2> QED BY DEF DictOf, IsDict
<1>4. WritePtNode(d, n) = IF id # None THEN SetPosition(x, id, e) ELSE x
  BY <1>1, <1>2
<1> HIDE DEF x, t, id, e
<1>5. CASE id = None
  BY <1>4, <1>5 DEF x, t, id, e
<1>6. CASE id # None
  <2>1. id \in 0..Len(x.table) /\ x.table \in Seq(S)
    BY <1>3, <1>6 DEF id
  <2>2. SetPosition(x, id, e) = DictOf(x.trie, x.arrays, Placed(x.table, id, e), x.lm, x.count)
    BY <1>3, <2>1, SetPositionIs
  <2> QED BY <1>3, <1>4, <1>6, <2>2 DEF t, id, e
<1> QED BY <1>5, <1>6

LEMMA SetEntryIs ==
    ASSUME NEW d, IsDict(d), NEW path, NEW e
    PROVE  SetEntry(d, path, e)
              = DictOf(d.trie, d.arrays, d.table, LmSet(d.lm, path, e), d.count)
<1> DEFINE v == LmSet(d.lm, path, e)
<1>1. SetEntry(d, path, e) = [d EXCEPT !.lm = v]
  BY DEF SetEntry, LmSet
<1> HIDE DEF v
<1> QED BY <1>1, DictWith DEF v

\* The id a terminal node is written with.
IdFor(d, n) == IF n.id = None THEN Len(d.table) ELSE n.id

LEMMA WriteNewTerminalIs ==
    ASSUME NEW d, IsDict(d), NEW S, d.table \in Seq(S), NEW n \in Node,
           n.id \in 0..Len(d.table) \cup {None}, NEW e
    PROVE  WriteNewTerminal(d, n, e)
              = DictOf(Append(d.trie, Rec(n.flag, n.parent, n.chars, IdFor(d, n), n.children)),
                       d.arrays, Placed(d.table, IdFor(d, n), Len(d.trie) + 1),
                       LmSet(d.lm, <<IdFor(d, n)>>, e), d.count)
<1> DEFINE id == IdFor(d, n)
           m == Rec(n.flag, n.parent, n.chars, id, n.children)
<1>1. [n EXCEPT !.id = id] = m
  BY NodeWith
<1>2. WriteNewTerminal(d, n, e) = SetEntry(WritePtNode(d, [n EXCEPT !.id = id]), <<id>>, e)
  BY DEF WriteNewTerminal, IdFor, NextTerminalId
<1>3. m.id = id
  BY DEF Rec
<1>4. Len(d.table) \in Nat
  BY LenProperties
<1>5. id \in 0..Len(d.table) /\ id # None
  BY <1>4, Constants DEF IdFor
<1> HIDE DEF id, m
<1> DEFINE x == WritePtNode(d, m)
<1>6. x = DictOf(Append(d.trie, m), d.arrays, Placed(d.table, id, Len(d.trie) + 1), d.lm, d.count)
  BY <1>3, <1>5, WritePtNodeIs
<1> HIDE DEF x
<1>7. IsDict(x) /\ x.trie = Append(d.trie, m) /\ x.arrays = d.arrays
      /\ x.table = Placed(d.table, id, Len(d.trie) + 1) /\ x.lm = d.lm /\ x.count = d.count
  BY <1>6 DEF DictOf, IsDict
<1>8. SetEntry(x, <<id>>, e) = DictOf(x.trie, x.arrays, x.table, LmSet(x.lm, <<id>>, e), x.count)
  BY <1>7, SetEntryIs
<1> QED BY <1>1, <1>2, <1>7, <1>8 DEF x, id, m

LEMMA WriteArrayIs ==
    ASSUME NEW d, IsDict(d), NEW ps
    PROVE  WriteArray(d, ps) = DictOf(d.trie, Append(d.arrays, ps), d.table, d.lm, d.count)
<1> DEFINE v == Append(d.arrays, ps)
<1>1. WriteArray(d, ps) = [d EXCEPT !.arrays = v]
  BY DEF WriteArray
<1> HIDE DEF v
<1> QED BY <1>1, DictWith DEF v

\* z is d with nodes added at the end of the buffer; the array a is as it was.
Grown(d, z, a) ==
    /\ DOMAIN z.trie = 1..Len(z.trie) /\ Len(z.trie) \in Nat /\ Len(d.trie) <= Len(z.trie)
    /\ \A q \in DOMAIN d.trie : z.trie[q] = d.trie[q]
    /\ \A q \in DOMAIN z.trie \ DOMAIN d.trie : z.trie[q].flag # "moved"
    /\ a # None => z.arrays[a] = d.arrays[a]

LEMMA GrownSiblings ==
    ASSUME NEW d, Buffers(d), NEW z, NEW a \in DOMAIN d.arrays, Grown(d, z, a)
    PROVE  Siblings(z, a) = Siblings(d, a)
<1> DEFINE s == [p \in Live(d) |-> p]
<1>1. Links(d) /\ DOMAIN d.trie = 1..Len(d.trie) /\ Len(d.trie) \in Nat
  BY BuffersLink DEF Links
<1>2. a # None
  BY ArraysAre, Constants
<1>3. /\ DOMAIN z.trie = 1..Len(z.trie) /\ Len(z.trie) \in Nat /\ Len(d.trie) <= Len(z.trie)
      /\ \A q \in DOMAIN d.trie : z.trie[q] = d.trie[q]
      /\ \A q \in DOMAIN z.trie \ DOMAIN d.trie : z.trie[q].flag # "moved"
      /\ z.arrays[a] = d.arrays[a]
  BY <1>2 DEF Grown
<1>4. DOMAIN d.trie \subseteq DOMAIN z.trie
  BY <1>1, <1>3
<1>5. Links(z)
  <2>1. ASSUME NEW p \in DOMAIN z.trie, z.trie[p].flag = "moved"
        PROVE  z.trie[p].parent \in p + 1..Len(z.trie)
    <3>1. p \in DOMAIN d.trie
      BY <1>3, <2>1
    <3>2. d.trie[p].flag = "moved" /\ z.trie[p].parent = d.trie[p].parent
      BY <1>3, <2>1, <3>1
    <3>3. d.trie[p].parent \in p + 1..Len(d.trie) /\ p \in Nat
      BY <1>1, <3>1, <3>2 DEF Links
    <3> QED BY <1>1, <1>3, <3>2, <3>3
  <2> QED BY <1>3, <2>1 DEF Links
<1>6. Live(d) \subseteq Live(z) /\ \A p \in DOMAIN d.trie : p \notin Live(d) => p \notin Live(z)
  BY <1>3, <1>4 DEF Live
<1>7. Relinked(d, z, s)
  <2>1. \A p \in Live(z) : Fetched(z)[p] = p
    BY <1>5, LinksLead DEF Live
  <2>2. s \in [Live(d) -> Live(z)] /\ \A p \in Live(d) : s[p] = p
    BY <1>6
  <2> HIDE DEF s
  <2> QED BY <1>3, <1>4, <1>6, <2>1, <2>2 DEF Relinked
<1>8. \A p \in Live(d) : s[p] = p
  OBVIOUS
<1> HIDE DEF s
<1>9. \A p \in DOMAIN d.trie : Fetched(z)[p] = Fetched(d)[p]
  <2>1. \A p \in DOMAIN d.trie : Fetched(z)[p] = s[Fetched(d)[p]]
    BY <1>1, <1>5, <1>7, Relead
  <2>2. \A p \in DOMAIN d.trie : Fetched(d)[p] \in Live(d)
    BY FetchedIs
  <2> QED BY <1>8, <2>1, <2>2
<1>10. \A i \in DOMAIN d.arrays[a] : d.arrays[a][i] \in DOMAIN d.trie
  BY DEF Buffers
<1> QED BY <1>3, <1>9, <1>10 DEF Siblings

LEMMA GrownKids ==
    ASSUME NEW d, Buffers(d), Tree(d), NEW p \in Live(d), NEW z, Grown(d, z, d.trie[p].children)
    PROVE  (IF z.trie[p].children = None THEN {} ELSE Range(Siblings(z, z.trie[p].children)))
              = {q \in Live(d) : d.trie[q].parent = p}
<1> DEFINE a == d.trie[p].children
<1>1. z.trie[p].children = a
  BY LiveIs DEF Grown
<1>2. CASE a = None
  BY <1>1, <1>2, NoKids
<1>3. CASE a # None
  <2>1. a \in DOMAIN d.arrays
    BY <1>3, LiveIs, NodeIs
  <2>2. Siblings(z, a) = Siblings(d, a)
    BY <2>1, GrownSiblings
  <2>3. Range(Siblings(d, a)) = {q \in Live(d) : d.trie[q].parent = p}
    BY <1>3, KidsAre
  <2> QED BY <1>1, <1>3, <2>2, <2>3
<1> QED BY <1>2, <1>3

\* The nodes of z after the node p of d has become a link.
MovedTrie(d, z, p, to, linked) ==
    [q \in DOMAIN z.trie |->
        IF q = p THEN Rec("moved", to, d.trie[p].chars, d.trie[p].id, d.trie[p].children)
        ELSE IF q \in Live(d) /\ d.trie[q].parent = p
        THEN Rec(d.trie[q].flag, linked, d.trie[q].chars, d.trie[q].id, d.trie[q].children)
        ELSE z.trie[q]]

LEMMA MarkAsMovedIs ==
    ASSUME NEW d, Buffers(d), Tree(d), NEW p \in Live(d),
           NEW z, IsDict(z), Grown(d, z, d.trie[p].children), NEW to, NEW linked
    PROVE  MarkAsMoved(z, p, to, linked)
              = DictOf(MovedTrie(d, z, p, to, linked), z.arrays, z.table, z.lm, z.count)
<1> DEFINE kids == IF z.trie[p].children = None THEN {}
                   ELSE Range(Siblings(z, z.trie[p].children))
           kids2 == {q \in Live(d) : d.trie[q].parent = p}
           T == [q \in DOMAIN z.trie |->
                    IF q = p THEN [z.trie[q] EXCEPT !.flag = "moved", !.parent = to]
                    ELSE IF q \in kids THEN [z.trie[q] EXCEPT !.parent = linked]
                    ELSE z.trie[q]]
           U == [q \in DOMAIN z.trie |->
                           IF q = p
                           THEN Rec("moved", to, d.trie[p].chars, d.trie[p].id, d.trie[p].children)
                           ELSE IF q \in Live(d) /\ d.trie[q].parent = p
                           THEN Rec(d.trie[q].flag, linked, d.trie[q].chars, d.trie[q].id,
                                    d.trie[q].children)
                           ELSE z.trie[q]]
<1>1. MarkAsMoved(z, p, to, linked) = [z EXCEPT !.trie = T]
  BY DEF MarkAsMoved
<1>2. kids = kids2
  BY GrownKids
<1>3. \A q \in kids2 : q \in Live(d) /\ d.trie[q].parent = p
  OBVIOUS
<1>4. \A q \in Live(d) : d.trie[q].parent = p => q \in kids2
  OBVIOUS
<1> HIDE DEF kids, kids2
<1>5. T = U
  <2>1. ASSUME NEW q \in Live(d)
        PROVE  z.trie[q] = d.trie[q] /\ d.trie[q] \in Node
    BY LiveIs, NodeIs DEF Grown
  <2>2. [z.trie[p] EXCEPT !.flag = "moved", !.parent = to]
           = Rec("moved", to, d.trie[p].chars, d.trie[p].id, d.trie[p].children)
    <3> DEFINE n == d.trie[p]
               m == z.trie[p]
               f == "moved"
    <3>1. m = n /\ n \in Node
      BY <2>1
    <3> HIDE DEF n, m, f
    <3>2. [n EXCEPT !.flag = f, !.parent = to] = Rec(f, to, n.chars, n.id, n.children)
      <4>1. \A u : [n EXCEPT !.flag = f, !.parent = u] = Rec(f, u, n.chars, n.id, n.children)
        BY <3>1, NodeWith
      <4> QED BY <4>1
    <3> QED BY <3>1, <3>2 DEF n, m, f
  <2>3. ASSUME NEW q \in kids2
        PROVE  [z.trie[q] EXCEPT !.parent = linked]
                  = Rec(d.trie[q].flag, linked, d.trie[q].chars, d.trie[q].id, d.trie[q].children)
    <3> DEFINE n == d.trie[q]
               m == z.trie[q]
    <3>1. m = n /\ n \in Node
      BY <1>3, <2>1
    <3> HIDE DEF n, m
    <3>2. [n EXCEPT !.parent = linked] = Rec(n.flag, linked, n.chars, n.id, n.children)
      BY <3>1, NodeWith
    <3> QED BY <3>1, <3>2 DEF n, m
  <2> QED BY <1>2, <1>3, <1>4, <2>2, <2>3
<1> HIDE DEF T
<1> DEFINE V == U
<1>6. [z EXCEPT !.trie = V] = DictOf(V, z.arrays, z.table, z.lm, z.count)
  <2> HIDE DEF V
  <2> QED BY DictWith
<1>7. U = MovedTrie(d, z, p, to, linked)
  BY DEF MovedTrie
<1> QED BY <1>1, <1>5, <1>6, <1>7

-----------------------------------------------------------------------------
(* The words of a dictionary, with their ids, and those that were removed. *)

Terminals(d) == {p \in Live(d) : IsTerminal(d.trie[p])}
Entries(d, text) == {<<text[p], d.trie[p].id>> : p \in Terminals(d)}
Gone(d, text) == {text[p] : p \in {q \in Live(d) : d.trie[q].flag = "deleted"}}

\* Nothing leads two terminals to one word, or to one id.
LEMMA OneTerminal ==
    ASSUME NEW d, NEW text, Good(d, text), NEW p \in Terminals(d), NEW q \in Terminals(d),
           text[p] = text[q] \/ d.trie[p].id = d.trie[q].id
    PROVE  p = q
<1>1. p \in Live(d) /\ IsTerminal(d.trie[p]) /\ q \in Live(d) /\ IsTerminal(d.trie[q])
  BY DEF Terminals
<1>2. CASE text[p] = text[q]
  <2> DEFINE w == text[p]
             r == TerminalPtNodePositionOfWord(d, w)
  <2>1. w \in Words
    BY <1>1 DEF Good, Spells
  <2>2. w \in Strings /\ w # <<>>
    BY <2>1, Constants
  <2>3. Finds(d, text, w, r)
    <3> HIDE DEF w
    <3> QED BY <2>2, FoundIs DEF Good
  <2>4. r = p /\ r = q
    <3> HIDE DEF r
    <3> QED BY <1>1, <1>2, <2>3 DEF Finds
  <2> QED BY <2>4
<1>3. CASE d.trie[p].id = d.trie[q].id
  BY <1>1, <1>3 DEF Good, Ids
<1> QED BY <1>2, <1>3

LEMMA EndIs ==
    ASSUME NEW d, Buffers(d)
    PROVE  /\ End(d) \notin DOMAIN d.trie /\ End(d) \notin Live(d)
           /\ End(d) \in 1..End(d) /\ End(d) \in Nat
           /\ DOMAIN d.trie \subseteq 1..End(d) /\ Live(d) \subseteq DOMAIN d.trie
           /\ 1..End(d) = DOMAIN d.trie \cup {End(d)}
           /\ End(d) # None
<1>1. DOMAIN d.trie = 1..Len(d.trie) /\ Len(d.trie) \in Nat
  BY ArraysAre
<1>2. 1..End(d) = 1..Len(d.trie) \cup {End(d)}
  BY <1>1, OneMore DEF End
<1>3. End(d) \in Nat /\ End(d) # None
  BY <1>1, Constants DEF End
<1> QED BY <1>1, <1>2, <1>3 DEF End, Live

\* What is at the terminals of d is at those of x, at s.
Moved(d, text, x, text2, s) ==
    /\ \A p \in Terminals(d) :
          /\ s[p] \in Terminals(x)
          /\ text2[s[p]] = text[p]
          /\ x.trie[s[p]].id = d.trie[p].id
    /\ \A r \in Terminals(x) : \E p \in Terminals(d) : s[p] = r

LEMMA MovedEntries ==
    ASSUME NEW d, NEW text, NEW x, NEW text2, NEW s, Moved(d, text, x, text2, s)
    PROVE  Entries(x, text2) = Entries(d, text)
<1>1. \A p \in Terminals(d) :
          /\ s[p] \in Terminals(x) /\ text2[s[p]] = text[p]
          /\ x.trie[s[p]].id = d.trie[p].id
  BY DEF Moved
<1>2. \A r \in Terminals(x) : \E p \in Terminals(d) : s[p] = r
  BY DEF Moved
<1>3. Entries(x, text2) \subseteq Entries(d, text)
  <2> SUFFICES ASSUME NEW r \in Terminals(x)
               PROVE  <<text2[r], x.trie[r].id>> \in Entries(d, text)
    BY DEF Entries
  <2>1. PICK p \in Terminals(d) : s[p] = r
    BY <1>2
  <2>2. text2[r] = text[p] /\ x.trie[r].id = d.trie[p].id
    BY <1>1, <2>1
  <2> QED BY <2>2 DEF Entries
<1>4. Entries(d, text) \subseteq Entries(x, text2)
  <2> SUFFICES ASSUME NEW p \in Terminals(d)
               PROVE  <<text[p], d.trie[p].id>> \in Entries(x, text2)
    BY DEF Entries
  <2>1. s[p] \in Terminals(x) /\ text2[s[p]] = text[p] /\ x.trie[s[p]].id = d.trie[p].id
    BY <1>1
  <2>2. <<text2[s[p]], x.trie[s[p]].id>> \in Entries(x, text2)
    BY <2>1 DEF Entries
  <2> QED BY <2>1, <2>2
<1> QED BY <1>3, <1>4

LEMMA LeafEntries ==
    ASSUME NEW d, NEW text, Good(d, text), NEW a, NEW u, NEW c, Missing(d, a, u, c),
           NEW x, Leaf(d, x, a, u, c)
    PROVE  /\ Entries(x, LeafText(d, text, u, c)) = Entries(d, text)
           /\ Gone(x, LeafText(d, text, u, c)) = Gone(d, text)
<1> DEFINE e == End(d)
           text2 == LeafText(d, text, u, c)
           s == [p \in Live(d) |-> p]
<1>1. Live(x) = Live(d) \cup {e} /\ Buffers(d)
  BY LeafIsGood DEF Good
<1>2. /\ \A q \in Live(d) : x.trie[q] = d.trie[q] /\ text2[q] = text[q]
      /\ x.trie[e].id = None /\ x.trie[e].flag = "plain"
  BY <1>1, EndIs DEF Leaf, Rec, LeafText
<1>3. \A p \in Live(d) : s[p] = p
  OBVIOUS
<1> HIDE DEF text2, s, e
<1>4. Terminals(x) = Terminals(d)
  BY <1>1, <1>2 DEF Terminals, IsTerminal
<1>5. Moved(d, text, x, text2, s)
  BY <1>2, <1>3, <1>4 DEF Moved, Terminals
<1>6. Entries(x, text2) = Entries(d, text)
  BY <1>5, MovedEntries
<1>7. {q \in Live(x) : x.trie[q].flag = "deleted"} = {q \in Live(d) : d.trie[q].flag = "deleted"}
  BY <1>1, <1>2
<1>8. Gone(x, text2) = Gone(d, text)
  BY <1>2, <1>7 DEF Gone
<1> QED BY <1>6, <1>8 DEF text2

LEMMA NewArrayEntries ==
    ASSUME NEW d, NEW text, Good(d, text), NEW p \in Live(d), d.trie[p].children = None,
           NEW x, NewArray(d, x, p)
    PROVE  Entries(x, text) = Entries(d, text) /\ Gone(x, text) = Gone(d, text)
<1> DEFINE s == [q \in Live(d) |-> q]
<1>1. Live(x) = Live(d) /\ Live(d) \subseteq DOMAIN d.trie
  BY NewArrayIsGood DEF Live
<1>2. \A q \in Live(d) : x.trie[q].id = d.trie[q].id /\ x.trie[q].flag = d.trie[q].flag
  BY <1>1 DEF NewArray, Rec
<1>3. \A q \in Live(d) : s[q] = q
  OBVIOUS
<1> HIDE DEF s
<1>4. Terminals(x) = Terminals(d)
  BY <1>1, <1>2 DEF Terminals, IsTerminal
<1>5. Moved(d, text, x, text, s)
  BY <1>2, <1>3, <1>4 DEF Moved, Terminals
<1>6. Entries(x, text) = Entries(d, text)
  BY <1>5, MovedEntries
<1>7. {q \in Live(x) : x.trie[q].flag = "deleted"} = {q \in Live(d) : d.trie[q].flag = "deleted"}
  BY <1>1, <1>2
<1> QED BY <1>6, <1>7 DEF Gone

LEMMA GiveIdEntries ==
    ASSUME NEW d, NEW text, Good(d, text), NEW p \in Live(d), d.trie[p].id = None,
           d.trie[p].flag = "plain", text[p] \in Words, NEW x, GiveId(d, x, p)
    PROVE  /\ Entries(x, text) = Entries(d, text) \cup {<<text[p], Len(d.table)>>}
           /\ Gone(x, text) = Gone(d, text)
<1>1. Live(x) = Live(d) /\ Live(d) \subseteq DOMAIN d.trie
  BY GiveIdIsGood DEF Live
<1>2. /\ \A q \in Live(d) \ {p} : x.trie[q] = d.trie[q]
      /\ x.trie[p].id = Len(d.table) /\ x.trie[p].flag = "plain"
  BY <1>1 DEF GiveId, Rec
<1>3. Len(d.table) # None
  BY ArraysAre, Constants DEF Good
<1>4. Terminals(x) = Terminals(d) \cup {p} /\ p \notin Terminals(d)
  BY <1>1, <1>2, <1>3 DEF Terminals, IsTerminal
<1>5. Entries(x, text) = Entries(d, text) \cup {<<text[p], Len(d.table)>>}
  <2>1. \A q \in Terminals(d) : x.trie[q].id = d.trie[q].id
    BY <1>2, <1>4 DEF Terminals
  <2>2. {<<text[q], x.trie[q].id>> : q \in Terminals(d)}
           = {<<text[q], d.trie[q].id>> : q \in Terminals(d)}
    BY <2>1
  <2>3. {<<text[q], x.trie[q].id>> : q \in Terminals(d) \cup {p}}
           = {<<text[q], x.trie[q].id>> : q \in Terminals(d)} \cup {<<text[p], x.trie[p].id>>}
    OBVIOUS
  <2> QED BY <1>2, <1>4, <2>2, <2>3 DEF Entries
<1>6. {q \in Live(x) : x.trie[q].flag = "deleted"} = {q \in Live(d) : d.trie[q].flag = "deleted"}
  BY <1>1, <1>2
<1> QED BY <1>5, <1>6 DEF Gone

GoneWithout(d, text, p) ==
    IF IsTerminal(d.trie[p]) THEN Gone(d, text) \ {text[p]} ELSE Gone(d, text)

LEMMA CopyEntries ==
    ASSUME NEW d, NEW text, Good(d, text), NEW p \in Live(d), NEW x, CopyTo(d, x, p)
    PROVE  /\ Entries(x, CopyText(d, text, p)) = Entries(d, text)
           /\ Gone(x, CopyText(d, text, p)) = GoneWithout(d, text, p)
<1> DEFINE e == End(d)
           text2 == CopyText(d, text, p)
           s == [q \in Live(d) |-> IF q = p THEN e ELSE q]
<1>1. Live(x) = (Live(d) \ {p}) \cup {e} /\ Buffers(d) /\ Ids(d)
  BY CopyIsGood DEF Good
<1>2. e \notin Live(d) /\ \A q \in Live(d) : q \in 1..e /\ q # e
  BY <1>1, EndIs
<1>3. /\ \A q \in Live(d) \ {p} : /\ x.trie[q].id = d.trie[q].id
                                  /\ x.trie[q].flag = d.trie[q].flag
                                  /\ text2[q] = text[q]
      /\ x.trie[e].id = d.trie[p].id /\ x.trie[e].flag = "plain" /\ text2[e] = text[p]
  <2>1. x.trie[e].id = d.trie[p].id /\ x.trie[e].flag = "plain"
    BY <1>1, EndIs DEF CopyTo, Rec
  <2>2. \A q \in Live(d) \ {p} : x.trie[q].id = d.trie[q].id /\ x.trie[q].flag = d.trie[q].flag
    BY <1>2 DEF CopyTo, Rec
  <2>3. text2[e] = text[p] /\ \A q \in Live(d) \ {p} : text2[q] = text[q]
    BY <1>2 DEF CopyText
  <2> QED BY <2>1, <2>2, <2>3
<1>4. s[p] = e /\ \A q \in Live(d) \ {p} : s[q] = q
  OBVIOUS
<1> HIDE DEF text2, s, e
<1>5. Moved(d, text, x, text2, s)
  <2>1. ASSUME NEW q \in Terminals(d)
        PROVE  s[q] \in Terminals(x) /\ text2[s[q]] = text[q] /\ x.trie[s[q]].id = d.trie[q].id
    BY <1>1, <1>3, <1>4 DEF Terminals, IsTerminal
  <2>2. ASSUME NEW r \in Terminals(x)
        PROVE  \E q \in Terminals(d) : s[q] = r
    BY <1>1, <1>3, <1>4 DEF Terminals, IsTerminal
  <2> QED BY <2>1, <2>2 DEF Moved
<1>6. Entries(x, text2) = Entries(d, text)
  BY <1>5, MovedEntries
<1> DEFINE D == {q \in Live(d) : d.trie[q].flag = "deleted"}
<1>7. {q \in Live(x) : x.trie[q].flag = "deleted"} = D \ {p}
  BY <1>1, <1>2, <1>3
<1>8. Gone(x, text2) = {text[q] : q \in D \ {p}}
  BY <1>3, <1>7 DEF Gone
<1>9. D \subseteq Terminals(d)
  BY <1>1 DEF Ids, Terminals
<1>10. p \notin Terminals(d) \/ \A q \in D : text[q] = text[p] => q = p
  BY <1>9, OneTerminal
<1>11. p \in Terminals(d) <=> IsTerminal(d.trie[p])
  BY DEF Terminals
<1>12. {text[q] : q \in D \ {p}} = GoneWithout(d, text, p)
  <2>1. Gone(d, text) = {text[q] : q \in D}
    BY DEF Gone
  <2> HIDE DEF D
  <2>2. CASE p \in Terminals(d)
    <3>1. {text[q] : q \in D \ {p}} = {text[q] : q \in D} \ {text[p]}
      BY <1>10, <2>2
    <3> QED BY <1>11, <2>1, <2>2, <3>1 DEF GoneWithout
  <2>3. CASE p \notin Terminals(d)
    <3>1. D \ {p} = D
      BY <1>9, <2>3
    <3> QED BY <1>11, <2>1, <2>3, <3>1 DEF GoneWithout
  <2> QED BY <2>2, <2>3
<1> QED BY <1>6, <1>8, <1>12 DEF text2

LEMMA BreakEntries ==
    ASSUME NEW d, NEW text, Good(d, text), NEW p \in Live(d), d.trie[p].flag = "plain",
           NEW j \in 1..Len(d.trie[p].chars) - 1, NEW x, Break(d, x, p, j)
    PROVE  /\ Entries(x, BreakText(d, text, p, j)) = Entries(d, text)
           /\ Gone(x, BreakText(d, text, p, j)) = Gone(d, text)
<1> DEFINE e == End(d)
           text2 == BreakText(d, text, p, j)
           s == [q \in Live(d) |-> IF q = p THEN e ELSE q]
<1>1. Live(x) = Live(d) \cup {e} /\ Buffers(d)
  BY BreakIsGood DEF Good
<1>2. e \notin Live(d) /\ \A q \in Live(d) : q \in 1..e /\ q # e
  BY <1>1, EndIs
<1>3. /\ \A q \in Live(d) \ {p} : /\ x.trie[q].id = d.trie[q].id
                                  /\ x.trie[q].flag = d.trie[q].flag
                                  /\ text2[q] = text[q]
      /\ x.trie[e].id = d.trie[p].id /\ x.trie[e].flag = "plain" /\ text2[e] = text[p]
      /\ x.trie[p].id = None /\ x.trie[p].flag = "plain"
  <2>1. x.trie[e].id = d.trie[p].id /\ x.trie[e].flag = "plain"
    BY <1>1, EndIs DEF Break, Rec
  <2>2. \A q \in Live(d) \ {p} : x.trie[q].id = d.trie[q].id /\ x.trie[q].flag = d.trie[q].flag
    BY <1>2 DEF Break, Rec
  <2>3. text2[e] = text[p] /\ \A q \in Live(d) \ {p} : text2[q] = text[q]
    BY <1>2 DEF BreakText
  <2>4. x.trie[p].id = None /\ x.trie[p].flag = "plain"
    BY <1>2 DEF Break, Rec
  <2> QED BY <2>1, <2>2, <2>3, <2>4
<1>4. s[p] = e /\ \A q \in Live(d) \ {p} : s[q] = q
  OBVIOUS
<1> HIDE DEF text2, s, e
<1>5. Moved(d, text, x, text2, s)
  <2>1. ASSUME NEW q \in Terminals(d)
        PROVE  s[q] \in Terminals(x) /\ text2[s[q]] = text[q] /\ x.trie[s[q]].id = d.trie[q].id
    BY <1>1, <1>3, <1>4 DEF Terminals, IsTerminal
  <2>2. ASSUME NEW r \in Terminals(x)
        PROVE  \E q \in Terminals(d) : s[q] = r
    BY <1>1, <1>3, <1>4 DEF Terminals, IsTerminal
  <2> QED BY <2>1, <2>2 DEF Moved
<1>6. Entries(x, text2) = Entries(d, text)
  BY <1>5, MovedEntries
<1>7. {q \in Live(x) : x.trie[q].flag = "deleted"} = {q \in Live(d) : d.trie[q].flag = "deleted"}
  BY <1>1, <1>2, <1>3
<1>8. \A q \in {r \in Live(d) : d.trie[r].flag = "deleted"} : text2[q] = text[q]
  BY <1>3
<1>9. Gone(x, text2) = Gone(d, text)
  BY <1>7, <1>8 DEF Gone
<1> QED BY <1>6, <1>9 DEF text2

LEMMA DeleteEntries ==
    ASSUME NEW d, NEW text, Good(d, text), NEW p \in Live(d), IsTerminal(d.trie[p]),
           NEW x, Delete(d, x, p)
    PROVE  /\ Entries(x, text) = Entries(d, text)
           /\ Gone(x, text) = Gone(d, text) \cup {text[p]}
<1> DEFINE s == [q \in Live(d) |-> q]
<1>1. /\ DOMAIN x.trie = DOMAIN d.trie
      /\ \A q \in DOMAIN d.trie : x.trie[q].id = d.trie[q].id
      /\ \A q \in DOMAIN d.trie \ {p} : x.trie[q] = d.trie[q]
      /\ x.trie[p].flag = "deleted"
  BY DEF Delete, Rec, Live
<1>2. Live(x) = Live(d) /\ Live(d) \subseteq DOMAIN d.trie
  BY <1>1 DEF Live
<1>3. \A q \in Live(d) : s[q] = q
  OBVIOUS
<1> HIDE DEF s
<1>4. Terminals(x) = Terminals(d)
  BY <1>1, <1>2 DEF Terminals, IsTerminal
<1>5. Moved(d, text, x, text, s)
  BY <1>1, <1>2, <1>3, <1>4 DEF Moved, Terminals
<1>6. Entries(x, text) = Entries(d, text)
  BY <1>5, MovedEntries
<1> DEFINE D == {q \in Live(d) : d.trie[q].flag = "deleted"}
<1>7. {q \in Live(x) : x.trie[q].flag = "deleted"} = D \cup {p}
  BY <1>1, <1>2
<1>8. {text[q] : q \in D \cup {p}} = {text[q] : q \in D} \cup {text[p]}
  <2> HIDE DEF D
  <2> QED OBVIOUS
<1> QED BY <1>6, <1>7, <1>8 DEF Gone

LEMMA EntriesAre ==
    ASSUME NEW d, NEW text, Good(d, text)
    PROVE  /\ \A u, i : <<u, i>> \in Entries(d, text) => u \in Words /\ i \in 0..Len(d.table) - 1
           /\ \A u, i, j : <<u, i>> \in Entries(d, text) /\ <<u, j>> \in Entries(d, text) => i = j
           /\ \A u, v, i : <<u, i>> \in Entries(d, text) /\ <<v, i>> \in Entries(d, text) => u = v
           /\ \A u \in Gone(d, text) : \E i : <<u, i>> \in Entries(d, text)
<1>1. ASSUME NEW u, NEW i, <<u, i>> \in Entries(d, text)
      PROVE  \E p \in Terminals(d) : text[p] = u /\ d.trie[p].id = i
  BY <1>1 DEF Entries
<1>2. ASSUME NEW u, NEW i, <<u, i>> \in Entries(d, text)
      PROVE  u \in Words /\ i \in 0..Len(d.table) - 1
  <2>1. PICK p \in Terminals(d) : text[p] = u /\ d.trie[p].id = i
    BY <1>1, <1>2
  <2>2. p \in Live(d) /\ IsTerminal(d.trie[p]) /\ i # None
    BY <2>1 DEF Terminals, IsTerminal
  <2>3. u \in Words
    BY <2>1, <2>2 DEF Good, Spells
  <2>4. i \in 0..Len(d.table) - 1 \cup {None}
    BY <2>1, <2>2, IdIs DEF Good
  <2> QED BY <2>2, <2>3, <2>4
<1>3. ASSUME NEW u, NEW i, NEW j, <<u, i>> \in Entries(d, text), <<u, j>> \in Entries(d, text)
      PROVE  i = j
  <2>1. PICK p \in Terminals(d) : text[p] = u /\ d.trie[p].id = i
    BY <1>1, <1>3
  <2>2. PICK q \in Terminals(d) : text[q] = u /\ d.trie[q].id = j
    BY <1>1, <1>3
  <2> QED BY <2>1, <2>2, OneTerminal
<1>4. ASSUME NEW u, NEW v, NEW i, <<u, i>> \in Entries(d, text), <<v, i>> \in Entries(d, text)
      PROVE  u = v
  <2>1. PICK p \in Terminals(d) : text[p] = u /\ d.trie[p].id = i
    BY <1>1, <1>4
  <2>2. PICK q \in Terminals(d) : text[q] = v /\ d.trie[q].id = i
    BY <1>1, <1>4
  <2> QED BY <2>1, <2>2, OneTerminal
<1>5. ASSUME NEW u \in Gone(d, text)
      PROVE  \E i : <<u, i>> \in Entries(d, text)
  <2>1. PICK p \in Live(d) : d.trie[p].flag = "deleted" /\ text[p] = u
    BY DEF Gone
  <2>2. p \in Terminals(d)
    BY <2>1 DEF Good, Ids, Terminals
  <2>3. <<text[p], d.trie[p].id>> \in Entries(d, text)
    BY <2>2 DEF Entries
  <2> QED BY <2>1, <2>3
<1> QED BY <1>2, <1>3, <1>4, <1>5

-----------------------------------------------------------------------------
(* What adding a word does.  A removed word that branches off inside the   *)
(* last letters of the new one's node is known again.                      *)

Splits(u, w) == Head(u) = Head(w) /\ ~IsPrefix(u, w)

Tells(d, text, x, text2, w, id, G) ==
    /\ id = Len(d.table) \/ <<w, id>> \in Entries(d, text)
    /\ Entries(x, text2) = Entries(d, text) \cup {<<w, id>>}
    /\ G \subseteq {u \in Gone(d, text) : Splits(u, w)}
    /\ Gone(x, text2) = Gone(d, text) \ (G \cup {w})

Added(d, text, x, text2, w, e) ==
    /\ IsDict(x) /\ x.count = d.count
    /\ Good(x, text2) /\ Len(d.table) <= Len(x.table)
    /\ \E id, G : Tells(d, text, x, text2, w, id, G) /\ x.lm = LmSet(d.lm, <<id>>, e)

\* The word of the node q, which tells of no word yet.
Waiting(d, text, z, text2, w, q, G) ==
    /\ Good(z, text2) /\ Len(z.table) = Len(d.table)
    /\ Entries(z, text2) = Entries(d, text)
    /\ G \subseteq {u \in Gone(d, text) : Splits(u, w)}
    /\ Gone(z, text2) = Gone(d, text) \ G
    /\ q \in Live(z) /\ z.trie[q].id = None /\ z.trie[q].flag = "plain"
    /\ text2[q] = w /\ w \in Words

LEMMA AddedNew ==
    ASSUME NEW d, NEW text, Good(d, text), NEW z, NEW text2, NEW w, NEW q, NEW G,
           Waiting(d, text, z, text2, w, q, G),
           NEW x, GiveId(z, x, q), IsDict(x), x.count = d.count,
           NEW e, x.lm = LmSet(d.lm, <<Len(d.table)>>, e)
    PROVE  Added(d, text, x, text2, w, e)
<1> DEFINE id == Len(d.table)
<1>1. /\ Good(z, text2) /\ Len(z.table) = id /\ q \in Live(z) /\ z.trie[q].id = None
      /\ z.trie[q].flag = "plain" /\ text2[q] \in Words /\ text2[q] = w
      /\ Entries(z, text2) = Entries(d, text)
      /\ G \subseteq {u \in Gone(d, text) : Splits(u, w)}
      /\ Gone(z, text2) = Gone(d, text) \ G
  BY DEF Waiting
<1>2. Good(x, text2)
  BY <1>1, GiveIdIsGood
<1>3. Entries(x, text2) = Entries(d, text) \cup {<<w, id>>} /\ Gone(x, text2) = Gone(d, text) \ G
  BY <1>1, GiveIdEntries
<1>4. w \notin Gone(d, text)
  <2> SUFFICES ASSUME w \in Gone(d, text) PROVE FALSE
    OBVIOUS
  <2>1. PICK i : <<w, i>> \in Entries(d, text)
    BY EntriesAre
  <2>2. i \in 0..id - 1
    BY <2>1, EntriesAre
  <2>3. i = id
    BY <1>2, <1>3, <2>1, EntriesAre
  <2>4. id \in Nat
    BY BuffersAre DEF Good
  <2> QED BY <2>2, <2>3, <2>4
<1>5. Tells(d, text, x, text2, w, id, G)
  BY <1>1, <1>3, <1>4 DEF Tells
<1>6. Len(d.table) <= Len(x.table)
  <2>1. z.table \in Seq(Nat \cup {None}) /\ Len(z.table) = id /\ id \in Nat
    BY <1>1, BuffersAre DEF Good
  <2>2. Len(x.table) = id + 1
    BY <2>1, AppendFun DEF GiveId
  <2> QED BY <2>1, <2>2
<1> QED BY <1>2, <1>5, <1>6 DEF Added

With(t, n) == [q \in 1..Len(t) + 1 |-> IF q = Len(t) + 1 THEN n ELSE t[q]]

\* Writing a node with a new id at the end is writing a leaf and giving it the id.
LEMMA GivenAtEnd ==
    ASSUME NEW z, NEW S, NEW t \in Seq(S), NEW u, NEW c, NEW children,
           z.trie = With(t, Rec("plain", u, c, None, children)),
           NEW x, x.trie = Append(t, Rec("plain", u, c, Len(z.table), children)),
           x.arrays = z.arrays, x.table = Append(z.table, Len(t) + 1)
    PROVE  GiveId(z, x, Len(t) + 1)
<1> DEFINE e == Len(t) + 1
           n == Rec("plain", u, c, None, children)
           m == Rec("plain", u, c, Len(z.table), children)
<1>1. /\ x.trie = [q \in 1..e |-> IF q = e THEN m ELSE t[q]]
      /\ z.trie = [q \in 1..e |-> IF q = e THEN n ELSE t[q]]
  BY AppendFun DEF With
<1>2. e \in 1..e /\ DOMAIN z.trie = 1..e /\ z.trie[e] = n
  BY <1>1, LenProperties
<1>3. Rec("plain", n.parent, n.chars, Len(z.table), n.children) = m
  BY DEF Rec
<1> HIDE DEF n, m, e
<1>4. \A q \in 1..e : q # e => z.trie[q] = t[q]
  BY <1>1
<1>5. x.trie = [q \in DOMAIN z.trie |->
                   IF q = e THEN Rec("plain", z.trie[e].parent, z.trie[e].chars, Len(z.table),
                                     z.trie[e].children)
                   ELSE z.trie[q]]
  BY <1>1, <1>2, <1>3, <1>4
<1> QED BY <1>5 DEF GiveId, e

LEMMA LeafDict ==
    ASSUME NEW d, NEW a, NEW u, NEW c
    PROVE  \E z : /\ Leaf(d, z, a, u, c)
                  /\ IsDict(z) /\ z.lm = d.lm /\ z.count = d.count
<1> DEFINE T == [q \in 1..End(d) |->
                    IF q = End(d) THEN Rec("plain", u, c, None, None) ELSE d.trie[q]]
           A == [b \in DOMAIN d.arrays |->
                      IF b = a THEN Append(d.arrays[a], End(d)) ELSE d.arrays[b]]
           z == DictOf(T, A, d.table, d.lm, d.count)
<1>1. z.trie = T /\ z.arrays = A /\ z.table = d.table /\ IsDict(z) /\ z.lm = d.lm
      /\ z.count = d.count
  <2> HIDE DEF T, A
  <2> QED BY DEF DictOf, IsDict
<1> HIDE DEF z
<1> QED BY <1>1 DEF Leaf

\* A leaf for the rest of a word.
Rest(text, u, c) == (IF u = None THEN <<>> ELSE text[u]) \o c

LEMMA LeafWaits ==
    ASSUME NEW d, NEW text, NEW y, NEW text1, Good(y, text1), NEW G, NEW w,
           Len(y.table) = Len(d.table), Entries(y, text1) = Entries(d, text),
           G \subseteq {u \in Gone(d, text) : Splits(u, w)},
           Gone(y, text1) = Gone(d, text) \ G,
           NEW a, NEW u, NEW c, Missing(y, a, u, c), Rest(text1, u, c) = w, w \in Words,
           NEW z, Leaf(y, z, a, u, c)
    PROVE  Waiting(d, text, z, LeafText(y, text1, u, c), w, End(y), G)
<1> DEFINE text2 == LeafText(y, text1, u, c)
           e == End(y)
<1>1. Good(z, text2) /\ Live(z) = Live(y) \cup {e}
  BY LeafIsGood
<1>2. Entries(z, text2) = Entries(y, text1) /\ Gone(z, text2) = Gone(y, text1)
  BY LeafEntries
<1>3. z.table = y.table
  BY DEF Leaf
<1>4. z.trie[e].id = None /\ z.trie[e].flag = "plain"
  BY EndIs DEF Leaf, Rec, Good
<1>5. text2[e] = w
  BY DEF LeafText, Rest
<1> HIDE DEF text2, e
<1>6. Waiting(d, text, z, text2, w, e, G)
  BY <1>1, <1>2, <1>3, <1>4, <1>5 DEF Waiting
<1> QED BY <1>6 DEF text2, e

LEMMA CreateAndInsertAdds ==
    ASSUME NEW d, IsDict(d), NEW text, Good(d, text), NEW a, NEW u, NEW rest,
           Missing(d, a, u, rest), NEW w \in Words, Rest(text, u, rest) = w, NEW e
    PROVE  \E text2 : Added(d, text, CreateAndInsert(d, a, u, rest, e), text2, w, e)
<1> DEFINE x == CreateAndInsert(d, a, u, rest, e)
           m == Len(d.trie) + 1
           k == Len(d.table)
           v == [d.arrays EXCEPT ![a] = Append(@, m)]
           y == [d EXCEPT !.arrays = v]
           n == NewNode(u, rest, None)
<1>1. x = WriteNewTerminal(y, n, e)
  BY DEF CreateAndInsert
<1>2. y = DictOf(d.trie, v, d.table, d.lm, d.count)
  <2> HIDE DEF v
  <2> QED BY DictWith
<1>3. v = [b \in DOMAIN d.arrays |-> IF b = a THEN Append(d.arrays[a], m) ELSE d.arrays[b]]
  OBVIOUS
<1> HIDE DEF y, v, x
<1>4. IsDict(y) /\ y.trie = d.trie /\ y.arrays = v /\ y.table = d.table /\ y.lm = d.lm
      /\ y.count = d.count
  BY <1>2 DEF DictOf, IsDict
<1>5. Buffers(d) /\ d.trie \in Seq(Node) /\ d.table \in Seq(Nat \cup {None}) /\ k \in Nat
      /\ m \in Nat
  BY BuffersAre DEF Good
<1>6. n = Rec("plain", u, rest, None, None) /\ n.id = None /\ n.flag = "plain" /\ n.parent = u
      /\ n.chars = rest /\ n.children = None
  BY NewNodeIs DEF Rec
<1>7. n \in Node
  <2>1. rest \in Strings
    BY SubstringIs DEF Missing
  <2>2. u \in Nat \cup {None}
    BY <1>5, LiveIs DEF Missing
  <2> QED BY <1>6, <2>1, <2>2 DEF Rec, Node
<1> HIDE DEF n
<1>8. x = DictOf(Append(y.trie, Rec(n.flag, n.parent, n.chars, IdFor(y, n), n.children)),
                 y.arrays, Placed(y.table, IdFor(y, n), Len(y.trie) + 1),
                 LmSet(y.lm, <<IdFor(y, n)>>, e), y.count)
  BY <1>1, <1>4, <1>5, <1>6, <1>7, WriteNewTerminalIs
<1>9. IdFor(y, n) = k /\ Placed(y.table, k, m) = Append(d.table, m)
  BY <1>4, <1>6 DEF IdFor, Placed
<1>10. x = DictOf(Append(d.trie, Rec("plain", u, rest, k, None)), v, Append(d.table, m),
                  LmSet(d.lm, <<k>>, e), d.count)
  BY <1>4, <1>6, <1>8, <1>9
<1>11. /\ x.trie = Append(d.trie, Rec("plain", u, rest, k, None))
       /\ x.arrays = v /\ x.table = Append(d.table, m)
       /\ x.lm = LmSet(d.lm, <<k>>, e) /\ x.count = d.count /\ IsDict(x)
  BY <1>10 DEF DictOf, IsDict
<1>12. PICK z : Leaf(d, z, a, u, rest) /\ IsDict(z)
  BY LeafDict
<1>13. /\ z.trie = With(d.trie, Rec("plain", u, rest, None, None))
       /\ z.arrays = v /\ z.table = d.table
  BY <1>3, <1>12 DEF Leaf, End, With
<1>14. GiveId(z, x, m)
  BY <1>5, <1>11, <1>13, GivenAtEnd
<1> DEFINE text2 == LeafText(d, text, u, rest)
           G == {}
<1>15. Gone(d, text) = Gone(d, text) \ G /\ G \subseteq {t \in Gone(d, text) : Splits(t, w)}
  OBVIOUS
<1> HIDE DEF G, text2
<1>16. Waiting(d, text, z, text2, w, m, G)
  BY <1>12, <1>15, LeafWaits DEF End, text2
<1>17. Added(d, text, x, text2, w, e)
  BY <1>11, <1>14, <1>16, AddedNew
<1> QED BY <1>17 DEF x

LEMMA NewArrayDict ==
    ASSUME NEW d, NEW p
    PROVE  \E z : NewArray(d, z, p) /\ IsDict(z) /\ z.lm = d.lm /\ z.count = d.count
<1> DEFINE T == [q \in DOMAIN d.trie |->
                    IF q = p THEN Rec(d.trie[p].flag, d.trie[p].parent, d.trie[p].chars,
                                      d.trie[p].id, NextArray(d))
                    ELSE d.trie[q]]
           A == Append(d.arrays, <<>>)
           z == DictOf(T, A, d.table, d.lm, d.count)
<1>1. z.trie = T /\ z.arrays = A /\ z.table = d.table /\ IsDict(z) /\ z.lm = d.lm
      /\ z.count = d.count
  <2> HIDE DEF T, A
  <2> QED BY DEF DictOf, IsDict
<1> HIDE DEF z
<1> QED BY <1>1 DEF NewArray

\* The first child of a node that had none.
LEMMA NewArrayMisses ==
    ASSUME NEW d, NEW text, Good(d, text), NEW p \in Live(d), d.trie[p].children = None,
           NEW y, NewArray(d, y, p), NEW rest \in Substrings
    PROVE  Missing(y, NextArray(d), p, rest)
<1> DEFINE a == NextArray(d)
<1>1. Good(y, text) /\ Live(y) = Live(d) /\ Buffers(d) /\ Tree(d) /\ Buffers(y) /\ Tree(y)
  BY NewArrayIsGood DEF Good
<1>2. p \in DOMAIN d.trie /\ p # None /\ p \in Live(y)
  BY <1>1, LiveIs
<1>3. y.trie[p].children = a /\ \A q \in Live(d) \ {p} : y.trie[q] = d.trie[q]
  BY <1>2 DEF NewArray, Rec, Live
<1>4. y.trie[p].parent = d.trie[p].parent
  BY <1>2 DEF NewArray, Rec
<1>5. a \in DOMAIN y.arrays
  <2>1. d.arrays \in Seq(Seq(Nat)) /\ Len(d.arrays) \in Nat
    BY <1>1, BuffersAre
  <2>2. DOMAIN y.arrays = 1..Len(d.arrays) + 1
    BY <2>1, AppendFun DEF NewArray
  <2> QED BY <2>1, <2>2 DEF NextArray
<1>6. a # None
  BY <1>1, BuffersAre, Constants DEF NextArray
<1> HIDE DEF a
<1>7. \A q \in Live(y) : Home(y, q) # a
  <2> SUFFICES ASSUME NEW q \in Live(y), Home(y, q) = a PROVE FALSE
    OBVIOUS
  <2>1. y.trie[q].parent = p
    BY <1>1, <1>2, <1>3, <1>6, HomeIs
  <2>2. d.trie[q].parent = p
    BY <1>1, <1>3, <1>4, <2>1
  <2> QED BY <1>1, <2>2, NoKids
<1> QED BY <1>2, <1>3, <1>5, <1>7 DEF Missing, a

\* Where the first child is.
LEMMA FirstChildArrays ==
    ASSUME NEW S, NEW A \in Seq(S), NEW m
    PROVE  [b \in DOMAIN Append(A, <<>>) |->
               IF b = Len(A) + 1 THEN Append(Append(A, <<>>)[Len(A) + 1], m)
               ELSE Append(A, <<>>)[b]]
              = Append(A, <<m>>)
<1> DEFINE n == Len(A)
           B == Append(A, <<>>)
<1>1. n \in Nat /\ DOMAIN A = 1..n
  BY LenProperties
<1>2. B = [b \in 1..n + 1 |-> IF b = n + 1 THEN <<>> ELSE A[b]]
  BY AppendFun
<1>3. Append(A, <<m>>) = [b \in 1..n + 1 |-> IF b = n + 1 THEN <<m>> ELSE A[b]]
  BY AppendFun
<1>4. Append(<<>>, m) = <<m>>
  OBVIOUS
<1> HIDE DEF B, n
<1>5. DOMAIN B = 1..n + 1 /\ n + 1 \in 1..n + 1
  BY <1>1, <1>2
<1>6. \A b \in 1..n + 1 : B[b] = IF b = n + 1 THEN <<>> ELSE A[b]
  BY <1>2
<1>7. [b \in DOMAIN B |-> IF b = n + 1 THEN Append(B[n + 1], m) ELSE B[b]] = Append(A, <<m>>)
  BY <1>3, <1>4, <1>5, <1>6
<1> QED BY <1>7 DEF B, n

LEMMA CreateChildAdds ==
    ASSUME NEW d, IsDict(d), NEW text, Good(d, text), NEW p \in Live(d),
           d.trie[p].children = None, NEW rest \in Substrings,
           NEW w \in Words, text[p] \o rest = w, NEW e
    PROVE  \E text2 : Added(d, text, CreateChild(d, p, rest, e), text2, w, e)
<1> DEFINE x == CreateChild(d, p, rest, e)
           m == Len(d.trie) + 1
           k == Len(d.table)
           a == NextArray(d)
           T == [d.trie EXCEPT ![p].children = a]
           y0 == [d EXCEPT !.trie = T]
           y == WriteArray(y0, <<m>>)
           n == NewNode(p, rest, None)
           A == Append(d.arrays, <<m>>)
<1>1. x = WriteNewTerminal(y, n, e)
  BY DEF CreateChild, NextArray
<1>2. /\ Buffers(d) /\ d.trie \in Seq(Node) /\ d.table \in Seq(Nat \cup {None}) /\ k \in Nat
      /\ m \in Nat /\ DOMAIN d.trie = 1..Len(d.trie) /\ d.arrays \in Seq(Seq(Nat))
      /\ Len(d.arrays) \in Nat
  BY BuffersAre DEF Good
<1>3. p \in DOMAIN d.trie /\ p # None /\ p \in Nat /\ d.trie[p] \in Node
  BY <1>2, LiveIs, NodeIs
<1>4. y0 = DictOf(T, d.arrays, d.table, d.lm, d.count)
  <2> HIDE DEF T
  <2> QED BY DictWith
<1>5. T = [q \in DOMAIN d.trie |->
                    IF q = p THEN Rec(d.trie[p].flag, d.trie[p].parent, d.trie[p].chars,
                                      d.trie[p].id, a)
                    ELSE d.trie[q]]
  <2> DEFINE N == d.trie[p]
             b == a
  <2>1. [N EXCEPT !.children = b] = Rec(N.flag, N.parent, N.chars, N.id, b)
    <3> HIDE DEF N, b
    <3> QED BY <1>3, NodeWith DEF N
  <2>2. T = [q \in DOMAIN d.trie |-> IF q = p THEN [N EXCEPT !.children = b] ELSE d.trie[q]]
    BY <1>3
  <2> QED BY <2>1, <2>2
<1> HIDE DEF T, y0, y, x, a
<1>6. IsDict(y0) /\ y0.trie = T /\ y0.arrays = d.arrays /\ y0.table = d.table /\ y0.lm = d.lm
      /\ y0.count = d.count
  BY <1>4 DEF DictOf, IsDict
<1>7. y = DictOf(T, A, d.table, d.lm, d.count)
  BY <1>6, WriteArrayIs DEF y
<1> HIDE DEF A
<1>8. IsDict(y) /\ y.trie = T /\ y.arrays = A /\ y.table = d.table /\ y.lm = d.lm
      /\ y.count = d.count
  BY <1>7 DEF DictOf, IsDict
<1>9. n = Rec("plain", p, rest, None, None) /\ n.id = None /\ n.flag = "plain" /\ n.parent = p
      /\ n.chars = rest /\ n.children = None
  BY NewNodeIs DEF Rec
<1>10. n \in Node
  <2>1. rest \in Strings
    BY SubstringIs
  <2> QED BY <1>3, <1>9, <2>1 DEF Rec, Node
<1> HIDE DEF n
<1>11. x = DictOf(Append(y.trie, Rec(n.flag, n.parent, n.chars, IdFor(y, n), n.children)),
                 y.arrays, Placed(y.table, IdFor(y, n), Len(y.trie) + 1),
                 LmSet(y.lm, <<IdFor(y, n)>>, e), y.count)
  BY <1>1, <1>2, <1>8, <1>9, <1>10, WriteNewTerminalIs
<1>12. PICK z1 : NewArray(d, z1, p) /\ IsDict(z1)
  BY NewArrayDict
<1>13. z1.trie = T /\ z1.arrays = Append(d.arrays, <<>>) /\ z1.table = d.table
  BY <1>5, <1>12 DEF NewArray, a
<1>14. Good(z1, text) /\ Live(z1) = Live(d) /\ Missing(z1, a, p, rest)
  BY <1>12, NewArrayIsGood, NewArrayMisses DEF a
<1>15. T \in Seq(Node) /\ Len(T) = Len(d.trie)
  <2>1. T \in Seq(Node) /\ DOMAIN T = 1..Len(T) /\ Len(T) \in Nat
    BY <1>13, <1>14, BuffersAre DEF Good
  <2>2. DOMAIN T = DOMAIN d.trie
    BY <1>5
  <2> QED BY <1>2, <2>1, <2>2
<1>16. IdFor(y, n) = k /\ Placed(y.table, k, m) = Append(d.table, m) /\ Len(y.trie) + 1 = m
  BY <1>8, <1>9, <1>15 DEF IdFor, Placed
<1>17. x = DictOf(Append(T, Rec("plain", p, rest, k, None)), A, Append(d.table, m),
                  LmSet(d.lm, <<k>>, e), d.count)
  BY <1>8, <1>9, <1>11, <1>16
<1>18. /\ x.trie = Append(T, Rec("plain", p, rest, k, None))
       /\ x.arrays = A /\ x.table = Append(d.table, m)
       /\ x.lm = LmSet(d.lm, <<k>>, e) /\ x.count = d.count /\ IsDict(x)
  BY <1>17 DEF DictOf, IsDict
<1>19. PICK z : Leaf(z1, z, a, p, rest) /\ IsDict(z)
  BY LeafDict
<1>20. End(z1) = m /\ m = Len(T) + 1
  BY <1>13, <1>15 DEF End
<1>21. z.trie = With(T, Rec("plain", p, rest, None, None)) /\ z.table = d.table
  BY <1>13, <1>15, <1>19, <1>20 DEF Leaf, With
<1>22. z.arrays = A
  <2> DEFINE B == Append(d.arrays, <<>>)
  <2>1. z.arrays = [b \in DOMAIN B |-> IF b = a THEN Append(B[a], m) ELSE B[b]]
    BY <1>13, <1>19, <1>20 DEF Leaf
  <2>2. [b \in DOMAIN B |-> IF b = Len(d.arrays) + 1 THEN Append(B[Len(d.arrays) + 1], m) ELSE B[b]]
           = Append(d.arrays, <<m>>)
    BY <1>2, FirstChildArrays
  <2> QED BY <2>1, <2>2 DEF a, A, NextArray
<1>23. GiveId(z, x, m)
  BY <1>15, <1>18, <1>20, <1>21, <1>22, GivenAtEnd
<1> DEFINE text2 == LeafText(z1, text, p, rest)
           G == {}
<1>24. Entries(z1, text) = Entries(d, text) /\ Gone(z1, text) = Gone(d, text) \ G
       /\ G \subseteq {t \in Gone(d, text) : Splits(t, w)}
  BY <1>12, NewArrayEntries
<1> HIDE DEF G, text2
<1>25. Rest(text, p, rest) = w
  BY <1>3 DEF Rest
<1>26. Waiting(d, text, z, text2, w, m, G)
  BY <1>13, <1>14, <1>19, <1>20, <1>24, <1>25, LeafWaits DEF text2
<1>27. Added(d, text, x, text2, w, e)
  BY <1>18, <1>23, <1>26, AddedNew
<1> QED BY <1>27 DEF x

\* Nothing but the buffers of the trie matters to what holds of them.
LEMMA GoodSame ==
    ASSUME NEW d, NEW text, Good(d, text),
           NEW x, x.trie = d.trie, x.arrays = d.arrays, x.table = d.table
    PROVE  /\ Good(x, text) /\ Live(x) = Live(d)
           /\ Entries(x, text) = Entries(d, text) /\ Gone(x, text) = Gone(d, text)
<1>1. Live(x) = Live(d)
  BY DEF Live
<1>2. Fetched(x) = Fetched(d)
  BY DEF Fetched
<1>3. \A a : Siblings(x, a) = Siblings(d, a)
  BY <1>2 DEF Siblings
<1>4. \A p : Home(x, p) = Home(d, p)
  BY DEF Home
<1>5. \A p : NodeOK(x, p) <=> NodeOK(d, p)
  BY <1>1 DEF NodeOK
<1>6. Buffers(x)
  BY <1>5 DEF Good, Buffers, Shape
<1>7. Tree(x)
  BY <1>1, <1>3, <1>4 DEF Good, Tree
<1>8. Ids(x)
  BY <1>1 DEF Good, Ids
<1>9. Spells(x, text)
  BY <1>1 DEF Good, Spells, Above
<1>10. Entries(x, text) = Entries(d, text) /\ Gone(x, text) = Gone(d, text)
  BY <1>1 DEF Entries, Gone, Terminals
<1> QED BY <1>1, <1>6, <1>7, <1>8, <1>9, <1>10 DEF Good

LEMMA CopyDict ==
    ASSUME NEW d, NEW p
    PROVE  \E z : CopyTo(d, z, p) /\ IsDict(z) /\ z.lm = d.lm /\ z.count = d.count
<1> DEFINE T == [q \in 1..End(d) |->
                    IF q = End(d)
                    THEN Rec("plain", d.trie[p].parent, d.trie[p].chars, d.trie[p].id,
                             d.trie[p].children)
                    ELSE IF q = p
                    THEN Rec("moved", End(d), d.trie[p].chars, d.trie[p].id, d.trie[p].children)
                    ELSE IF q \in Live(d) /\ d.trie[q].parent = p
                    THEN Rec(d.trie[q].flag, End(d), d.trie[q].chars, d.trie[q].id,
                             d.trie[q].children)
                    ELSE d.trie[q]]
           B == IF d.trie[p].id = None THEN d.table
                ELSE [d.table EXCEPT ![d.trie[p].id + 1] = End(d)]
           z == DictOf(T, d.arrays, B, d.lm, d.count)
<1>1. z.trie = T /\ z.arrays = d.arrays /\ z.table = B /\ IsDict(z) /\ z.lm = d.lm
      /\ z.count = d.count
  <2> HIDE DEF T, B
  <2> QED BY DEF DictOf, IsDict
<1> HIDE DEF z
<1> QED BY <1>1 DEF CopyTo

LEMMA KnownIsNotGone ==
    ASSUME NEW d, NEW text, Good(d, text), NEW p \in Terminals(d), d.trie[p].flag # "deleted"
    PROVE  text[p] \notin Gone(d, text)
<1> SUFFICES ASSUME NEW r \in Live(d), d.trie[r].flag = "deleted", text[r] = text[p]
             PROVE  FALSE
  BY DEF Gone
<1>1. r \in Terminals(d)
  BY DEF Good, Ids, Terminals
<1> QED BY <1>1, OneTerminal

\* The word is there: its entry changes.
LEMMA SetEntryAdds ==
    ASSUME NEW d, IsDict(d), NEW text, Good(d, text), NEW p \in Terminals(d),
           d.trie[p].flag # "deleted", NEW e
    PROVE  Added(d, text, SetEntry(d, <<d.trie[p].id>>, e), text, text[p], e)
<1> DEFINE id == d.trie[p].id
           x == SetEntry(d, <<id>>, e)
           w == text[p]
           v == LmSet(d.lm, <<id>>, e)
           G == {}
<1>1. x = DictOf(d.trie, d.arrays, d.table, v, d.count)
  BY SetEntryIs
<1>2. <<w, id>> \in Entries(d, text) /\ w \notin Gone(d, text)
  BY KnownIsNotGone DEF Entries
<1> HIDE DEF x, v, w, id
<1>3. x.trie = d.trie /\ x.arrays = d.arrays /\ x.table = d.table /\ x.lm = v
      /\ x.count = d.count /\ IsDict(x)
  BY <1>1 DEF DictOf, IsDict
<1>4. Good(x, text) /\ Entries(x, text) = Entries(d, text) /\ Gone(x, text) = Gone(d, text)
  BY <1>3, GoodSame
<1>5. G \subseteq {u \in Gone(d, text) : Splits(u, w)} /\ Gone(d, text) = Gone(d, text) \ (G \cup {w})
  BY <1>2
<1> HIDE DEF G
<1>6. Tells(d, text, x, text, w, id, G)
  BY <1>2, <1>4, <1>5 DEF Tells
<1>7. Len(d.table) <= Len(x.table)
  BY <1>3, BuffersAre DEF Good
<1>8. Added(d, text, x, text, w, e)
  BY <1>3, <1>4, <1>6, <1>7 DEF Added, v
<1> QED BY <1>8 DEF x, w, id

\* The trie after a copy of p with the given id has taken its place.
CopyWith(d, p, id) ==
    [q \in 1..End(d) |->
        IF q = End(d)
        THEN Rec("plain", d.trie[p].parent, d.trie[p].chars, id, d.trie[p].children)
        ELSE IF q = p
        THEN Rec("moved", End(d), d.trie[p].chars, d.trie[p].id, d.trie[p].children)
        ELSE IF q \in Live(d) /\ d.trie[q].parent = p
        THEN Rec(d.trie[q].flag, End(d), d.trie[q].chars, d.trie[q].id, d.trie[q].children)
        ELSE d.trie[q]]

LEMMA CopiedTrie ==
    ASSUME NEW d, IsDict(d), NEW text, Good(d, text), NEW p \in Live(d), NEW e,
           NEW id, id = IF d.trie[p].id = None THEN Len(d.table) ELSE d.trie[p].id
    PROVE  MarkAsMoved(WriteNewTerminal(d, [d.trie[p] EXCEPT !.flag = "plain"], e), p, End(d), End(d))
              = DictOf(CopyWith(d, p, id), d.arrays, Placed(d.table, id, End(d)),
                       LmSet(d.lm, <<id>>, e), d.count)
<1> DEFINE N == d.trie[p]
           f == "plain"
           m == [N EXCEPT !.flag = f]
           z == WriteNewTerminal(d, m, e)
           E == End(d)
           r == Rec("plain", N.parent, N.chars, id, N.children)
<1>1. /\ Buffers(d) /\ Tree(d) /\ Ids(d)
      /\ d.trie \in Seq(Node) /\ d.table \in Seq(Nat \cup {None}) /\ Len(d.table) \in Nat
      /\ DOMAIN d.trie = 1..Len(d.trie) /\ Len(d.trie) \in Nat
  BY BuffersAre DEF Good
<1>2. p \in DOMAIN d.trie /\ N \in Node /\ N.children \in DOMAIN d.arrays \cup {None}
  BY <1>1, LiveIs, NodeIs
<1>3. m = Rec("plain", N.parent, N.chars, N.id, N.children)
  <2> HIDE DEF N, f
  <2>1. [N EXCEPT !.flag = f] = Rec(f, N.parent, N.chars, N.id, N.children)
    BY <1>2, NodeWith
  <2> QED BY <2>1 DEF f
<1>4. m \in Node /\ m.id = N.id /\ m.flag = "plain" /\ m.parent = N.parent /\ m.chars = N.chars
      /\ m.children = N.children
  <2> HIDE DEF N, m
  <2> QED BY <1>2, <1>3 DEF Rec, Node
<1>5. N.id \in 0..Len(d.table) \cup {None}
  <2>1. N.id \in 0..Len(d.table) - 1 \cup {None}
    BY <1>1, IdIs
  <2> QED BY <1>1, <2>1
<1>6. IdFor(d, m) = id
  BY <1>4 DEF IdFor
<1> HIDE DEF m, N, f, z
<1>7. z = DictOf(Append(d.trie, Rec(m.flag, m.parent, m.chars, IdFor(d, m), m.children)),
                 d.arrays, Placed(d.table, IdFor(d, m), Len(d.trie) + 1),
                 LmSet(d.lm, <<IdFor(d, m)>>, e), d.count)
  BY <1>1, <1>4, <1>5, WriteNewTerminalIs DEF z
<1>8. /\ IsDict(z) /\ z.trie = Append(d.trie, r) /\ z.arrays = d.arrays
      /\ z.table = Placed(d.table, id, E) /\ z.lm = LmSet(d.lm, <<id>>, e) /\ z.count = d.count
  BY <1>4, <1>6, <1>7 DEF DictOf, IsDict, End
<1>9. z.trie = [q \in 1..E |-> IF q = E THEN r ELSE d.trie[q]]
  <2> HIDE DEF r
  <2> QED BY <1>1, <1>8, AppendFun DEF End
<1>10. Len(z.trie) = E
  <2> HIDE DEF r
  <2> QED BY <1>1, <1>8, AppendFun DEF End
<1>11. r.flag = "plain"
  BY DEF Rec
<1> HIDE DEF r
<1>12. E \notin DOMAIN d.trie /\ E \in 1..E /\ 1..E = DOMAIN d.trie \cup {E} /\ E \in Nat
       /\ Live(d) \subseteq DOMAIN d.trie
  BY <1>1, EndIs
<1> HIDE DEF E
<1>13. Grown(d, z, N.children)
  <2>1. DOMAIN z.trie = 1..Len(z.trie) /\ Len(z.trie) \in Nat /\ Len(d.trie) <= Len(z.trie)
    BY <1>1, <1>9, <1>10, <1>12 DEF E, End
  <2>2. \A q \in DOMAIN d.trie : z.trie[q] = d.trie[q]
    BY <1>9, <1>12
  <2>3. \A q \in DOMAIN z.trie \ DOMAIN d.trie : z.trie[q].flag # "moved"
    BY <1>9, <1>11, <1>12
  <2> QED BY <1>8, <2>1, <2>2, <2>3 DEF Grown
<1> DEFINE T == [q \in DOMAIN z.trie |->
                           IF q = p
                           THEN Rec("moved", E, d.trie[p].chars, d.trie[p].id, d.trie[p].children)
                           ELSE IF q \in Live(d) /\ d.trie[q].parent = p
                           THEN Rec(d.trie[q].flag, E, d.trie[q].chars, d.trie[q].id,
                                    d.trie[q].children)
                           ELSE z.trie[q]]
           U == [q \in 1..E |->
                           IF q = E THEN r
                           ELSE IF q = p
                           THEN Rec("moved", E, d.trie[p].chars, d.trie[p].id,
                                    d.trie[p].children)
                           ELSE IF q \in Live(d) /\ d.trie[q].parent = p
                           THEN Rec(d.trie[q].flag, E, d.trie[q].chars, d.trie[q].id,
                                    d.trie[q].children)
                           ELSE d.trie[q]]
<1>14. MarkAsMoved(z, p, E, E) = DictOf(T, z.arrays, z.table, z.lm, z.count)
  <2>1. MarkAsMoved(z, p, E, E)
           = DictOf(MovedTrie(d, z, p, E, E), z.arrays, z.table, z.lm, z.count)
    BY <1>1, <1>8, <1>13, MarkAsMovedIs DEF N
  <2>2. T = MovedTrie(d, z, p, E, E)
    BY DEF MovedTrie
  <2> QED BY <2>1, <2>2
<1>15. T = U
  <2>1. E # p /\ E \notin Live(d)
    BY <1>2, <1>12
  <2> QED BY <1>9, <1>12, <2>1
<1>16. MarkAsMoved(z, p, E, E)
          = DictOf(U, d.arrays, Placed(d.table, id, E), LmSet(d.lm, <<id>>, e), d.count)
  BY <1>8, <1>14, <1>15
<1>17. U = CopyWith(d, p, id)
  BY DEF CopyWith, E, r, N
<1> QED BY <1>16, <1>17 DEF z, m, f, E, N

LEMMA SetProbabilityAdds ==
    ASSUME NEW d, IsDict(d), NEW text, Good(d, text), NEW p \in Live(d), text[p] \in Words, NEW e
    PROVE  \E text2 : Added(d, text, SetProbability(d, p, e), text2, text[p], e)
<1> DEFINE N == d.trie[p]
           w == text[p]
           x == SetProbability(d, p, e)
           k == Len(d.table)
           E == End(d)
           text2 == CopyText(d, text, p)
           G == {}
<1>1. /\ Buffers(d) /\ Tree(d) /\ Ids(d)
      /\ d.table \in Seq(Nat \cup {None}) /\ k \in Nat
      /\ DOMAIN d.table = 1..k
  BY BuffersAre DEF Good
<1>2. CASE IsTerminal(N) /\ N.flag # "deleted"
  <2>1. x = SetEntry(d, <<N.id>>, e)
    BY <1>2 DEF SetProbability
  <2>2. p \in Terminals(d)
    BY <1>2 DEF Terminals
  <2>3. Added(d, text, SetEntry(d, <<d.trie[p].id>>, e), text, text[p], e)
    BY <1>2, <2>2, SetEntryAdds
  <2> QED BY <2>1, <2>3
<1>3. x = MarkAsMoved(WriteNewTerminal(d, [d.trie[p] EXCEPT !.flag = "plain"], e), p, E, E)
      \/ (IsTerminal(N) /\ N.flag # "deleted")
  BY DEF SetProbability, End
<1>4. G \subseteq {u \in Gone(d, text) : Splits(u, w)}
      /\ \A H : H \ G = H /\ H \ (G \cup {w}) = H \ {w}
  OBVIOUS
<1> HIDE DEF x, E, text2, w, G
<1>5. CASE N.id = None
  <2>1. x = MarkAsMoved(WriteNewTerminal(d, [d.trie[p] EXCEPT !.flag = "plain"], e), p, E, E)
    BY <1>3, <1>5 DEF IsTerminal
  <2>2. x = DictOf(CopyWith(d, p, k), d.arrays, Placed(d.table, k, E), LmSet(d.lm, <<k>>, e),
                   d.count)
    BY <1>5, <2>1, CopiedTrie DEF E
  <2>3. /\ x.trie = CopyWith(d, p, k) /\ x.arrays = d.arrays /\ x.table = Append(d.table, E)
        /\ x.lm = LmSet(d.lm, <<k>>, e) /\ x.count = d.count /\ IsDict(x)
    BY <2>2 DEF DictOf, IsDict, Placed
  <2>4. PICK y : CopyTo(d, y, p)
    BY CopyDict
  <2>5. Good(y, text2) /\ Live(y) = (Live(d) \ {p}) \cup {E}
        /\ Entries(y, text2) = Entries(d, text) /\ Gone(y, text2) = Gone(d, text)
    BY <1>5, <2>4, CopyIsGood, CopyEntries DEF E, text2, GoneWithout, IsTerminal
  <2>6. y.table = d.table /\ y.arrays = d.arrays
    BY <1>5, <2>4 DEF CopyTo
  <2>7. E \in 1..E
    BY <1>1, EndIs DEF E
  <2>8. y.trie[E] = Rec("plain", N.parent, N.chars, N.id, N.children)
    BY <2>4, <2>7 DEF CopyTo, E
  <2>9. y.trie[E].id = None /\ y.trie[E].flag = "plain" /\ y.trie[E].parent = N.parent
        /\ y.trie[E].chars = N.chars /\ y.trie[E].children = N.children
    BY <1>5, <2>8 DEF Rec
  <2>10. text2[E] = w
    BY DEF text2, CopyText, E, w
  <2>11. Waiting(d, text, y, text2, w, E, G)
    BY <1>4, <2>5, <2>6, <2>9, <2>10 DEF Waiting, w
  <2>12. x.trie = [q \in DOMAIN y.trie |->
                      IF q = E THEN Rec("plain", y.trie[E].parent, y.trie[E].chars, Len(y.table),
                                        y.trie[E].children)
                      ELSE y.trie[q]]
    <3>1. DOMAIN y.trie = 1..E
      BY <2>4 DEF CopyTo, E
    <3>2. ASSUME NEW q \in 1..E, q # E
          PROVE  x.trie[q] = y.trie[q]
      BY <2>3, <2>4, <3>2 DEF CopyTo, CopyWith, E
    <3>3. x.trie[E] = Rec("plain", N.parent, N.chars, k, N.children)
      BY <2>3, <2>7 DEF CopyWith, E
    <3>4. x.trie = [q \in 1..E |-> x.trie[q]]
      BY <2>3 DEF CopyWith, E
    <3> QED BY <2>6, <2>9, <3>1, <3>2, <3>3, <3>4
  <2>13. GiveId(y, x, E)
    BY <2>3, <2>6, <2>12 DEF GiveId
  <2>14. Added(d, text, x, text2, w, e)
    BY <2>3, <2>11, <2>13, AddedNew
  <2> QED BY <2>14 DEF x, w
<1>6. CASE IsTerminal(N) /\ N.flag = "deleted"
  <2> DEFINE id == N.id
  <2>1. x = MarkAsMoved(WriteNewTerminal(d, [d.trie[p] EXCEPT !.flag = "plain"], e), p, E, E)
    BY <1>3, <1>6
  <2>2. id # None /\ id \in 0..k - 1 /\ id + 1 \in 1..k
    BY <1>1, <1>6, IdIs DEF IsTerminal
  <2>3. x = DictOf(CopyWith(d, p, id), d.arrays, Placed(d.table, id, E), LmSet(d.lm, <<id>>, e),
                   d.count)
    BY <2>1, <2>2, CopiedTrie DEF E
  <2>4. Placed(d.table, id, E) = [d.table EXCEPT ![id + 1] = E]
    BY <1>1, <2>2 DEF Placed
  <2>5. /\ x.trie = CopyWith(d, p, id) /\ x.arrays = d.arrays
        /\ x.table = [d.table EXCEPT ![id + 1] = E]
        /\ x.lm = LmSet(d.lm, <<id>>, e) /\ x.count = d.count /\ IsDict(x)
    BY <2>3, <2>4 DEF DictOf, IsDict
  <2>6. CopyTo(d, x, p)
    BY <2>2, <2>5 DEF CopyTo, CopyWith, E
  <2>7. /\ Good(x, text2) /\ Entries(x, text2) = Entries(d, text)
        /\ Gone(x, text2) = Gone(d, text) \ {w}
    BY <1>6, <2>6, CopyIsGood, CopyEntries DEF text2, GoneWithout, w
  <2>8. <<w, id>> \in Entries(d, text)
    BY <1>6 DEF Entries, Terminals, w
  <2>9. Tells(d, text, x, text2, w, id, G)
    BY <1>4, <2>7, <2>8 DEF Tells
  <2>10. Len(x.table) = k
    <3>1. x.table \in Seq(Nat \cup {None}) /\ DOMAIN x.table = 1..Len(x.table) /\ Len(x.table) \in Nat
      BY <2>7, BuffersAre DEF Good
    <3>2. DOMAIN x.table = 1..k
      BY <1>1, <2>5
    <3> QED BY <1>1, <3>1, <3>2
  <2> HIDE DEF id
  <2>11. Added(d, text, x, text2, w, e)
    BY <1>1, <2>5, <2>7, <2>9, <2>10 DEF Added
  <2> QED BY <2>11 DEF x, w
<1> QED BY <1>2, <1>5, <1>6 DEF IsTerminal, x, w
=============================================================================
