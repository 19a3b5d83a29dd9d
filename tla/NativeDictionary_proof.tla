------------------------ MODULE NativeDictionary_proof ------------------------
(***************************************************************************)
(* The native dictionary that can be changed (PatriciaTrie): its three     *)
(* invariants hold after every sequence of its operations, for any words,  *)
(* and to its caller it is the store of words of WordStore.  And the keys  *)
(* of the map its language model is kept in (TrieKey): shuffling one loses *)
(* nothing.                                                                *)
(*                                                                         *)
(* The inductive invariant is IndInv: the buffers are Good, as             *)
(* PatriciaTrie_proof says it, the language model speaks of ids of the     *)
(* table (LmOK), a removed word has no entry (Cleared), and known is what  *)
(* the buffers tell.  The chapters follow the code: splitting a node,      *)
(* adding a word, the language model, garbage collection; then what each   *)
(* operation does to the words and their entries (Seen).                   *)
(***************************************************************************)
EXTENDS PatriciaTrie_proof, TrieKey

-----------------------------------------------------------------------------
(* Splitting a node: it is copied, and the copy is broken.                 *)

First2(d) == Len(d.trie) + 1
Second(d) == Len(d.trie) + 2

\* The trie then; the first part of the node has the given id.
SplitTrie(d, p, j, id) ==
    [q \in 1..Second(d) |->
        IF q = Second(d)
        THEN Rec("plain", First2(d), Skip(d.trie[p].chars, j), d.trie[p].id, d.trie[p].children)
        ELSE IF q = First2(d)
        THEN Rec("plain", d.trie[p].parent, SubSeq(d.trie[p].chars, 1, j), id, NextArray(d))
        ELSE IF q = p
        THEN Rec("moved", First2(d), d.trie[p].chars, d.trie[p].id, d.trie[p].children)
        ELSE IF q \in Live(d) /\ d.trie[q].parent = p
        THEN Rec(d.trie[q].flag, Second(d), d.trie[q].chars, d.trie[q].id, d.trie[q].children)
        ELSE d.trie[q]]

SplitTable(d, p) ==
    IF d.trie[p].id = None THEN d.table ELSE [d.table EXCEPT ![d.trie[p].id + 1] = Second(d)]

LEMMA BreakDict ==
    ASSUME NEW d, NEW p, NEW j
    PROVE  \E z : Break(d, z, p, j)
<1> DEFINE T == [q \in 1..End(d) |->
                    IF q = End(d)
                    THEN Rec("plain", p, Skip(d.trie[p].chars, j), d.trie[p].id,
                             d.trie[p].children)
                    ELSE IF q = p
                    THEN Rec("plain", d.trie[p].parent, SubSeq(d.trie[p].chars, 1, j), None,
                             NextArray(d))
                    ELSE IF q \in Live(d) /\ d.trie[q].parent = p
                    THEN Rec(d.trie[q].flag, End(d), d.trie[q].chars, d.trie[q].id,
                             d.trie[q].children)
                    ELSE d.trie[q]]
           A == Append(d.arrays, <<End(d)>>)
           B == IF d.trie[p].id = None THEN d.table
                ELSE [d.table EXCEPT ![d.trie[p].id + 1] = End(d)]
           z == DictOf(T, A, B, d.lm, d.count)
<1>1. z.trie = T /\ z.arrays = A /\ z.table = B
  <2> HIDE DEF T, A, B
  <2> QED BY DEF DictOf
<1> HIDE DEF z
<1> QED BY <1>1 DEF Break

LEMMA BrokenCopy ==
    ASSUME NEW d, NEW text, Good(d, text), NEW p \in Live(d), NEW y, CopyTo(d, y, p),
           NEW j, NEW z, Break(y, z, First2(d), j)
    PROVE  /\ z.trie = SplitTrie(d, p, j, None)
           /\ z.arrays = Append(d.arrays, <<Second(d)>>)
           /\ z.table = SplitTable(d, p)
           /\ y.trie[First2(d)] = Rec("plain", d.trie[p].parent, d.trie[p].chars, d.trie[p].id,
                                      d.trie[p].children)
           /\ End(y) = Second(d)
<1> DEFINE N == d.trie[p]
           F == First2(d)
           E == Second(d)
<1>1. /\ Buffers(d) /\ DOMAIN d.trie = 1..Len(d.trie) /\ Len(d.trie) \in Nat
  BY BuffersAre DEF Good
<1>2. F = End(d) /\ F \in Nat /\ E = F + 1 /\ E # F
  BY <1>1 DEF End, First2, Second
<1>3. Good(y, CopyText(d, text, p)) /\ Live(y) = (Live(d) \ {p}) \cup {F}
  BY <1>2, CopyIsGood
<1>4. DOMAIN y.trie = 1..F
  BY <1>2 DEF CopyTo
<1>5. End(y) = E
  <2>1. DOMAIN y.trie = 1..Len(y.trie) /\ Len(y.trie) \in Nat
    BY <1>3, BuffersAre DEF Good
  <2>2. Len(y.trie) = F
    BY <1>2, <1>4, <2>1
  <2> QED BY <1>2, <2>2 DEF End
<1>6. /\ F \notin Live(d) /\ p \in DOMAIN d.trie /\ p \in Live(d) /\ p # F /\ p # E
      /\ 1..F = DOMAIN d.trie \cup {F} /\ Live(d) \subseteq DOMAIN d.trie /\ F # None
  BY <1>1, <1>2, EndIs, LiveIs
<1>7. 1..E = (DOMAIN d.trie \cup {F}) \cup {E} /\ E \notin DOMAIN d.trie
  <2>1. 1..E = 1..F \cup {E}
    BY <1>2, OneMore
  <2> QED BY <1>1, <1>2, <1>6, <2>1
<1>8. \A q \in Live(d) : d.trie[q].parent # F
  BY <1>1, <1>6, LiveIs
<1>9. /\ y.trie[F] = Rec("plain", N.parent, N.chars, N.id, N.children)
      /\ y.trie[p] = Rec("moved", F, N.chars, N.id, N.children)
      /\ \A q \in Live(d) \ {p} : d.trie[q].parent = p =>
            y.trie[q] = Rec(d.trie[q].flag, F, d.trie[q].chars, d.trie[q].id, d.trie[q].children)
      /\ \A q \in DOMAIN d.trie : q # p /\ (q \notin Live(d) \/ d.trie[q].parent # p) =>
            y.trie[q] = d.trie[q]
  <2> HIDE DEF F, N, E
  <2>1. ASSUME NEW q \in 1..F
        PROVE  y.trie[q] =
                  IF q = F THEN Rec("plain", N.parent, N.chars, N.id, N.children)
                  ELSE IF q = p THEN Rec("moved", F, N.chars, N.id, N.children)
                  ELSE IF q \in Live(d) /\ d.trie[q].parent = p
                  THEN Rec(d.trie[q].flag, F, d.trie[q].chars, d.trie[q].id, d.trie[q].children)
                  ELSE d.trie[q]
    BY <1>2, <2>1 DEF CopyTo, N
  <2>2. F \in 1..F /\ p \in 1..F /\ \A q \in DOMAIN d.trie : q \in 1..F /\ q # F
    BY <1>2, <1>6, EndIs, <1>1
  <2>3. y.trie[F] = Rec("plain", N.parent, N.chars, N.id, N.children)
    BY <2>1, <2>2
  <2>4. y.trie[p] = Rec("moved", F, N.chars, N.id, N.children)
    BY <1>6, <2>1, <2>2
  <2>5. \A q \in Live(d) \ {p} : d.trie[q].parent = p =>
            y.trie[q] = Rec(d.trie[q].flag, F, d.trie[q].chars, d.trie[q].id, d.trie[q].children)
    BY <1>6, <2>1, <2>2
  <2>6. \A q \in DOMAIN d.trie : q # p /\ (q \notin Live(d) \/ d.trie[q].parent # p) =>
            y.trie[q] = d.trie[q]
    BY <1>6, <2>1, <2>2
  <2> QED BY <2>3, <2>4, <2>5, <2>6
<1>10. y.table = (IF N.id = None THEN d.table ELSE [d.table EXCEPT ![N.id + 1] = F])
       /\ y.arrays = d.arrays
  BY <1>2 DEF CopyTo
<1> HIDE DEF F, E, N
<1>11. /\ z.trie = [q \in 1..E |->
                    IF q = E
                    THEN Rec("plain", F, Skip(y.trie[F].chars, j), y.trie[F].id,
                             y.trie[F].children)
                    ELSE IF q = F
                    THEN Rec("plain", y.trie[F].parent, SubSeq(y.trie[F].chars, 1, j), None,
                             NextArray(y))
                    ELSE IF q \in Live(y) /\ y.trie[q].parent = F
                    THEN Rec(y.trie[q].flag, E, y.trie[q].chars, y.trie[q].id,
                             y.trie[q].children)
                    ELSE y.trie[q]]
       /\ z.arrays = Append(y.arrays, <<E>>)
       /\ z.table = IF y.trie[F].id = None THEN y.table
                    ELSE [y.table EXCEPT ![y.trie[F].id + 1] = E]
  BY <1>5 DEF Break, F
<1>12. /\ y.trie[F].parent = N.parent /\ y.trie[F].chars = N.chars /\ y.trie[F].id = N.id
       /\ y.trie[F].children = N.children
  BY <1>9 DEF Rec
<1>13. NextArray(y) = NextArray(d)
  BY <1>10 DEF NextArray
<1>14. /\ z.trie[E] = Rec("plain", F, Skip(N.chars, j), N.id, N.children)
       /\ z.trie[F] = Rec("plain", N.parent, SubSeq(N.chars, 1, j), None, NextArray(d))
  BY <1>2, <1>7, <1>11, <1>12, <1>13
<1>15. z.trie[p] = Rec("moved", F, N.chars, N.id, N.children)
  <2>1. p \notin Live(y) /\ p # E /\ p \in 1..E
    BY <1>3, <1>6, <1>7
  <2> QED BY <1>6, <1>9, <1>11, <2>1
<1>16. ASSUME NEW q \in Live(d) \ {p}, d.trie[q].parent = p
       PROVE  z.trie[q] = Rec(d.trie[q].flag, E, d.trie[q].chars, d.trie[q].id, d.trie[q].children)
  <2>1. q \in Live(y) /\ q # F /\ q # E /\ q \in 1..E
    BY <1>3, <1>6, <1>7
  <2>2. y.trie[q] = Rec(d.trie[q].flag, F, d.trie[q].chars, d.trie[q].id, d.trie[q].children)
    BY <1>9, <1>16
  <2>3. y.trie[q].parent = F /\ y.trie[q].flag = d.trie[q].flag /\ y.trie[q].chars = d.trie[q].chars
        /\ y.trie[q].id = d.trie[q].id /\ y.trie[q].children = d.trie[q].children
    BY <2>2 DEF Rec
  <2> QED BY <1>11, <2>1, <2>3
<1>17. ASSUME NEW q \in DOMAIN d.trie, q # p, q \notin Live(d) \/ d.trie[q].parent # p
       PROVE  z.trie[q] = d.trie[q]
  <2>1. q # F /\ q # E /\ q \in 1..E
    BY <1>1, <1>6, <1>7, EndIs, <1>2
  <2>2. y.trie[q] = d.trie[q]
    BY <1>9, <1>17
  <2>3. ~(q \in Live(y) /\ y.trie[q].parent = F)
    BY <1>3, <1>8, <2>1, <2>2
  <2> QED BY <1>11, <2>1, <2>2, <2>3
<1>18. z.trie = SplitTrie(d, p, j, None)
  <2> DEFINE U == SplitTrie(d, p, j, None)
  <2>1. z.trie = [q \in 1..E |-> z.trie[q]]
    BY <1>11
  <2>2. U = [q \in 1..E |-> U[q]]
    BY DEF SplitTrie, E
  <2>3. ASSUME NEW q \in 1..E PROVE z.trie[q] = U[q]
    <3>1. U[q] = IF q = E THEN Rec("plain", F, Skip(N.chars, j), N.id, N.children)
                 ELSE IF q = F
                 THEN Rec("plain", N.parent, SubSeq(N.chars, 1, j), None, NextArray(d))
                 ELSE IF q = p THEN Rec("moved", F, N.chars, N.id, N.children)
                 ELSE IF q \in Live(d) /\ d.trie[q].parent = p
                 THEN Rec(d.trie[q].flag, E, d.trie[q].chars, d.trie[q].id, d.trie[q].children)
                 ELSE d.trie[q]
      BY DEF SplitTrie, E, F, N
    <3> HIDE DEF U
    <3>2. CASE q \in {E, F, p}
      BY <1>2, <1>6, <1>14, <1>15, <3>1, <3>2
    <3>3. CASE q \notin {E, F, p}
      <4>1. q \in DOMAIN d.trie
        BY <1>7, <3>3
      <4> QED BY <1>16, <1>17, <3>1, <3>3, <4>1
    <3> QED BY <3>2, <3>3
  <2> HIDE DEF U
  <2>4. z.trie = U
    BY <2>1, <2>2, <2>3
  <2> QED BY <2>4 DEF U
<1>19. z.table = SplitTable(d, p)
  <2>1. CASE N.id = None
    BY <1>10, <1>11, <1>12, <2>1 DEF SplitTable, N
  <2>2. CASE N.id # None
    <3>1. z.table = [[d.table EXCEPT ![N.id + 1] = F] EXCEPT ![N.id + 1] = E]
      BY <1>10, <1>11, <1>12, <2>2
    <3>2. [[d.table EXCEPT ![N.id + 1] = F] EXCEPT ![N.id + 1] = E] = [d.table EXCEPT ![N.id + 1] = E]
      OBVIOUS
    <3> QED BY <2>2, <3>1, <3>2 DEF SplitTable, N, E
  <2> QED BY <2>1, <2>2
<1> QED BY <1>5, <1>9, <1>10, <1>11, <1>18, <1>19 DEF F, E, N

\* The word branches off inside the letters of the node, or ends there.
Splitting(d, text, p, j, rest, w) ==
    /\ j \in 1..Len(d.trie[p].chars) - 1 /\ rest \in Strings /\ j <= Len(rest)
    /\ SubSeq(d.trie[p].chars, 1, j) = SubSeq(rest, 1, j)
    /\ Len(rest) > j => rest[j + 1] # d.trie[p].chars[j + 1]
    /\ Above(d, text, p) \o rest = w /\ w \in Words

LEMMA ConcatIs ==
    ASSUME NEW S, NEW s \in Seq(S), NEW t \in Seq(S)
    PROVE  /\ s \o t \in Seq(S) /\ Len(s \o t) = Len(s) + Len(t)
           /\ \A i \in 1..Len(s) : (s \o t)[i] = s[i]
           /\ \A i \in 1..Len(t) : (s \o t)[Len(s) + i] = t[i]
<1>1. Len(s) \in Nat /\ Len(t) \in Nat
  BY LenProperties
<1>2. s \o t \in Seq(S) /\ Len(s \o t) = Len(s) + Len(t)
      /\ \A i \in 1..Len(s) + Len(t) : (s \o t)[i] = IF i <= Len(s) THEN s[i] ELSE t[i - Len(s)]
  BY ConcatProperties
<1>3. \A i \in 1..Len(s) : i \in 1..Len(s) + Len(t) /\ i <= Len(s)
  BY <1>1
<1>4. \A i \in 1..Len(t) : /\ Len(s) + i \in 1..Len(s) + Len(t) /\ ~(Len(s) + i <= Len(s))
                           /\ Len(s) + i - Len(s) = i
  BY <1>1
<1> QED BY <1>2, <1>3, <1>4

\* Both words begin alike, and that of the node is no prefix of the other.
LEMMA SplitsOff ==
    ASSUME NEW d, NEW text, Good(d, text), NEW p \in Live(d), NEW j, NEW rest, NEW w,
           Splitting(d, text, p, j, rest, w)
    PROVE  Splits(text[p], w)
<1> DEFINE u == Above(d, text, p)
           c == d.trie[p].chars
<1>1. Buffers(d) /\ Spells(d, text)
  BY DEF Good
<1>2. /\ u \in Seq(Letters) /\ text[p] \in Seq(Letters) /\ text[p] = u \o c /\ Len(u) \in Nat
      /\ Len(c) \in Nat
  BY <1>1, AboveIs DEF Strings
<1>3. c \in Seq(Letters)
  BY <1>1, LiveIs, NodeIs DEF Strings
<1>4. /\ j \in 1..Len(c) - 1 /\ rest \in Seq(Letters) /\ j <= Len(rest)
      /\ SubSeq(c, 1, j) = SubSeq(rest, 1, j) /\ (Len(rest) > j => rest[j + 1] # c[j + 1])
      /\ u \o rest = w /\ w \in Words
  BY DEF Splitting, Strings
<1> HIDE DEF u, c
<1>5. Len(rest) \in Nat /\ j \in 0..Len(rest) /\ j \in 0..Len(c) /\ 1 \in 1..j
  BY <1>2, <1>4, LenProperties
<1>6. c[1] = rest[1]
  <2>1. SubSeq(c, 1, j)[1] = c[1]
    BY <1>3, <1>5, TakeIs
  <2>2. SubSeq(rest, 1, j)[1] = rest[1]
    BY <1>4, <1>5, TakeIs
  <2> QED BY <1>4, <2>1, <2>2
<1>7. Head(text[p]) = Head(w)
  <2>1. /\ Len(u \o c) = Len(u) + Len(c) /\ (\A i \in 1..Len(u) : (u \o c)[i] = u[i])
        /\ (\A i \in 1..Len(c) : (u \o c)[Len(u) + i] = c[i])
    BY <1>2, <1>3, ConcatIs
  <2>2. /\ Len(u \o rest) = Len(u) + Len(rest) /\ (\A i \in 1..Len(u) : (u \o rest)[i] = u[i])
        /\ (\A i \in 1..Len(rest) : (u \o rest)[Len(u) + i] = rest[i])
    BY <1>2, <1>4, ConcatIs
  <2>3. 1 \in 1..Len(c) /\ 1 \in 1..Len(rest)
    BY <1>2, <1>4, <1>5
  <2>4. (u \o c)[1] = (u \o rest)[1]
    <3>1. CASE Len(u) = 0
      <4>1. (u \o c)[Len(u) + 1] = c[1] /\ (u \o rest)[Len(u) + 1] = rest[1]
        BY <2>1, <2>2, <2>3
      <4>2. Len(u) + 1 = 1
        BY <3>1
      <4> QED BY <1>6, <4>1, <4>2
    <3>2. CASE Len(u) # 0
      <4>1. 1 \in 1..Len(u)
        BY <1>2, <3>2
      <4> QED BY <2>1, <2>2, <4>1
    <3> QED BY <3>1, <3>2
  <2>5. text[p] \in Seq(Letters) /\ w \in Seq(Letters)
    BY <1>2, <1>4, Constants DEF Strings
  <2>6. text[p] # <<>> /\ w # <<>>
    BY <1>2, <1>4, <1>5, <2>1, <2>2
  <2>7. Head(text[p]) = text[p][1] /\ Head(w) = w[1]
    BY <2>5, <2>6, HeadTailProperties
  <2> QED BY <1>2, <1>4, <2>4, <2>7
<1>8. ~IsPrefix(c, rest)
  <2> SUFFICES ASSUME IsPrefix(c, rest) PROVE FALSE
    OBVIOUS
  <2>1. Len(c) <= Len(rest) /\ \A i \in 1..Len(c) : c[i] = rest[i]
    BY <1>3, <1>4, PrefixIs
  <2>2. j + 1 \in 1..Len(c) /\ Len(rest) > j
    BY <1>2, <1>4, <1>5, <2>1
  <2> QED BY <1>4, <2>1, <2>2
<1>9. ~IsPrefix(text[p], w)
  <2>1. w \in Strings
    BY <1>4, Constants
  <2>2. IsPrefix(u, w) /\ Skip(w, Len(u)) = rest
    BY <1>2, <1>4, PrefixAndRest
  <2>3. IsPrefix(text[p], w) <=> IsPrefix(c, Skip(w, Len(u)))
    BY <1>1, <2>1, <2>2, RestIs DEF u, c
  <2> QED BY <1>8, <2>2, <2>3
<1> QED BY <1>7, <1>9 DEF Splits

\* The removed words the copy makes known again.
Ghosts(d, text, p) ==
    IF IsTerminal(d.trie[p]) THEN Gone(d, text) \cap {text[p]} ELSE {}

LEMMA GhostsAre ==
    ASSUME NEW d, NEW text, Good(d, text), NEW p \in Live(d), NEW j, NEW rest, NEW w,
           Splitting(d, text, p, j, rest, w)
    PROVE  /\ Ghosts(d, text, p) \subseteq {u \in Gone(d, text) : Splits(u, w)}
           /\ GoneWithout(d, text, p) = Gone(d, text) \ Ghosts(d, text, p)
BY SplitsOff DEF Ghosts, GoneWithout

SplitText(d, text, p, y, j) == BreakText(y, CopyText(d, text, p), First2(d), j)

LEMMA SplitIsGood ==
    ASSUME NEW d, NEW text, Good(d, text), NEW p \in Live(d), NEW y, CopyTo(d, y, p),
           NEW j \in 1..Len(d.trie[p].chars) - 1, NEW z, Break(y, z, First2(d), j)
    PROVE  /\ Good(z, SplitText(d, text, p, y, j))
           /\ Live(z) = (Live(d) \ {p}) \cup {First2(d), Second(d)}
           /\ SplitText(d, text, p, y, j)[First2(d)]
                 = Above(d, text, p) \o SubSeq(d.trie[p].chars, 1, j)
           /\ Entries(z, SplitText(d, text, p, y, j)) = Entries(d, text)
           /\ Gone(z, SplitText(d, text, p, y, j)) = GoneWithout(d, text, p)
<1> DEFINE F == First2(d)
           N == d.trie[p]
           text1 == CopyText(d, text, p)
           text2 == BreakText(y, text1, F, j)
<1>1. F = End(d) /\ Buffers(d)
  BY DEF First2, End, Good
<1>2. /\ Good(y, text1) /\ Live(y) = (Live(d) \ {p}) \cup {F}
      /\ Entries(y, text1) = Entries(d, text) /\ Gone(y, text1) = GoneWithout(d, text, p)
  BY <1>1, CopyIsGood, CopyEntries
<1>3. /\ End(y) = Second(d)
      /\ y.trie[F] = Rec("plain", N.parent, N.chars, N.id, N.children)
  BY BrokenCopy
<1>4. y.trie[F].parent = N.parent /\ y.trie[F].chars = N.chars /\ y.trie[F].flag = "plain"
  BY <1>3 DEF Rec
<1>5. F \in Live(y)
  BY <1>2
<1>6. Above(y, text1, F) = Above(d, text, p)
  <2>1. CASE N.parent = None
    BY <1>4, <2>1 DEF Above
  <2>2. CASE N.parent # None
    <3>1. N.parent \in Live(d) /\ N.parent # p /\ N.parent # F
      BY <1>1, <2>2, LiveIs, NotOwnParent, EndIs DEF Good
    <3>2. text1[N.parent] = text[N.parent]
      BY <1>1, <3>1 DEF CopyText
    <3> QED BY <1>4, <2>2, <3>2 DEF Above
  <2> QED BY <2>1, <2>2
<1>7. text2[F] = Above(y, text1, F) \o SubSeq(y.trie[F].chars, 1, j)
  <2>1. F # End(y)
    BY <1>2, <1>5, EndIs DEF Good
  <2> QED BY <1>5, <2>1 DEF BreakText
<1>8. j \in 1..Len(y.trie[F].chars) - 1
  BY <1>4
<1> HIDE DEF F, text1, text2, N
<1>9. Good(z, text2) /\ Live(z) = Live(y) \cup {End(y)}
  BY <1>2, <1>4, <1>5, <1>8, BreakIsGood DEF F, text2
<1>10. Entries(z, text2) = Entries(y, text1) /\ Gone(z, text2) = Gone(y, text1)
  BY <1>2, <1>4, <1>5, <1>8, BreakEntries DEF F, text2
<1>11. text2 = SplitText(d, text, p, y, j)
  BY DEF SplitText, text2, text1, F
<1> HIDE DEF SplitText
<1>12. Live(z) = (Live(d) \ {p}) \cup {F, Second(d)}
  BY <1>2, <1>3, <1>9
<1> QED BY <1>2, <1>4, <1>6, <1>7, <1>9, <1>10, <1>11, <1>12 DEF F, N

\* The two parts of a node, as Reallocate writes them.
HeadNode(d, p, j, id) ==
    Rec("plain", d.trie[p].parent, SubSeq(d.trie[p].chars, 1, j), id, NextArray(d))
TailNode(d, p, j) ==
    Rec("plain", First2(d), Skip(d.trie[p].chars, j), d.trie[p].id, d.trie[p].children)

\* The same, as it writes them.
HeadWritten(d, p, j) ==
    [NewNode(d.trie[p].parent, SubSeq(d.trie[p].chars, 1, j), None) EXCEPT !.children = NextArray(d)]
TailWritten(d, p, j) ==
    [d.trie[p] EXCEPT !.flag = "plain", !.parent = First2(d), !.chars = Skip(@, j)]

LEMMA PartNodes ==
    ASSUME NEW d, Buffers(d), NEW p \in Live(d), NEW j \in 1..Len(d.trie[p].chars) - 1
    PROVE  /\ HeadWritten(d, p, j) = HeadNode(d, p, j, None)
           /\ TailWritten(d, p, j) = TailNode(d, p, j)
           /\ HeadNode(d, p, j, None) \in Node /\ TailNode(d, p, j) \in Node
<1> DEFINE N == d.trie[p]
           u == N.parent
           c == SubSeq(N.chars, 1, j)
           b == Skip(N.chars, j)
           a == NextArray(d)
           f == "plain"
           v == First2(d)
           h == NewNode(u, c, None)
<1>1. N \in Node /\ Len(d.arrays) \in Nat /\ Len(d.trie) \in Nat
  BY LiveIs, NodeIs, BuffersAre
<1>2. N.chars \in Seq(Letters) /\ N.parent \in Nat \cup {None} /\ N.id \in Nat \cup {None}
      /\ N.children \in Nat \cup {None} /\ Len(N.chars) \in Nat
  <2> HIDE DEF N
  <2>1. N.chars \in Seq(Letters) /\ N.parent \in Nat \cup {None} /\ N.id \in Nat \cup {None}
        /\ N.children \in Nat \cup {None}
    BY <1>1 DEF Node, Strings
  <2> QED BY <2>1, LenProperties
<1>3. c \in Strings /\ b \in Strings
  <2>1. j \in 0..Len(N.chars)
    BY <1>2
  <2> QED BY <1>2, <2>1, TakeIs, SkipIs DEF Strings
<1>4. a \in Nat /\ v \in Nat
  BY <1>1 DEF NextArray, First2
<1>5. Rec(f, u, c, None, None) \in Node /\ Rec(f, u, c, None, a) \in Node
      /\ Rec(f, v, b, N.id, N.children) \in Node
  <2> HIDE DEF N, c, b, a, v
  <2> QED BY <1>2, <1>3, <1>4 DEF Rec, Node
<1>6. h = Rec(f, u, c, None, None)
  BY NewNodeIs
<1>7. h.flag = f /\ h.parent = u /\ h.chars = c /\ h.id = None
  <2> HIDE DEF h, f, u, c
  <2> QED BY <1>6 DEF Rec
<1> HIDE DEF h, f, u, c, b, a, v
<1>8. [h EXCEPT !.children = a] = Rec(f, u, c, None, a)
  <2>1. [h EXCEPT !.children = a] = Rec(h.flag, h.parent, h.chars, h.id, a)
    <3>1. h \in Node
      BY <1>5, <1>6
    <3> QED BY <3>1, NodeWith
  <2> QED BY <1>7, <2>1
<1>9. [N EXCEPT !.flag = f, !.parent = v, !.chars = b] = Rec(f, v, b, N.id, N.children)
  <2> HIDE DEF N
  <2>1. \A x, y : [N EXCEPT !.flag = f, !.parent = x, !.chars = y] = Rec(f, x, y, N.id, N.children)
    BY <1>1, NodeWith
  <2> QED BY <2>1
<1>10. HeadNode(d, p, j, None) = Rec(f, u, c, None, a)
  BY DEF HeadNode, f, u, c, a
<1>11. TailNode(d, p, j) = Rec(f, v, b, N.id, N.children)
  BY DEF TailNode, f, v, b
<1>12. TailWritten(d, p, j) = [N EXCEPT !.flag = f, !.parent = v, !.chars = b]
  BY DEF f, v, b, TailWritten
<1>13. HeadWritten(d, p, j) = [h EXCEPT !.children = a]
  BY DEF h, u, c, a, HeadWritten
<1> QED BY <1>5, <1>8, <1>9, <1>10, <1>11, <1>12, <1>13 DEF f, u, c, v, b

\* What the writes make of the buffers, before the node is marked.
SplitWrites(d, z, p, j, id) ==
    /\ DOMAIN z.trie = 1..Len(z.trie) /\ Len(z.trie) \in Nat /\ Len(z.trie) >= Second(d)
    /\ \A q \in DOMAIN d.trie : z.trie[q] = d.trie[q]
    /\ z.trie[First2(d)] = HeadNode(d, p, j, id)
    /\ z.trie[Second(d)] = TailNode(d, p, j)
    /\ \A q \in DOMAIN z.trie : q > Second(d) => z.trie[q].flag = "plain"
    /\ \A a \in DOMAIN d.arrays : z.arrays[a] = d.arrays[a]

LEMMA SplitWritesMoved ==
    ASSUME NEW d, NEW text, Good(d, text), NEW p \in Live(d), NEW j, NEW id, NEW z,
           SplitWrites(d, z, p, j, id)
    PROVE  /\ Grown(d, z, d.trie[p].children)
           /\ DOMAIN SplitTrie(d, p, j, id) = 1..Second(d)
           /\ \A q \in 1..Second(d) :
                 MovedTrie(d, z, p, First2(d), Second(d))[q] = SplitTrie(d, p, j, id)[q]
           /\ \A q \in DOMAIN z.trie \ 1..Second(d) :
                 MovedTrie(d, z, p, First2(d), Second(d))[q] = z.trie[q]
<1> DEFINE F == First2(d)
           E == Second(d)
           M == MovedTrie(d, z, p, F, E)
           S == SplitTrie(d, p, j, id)
<1>1. /\ Buffers(d) /\ DOMAIN d.trie = 1..Len(d.trie) /\ Len(d.trie) \in Nat
  BY BuffersAre DEF Good
<1>2. /\ DOMAIN z.trie = 1..Len(z.trie) /\ Len(z.trie) \in Nat /\ Len(z.trie) >= E
      /\ (\A q \in DOMAIN d.trie : z.trie[q] = d.trie[q])
      /\ z.trie[F] = HeadNode(d, p, j, id)
      /\ z.trie[E] = TailNode(d, p, j)
      /\ (\A q \in DOMAIN z.trie : q > E => z.trie[q].flag = "plain")
      /\ (\A a \in DOMAIN d.arrays : z.arrays[a] = d.arrays[a])
  BY DEF SplitWrites
<1>3. F = Len(d.trie) + 1 /\ E = F + 1
  BY <1>1 DEF First2, Second
<1>4. p \in DOMAIN d.trie /\ Live(d) \subseteq DOMAIN d.trie
  BY LiveIs, <1>1 DEF Live
<1>5. DOMAIN S = 1..E /\ DOMAIN M = DOMAIN z.trie
  BY DEF SplitTrie, MovedTrie
<1>6. \A q \in 1..E : S[q] = IF q = E THEN TailNode(d, p, j)
                             ELSE IF q = F THEN HeadNode(d, p, j, id)
                             ELSE IF q = p THEN Rec("moved", F, d.trie[p].chars, d.trie[p].id,
                                                    d.trie[p].children)
                             ELSE IF q \in Live(d) /\ d.trie[q].parent = p
                             THEN Rec(d.trie[q].flag, E, d.trie[q].chars, d.trie[q].id,
                                      d.trie[q].children)
                             ELSE d.trie[q]
  BY DEF SplitTrie, TailNode, HeadNode
<1>7. \A q \in DOMAIN z.trie : M[q] = IF q = p THEN Rec("moved", F, d.trie[p].chars, d.trie[p].id,
                                                    d.trie[p].children)
                             ELSE IF q \in Live(d) /\ d.trie[q].parent = p
                             THEN Rec(d.trie[q].flag, E, d.trie[q].chars, d.trie[q].id,
                                      d.trie[q].children)
                             ELSE z.trie[q]
  BY DEF MovedTrie
<1>8. HeadNode(d, p, j, id).flag = "plain" /\ TailNode(d, p, j).flag = "plain"
  BY DEF HeadNode, TailNode, Rec
<1> HIDE DEF F, E, S, M
<1>9. ASSUME NEW q \in 1..E PROVE M[q] = S[q]
  <2>1. q \in DOMAIN z.trie
    BY <1>1, <1>2, <1>3
  <2>2. CASE q = E \/ q = F
    <3>1. q \notin DOMAIN d.trie
      BY <1>1, <1>3, <2>2
    <3>2. M[q] = z.trie[q]
      BY <1>4, <1>7, <2>1, <3>1
    <3>3. E # F
      BY <1>1, <1>3
    <3> QED BY <1>2, <1>6, <2>2, <3>2, <3>3
  <2>3. CASE q # E /\ q # F
    <3>1. q \in DOMAIN d.trie
      BY <1>1, <1>3, <2>3
    <3>2. z.trie[q] = d.trie[q]
      BY <1>2, <3>1
    <3> QED BY <1>6, <1>7, <2>1, <2>3, <3>2
  <2> QED BY <2>2, <2>3
<1>10. ASSUME NEW q \in DOMAIN z.trie \ 1..E PROVE M[q] = z.trie[q]
  <2>1. q \notin DOMAIN d.trie
    BY <1>1, <1>3
  <2> QED BY <1>4, <1>7, <2>1
<1>11. Grown(d, z, d.trie[p].children)
  <2>1. Len(d.trie) <= Len(z.trie)
    BY <1>1, <1>2, <1>3
  <2>2. ASSUME NEW q \in DOMAIN z.trie \ DOMAIN d.trie PROVE z.trie[q].flag # "moved"
    <3>1. q = F \/ q = E \/ q > E
      BY <1>1, <1>2, <1>3
    <3> QED BY <1>2, <1>8, <3>1
  <2>3. d.trie[p].children # None => z.arrays[d.trie[p].children] = d.arrays[d.trie[p].children]
    BY <1>1, <1>2, <1>4, NodeIs
  <2> QED BY <1>2, <2>1, <2>2, <2>3 DEF Grown
<1> QED BY <1>5, <1>9, <1>10, <1>11 DEF F, E, S, M

LEMMA AppendIsWith ==
    ASSUME NEW S, NEW t \in Seq(S), NEW e
    PROVE  /\ Append(t, e) = With(t, e) /\ Len(Append(t, e)) = Len(t) + 1
           /\ Append(t, e) \in Seq(S \cup {e})
BY AppendFun DEF With

Replaced(t, i, v) == [t EXCEPT ![i] = v]

LEMMA AppendReplaced ==
    ASSUME NEW S, NEW t \in Seq(S), NEW i \in 1..Len(t), NEW v, NEW m
    PROVE  Append(Replaced(t, i, v), m) = Replaced(Append(t, m), i, v)
<1> DEFINE R == S \cup {v}
           n == Len(t)
           u == [t EXCEPT ![i] = v]
<1>1. n \in Nat /\ DOMAIN t = 1..n /\ t \in [1..n -> S]
  BY LenProperties
<1>2. u \in [1..n -> R] /\ \A q \in 1..n : u[q] = IF q = i THEN v ELSE t[q]
  BY <1>1
<1> HIDE DEF u, R
<1>3. u \in Seq(R) /\ Len(u) = n
  <2> HIDE DEF n
  <2> QED BY <1>1, <1>2, SeqIs
<1>4. Append(u, m) = [q \in 1..n + 1 |-> IF q = n + 1 THEN m ELSE u[q]]
  <2>1. Append(u, m) = With(u, m)
    BY <1>3, AppendIsWith
  <2> QED BY <1>3, <2>1 DEF With
<1>5. Append(t, m) = [q \in 1..n + 1 |-> IF q = n + 1 THEN m ELSE t[q]]
  BY AppendFun
<1>6. i \in 1..n /\ i # n + 1
  BY <1>1
<1> HIDE DEF n
<1>7. \A q \in 1..n + 1 : q # n + 1 => q \in 1..n
  BY <1>1
<1>8. Append(u, m) = [Append(t, m) EXCEPT ![i] = v]
  BY <1>2, <1>4, <1>5, <1>6, <1>7
<1> QED BY <1>8 DEF u, Replaced

\* Two nodes at the end.
LEMMA TwoMore ==
    ASSUME NEW S, NEW t \in Seq(S), NEW m, NEW n
    PROVE  /\ Len(Append(Append(t, m), n)) = Len(t) + 2
           /\ DOMAIN Append(Append(t, m), n) = 1..Len(t) + 2
           /\ \A i \in 1..Len(t) : Append(Append(t, m), n)[i] = t[i]
           /\ Append(Append(t, m), n)[Len(t) + 1] = m
           /\ Append(Append(t, m), n)[Len(t) + 2] = n
           /\ Append(Append(t, m), n) \in Seq((S \cup {m}) \cup {n})
<1> DEFINE u == Append(t, m)
           x == Append(u, n)
           k == Len(t)
<1>1. u = [i \in 1..k + 1 |-> IF i = k + 1 THEN m ELSE t[i]] /\ Len(u) = k + 1
      /\ u \in Seq(S \cup {m}) /\ k \in Nat
  BY AppendFun, LenProperties
<1> HIDE DEF u, k
<1>2. x = [i \in 1..k + 1 + 1 |-> IF i = k + 1 + 1 THEN n ELSE u[i]] /\ Len(x) = k + 1 + 1
      /\ x \in Seq((S \cup {m}) \cup {n})
  <2>1. x = With(u, n) /\ Len(x) = Len(u) + 1 /\ x \in Seq((S \cup {m}) \cup {n})
    BY <1>1, AppendIsWith
  <2> HIDE DEF x
  <2> QED BY <1>1, <2>1 DEF With
<1> HIDE DEF x
<1>3. k + 1 + 1 = k + 2
  BY <1>1
<1>4. x = [i \in 1..k + 2 |-> IF i = k + 2 THEN n ELSE u[i]]
  BY <1>2, <1>3
<1>5. \A i \in 1..k : i \in 1..k + 1 /\ i \in 1..k + 2 /\ i # k + 1 /\ i # k + 2
  BY <1>1
<1>6. k + 1 \in 1..k + 1 /\ k + 1 \in 1..k + 2 /\ k + 2 \in 1..k + 2 /\ k + 1 # k + 2
  BY <1>1
<1>7. \A i \in 1..k : x[i] = t[i]
  BY <1>1, <1>4, <1>5
<1>8. x[k + 1] = m /\ x[k + 2] = n
  BY <1>1, <1>4, <1>6
<1> QED BY <1>2, <1>3, <1>4, <1>7, <1>8 DEF x, u, k

LEMMA SplitTableIs ==
    ASSUME NEW d, NEW text, Good(d, text), NEW p \in Live(d)
    PROVE  /\ IF d.trie[p].id = None THEN SplitTable(d, p) = d.table
              ELSE /\ d.trie[p].id \in 0..Len(d.table) - 1
                   /\ SplitTable(d, p) = Placed(d.table, d.trie[p].id, Second(d))
           /\ SplitTable(d, p) \in Seq(Nat \cup {None}) /\ Len(SplitTable(d, p)) = Len(d.table)
           /\ Append(SplitTable(d, p), First2(d)) =
                 IF d.trie[p].id = None THEN Append(d.table, First2(d))
                 ELSE Placed(Append(d.table, First2(d)), d.trie[p].id, Second(d))
<1> DEFINE id == d.trie[p].id
           B == d.table
           E == Second(d)
           F == First2(d)
<1>1. B \in Seq(Nat \cup {None}) /\ DOMAIN B = 1..Len(B) /\ Len(B) \in Nat /\ Len(d.trie) \in Nat
  BY BuffersAre DEF Good
<1>2. E \in Nat
  BY <1>1 DEF Second
<1>3. id \in 0..Len(B) - 1 \cup {None}
  BY IdIs DEF Good
<1>4. SplitTable(d, p) = IF id = None THEN B ELSE [B EXCEPT ![id + 1] = E]
  BY DEF SplitTable
<1> HIDE DEF id, B, E, F
<1>5. CASE id = None
  <2>1. SplitTable(d, p) = B
    BY <1>4, <1>5
  <2> QED BY <1>1, <1>5, <2>1 DEF id, B
<1>6. CASE id # None
  <2> DEFINE T == [B EXCEPT ![id + 1] = E]
  <2>1. id \in 0..Len(B) - 1 /\ id + 1 \in 1..Len(B) /\ id # Len(B)
    <3> DEFINE n == Len(B)
    <3>1. n \in Nat /\ id \in 0..n - 1
      BY <1>1, <1>3, <1>6
    <3> HIDE DEF n
    <3>2. id + 1 \in 1..n /\ id # n
      BY <3>1
    <3> QED BY <3>1, <3>2 DEF n
  <2>2. T = Placed(B, id, E)
    BY <2>1 DEF Placed
  <2>3. T \in [1..Len(B) -> Nat \cup {None}]
    <3>1. B \in [1..Len(B) -> Nat \cup {None}]
      BY <1>1, LenProperties
    <3> QED BY <1>2, <2>1, <3>1
  <2>4. T \in Seq(Nat \cup {None}) /\ Len(T) = Len(B)
    <3> HIDE DEF T
    <3> QED BY <1>1, <2>3, SeqIs
  <2>5. Append(T, F) = [Append(B, F) EXCEPT ![id + 1] = E]
    <3> DEFINE i == id + 1
    <3>1. i \in 1..Len(B)
      BY <2>1
    <3> HIDE DEF i
    <3>2. Append(Replaced(B, i, E), F) = Replaced(Append(B, F), i, E)
      BY <1>1, <3>1, AppendReplaced
    <3> QED BY <3>2 DEF i, Replaced
  <2>6. Len(Append(B, F)) = Len(B) + 1
    BY <1>1, AppendFun
  <2>7. id # Len(Append(B, F))
    <3> DEFINE n == Len(B)
               m == Len(Append(B, F))
    <3>1. n \in Nat /\ id \in 0..n - 1 /\ m = n + 1
      BY <1>1, <2>1, <2>6
    <3> HIDE DEF n, m
    <3>2. id # m
      BY <3>1
    <3> QED BY <3>2 DEF m
  <2>8. Append(T, F) = Placed(Append(B, F), id, E)
    BY <2>5, <2>7 DEF Placed
  <2> HIDE DEF T
  <2>9. SplitTable(d, p) = T
    BY <1>4, <1>6 DEF T
  <2> QED BY <1>6, <2>1, <2>2, <2>4, <2>8, <2>9 DEF id, B, E, F
<1> QED BY <1>5, <1>6

\* The buffers after both parts are written, and perhaps something more.
LEMMA SplitWritesMade ==
    ASSUME NEW d, NEW text, Good(d, text), NEW p \in Live(d), NEW j, NEW id,
           NEW z, IsDict(z), SplitWrites(d, z, p, j, id)
    PROVE  LET x == MarkAsMoved(z, p, First2(d), Second(d)) IN
           /\ IsDict(x) /\ x.arrays = z.arrays /\ x.table = z.table /\ x.lm = z.lm
           /\ x.count = z.count
           /\ Len(z.trie) = Second(d) => x.trie = SplitTrie(d, p, j, id)
           /\ Len(z.trie) = Second(d) + 1 =>
                 x.trie = With(SplitTrie(d, p, j, id), z.trie[Second(d) + 1])
           /\ Len(SplitTrie(d, p, j, id)) = Second(d)
<1> DEFINE F == First2(d)
           E == Second(d)
           M == MovedTrie(d, z, p, F, E)
           S == SplitTrie(d, p, j, id)
           x == MarkAsMoved(z, p, F, E)
<1>1. /\ Grown(d, z, d.trie[p].children) /\ DOMAIN S = 1..E
      /\ \A q \in 1..E : M[q] = S[q]
      /\ \A q \in DOMAIN z.trie \ 1..E : M[q] = z.trie[q]
  BY SplitWritesMoved
<1>2. x = DictOf(M, z.arrays, z.table, z.lm, z.count)
  BY <1>1, MarkAsMovedIs DEF Good
<1>3. M = [q \in DOMAIN z.trie |-> M[q]] /\ S = [q \in 1..E |-> S[q]]
  BY DEF MovedTrie, SplitTrie
<1>4. DOMAIN z.trie = 1..Len(z.trie) /\ E \in Nat
  <2>1. Len(d.trie) \in Nat
    BY BuffersAre DEF Good
  <2> QED BY <2>1 DEF SplitWrites, Second
<1> HIDE DEF M, S, E, F, x
<1>5. IsDict(x) /\ x.trie = M /\ x.arrays = z.arrays /\ x.table = z.table /\ x.lm = z.lm
      /\ x.count = z.count
  BY <1>2 DEF DictOf, IsDict
<1>6. ASSUME Len(z.trie) = E PROVE x.trie = S
  BY <1>1, <1>3, <1>4, <1>5, <1>6
<1>7. Len(S) = E
  <2>1. S \in [1..E -> Range(S)]
    BY <1>1, <1>3 DEF Range
  <2> QED BY <1>4, <2>1, SeqIs
<1>8. ASSUME Len(z.trie) = E + 1 PROVE x.trie = With(S, z.trie[E + 1])
  <2>1. DOMAIN z.trie = 1..E \cup {E + 1} /\ E + 1 \notin 1..E
    BY <1>4, <1>8, OneMore
  <2>2. \A q \in 1..E : M[q] = S[q] /\ q # E + 1
    BY <1>1, <2>1
  <2>3. M[E + 1] = z.trie[E + 1]
    BY <1>1, <2>1
  <2>4. With(S, z.trie[E + 1])
           = [q \in 1..E + 1 |-> IF q = E + 1 THEN z.trie[E + 1] ELSE S[q]]
    BY <1>7 DEF With
  <2> QED BY <1>3, <1>4, <1>5, <1>8, <2>1, <2>2, <2>3, <2>4
<1> QED BY <1>5, <1>6, <1>7, <1>8 DEF S, E, F, x

LEMMA SplitStart ==
    ASSUME NEW d, IsDict(d), NEW text, Good(d, text), NEW p \in Live(d),
           NEW j \in 1..Len(d.trie[p].chars) - 1
    PROVE  /\ d.trie \in Seq(Node) /\ d.arrays \in Seq(Seq(Nat))
           /\ d.table \in Seq(Nat \cup {None})
           /\ Len(d.trie) \in Nat /\ Len(d.table) \in Nat /\ Len(d.arrays) \in Nat
           /\ DOMAIN d.trie = 1..Len(d.trie) /\ DOMAIN d.arrays = 1..Len(d.arrays)
           /\ HeadNode(d, p, j, None) \in Node /\ TailNode(d, p, j) \in Node
           /\ HeadNode(d, p, j, None).id = None /\ TailNode(d, p, j).id = d.trie[p].id
           /\ \A e : HeadNode(d, p, j, e).flag = "plain"
           /\ TailNode(d, p, j).flag = "plain"
           /\ d.trie[p].id \in 0..Len(d.table) - 1 \cup {None}
<1>1. Buffers(d) /\ Ids(d)
  BY DEF Good
<1>2. HeadNode(d, p, j, None) \in Node /\ TailNode(d, p, j) \in Node
  BY <1>1, PartNodes
<1>3. HeadNode(d, p, j, None).id = None /\ TailNode(d, p, j).id = d.trie[p].id
      /\ (\A e : HeadNode(d, p, j, e).flag = "plain")
      /\ TailNode(d, p, j).flag = "plain"
  BY DEF HeadNode, TailNode, Rec
<1> QED BY <1>1, <1>2, <1>3, BuffersAre, IdIs

\* Reallocate, in the two cases.
LEMMA ReallocateIs ==
    ASSUME NEW d, Buffers(d), NEW p \in Live(d), NEW j \in 1..Len(d.trie[p].chars) - 1,
           NEW rest, NEW e
    PROVE  Reallocate(d, p, j, rest, e) =
              LET w1 == IF Len(rest) = j THEN WriteNewTerminal(d, HeadNode(d, p, j, None), e)
                        ELSE WritePtNode(d, HeadNode(d, p, j, None))
                  w2 == WritePtNode(w1, TailNode(d, p, j))
                  w3 == IF Len(rest) = j THEN WriteArray(w2, <<Second(d)>>)
                        ELSE WriteArray(
                                WriteNewTerminal(w2, NewNode(First2(d), Skip(rest, j), None), e),
                                <<Second(d), Second(d) + 1>>)
              IN MarkAsMoved(w3, p, First2(d), Second(d))
<1>1. HeadWritten(d, p, j) = HeadNode(d, p, j, None) /\ TailWritten(d, p, j) = TailNode(d, p, j)
  BY PartNodes
<1>2. First2(d) + 1 = Second(d)
  BY BuffersAre DEF First2, Second
<1>3. Reallocate(d, p, j, rest, e) =
              LET w1 == IF Len(rest) = j THEN WriteNewTerminal(d, HeadWritten(d, p, j), e)
                        ELSE WritePtNode(d, HeadWritten(d, p, j))
                  w2 == WritePtNode(w1, TailWritten(d, p, j))
                  w3 == IF Len(rest) = j THEN WriteArray(w2, <<First2(d) + 1>>)
                        ELSE WriteArray(
                                WriteNewTerminal(w2, NewNode(First2(d), Skip(rest, j), None), e),
                                <<First2(d) + 1, First2(d) + 1 + 1>>)
              IN MarkAsMoved(w3, p, First2(d), First2(d) + 1)
  BY DEF Reallocate, HeadWritten, TailWritten, First2, NextArray
<1> QED BY <1>1, <1>2, <1>3

LEMMA ReallocateEnds ==
    ASSUME NEW d, IsDict(d), NEW text, Good(d, text), NEW p \in Live(d),
           NEW j \in 1..Len(d.trie[p].chars) - 1, NEW rest, Len(rest) = j, NEW e
    PROVE  LET x == Reallocate(d, p, j, rest, e) IN
           /\ IsDict(x) /\ x.trie = SplitTrie(d, p, j, Len(d.table))
           /\ x.arrays = Append(d.arrays, <<Second(d)>>)
           /\ x.table = Append(SplitTable(d, p), First2(d))
           /\ x.lm = LmSet(d.lm, <<Len(d.table)>>, e) /\ x.count = d.count
<1> DEFINE F == First2(d)
           E == Second(d)
           N == d.trie[p]
           k == Len(d.table)
           h == HeadNode(d, p, j, None)
           hk == HeadNode(d, p, j, k)
           t == TailNode(d, p, j)
           x == Reallocate(d, p, j, rest, e)
           w1 == WriteNewTerminal(d, h, e)
           w2 == WritePtNode(w1, t)
           w3 == WriteArray(w2, <<E>>)
           L == LmSet(d.lm, <<k>>, e)
           A == Append(d.arrays, <<E>>)
           U == Append(d.table, F)
           V == IF N.id = None THEN U ELSE Placed(U, N.id, E)
<1>1. /\ d.trie \in Seq(Node) /\ d.arrays \in Seq(Seq(Nat)) /\ d.table \in Seq(Nat \cup {None})
      /\ Len(d.trie) \in Nat /\ k \in Nat /\ Len(d.arrays) \in Nat
      /\ DOMAIN d.trie = 1..Len(d.trie) /\ DOMAIN d.arrays = 1..Len(d.arrays)
      /\ h \in Node /\ t \in Node /\ h.id = None /\ t.id = N.id
      /\ hk.flag = "plain" /\ t.flag = "plain" /\ N.id \in 0..k - 1 \cup {None} /\ Buffers(d)
  <2>1. Buffers(d)
    BY DEF Good
  <2> QED BY <2>1, SplitStart
<1>2. F = Len(d.trie) + 1 /\ E = Len(d.trie) + 2 /\ F + 1 = E
  BY <1>1 DEF First2, Second
<1>3. x = MarkAsMoved(w3, p, F, E)
  <2> HIDE DEF h, t, E, F
  <2> QED BY <1>1, ReallocateIs DEF h, t, E, F
<1>4. h.flag = hk.flag /\ h.parent = hk.parent /\ h.chars = hk.chars /\ h.children = hk.children
      /\ Rec(h.flag, h.parent, h.chars, k, h.children) = hk
  BY DEF HeadNode, Rec
<1>5. w1 = DictOf(Append(d.trie, Rec(h.flag, h.parent, h.chars, IdFor(d, h), h.children)),
                  d.arrays, Placed(d.table, IdFor(d, h), Len(d.trie) + 1),
                  LmSet(d.lm, <<IdFor(d, h)>>, e), d.count)
  <2> HIDE DEF h
  <2> QED BY <1>1, WriteNewTerminalIs
<1>6. IdFor(d, h) = k /\ Placed(d.table, k, F) = U
  BY <1>1 DEF IdFor, Placed
<1> HIDE DEF h, hk, t, x, w1, w2, w3, L, A, U, V, F, E, N
<1>7. /\ IsDict(w1) /\ w1.trie = Append(d.trie, hk) /\ w1.arrays = d.arrays
      /\ w1.table = U /\ w1.lm = L /\ w1.count = d.count
  BY <1>2, <1>4, <1>5, <1>6 DEF DictOf, IsDict, L
<1>8. w1.table \in Seq((Nat \cup {None}) \cup {F}) /\ Len(w1.table) = k + 1
  BY <1>1, <1>7, AppendFun DEF U
<1>9. t.id \in 0..Len(w1.table) \cup {None}
  BY <1>1, <1>8
<1>10. w2 = DictOf(Append(w1.trie, t), w1.arrays,
                   IF t.id = None THEN w1.table ELSE Placed(w1.table, t.id, Len(w1.trie) + 1),
                   w1.lm, w1.count)
  BY <1>7, <1>8, <1>9, WritePtNodeIs DEF w2
<1>11. Len(w1.trie) + 1 = E
  <2>1. Len(w1.trie) = F
    BY <1>1, <1>2, <1>7, AppendFun
  <2> QED BY <1>2, <2>1
<1>12. /\ IsDict(w2) /\ w2.trie = Append(Append(d.trie, hk), t) /\ w2.arrays = d.arrays
       /\ w2.table = V /\ w2.lm = L /\ w2.count = d.count
  BY <1>1, <1>7, <1>10, <1>11 DEF DictOf, IsDict, V
<1>13. w3 = DictOf(w2.trie, Append(w2.arrays, <<E>>), w2.table, w2.lm, w2.count)
  BY <1>12, WriteArrayIs DEF w3
<1>14. /\ IsDict(w3) /\ w3.trie = Append(Append(d.trie, hk), t) /\ w3.arrays = A
       /\ w3.table = V /\ w3.lm = L /\ w3.count = d.count
  BY <1>12, <1>13 DEF DictOf, IsDict, A
<1>15. /\ Len(w3.trie) = E /\ DOMAIN w3.trie = 1..E /\ (\A q \in 1..Len(d.trie) : w3.trie[q] = d.trie[q])
       /\ w3.trie[F] = hk /\ w3.trie[E] = t
  BY <1>1, <1>2, <1>14, TwoMore
<1>16. \A a \in DOMAIN d.arrays : w3.arrays[a] = d.arrays[a]
  <2>1. A = [i \in 1..Len(d.arrays) + 1 |-> IF i = Len(d.arrays) + 1 THEN <<E>> ELSE d.arrays[i]]
    BY <1>1, AppendFun DEF A
  <2> QED BY <1>1, <1>14, <2>1
<1>17. SplitWrites(d, w3, p, j, k)
  <2>1. E \in Nat
    BY <1>1, <1>2
  <2>2. \A q \in DOMAIN w3.trie : ~(q > E)
    BY <1>15, <2>1
  <2> QED BY <1>1, <1>15, <1>16, <2>1, <2>2 DEF SplitWrites, F, E, hk, t
<1>18. /\ IsDict(x) /\ x.arrays = A /\ x.table = V /\ x.lm = L /\ x.count = d.count
       /\ x.trie = SplitTrie(d, p, j, k)
  BY <1>3, <1>14, <1>15, <1>17, SplitWritesMade DEF F, E
<1>19. V = Append(SplitTable(d, p), F)
  BY SplitTableIs DEF V, U, F, E, N
<1> QED BY <1>18, <1>19 DEF x, A, L, E, F

\* Three nodes at the end.
LEMMA ThreeMore ==
    ASSUME NEW S, NEW t \in Seq(S), NEW k \in Nat, Len(t) = k, NEW m, NEW n, NEW o
    PROVE  LET x == Append(Append(Append(t, m), n), o) IN
           /\ Len(x) = k + 3 /\ DOMAIN x = 1..k + 3
           /\ \A i \in 1..k : x[i] = t[i]
           /\ x[k + 1] = m /\ x[k + 2] = n /\ x[k + 3] = o
<1> DEFINE u == Append(Append(t, m), n)
           x == Append(u, o)
<1>1. /\ Len(u) = k + 2 /\ DOMAIN u = 1..k + 2
      /\ \A i \in 1..k : u[i] = t[i]
      /\ u[k + 1] = m /\ u[k + 2] = n /\ u \in Seq((S \cup {m}) \cup {n})
  BY TwoMore
<1> HIDE DEF u
<1>2. x = With(u, o) /\ Len(x) = Len(u) + 1
  BY <1>1, AppendIsWith
<1> HIDE DEF x
<1>3. k + 2 + 1 = k + 3 /\ k + 1 \in 1..k + 3 /\ k + 2 \in 1..k + 3 /\ k + 3 \in 1..k + 3
      /\ k + 1 # k + 3 /\ k + 2 # k + 3 /\ \A i \in 1..k : i \in 1..k + 3 /\ i # k + 3
  OBVIOUS
<1>4. x = [i \in 1..k + 3 |-> IF i = k + 3 THEN o ELSE u[i]]
  BY <1>1, <1>2, <1>3 DEF With
<1> QED BY <1>1, <1>2, <1>3, <1>4 DEF x, u

\* Reallocate, if there is something left of the word.
LEMMA ReallocateIsMore ==
    ASSUME NEW d, Buffers(d), NEW p \in Live(d), NEW j \in 1..Len(d.trie[p].chars) - 1,
           NEW rest, Len(rest) # j, NEW e
    PROVE  Reallocate(d, p, j, rest, e) =
              MarkAsMoved(
                  WriteArray(
                      WriteNewTerminal(
                          WritePtNode(WritePtNode(d, HeadNode(d, p, j, None)), TailNode(d, p, j)),
                          NewNode(First2(d), Skip(rest, j), None), e),
                      <<Second(d), Second(d) + 1>>),
                  p, First2(d), Second(d))
<1>1. HeadWritten(d, p, j) = HeadNode(d, p, j, None) /\ TailWritten(d, p, j) = TailNode(d, p, j)
  BY PartNodes
<1>2. First2(d) + 1 = Second(d)
  BY BuffersAre DEF First2, Second
<1> DEFINE b == Len(rest) = j
<1>3. Reallocate(d, p, j, rest, e) =
          MarkAsMoved(
              IF b THEN WriteArray(
                            WritePtNode(IF b THEN WriteNewTerminal(d, HeadWritten(d, p, j), e)
                                        ELSE WritePtNode(d, HeadWritten(d, p, j)),
                                        TailWritten(d, p, j)),
                            <<First2(d) + 1>>)
              ELSE WriteArray(
                       WriteNewTerminal(
                           WritePtNode(IF b THEN WriteNewTerminal(d, HeadWritten(d, p, j), e)
                                       ELSE WritePtNode(d, HeadWritten(d, p, j)),
                                       TailWritten(d, p, j)),
                           NewNode(First2(d), Skip(rest, j), None), e),
                       <<First2(d) + 1, First2(d) + 1 + 1>>),
              p, First2(d), First2(d) + 1)
  BY DEF Reallocate, HeadWritten, TailWritten, First2, NextArray
<1>4. ~b
  OBVIOUS
<1> HIDE DEF b
<1> QED BY <1>1, <1>2, <1>3, <1>4, Zenon

LEMMA ReallocateMore ==
    ASSUME NEW d, IsDict(d), NEW text, Good(d, text), NEW p \in Live(d),
           NEW j \in 1..Len(d.trie[p].chars) - 1, NEW rest, Skip(rest, j) \in Strings,
           Len(rest) # j, NEW e
    PROVE  LET x == Reallocate(d, p, j, rest, e)
               k == Len(d.table)
           IN
           /\ IsDict(x)
           /\ x.trie = Append(SplitTrie(d, p, j, None),
                              Rec("plain", First2(d), Skip(rest, j), k, None))
           /\ x.arrays = Append(d.arrays, <<Second(d), Second(d) + 1>>)
           /\ x.table = Append(SplitTable(d, p), Second(d) + 1)
           /\ x.lm = LmSet(d.lm, <<k>>, e) /\ x.count = d.count
           /\ Len(SplitTrie(d, p, j, None)) = Second(d)
           /\ SplitTrie(d, p, j, None) \in Seq(Range(SplitTrie(d, p, j, None)))
<1> DEFINE F == First2(d)
           E == Second(d)
           N == d.trie[p]
           k == Len(d.table)
           h == HeadNode(d, p, j, None)
           t == TailNode(d, p, j)
           c == Skip(rest, j)
           n == NewNode(F, c, None)
           o == Rec("plain", F, c, k, None)
           x == Reallocate(d, p, j, rest, e)
           w1 == WritePtNode(d, h)
           w2 == WritePtNode(w1, t)
           w3 == WriteNewTerminal(w2, n, e)
           w4 == WriteArray(w3, <<E, E + 1>>)
           L == LmSet(d.lm, <<k>>, e)
           A == Append(d.arrays, <<E, E + 1>>)
           U == SplitTable(d, p)
           V == Append(U, E + 1)
<1>1. /\ d.trie \in Seq(Node) /\ d.arrays \in Seq(Seq(Nat)) /\ d.table \in Seq(Nat \cup {None})
      /\ Len(d.trie) \in Nat /\ k \in Nat /\ Len(d.arrays) \in Nat
      /\ DOMAIN d.trie = 1..Len(d.trie) /\ DOMAIN d.arrays = 1..Len(d.arrays)
      /\ h \in Node /\ t \in Node /\ h.id = None /\ t.id = N.id
      /\ h.flag = "plain" /\ t.flag = "plain" /\ N.id \in 0..k - 1 \cup {None} /\ Buffers(d)
  <2>1. Buffers(d)
    BY DEF Good
  <2> QED BY <2>1, SplitStart
<1>2. F = Len(d.trie) + 1 /\ E = Len(d.trie) + 2 /\ F + 1 = E /\ F \in Nat /\ E \in Nat
  BY <1>1 DEF First2, Second
<1>3. x = MarkAsMoved(w4, p, F, E)
  BY <1>1, ReallocateIsMore
<1>4. n = Rec("plain", F, c, None, None) /\ n.id = None /\ n.flag = "plain" /\ n.parent = F
      /\ n.chars = c /\ n.children = None
  BY NewNodeIs DEF Rec
<1>5. n \in Node
  <2> HIDE DEF F
  <2> QED BY <1>2, <1>4 DEF Rec, Node
<1>6. U \in Seq(Nat \cup {None}) /\ Len(U) = k
      /\ (IF N.id = None THEN U = d.table ELSE U = Placed(d.table, N.id, E))
  BY SplitTableIs
<1>7. o.flag = "plain"
  BY DEF Rec
<1> HIDE DEF h, t, n, o, x, w1, w2, w3, w4, L, A, U, V, F, E, N, c
<1>8. w1 = DictOf(Append(d.trie, h), d.arrays,
                  IF h.id = None THEN d.table ELSE Placed(d.table, h.id, Len(d.trie) + 1),
                  d.lm, d.count)
  BY <1>1, WritePtNodeIs DEF w1
<1>9. /\ IsDict(w1) /\ w1.trie = Append(d.trie, h) /\ w1.arrays = d.arrays
      /\ w1.table = d.table /\ w1.lm = d.lm /\ w1.count = d.count
  BY <1>1, <1>8 DEF DictOf, IsDict
<1>10. t.id \in 0..Len(w1.table) \cup {None}
  BY <1>1, <1>9
<1>11. w2 = DictOf(Append(w1.trie, t), w1.arrays,
                   IF t.id = None THEN w1.table ELSE Placed(w1.table, t.id, Len(w1.trie) + 1),
                   w1.lm, w1.count)
  BY <1>1, <1>9, <1>10, WritePtNodeIs DEF w2
<1>12. Len(w1.trie) + 1 = E
  <2>1. Len(w1.trie) = F
    BY <1>1, <1>2, <1>9, AppendFun
  <2> QED BY <1>2, <2>1
<1>13. /\ IsDict(w2) /\ w2.trie = Append(Append(d.trie, h), t) /\ w2.arrays = d.arrays
       /\ w2.table = U /\ w2.lm = d.lm /\ w2.count = d.count
  BY <1>1, <1>6, <1>9, <1>11, <1>12 DEF DictOf, IsDict
<1>14. n.id \in 0..Len(w2.table) \cup {None}
  BY <1>4
<1>15. w3 = DictOf(Append(w2.trie, Rec(n.flag, n.parent, n.chars, IdFor(w2, n), n.children)),
                   w2.arrays, Placed(w2.table, IdFor(w2, n), Len(w2.trie) + 1),
                   LmSet(w2.lm, <<IdFor(w2, n)>>, e), w2.count)
  BY <1>5, <1>6, <1>13, <1>14, WriteNewTerminalIs DEF w3
<1>16. IdFor(w2, n) = k /\ Rec(n.flag, n.parent, n.chars, k, n.children) = o
  BY <1>4, <1>6, <1>13 DEF IdFor, o
<1>17. Len(w2.trie) + 1 = E + 1
  <2>1. Len(w2.trie) = Len(d.trie) + 2
    BY <1>1, <1>13, TwoMore
  <2> QED BY <1>2, <2>1
<1>18. Placed(U, k, E + 1) = V
  BY <1>6 DEF Placed, V
<1>19. /\ IsDict(w3) /\ w3.trie = Append(Append(Append(d.trie, h), t), o) /\ w3.arrays = d.arrays
       /\ w3.table = V /\ w3.lm = L /\ w3.count = d.count
  BY <1>13, <1>15, <1>16, <1>17, <1>18 DEF DictOf, IsDict, L
<1>20. w4 = DictOf(w3.trie, Append(w3.arrays, <<E, E + 1>>), w3.table, w3.lm, w3.count)
  BY <1>19, WriteArrayIs DEF w4
<1>21. /\ IsDict(w4) /\ w4.trie = Append(Append(Append(d.trie, h), t), o) /\ w4.arrays = A
       /\ w4.table = V /\ w4.lm = L /\ w4.count = d.count
  BY <1>19, <1>20 DEF DictOf, IsDict, A
<1>22. /\ Len(w4.trie) = E + 1 /\ DOMAIN w4.trie = 1..E + 1
       /\ (\A q \in 1..Len(d.trie) : w4.trie[q] = d.trie[q])
       /\ w4.trie[F] = h /\ w4.trie[E] = t /\ w4.trie[E + 1] = o
  <2>1. Len(d.trie) + 3 = E + 1
    BY <1>1, <1>2
  <2> QED BY <1>1, <1>2, <1>21, <2>1, ThreeMore
<1>23. \A a \in DOMAIN d.arrays : w4.arrays[a] = d.arrays[a]
  <2>1. A = [i \in 1..Len(d.arrays) + 1 |->
                IF i = Len(d.arrays) + 1 THEN <<E, E + 1>> ELSE d.arrays[i]]
    BY <1>1, AppendFun DEF A
  <2> QED BY <1>1, <1>21, <2>1
<1>24. SplitWrites(d, w4, p, j, None)
  <2>1. ASSUME NEW q \in DOMAIN w4.trie, q > E PROVE w4.trie[q].flag = "plain"
    <3>1. q = E + 1
      BY <1>2, <1>22, <2>1
    <3> QED BY <1>7, <1>22, <3>1
  <2>2. E + 1 \in Nat /\ E + 1 >= E
    BY <1>2
  <2> QED BY <1>1, <1>22, <1>23, <2>1, <2>2 DEF SplitWrites, F, E, h, t
<1>25. /\ IsDict(x) /\ x.arrays = A /\ x.table = V /\ x.lm = L /\ x.count = d.count
       /\ x.trie = With(SplitTrie(d, p, j, None), o)
       /\ Len(SplitTrie(d, p, j, None)) = E
  BY <1>3, <1>21, <1>22, <1>24, SplitWritesMade DEF F, E
<1> DEFINE S == SplitTrie(d, p, j, None)
<1>26. S \in Seq(Range(S))
  <2>1. S = [q \in 1..E |-> S[q]]
    BY DEF SplitTrie, E
  <2> HIDE DEF S
  <2>2. S \in [1..E -> Range(S)]
    BY <2>1 DEF Range
  <2> QED BY <1>2, <2>2, SeqIs
<1> HIDE DEF S
<1>27. Append(S, o) = With(S, o)
  BY <1>26, AppendIsWith
<1> QED BY <1>25, <1>26, <1>27 DEF x, A, L, E, F, S, U, V, c, o

\* z is d after the node p has been copied and the copy broken, at y between.
Split(d, p, j, y, z) ==
    /\ CopyTo(d, y, p) /\ Break(y, z, First2(d), j)
    /\ z.trie = SplitTrie(d, p, j, None)
    /\ z.arrays = Append(d.arrays, <<Second(d)>>)
    /\ z.table = SplitTable(d, p)

LEMMA SplitExists ==
    ASSUME NEW d, NEW text, Good(d, text), NEW p \in Live(d), NEW j
    PROVE  \E y, z : Split(d, p, j, y, z)
<1>1. PICK y : CopyTo(d, y, p)
  BY CopyDict
<1>2. PICK z : Break(y, z, First2(d), j)
  BY BreakDict
<1> QED BY <1>1, <1>2, BrokenCopy DEF Split

\* What is known of it.
SplitFacts(d, text, p, j, rest, y, z) ==
    LET text1 == SplitText(d, text, p, y, j)
        F == First2(d)
        E == Second(d)
    IN /\ Good(z, text1) /\ Len(z.table) = Len(d.table)
       /\ Live(z) = (Live(d) \ {p}) \cup {F, E}
       /\ text1[F] = Above(d, text, p) \o SubSeq(rest, 1, j)
       /\ Entries(z, text1) = Entries(d, text)
       /\ Gone(z, text1) = Gone(d, text) \ Ghosts(d, text, p)
       /\ z.trie[F] = HeadNode(d, p, j, None)
       /\ z.trie[E] = TailNode(d, p, j)
       /\ F \in 1..E /\ E \in 1..E /\ E \in Nat
       /\ F + 1 = E /\ F \in Nat /\ F # E
       /\ F # None /\ F \notin Live(d) /\ E \notin Live(d)

LEMMA SplitIs ==
    ASSUME NEW d, NEW text, Good(d, text), NEW p \in Live(d), NEW j, NEW rest, NEW w,
           Splitting(d, text, p, j, rest, w), NEW y, NEW z, Split(d, p, j, y, z)
    PROVE  SplitFacts(d, text, p, j, rest, y, z)
<1> DEFINE text1 == SplitText(d, text, p, y, j)
           F == First2(d)
           E == Second(d)
           G == Ghosts(d, text, p)
<1>1. /\ CopyTo(d, y, p) /\ Break(y, z, First2(d), j) /\ z.trie = SplitTrie(d, p, j, None)
      /\ z.table = SplitTable(d, p)
  BY DEF Split
<1>2. /\ j \in 1..Len(d.trie[p].chars) - 1
      /\ SubSeq(d.trie[p].chars, 1, j) = SubSeq(rest, 1, j)
  BY DEF Splitting
<1>3. /\ Good(z, text1) /\ Live(z) = (Live(d) \ {p}) \cup {F, E}
      /\ text1[F] = Above(d, text, p) \o SubSeq(d.trie[p].chars, 1, j)
      /\ Entries(z, text1) = Entries(d, text)
      /\ Gone(z, text1) = GoneWithout(d, text, p)
  BY <1>1, <1>2, SplitIsGood
<1>4. /\ G \subseteq {u \in Gone(d, text) : Splits(u, w)}
      /\ GoneWithout(d, text, p) = Gone(d, text) \ G
  BY GhostsAre
<1>5. Len(z.table) = Len(d.table)
  BY <1>1, SplitTableIs
<1>6. Len(d.trie) \in Nat /\ DOMAIN d.trie = 1..Len(d.trie) /\ Buffers(d)
  BY BuffersAre DEF Good
<1>7. F \in 1..E /\ E \in 1..E /\ E \in Nat /\ F + 1 = E /\ F \in Nat /\ F # E
      /\ F \notin DOMAIN d.trie /\ E \notin DOMAIN d.trie
  BY <1>6 DEF First2, Second
<1>8. z.trie[F] = HeadNode(d, p, j, None) /\ z.trie[E] = TailNode(d, p, j)
  BY <1>1, <1>7 DEF SplitTrie, HeadNode, TailNode
<1>9. F # None /\ F \notin Live(d) /\ E \notin Live(d)
  BY <1>7, Constants DEF Live
<1> HIDE DEF text1, F, E, G
<1> QED BY <1>2, <1>3, <1>4, <1>5, <1>7, <1>8, <1>9 DEF text1, F, E, G, SplitFacts

\* The word ends with the first part.
LEMMA ReallocateEndsAdds ==
    ASSUME NEW d, IsDict(d), NEW text, Good(d, text), NEW p \in Live(d), NEW j, NEW rest, NEW w,
           Splitting(d, text, p, j, rest, w), Len(rest) = j, NEW e
    PROVE  \E text2 : Added(d, text, Reallocate(d, p, j, rest, e), text2, w, e)
<1> DEFINE x == Reallocate(d, p, j, rest, e)
           k == Len(d.table)
           F == First2(d)
           G == Ghosts(d, text, p)
<1>1. PICK y, z : Split(d, p, j, y, z)
  BY SplitExists
<1> DEFINE text1 == SplitText(d, text, p, y, j)
<1>2. /\ Good(z, text1) /\ Len(z.table) = k
      /\ Live(z) = (Live(d) \ {p}) \cup {F, Second(d)}
      /\ text1[F] = Above(d, text, p) \o SubSeq(rest, 1, j)
      /\ Entries(z, text1) = Entries(d, text)
      /\ G \subseteq {u \in Gone(d, text) : Splits(u, w)}
      /\ Gone(z, text1) = Gone(d, text) \ G
      /\ z.trie[F] = HeadNode(d, p, j, None)
      /\ F \in 1..Second(d)
  <2>1. G \subseteq {u \in Gone(d, text) : Splits(u, w)}
    BY GhostsAre
  <2>3. SplitFacts(d, text, p, j, rest, y, z)
    BY <1>1, SplitIs
  <2>2. /\ Good(z, text1) /\ Len(z.table) = k
        /\ Live(z) = (Live(d) \ {p}) \cup {F, Second(d)}
        /\ text1[F] = Above(d, text, p) \o SubSeq(rest, 1, j)
        /\ Entries(z, text1) = Entries(d, text)
        /\ Gone(z, text1) = Gone(d, text) \ G
        /\ z.trie[F] = HeadNode(d, p, j, None)
        /\ F \in 1..Second(d)
    BY <2>3 DEF SplitFacts
  <2> QED BY <2>1, <2>2
<1>3. /\ j \in 1..Len(d.trie[p].chars) - 1 /\ rest \in Strings
      /\ Above(d, text, p) \o rest = w /\ w \in Words
  BY DEF Splitting
<1>4. SubSeq(rest, 1, j) = rest
  <2>1. rest \in Seq(Letters) /\ j = Len(rest)
    BY <1>3 DEF Strings
  <2> QED BY <2>1
<1>5. z.trie[F].id = None /\ z.trie[F].flag = "plain"
      /\ z.trie[F].parent = d.trie[p].parent /\ z.trie[F].chars = SubSeq(d.trie[p].chars, 1, j)
      /\ z.trie[F].children = NextArray(d)
  BY <1>2 DEF HeadNode, Rec
<1>6. Waiting(d, text, z, text1, w, F, G)
  <2> HIDE DEF text1, F, G, k
  <2> QED BY <1>2, <1>3, <1>4, <1>5 DEF Waiting, k
<1>7. /\ IsDict(x) /\ x.trie = SplitTrie(d, p, j, k)
      /\ x.arrays = Append(d.arrays, <<Second(d)>>)
      /\ x.table = Append(SplitTable(d, p), F)
      /\ x.lm = LmSet(d.lm, <<k>>, e) /\ x.count = d.count
  BY <1>3, ReallocateEnds
<1> HIDE DEF x, text1, G
<1>8. GiveId(z, x, F)
  <2>1. z.trie = SplitTrie(d, p, j, None) /\ z.arrays = Append(d.arrays, <<Second(d)>>)
        /\ z.table = SplitTable(d, p)
    BY <1>1 DEF Split
  <2>2. DOMAIN z.trie = 1..Second(d) /\ x.trie = [q \in 1..Second(d) |-> x.trie[q]]
    BY <1>7, <2>1 DEF SplitTrie
  <2>3. ASSUME NEW q \in 1..Second(d), q # F PROVE x.trie[q] = z.trie[q]
    BY <1>7, <2>1, <2>3 DEF SplitTrie
  <2>4. x.trie[F] = HeadNode(d, p, j, k)
    <3>1. F # Second(d)
      <4>1. SplitFacts(d, text, p, j, rest, y, z)
        BY <1>1, SplitIs
      <4> QED BY <4>1 DEF SplitFacts
    <3> QED BY <1>2, <1>7, <3>1 DEF SplitTrie, HeadNode
  <2>5. x.trie[F] = Rec("plain", z.trie[F].parent, z.trie[F].chars, Len(z.table),
                        z.trie[F].children)
    BY <1>2, <1>5, <2>4 DEF HeadNode
  <2>6. x.trie = [q \in DOMAIN z.trie |->
                     IF q = F THEN Rec("plain", z.trie[F].parent, z.trie[F].chars, Len(z.table),
                                       z.trie[F].children)
                     ELSE z.trie[q]]
    BY <2>2, <2>3, <2>5
  <2> QED BY <1>7, <2>1, <2>6 DEF GiveId
<1>9. Added(d, text, x, text1, w, e)
  BY <1>6, <1>7, <1>8, AddedNew
<1> QED BY <1>9 DEF x

\* One more node in the array b.
Longer(B, b, n) == [c \in DOMAIN B |-> IF c = b THEN Append(B[b], n) ELSE B[c]]

LEMMA SecondInArray ==
    ASSUME NEW S, NEW A \in Seq(S), NEW m, NEW n
    PROVE  Longer(Append(A, <<m>>), Len(A) + 1, n) = Append(A, <<m, n>>)
<1> DEFINE k == Len(A)
           B == Append(A, <<m>>)
<1>1. k \in Nat /\ DOMAIN A = 1..k
  BY LenProperties
<1>2. B = [b \in 1..k + 1 |-> IF b = k + 1 THEN <<m>> ELSE A[b]]
  BY AppendFun
<1>3. Append(A, <<m, n>>) = [b \in 1..k + 1 |-> IF b = k + 1 THEN <<m, n>> ELSE A[b]]
  BY AppendFun
<1>4. Append(<<m>>, n) = <<m, n>>
  <2> DEFINE T == {m, n}
  <2>1. <<m>> \in Seq(T) /\ Len(<<m>>) = 1 /\ <<m, n>> \in Seq(T) /\ Len(<<m, n>>) = 2
    BY m \in T, n \in T
  <2>2. Append(<<m>>, n) = [i \in 1..1 + 1 |-> IF i = 1 + 1 THEN n ELSE <<m>>[i]]
    BY <2>1, AppendFun
  <2>3. <<m, n>> = [i \in 1..2 |-> <<m, n>>[i]]
    BY <2>1
  <2>4. \A i \in 1..2 : <<m, n>>[i] = IF i = 2 THEN n ELSE <<m>>[i]
    OBVIOUS
  <2>5. <<m, n>> = [i \in 1..2 |-> IF i = 2 THEN n ELSE <<m>>[i]]
    BY <2>3, <2>4
  <2>6. 1 + 1 = 2
    OBVIOUS
  <2>7. Append(<<m>>, n) = [i \in 1..2 |-> IF i = 2 THEN n ELSE <<m>>[i]]
    BY ONLY <2>2, <2>6, Zenon
  <2> DEFINE g == [i \in 1..2 |-> IF i = 2 THEN n ELSE <<m>>[i]]
             h == Append(<<m>>, n)
             o == <<m, n>>
  <2>8. h = g /\ o = g
    BY ONLY <2>5, <2>7, Zenon
  <2> HIDE DEF g, h, o
  <2>9. h = o
    BY <2>8
  <2> QED BY <2>9 DEF h, o
<1> HIDE DEF B, k
<1>5. DOMAIN B = 1..k + 1 /\ k + 1 \in 1..k + 1
  BY <1>1, <1>2
<1>6. \A b \in 1..k + 1 : B[b] = IF b = k + 1 THEN <<m>> ELSE A[b]
  BY <1>2
<1>7. [b \in DOMAIN B |-> IF b = k + 1 THEN Append(B[k + 1], n) ELSE B[b]] = Append(A, <<m, n>>)
  BY <1>3, <1>4, <1>5, <1>6
<1> QED BY <1>7 DEF B, k, Longer

\* Only the second part is below the first one, and the rest of the word
\* branches off from it.
LEMMA SplitMisses ==
    ASSUME NEW d, NEW text, Good(d, text), NEW p \in Live(d), NEW j, NEW rest \in Substrings, NEW w,
           Splitting(d, text, p, j, rest, w), Len(rest) # j, NEW y, NEW z, Split(d, p, j, y, z)
    PROVE  Missing(z, NextArray(d), First2(d), Skip(rest, j))
<1> DEFINE text1 == SplitText(d, text, p, y, j)
           F == First2(d)
           E == Second(d)
           N == d.trie[p]
           a == NextArray(d)
           c == Skip(rest, j)
<1>1. /\ Good(z, text1)
      /\ Live(z) = (Live(d) \ {p}) \cup {F, E}
      /\ z.trie[F] = HeadNode(d, p, j, None)
      /\ z.trie[E] = TailNode(d, p, j)
      /\ F # E /\ F # None /\ F \notin Live(d) /\ E \notin Live(d)
  <2>1. SplitFacts(d, text, p, j, rest, y, z)
    BY SplitIs
  <2> QED BY <2>1 DEF SplitFacts
<1>2. z.trie = SplitTrie(d, p, j, None)
  BY DEF Split
<1>3. /\ j \in 1..Len(N.chars) - 1 /\ rest \in Strings /\ j <= Len(rest)
      /\ Len(rest) > j => rest[j + 1] # N.chars[j + 1]
  BY DEF Splitting
<1>4. /\ Buffers(d) /\ Buffers(z) /\ Tree(z) /\ Len(d.arrays) \in Nat
  BY <1>1, BuffersAre DEF Good
<1>5. z.trie[F].children = a /\ a \in Nat /\ a # None
  <2>1. z.trie[F].children = a
    BY <1>1 DEF HeadNode, Rec
  <2> QED BY <1>4, <2>1, Constants DEF NextArray
<1>6. F \in Live(z) /\ E \in Live(z)
  BY <1>1
<1>7. a \in DOMAIN z.arrays
  <2>1. F \in DOMAIN z.trie
    BY <1>4, <1>6, LiveIs
  <2> QED BY <1>4, <1>5, <2>1, NodeIs
<1>8. Len(rest) \in Nat /\ j \in 1..Len(rest) - 1
  <2>1. Len(rest) \in Nat
    BY SubstringIs
  <2>2. j \in Nat /\ j >= 1
    BY <1>3
  <2> QED BY <1>3, <2>1, <2>2
<1>9. c \in Substrings
  BY <1>8, PartsAre
<1>10. Head(c) = rest[j + 1]
  <2>1. rest \in Seq(Letters) /\ j \in 0..Len(rest) - 1
    BY <1>3, <1>8 DEF Strings
  <2> QED BY <2>1, HeadOfSkip
<1>11. Head(Skip(N.chars, j)) = N.chars[j + 1]
  <2>1. p \in DOMAIN d.trie
    BY <1>4, LiveIs
  <2>2. N.chars \in Strings /\ Len(N.chars) \in Nat
    BY <1>4, <2>1, NodeIs
  <2>3. N.chars \in Seq(Letters) /\ j \in 0..Len(N.chars) - 1
    BY <1>3, <2>2 DEF Strings
  <2> QED BY <2>3, HeadOfSkip
<1>12. Head(z.trie[E].chars) # Head(c)
  <2>1. z.trie[E].chars = Skip(N.chars, j)
    BY <1>1 DEF TailNode, Rec
  <2>2. rest[j + 1] # N.chars[j + 1]
    <3>1. Len(rest) > j
      BY <1>8
    <3> QED BY <1>3, <3>1
  <2> QED BY <1>10, <1>11, <2>1, <2>2
<1>13. ASSUME NEW q \in Live(z), Home(z, q) = a PROVE q = E
  <2>1. z.trie[q].parent = F
    BY <1>4, <1>5, <1>6, <1>13, HomeIs
  <2>2. CASE q = F
    <3>1. z.trie[F].parent = N.parent
      BY <1>1 DEF HeadNode, Rec
    <3>2. N.parent \in Live(d) \cup {None}
      BY <1>4, LiveIs
    <3> QED BY <1>1, <2>1, <2>2, <3>1, <3>2
  <2>3. CASE q # F /\ q # E
    <3>1. q \in Live(d) /\ q # p
      BY <1>1, <2>3
    <3>2. q \in 1..E
      <4>1. q \in DOMAIN z.trie
        BY DEF Live
      <4> QED BY <1>2, <4>1 DEF SplitTrie
    <3>3. z.trie[q] = IF d.trie[q].parent = p
                      THEN Rec(d.trie[q].flag, E, d.trie[q].chars, d.trie[q].id, d.trie[q].children)
                      ELSE d.trie[q]
      BY <1>2, <2>3, <3>1, <3>2 DEF SplitTrie
    <3>4. z.trie[q].parent \in {E, d.trie[q].parent}
      BY <3>3 DEF Rec
    <3>5. d.trie[q].parent \in Live(d) \cup {None}
      BY <1>4, <3>1, LiveIs
    <3> HIDE DEF E, F
    <3> QED BY <1>1, <2>1, <3>4, <3>5
  <2> QED BY <2>2, <2>3
<1> HIDE DEF a, F, E, c
<1>14. \A q \in Live(z) : Home(z, q) = a => Head(z.trie[q].chars) # Head(c)
  BY <1>12, <1>13
<1> QED BY <1>1, <1>5, <1>6, <1>7, <1>9, <1>14 DEF Missing, a, F, c

\* The word goes on after the first part.
LEMMA ReallocateMoreAdds ==
    ASSUME NEW d, IsDict(d), NEW text, Good(d, text), NEW p \in Live(d), NEW j,
           NEW rest \in Substrings, NEW w,
           Splitting(d, text, p, j, rest, w), Len(rest) # j, NEW e
    PROVE  \E text2 : Added(d, text, Reallocate(d, p, j, rest, e), text2, w, e)
<1> DEFINE x == Reallocate(d, p, j, rest, e)
           k == Len(d.table)
           F == First2(d)
           E == Second(d)
           G == Ghosts(d, text, p)
           a == NextArray(d)
           c == Skip(rest, j)
           t == SplitTrie(d, p, j, None)
           S == Range(t)
           A == Append(d.arrays, <<E, E + 1>>)
<1>1. PICK y, z : Split(d, p, j, y, z)
  BY SplitExists
<1> DEFINE text1 == SplitText(d, text, p, y, j)
<1>2. /\ Good(z, text1) /\ Len(z.table) = k
      /\ text1[F] = Above(d, text, p) \o SubSeq(rest, 1, j)
      /\ Entries(z, text1) = Entries(d, text)
      /\ G \subseteq {u \in Gone(d, text) : Splits(u, w)}
      /\ Gone(z, text1) = Gone(d, text) \ G
      /\ F # None /\ F \in Nat /\ E \in Nat
  <2>1. G \subseteq {u \in Gone(d, text) : Splits(u, w)}
    BY GhostsAre
  <2>3. SplitFacts(d, text, p, j, rest, y, z)
    BY <1>1, SplitIs
  <2>2. /\ Good(z, text1) /\ Len(z.table) = k
        /\ text1[F] = Above(d, text, p) \o SubSeq(rest, 1, j)
        /\ Entries(z, text1) = Entries(d, text)
        /\ Gone(z, text1) = Gone(d, text) \ G
        /\ F # None /\ F \in Nat /\ E \in Nat
    BY <2>3 DEF SplitFacts
  <2> QED BY <2>1, <2>2
<1>3. /\ j \in 1..Len(d.trie[p].chars) - 1 /\ rest \in Strings /\ j <= Len(rest)
      /\ Above(d, text, p) \o rest = w /\ w \in Words
  BY DEF Splitting
<1>4. z.trie = t /\ z.arrays = Append(d.arrays, <<E>>) /\ z.table = SplitTable(d, p)
  BY <1>1 DEF Split
<1>5. Missing(z, a, F, c)
  BY <1>1, SplitMisses
<1>6. c \in Strings
  BY <1>5, SubstringIs DEF Missing
<1>7. /\ IsDict(x)
      /\ x.trie = Append(t, Rec("plain", F, c, k, None))
      /\ x.arrays = A
      /\ x.table = Append(SplitTable(d, p), E + 1)
      /\ x.lm = LmSet(d.lm, <<k>>, e) /\ x.count = d.count
      /\ Len(t) = E /\ t \in Seq(S)
  BY <1>3, <1>6, ReallocateMore
<1>8. Rest(text1, F, c) = w
  <2> DEFINE u == Above(d, text, p)
             v == SubSeq(rest, 1, j)
  <2>1. u \in Strings
    BY AboveIs DEF Good
  <2>2. rest \in Seq(Letters) /\ u \in Seq(Letters) /\ j \in 0..Len(rest)
    BY <1>3, <2>1 DEF Strings
  <2>3. v \in Seq(Letters) /\ c \in Seq(Letters) /\ Len(v) = j
    BY <2>2, SkipIs, TakeIs
  <2>4. v \o c = rest
    <3>1. \A i \in 1..Len(v) : v[i] = rest[i]
      BY <2>2, <2>3, TakeIs
    <3>2. IsPrefix(v, rest)
      <4>1. Len(v) <= Len(rest)
        BY <2>2, <2>3
      <4> HIDE DEF v
      <4> QED BY <2>2, <2>3, <3>1, <4>1, PrefixIs
    <3> HIDE DEF v
    <3>3. v \o Skip(rest, Len(v)) = rest
      BY <2>2, <2>3, <3>2, PrefixAndRest
    <3> QED BY <2>3, <3>3 DEF c
  <2> HIDE DEF u, v, c
  <2>5. (u \o v) \o c = u \o (v \o c)
    BY <2>2, <2>3
  <2>6. text1[F] = u \o v
    BY <1>2 DEF u, v
  <2> HIDE DEF text1, F
  <2>7. Rest(text1, F, c) = (u \o v) \o c
    BY <1>2, <2>6 DEF Rest
  <2> QED BY <1>3, <2>4, <2>5, <2>7 DEF u
<1>9. PICK z3 : Leaf(z, z3, a, F, c)
  BY LeafDict
<1> DEFINE text2 == LeafText(z, text1, F, c)
<1> HIDE DEF x, text1, G, a, c, t, S, A, k, F, text2
<1>10. Waiting(d, text, z3, text2, w, End(z), G)
  BY <1>2, <1>3, <1>5, <1>8, <1>9, LeafWaits DEF k, text2
<1>11. End(z) = E + 1
  BY <1>4, <1>7 DEF End
<1>12. z3.trie = With(t, Rec("plain", F, c, None, None)) /\ z3.table = z.table
  <2>1. z3.trie = [q \in 1..Len(t) + 1 |->
                      IF q = Len(t) + 1 THEN Rec("plain", F, c, None, None) ELSE t[q]]
    BY <1>4, <1>7, <1>9, <1>11 DEF Leaf
  <2>2. z3.table = z.table
    BY <1>9 DEF Leaf
  <2> QED BY <2>1, <2>2 DEF With
<1>13. z3.arrays = A
  <2> DEFINE B == Append(d.arrays, <<E>>)
  <2>1. z3.arrays = [b \in DOMAIN B |-> IF b = a THEN Append(B[a], E + 1) ELSE B[b]]
    BY <1>4, <1>9, <1>11 DEF Leaf
  <2>2. d.arrays \in Seq(Seq(Nat))
    BY BuffersAre DEF Good
  <2> DEFINE n == E + 1
             m == E
  <2>3. Longer(Append(d.arrays, <<m>>), Len(d.arrays) + 1, n) = Append(d.arrays, <<m, n>>)
    <3> HIDE DEF m, n
    <3> QED BY <2>2, SecondInArray
  <2> QED BY <2>1, <2>3 DEF a, A, NextArray, Longer
<1>14. GiveId(z3, x, E + 1)
  <2>1. /\ x.trie = Append(t, Rec("plain", F, c, Len(z3.table), None))
        /\ x.arrays = z3.arrays /\ x.table = Append(z3.table, Len(t) + 1)
    BY <1>2, <1>4, <1>7, <1>12, <1>13
  <2>2. GiveId(z3, x, Len(t) + 1)
    BY <1>7, <1>12, <2>1, GivenAtEnd
  <2> QED BY <1>7, <2>2
<1>15. Added(d, text, x, text2, w, e)
  BY <1>7, <1>10, <1>11, <1>14, AddedNew DEF k
<1> QED BY <1>15 DEF x

LEMMA ReallocateAdds ==
    ASSUME NEW d, IsDict(d), NEW text, Good(d, text), NEW p \in Live(d), NEW j,
           NEW rest \in Substrings, NEW w, Splitting(d, text, p, j, rest, w), NEW e
    PROVE  \E text2 : Added(d, text, Reallocate(d, p, j, rest, e), text2, w, e)
BY ReallocateEndsAdds, ReallocateMoreAdds

-----------------------------------------------------------------------------
(* Adding a word.                                                          *)

\* The first letters two strings have in common.
LEMMA TakesAgree ==
    ASSUME NEW S, NEW s \in Seq(S), NEW t \in Seq(S), NEW n \in Nat, n <= Len(s), n <= Len(t)
    PROVE  SubSeq(s, 1, n) = SubSeq(t, 1, n) <=> \A i \in 1..n : s[i] = t[i]
<1>1. Len(s) \in Nat /\ Len(t) \in Nat
  BY LenProperties
<1>2. n \in 0..Len(s) /\ n \in 0..Len(t)
  BY <1>1
<1> DEFINE u == SubSeq(s, 1, n)
           v == SubSeq(t, 1, n)
<1>3. u \in Seq(S) /\ Len(u) = n /\ \A i \in 1..n : u[i] = s[i]
  BY <1>2, TakeIs
<1>4. v \in Seq(S) /\ Len(v) = n /\ \A i \in 1..n : v[i] = t[i]
  BY <1>2, TakeIs
<1> HIDE DEF u, v
<1>5. ASSUME \A i \in 1..n : s[i] = t[i] PROVE u = v
  BY <1>3, <1>4, <1>5, SeqEqual
<1>6. ASSUME u = v, NEW i \in 1..n PROVE s[i] = t[i]
  BY <1>3, <1>4, <1>6
<1> QED BY <1>5, <1>6 DEF u, v

LEMMA CommonPrefixIs ==
    ASSUME NEW S, NEW s \in Seq(S), NEW t \in Seq(S), s # <<>>, t # <<>>, Head(s) = Head(t)
    PROVE  LET j == CommonPrefixLength(s, t) IN
           /\ j \in Nat /\ j >= 1 /\ j <= Len(s) /\ j <= Len(t)
           /\ SubSeq(s, 1, j) = SubSeq(t, 1, j)
           /\ j < Len(s) /\ j < Len(t) => s[j + 1] # t[j + 1]
<1> DEFINE k == Len(s)
           l == Len(t)
           m == Min({k, l})
           T == {n \in 0..m : SubSeq(s, 1, n) = SubSeq(t, 1, n)}
           j == CommonPrefixLength(s, t)
<1>1. k \in Nat /\ l \in Nat
  BY LenProperties
<1>2. m \in Nat /\ m <= k /\ m <= l /\ (m = k \/ m = l)
  <2> HIDE DEF k, l
  <2>1. {k, l} \subseteq Nat /\ {k, l} # {}
    BY <1>1
  <2>2. Min({k, l}) \in {k, l} /\ \A x \in {k, l} : Min({k, l}) <= x
    BY <2>1, MinOf
  <2> QED BY <1>1, <2>2
<1>3. j = Max(T)
  BY DEF CommonPrefixLength
<1> HIDE DEF k, l, m, j
<1>4. ASSUME NEW n \in 0..m
      PROVE  n \in T <=> \A i \in 1..n : s[i] = t[i]
  <2>1. n \in Nat /\ n <= Len(s) /\ n <= Len(t)
    BY <1>1, <1>2 DEF k, l
  <2> QED BY <2>1, TakesAgree
<1>5. T \subseteq 0..m
  OBVIOUS
<1> HIDE DEF T
<1>6. 0 \in T
  <2>1. 0 \in 0..m /\ 1..0 = {}
    BY <1>2
  <2> QED BY <1>4, <2>1
<1>7. j \in T /\ \A n \in T : j >= n
  <2>1. T \subseteq Nat /\ T # {} /\ \A n \in T : n <= m
    BY <1>2, <1>5, <1>6
  <2> QED BY <1>2, <1>3, <2>1, MaxOf
<1>8. j \in 0..m /\ j \in Nat /\ j <= k /\ j <= l
  BY <1>1, <1>2, <1>5, <1>7
<1>9. SubSeq(s, 1, j) = SubSeq(t, 1, j)
  BY <1>7 DEF T
<1>10. ASSUME j < k, j < l, s[j + 1] = t[j + 1] PROVE FALSE
  <2>1. j + 1 \in 0..m /\ j + 1 \notin T
    <3>1. j + 1 \in 0..m
      BY <1>1, <1>2, <1>8, <1>10
    <3>2. ~(j >= j + 1)
      BY <1>8
    <3> QED BY <1>7, <3>1, <3>2
  <2>2. \A i \in 1..j : s[i] = t[i]
    BY <1>4, <1>7, <1>8
  <2>3. 1..j + 1 = 1..j \cup {j + 1}
    BY <1>8, OneMore
  <2>4. \A i \in 1..j + 1 : s[i] = t[i]
    BY <1>10, <2>2, <2>3
  <2> QED BY <1>4, <2>1, <2>4
<1>11. j >= 1
  <2> SUFFICES ASSUME j = 0 PROVE FALSE
    BY <1>8
  <2>1. k > 0 /\ l > 0
    BY <1>1, EmptySeq DEF k, l
  <2>2. s[1] = t[1]
    BY <1>1, <2>1 DEF k, l
  <2> QED BY <1>10, <2>1, <2>2
<1> QED BY <1>8, <1>9, <1>10, <1>11 DEF j, k, l

AddPlaces(d, w) ==
    [array : DOMAIN d.arrays, parent : DOMAIN d.trie \cup {None}, read : 0..Len(w) - 1]
AddStart == [array |-> Root, parent |-> None, read |-> 0]
Below(d, p, at, j) ==
    [array |-> d.trie[p].children, parent |-> p, read |-> at.read + j]

Alike(d, w, at) ==
    {i \in DOMAIN d.arrays[at.array] :
        Head(d.trie[Siblings(d, at.array)[i]].chars) = Head(Skip(w, at.read))}

\* One step of AddedToTrie, at a node p or None with j letters in common.
AddWith(d, w, e, f, at, p, j) ==
    LET rest == Skip(w, at.read)
    IN IF p = None THEN CreateAndInsert(d, at.array, at.parent, rest, e)
       ELSE IF j < Len(d.trie[p].chars) THEN Reallocate(d, p, j, rest, e)
       ELSE IF j = Len(rest) THEN SetProbability(d, p, e)
       ELSE IF d.trie[p].children = None THEN CreateChild(d, p, Skip(rest, j), e)
       ELSE f[Below(d, p, at, j)]

AddNode(d, w, at) == FirstAt(d, at.array, Alike(d, w, at))
InCommon(d, w, at, p) == CommonPrefixLength(d.trie[p].chars, Skip(w, at.read))

AddStep(d, w, e, f, at) ==
    AddWith(d, w, e, f, at, AddNode(d, w, at), InCommon(d, w, at, AddNode(d, w, at)))

LEMMA AddUnfolded ==
    ASSUME NEW d, NEW w, NEW e
    PROVE  AddedToTrie(d, w, e)
              = (CHOOSE f : f = [at \in AddPlaces(d, w) |-> AddStep(d, w, e, f, at)])[AddStart]
BY DEF AddedToTrie, AddPlaces, AddStep, AddWith, AddNode, InCommon, FirstAt, Alike, First,
       AddStart, Below

LEMMA AddPlaceIs ==
    ASSUME NEW d, Buffers(d), NEW w \in Strings, NEW at \in AddPlaces(d, w)
    PROVE  /\ Len(w) \in Nat /\ at.array \in DOMAIN d.arrays
           /\ at.read \in Nat /\ at.read < Len(w) /\ at.read \in 0..Len(w) - 1
           /\ Skip(w, at.read) \in Strings /\ Skip(w, at.read) # <<>>
           /\ Len(Skip(w, at.read)) = Len(w) - at.read
           /\ AddNode(d, w, at) \in Live(d) \cup {None}
<1>1. Len(w) \in Nat
  BY LenProperties DEF Strings
<1>2. at.array \in DOMAIN d.arrays /\ at.read \in 0..Len(w) - 1
  BY DEF AddPlaces
<1>3. at.read \in 0..Len(w)
  BY <1>1, <1>2
<1>4. Skip(w, at.read) \in Strings /\ Len(Skip(w, at.read)) = Len(w) - at.read
  BY <1>3, SkipIs DEF Strings
<1>5. Skip(w, at.read) # <<>>
  BY <1>2, HeadOfSkip DEF Strings
<1>6. Alike(d, w, at) \in SUBSET DOMAIN d.arrays[at.array]
  BY DEF Alike
<1>7. AddNode(d, w, at) \in Live(d) \cup {None}
  BY <1>2, <1>6, FirstIs DEF AddNode
<1> QED BY <1>1, <1>2, <1>4, <1>5, <1>7

\* What a place and its first node have in common.
LEMMA InCommonIs ==
    ASSUME NEW d, Buffers(d), Tree(d), NEW w \in Strings, NEW at \in AddPlaces(d, w),
           AddNode(d, w, at) # None
    PROVE  LET p == AddNode(d, w, at)
               j == InCommon(d, w, at, p)
               c == d.trie[p].chars
               r == Skip(w, at.read)
           IN
           /\ p \in Live(d) /\ Home(d, p) = at.array
           /\ c \in Strings /\ Len(c) \in Nat
           /\ j \in Nat /\ j >= 1 /\ j <= Len(c) /\ j <= Len(r)
           /\ SubSeq(c, 1, j) = SubSeq(r, 1, j)
           /\ j < Len(c) /\ j < Len(r) => c[j + 1] # r[j + 1]
<1> DEFINE p == AddNode(d, w, at)
           j == InCommon(d, w, at, p)
           c == d.trie[p].chars
           r == Skip(w, at.read)
           x == Head(r)
<1>1. at.array \in DOMAIN d.arrays /\ r \in Strings /\ r # <<>> /\ p \in Live(d) \cup {None}
  BY AddPlaceIs
<1>2. Beginning(d, at.array, Alike(d, w, at), x)
  BY DEF Beginning, Alike
<1>3. p \in Live(d) /\ Home(d, p) = at.array /\ Head(c) = x
  <2> HIDE DEF x
  <2> QED BY <1>1, <1>2, SiblingIs DEF AddNode
<1>4. p \in DOMAIN d.trie
  BY <1>3, LiveIs
<1>5. c \in Strings /\ c # <<>> /\ Len(c) \in Nat
  BY <1>4, NodeIs
<1>6. j = CommonPrefixLength(c, r)
  BY DEF InCommon
<1> HIDE DEF c, r, p, j
<1>7. c \in Seq(Letters) /\ r \in Seq(Letters) /\ Head(c) = Head(r)
  BY <1>1, <1>3, <1>5 DEF Strings, x
<1>8. /\ j \in Nat /\ j >= 1 /\ j <= Len(c) /\ j <= Len(r)
      /\ SubSeq(c, 1, j) = SubSeq(r, 1, j)
      /\ j < Len(c) /\ j < Len(r) => c[j + 1] # r[j + 1]
  BY <1>1, <1>5, <1>6, <1>7, CommonPrefixIs
<1> QED BY <1>3, <1>5, <1>8 DEF p, j, c, r

\* The way goes to a place further on.
LEMMA BelowIs ==
    ASSUME NEW d, Buffers(d), NEW w \in Strings, NEW at \in AddPlaces(d, w),
           NEW p \in Live(d), NEW j \in Nat, j >= 1, j <= Len(Skip(w, at.read)),
           j # Len(Skip(w, at.read)), d.trie[p].children # None
    PROVE  /\ Below(d, p, at, j) \in AddPlaces(d, w)
           /\ Len(w) - Below(d, p, at, j).read < Len(w) - at.read
<1>1. p \in DOMAIN d.trie
  BY LiveIs
<1>2. d.trie[p].children \in DOMAIN d.arrays
  BY <1>1, NodeIs
<1>3. /\ Len(w) \in Nat /\ at.read \in Nat /\ at.read < Len(w)
      /\ Len(Skip(w, at.read)) = Len(w) - at.read
  BY AddPlaceIs
<1> DEFINE k == Len(Skip(w, at.read))
<1>4. j < k /\ k = Len(w) - at.read
  BY <1>3
<1> HIDE DEF k
<1>5. /\ at.read + j \in 0..Len(w) - 1
      /\ Len(w) - (at.read + j) < Len(w) - at.read
  BY <1>3, <1>4
<1> QED BY <1>1, <1>2, <1>5 DEF Below, AddPlaces

\* Where the way goes on.
GoesOn(d, w, at, p, j) ==
    /\ p # None /\ ~(j < Len(d.trie[p].chars)) /\ j # Len(Skip(w, at.read))
    /\ d.trie[p].children # None

LEMMA GoesOnIs ==
    ASSUME NEW d, Buffers(d), Tree(d), NEW w \in Strings, NEW at \in AddPlaces(d, w)
    PROVE  LET p == AddNode(d, w, at)
               j == InCommon(d, w, at, p)
           IN  GoesOn(d, w, at, p, j) =>
                  /\ Below(d, p, at, j) \in AddPlaces(d, w)
                  /\ Len(w) - Below(d, p, at, j).read < Len(w) - at.read
<1> DEFINE p == AddNode(d, w, at)
           j == InCommon(d, w, at, p)
<1> SUFFICES ASSUME GoesOn(d, w, at, p, j)
             PROVE  /\ Below(d, p, at, j) \in AddPlaces(d, w)
                    /\ Len(w) - Below(d, p, at, j).read < Len(w) - at.read
  OBVIOUS
<1>1. p # None /\ j # Len(Skip(w, at.read)) /\ d.trie[p].children # None
  BY DEF GoesOn
<1>2. p \in Live(d) /\ j \in Nat /\ j >= 1 /\ j <= Len(Skip(w, at.read))
  BY <1>1, InCommonIs
<1> HIDE DEF p, j
<1> QED BY <1>1, <1>2, BelowIs

LEMMA AddDefined ==
    ASSUME NEW d, Buffers(d), Tree(d), NEW w \in Strings, w # <<>>, NEW e
    PROVE  \E f : /\ \A at \in AddPlaces(d, w) : f[at] = AddStep(d, w, e, f, at)
                  /\ AddedToTrie(d, w, e) = f[AddStart]
<1> DEFINE S == AddPlaces(d, w)
           P(at) == AddNode(d, w, at)
           J(at) == InCommon(d, w, at, P(at))
           R(at) == Skip(w, at.read)
           V == ((({CreateAndInsert(d, at.array, at.parent, R(at), e) : at \in S}
                \cup {Reallocate(d, P(at), J(at), R(at), e) : at \in S})
                \cup {SetProbability(d, P(at), e) : at \in S})
                \cup {CreateChild(d, P(at), Skip(R(at), J(at)), e) : at \in S})
           top == Len(w)
           W == [S -> V]
           B == [g \in W |-> [at \in S |-> AddStep(d, w, e, g, at)]]
           m == [at \in S |-> top - at.read]
           f0 == [at \in S |-> CreateAndInsert(d, at.array, at.parent, R(at), e)]
<1>2. \A at \in S : GoesOn(d, w, at, P(at), J(at))
         => /\ Below(d, P(at), at, J(at)) \in S
            /\ top - Below(d, P(at), at, J(at)).read < top - at.read
  BY GoesOnIs
<1>3. top \in Nat /\ m \in [S -> Nat] /\ \A at \in S : m[at] = top - at.read /\ m[at] <= top
  <2>1. top \in Nat
    BY LenProperties DEF Strings
  <2>2. \A at \in S : top - at.read \in Nat /\ top - at.read <= top
    BY AddPlaceIs
  <2> QED BY <2>1, <2>2
<1>4. f0 \in W
  OBVIOUS
<1>5. ASSUME NEW g \in W, NEW at \in S PROVE AddStep(d, w, e, g, at) \in V
  <2> DEFINE p == P(at)
             j == J(at)
             b == Below(d, p, at, j)
  <2>1. /\ CreateAndInsert(d, at.array, at.parent, R(at), e) \in V
        /\ Reallocate(d, p, j, R(at), e) \in V
        /\ SetProbability(d, p, e) \in V
        /\ CreateChild(d, p, Skip(R(at), j), e) \in V
    OBVIOUS
  <2>2. GoesOn(d, w, at, p, j) => g[b] \in V
    <3> SUFFICES ASSUME GoesOn(d, w, at, p, j) PROVE g[b] \in V
      OBVIOUS
    <3>1. b \in S
      BY <1>2
    <3> HIDE DEF b, S, V
    <3> QED BY <3>1
  <2> HIDE DEF p, j, V
  <2>3. AddWith(d, w, e, g, at, p, j) \in V
    BY <2>1, <2>2 DEF AddWith, GoesOn
  <2> QED BY <2>3 DEF AddStep, p, j
<1>6. B \in [W -> W] /\ \A g \in W, at \in S : B[g][at] = AddStep(d, w, e, g, at)
  <2> HIDE DEF W, S, V
  <2>1. \A g \in W : [at \in S |-> AddStep(d, w, e, g, at)] \in W
    BY <1>5 DEF W
  <2> QED BY <2>1
<1>7. ASSUME NEW g \in W, NEW h \in W, NEW at \in S,
             \A y \in S : m[y] < m[at] => g[y] = h[y]
      PROVE  B[g][at] = B[h][at]
  <2> DEFINE p == P(at)
             j == J(at)
             b == Below(d, p, at, j)
  <2>2. GoesOn(d, w, at, p, j) => g[b] = h[b]
    <3> SUFFICES ASSUME GoesOn(d, w, at, p, j) PROVE g[b] = h[b]
      OBVIOUS
    <3>1. b \in S /\ top - b.read < top - at.read
      BY <1>2
    <3> HIDE DEF b, S, m
    <3> QED BY <1>3, <1>7, <3>1
  <2> HIDE DEF p, j
  <2>3. AddWith(d, w, e, g, at, p, j) = AddWith(d, w, e, h, at, p, j)
    BY <2>2 DEF AddWith, GoesOn
  <2>4. AddStep(d, w, e, g, at) = AddStep(d, w, e, h, at)
    BY <2>3 DEF AddStep, p, j
  <2> QED BY <1>6, <2>4
<1> HIDE DEF f0, B, m, W, S, V, top
<1>8. Recursion(S, V, B, m, top)
  <2>1. [S -> V] # {} /\ B \in [[S -> V] -> [S -> V]]
    BY <1>4, <1>6 DEF W
  <2>2. \A g, h \in [S -> V], x \in S :
             (\A y \in S : m[y] < m[x] => g[y] = h[y]) => B[g][x] = B[h][x]
    BY <1>7 DEF W
  <2> QED BY <1>3, <2>1, <2>2 DEF Recursion
<1>9. PICK f \in W : B[f] = f
  BY <1>8, Fixpoint DEF W
<1>10. f = [at \in S |-> AddStep(d, w, e, f, at)]
  BY <1>9 DEF B
<1> DEFINE F == CHOOSE h : h = [at \in S |-> AddStep(d, w, e, h, at)]
<1>11. F = [at \in S |-> AddStep(d, w, e, F, at)]
  BY <1>10
<1>12. AddedToTrie(d, w, e) = F[AddStart]
  BY AddUnfolded DEF S
<1> HIDE DEF F
<1>13. \A at \in S : F[at] = AddStep(d, w, e, F, at)
  BY <1>11
<1> QED BY <1>12, <1>13 DEF S

LEMMA RestOfWord ==
    ASSUME NEW w \in Words, NEW k \in 0..Len(w) - 1
    PROVE  Skip(w, k) \in Substrings
<1> DEFINE n == Len(w)
           v == SubSeq(w, 1, n)
           r == Skip(v, k)
<1>1. w \in Seq(Letters) /\ n \in Nat
  BY Constants DEF Strings
<1>2. v = w
  BY <1>1
<1>3. n \in 1..Len(w)
  BY <1>1
<1>4. Skip(w, k) # <<>>
  BY <1>1, HeadOfSkip
<1>5. r \in {Skip(SubSeq(w, 1, i), l) : i \in 1..Len(w), l \in 0..Len(w) - 1}
  BY <1>3
<1> HIDE DEF v, n
<1>6. r = Skip(w, k)
  BY <1>2
<1> HIDE DEF r
<1> QED BY <1>4, <1>5, <1>6 DEF Substrings

\* The way to the place of a word: the array is below the node that is to be the
\* parent, and the letters above it are those that were read.
OnTheWay(d, text, w, at) ==
    /\ at \in AddPlaces(d, w)
    /\ IF at.parent = None THEN at.array = Root
       ELSE at.parent \in Live(d) /\ d.trie[at.parent].children = at.array
    /\ Rest(text, at.parent, Skip(w, at.read)) = w

LEMMA WayStarts ==
    ASSUME NEW d, NEW text, Good(d, text), NEW w \in Words
    PROVE  OnTheWay(d, text, w, AddStart)
<1> DEFINE at == AddStart
<1>1. at.array = Root /\ at.parent = None /\ at.read = 0
  BY DEF AddStart
<1>2. w \in Seq(Letters) /\ w # <<>> /\ Len(w) \in Nat /\ 0 \in 0..Len(w)
  BY Constants DEF Strings
<1>3. 0 \in 0..Len(w) - 1
  <2>1. Len(w) > 0
    BY <1>2, EmptySeq
  <2> QED BY <1>2, <2>1
<1>4. at \in AddPlaces(d, w)
  <2>1. Root \in DOMAIN d.arrays
    BY ArraysAre DEF Good
  <2> QED BY <1>3, <2>1 DEF AddStart, AddPlaces
<1>5. Skip(w, 0) = w
  BY <1>2 DEF Skip
<1>6. Rest(text, None, w) = w
  BY <1>2 DEF Rest
<1> QED BY <1>1, <1>4, <1>5, <1>6 DEF OnTheWay

\* What is above the nodes of the array.
LEMMA WayAbove ==
    ASSUME NEW d, NEW text, Good(d, text), NEW w \in Words, NEW at, OnTheWay(d, text, w, at),
           NEW q \in Live(d), Home(d, q) = at.array
    PROVE  d.trie[q].parent = at.parent /\ Above(d, text, q) \o Skip(w, at.read) = w
<1>1. Buffers(d) /\ Tree(d)
  BY DEF Good
<1>2. d.trie[q].parent = at.parent
  <2>1. CASE at.parent = None
    <3>1. Home(d, q) = Root
      BY <2>1 DEF OnTheWay
    <3> QED BY <1>1, <2>1, <3>1, HomeIs
  <2>2. CASE at.parent # None
    <3>1. at.parent \in Live(d) /\ d.trie[at.parent].children = at.array
      BY <2>2 DEF OnTheWay
    <3>2. at.parent \in DOMAIN d.trie
      BY <1>1, <3>1, LiveIs
    <3>3. at.array \in DOMAIN d.arrays
      BY DEF OnTheWay, AddPlaces
    <3>4. at.array # None
      <4>1. DOMAIN d.arrays = 1..Len(d.arrays)
        BY <1>1, ArraysAre
      <4> QED BY <3>3, <4>1, Constants
    <3> DEFINE u == at.parent
    <3>5. u \in Live(d) /\ d.trie[u].children # None /\ Home(d, q) = d.trie[u].children
      BY <3>1, <3>4
    <3> HIDE DEF u
    <3>6. d.trie[q].parent = u
      BY <1>1, <3>5, HomeIs
    <3> QED BY <3>6 DEF u
  <2> QED BY <2>1, <2>2
<1>3. Rest(text, at.parent, Skip(w, at.read)) = w
  BY DEF OnTheWay
<1> QED BY <1>2, <1>3 DEF Rest, Above

LEMMA WayIs ==
    ASSUME NEW d, NEW text, Good(d, text), NEW w \in Words, NEW at, OnTheWay(d, text, w, at)
    PROVE  /\ at \in AddPlaces(d, w) /\ w \in Strings
           /\ Buffers(d) /\ Tree(d)
           /\ Skip(w, at.read) \in Substrings
<1>1. at \in AddPlaces(d, w) /\ w \in Strings /\ Buffers(d) /\ Tree(d)
  BY Constants DEF OnTheWay, Good
<1>2. at.read \in 0..Len(w) - 1
  BY <1>1, AddPlaceIs
<1> QED BY <1>1, <1>2, RestOfWord

\* There is no node to follow.
LEMMA WayEnds ==
    ASSUME NEW d, NEW text, Good(d, text), NEW w \in Words, NEW at, OnTheWay(d, text, w, at),
           AddNode(d, w, at) = None
    PROVE  Missing(d, at.array, at.parent, Skip(w, at.read))
<1> DEFINE r == Skip(w, at.read)
           a == at.array
<1>1. /\ at \in AddPlaces(d, w) /\ w \in Strings /\ Buffers(d) /\ Tree(d)
      /\ r \in Substrings
  BY WayIs
<1>2. a \in DOMAIN d.arrays
  BY <1>1, AddPlaceIs
<1>3. ASSUME NEW q \in Live(d), Home(d, q) = a, Head(d.trie[q].chars) = Head(r) PROVE FALSE
  <2>1. PICK i \in DOMAIN d.arrays[a] : Siblings(d, a)[i] = q
    BY <1>1, <1>3 DEF Tree
  <2>2. i \in Alike(d, w, at)
    BY <1>3, <2>1 DEF Alike
  <2>3. Alike(d, w, at) \in SUBSET DOMAIN d.arrays[a]
    BY DEF Alike
  <2>4. FirstAt(d, a, Alike(d, w, at)) = None
    BY DEF AddNode
  <2>5. Alike(d, w, at) = {}
    BY <1>1, <1>2, <2>3, <2>4, FirstIs
  <2> QED BY <2>2, <2>5
<1> QED BY <1>1, <1>2, <1>3 DEF Missing, OnTheWay

\* The word branches off from the node, or ends in it.
LEMMA WaySplits ==
    ASSUME NEW d, NEW text, Good(d, text), NEW w \in Words, NEW at, OnTheWay(d, text, w, at),
           AddNode(d, w, at) # None,
           InCommon(d, w, at, AddNode(d, w, at)) < Len(d.trie[AddNode(d, w, at)].chars)
    PROVE  Splitting(d, text, AddNode(d, w, at), InCommon(d, w, at, AddNode(d, w, at)),
                     Skip(w, at.read), w)
<1> DEFINE p == AddNode(d, w, at)
           j == InCommon(d, w, at, p)
           c == d.trie[p].chars
           r == Skip(w, at.read)
<1>1. /\ at \in AddPlaces(d, w) /\ w \in Strings /\ Buffers(d) /\ Tree(d)
      /\ r \in Substrings
  BY WayIs
<1>2. /\ p \in Live(d) /\ Home(d, p) = at.array
      /\ Len(c) \in Nat
      /\ j \in Nat /\ j >= 1 /\ j <= Len(c) /\ j <= Len(r)
      /\ SubSeq(c, 1, j) = SubSeq(r, 1, j)
      /\ j < Len(c) /\ j < Len(r) => c[j + 1] # r[j + 1]
  BY <1>1, InCommonIs
<1>3. Above(d, text, p) \o r = w
  BY <1>2, WayAbove
<1>4. j < Len(c)
  OBVIOUS
<1>5. r \in Strings /\ Len(r) \in Nat
  BY <1>1, SubstringIs
<1> HIDE DEF p, j, r
<1>6. j \in 1..Len(c) - 1
  BY <1>2, <1>4
<1>7. Len(r) > j => r[j + 1] # c[j + 1]
  BY <1>2, <1>4, <1>5
<1> QED BY <1>2, <1>3, <1>5, <1>6, <1>7 DEF Splitting, p, j, r

\* The letters of the node p, j in number, are all in the word.
Passing(d, text, w, at, p, j) ==
    LET r == Skip(w, at.read) IN
    /\ p \in Live(d)
    /\ j = Len(r) => text[p] = w
    /\ j # Len(r) => /\ Skip(r, j) \in Substrings /\ text[p] \o Skip(r, j) = w
                     /\ Skip(r, j) = Skip(w, at.read + j)

LEMMA WayPasses ==
    ASSUME NEW d, NEW text, Good(d, text), NEW w \in Words, NEW at, OnTheWay(d, text, w, at),
           AddNode(d, w, at) # None,
           ~(InCommon(d, w, at, AddNode(d, w, at)) < Len(d.trie[AddNode(d, w, at)].chars))
    PROVE  Passing(d, text, w, at, AddNode(d, w, at), InCommon(d, w, at, AddNode(d, w, at)))
<1> DEFINE p == AddNode(d, w, at)
           j == InCommon(d, w, at, p)
           c == d.trie[p].chars
           r == Skip(w, at.read)
           u == Above(d, text, p)
<1>1. /\ at \in AddPlaces(d, w) /\ w \in Strings /\ Buffers(d) /\ Tree(d)
      /\ r \in Substrings
  BY WayIs
<1>2. /\ p \in Live(d) /\ Home(d, p) = at.array
      /\ c \in Strings /\ Len(c) \in Nat
      /\ j \in Nat /\ j >= 1 /\ j <= Len(c) /\ j <= Len(r)
      /\ SubSeq(c, 1, j) = SubSeq(r, 1, j)
  BY <1>1, InCommonIs
<1>3. u \o r = w
  BY <1>2, WayAbove
<1>4. ~(j < Len(c))
  OBVIOUS
<1>5. r \in Strings /\ Len(r) \in Nat
  BY <1>1, SubstringIs
<1>6. u \in Strings /\ text[p] = u \o c
  BY <1>2, AboveIs DEF Good
<1>7. at.read \in Nat /\ Len(w) \in Nat /\ Len(r) = Len(w) - at.read /\ at.read \in 0..Len(w) - 1
  BY <1>1, AddPlaceIs
<1> HIDE DEF p, j, c, u
<1>8. j = Len(c)
  BY <1>2, <1>4
<1>9. c = SubSeq(r, 1, j)
  <2>1. SubSeq(c, 1, Len(c)) = c
    BY <1>2 DEF Strings
  <2> QED BY <1>2, <1>8, <2>1
<1>10. IsPrefix(c, r)
  <2> HIDE DEF r
  <2>1. j \in 0..Len(r)
    BY <1>2, <1>5
  <2>2. \A i \in 1..Len(c) : c[i] = r[i]
    BY <1>5, <1>8, <1>9, <2>1, TakeIs DEF Strings
  <2> QED BY <1>2, <1>5, <1>8, <2>2, PrefixIs DEF Strings
<1>11. c \o Skip(r, j) = r
  <2> HIDE DEF r
  <2> QED BY <1>2, <1>5, <1>8, <1>10, PrefixAndRest DEF Strings
<1>12. ASSUME j = Len(r) PROVE text[p] = w
  <2>1. SubSeq(r, 1, Len(r)) = r
    BY <1>5 DEF Strings
  <2>2. c = r
    BY <1>9, <1>12, <2>1
  <2> QED BY <1>3, <1>6, <2>2
<1>13. ASSUME j # Len(r)
       PROVE  /\ Skip(r, j) \in Substrings /\ text[p] \o Skip(r, j) = w
              /\ Skip(r, j) = Skip(w, at.read + j)
  <2>1. j \in 0..Len(w) - at.read /\ at.read \in 0..Len(w) /\ at.read + j \in 0..Len(w) - 1
    BY <1>2, <1>7, <1>13
  <2>2. Skip(r, j) = Skip(w, at.read + j)
    BY <1>1, <2>1, SkipSkip DEF Strings
  <2>3. Skip(w, at.read + j) \in Substrings
    BY <2>1, RestOfWord
  <2> DEFINE v == Skip(r, j)
  <2>4. v \in Strings
    BY <2>2, <2>3, SubstringIs
  <2>5. (u \o c) \o v = u \o (c \o v)
    <3> DEFINE S == Letters
    <3>1. u \in Seq(S) /\ c \in Seq(S) /\ v \in Seq(S)
      BY <1>2, <1>6, <2>4 DEF Strings
    <3> HIDE DEF S, v, u, c
    <3> QED BY <3>1, ConcatAssociative
  <2>6. text[p] \o v = w
    BY <1>3, <1>6, <1>11, <2>5
  <2> QED BY <2>2, <2>3, <2>6
<1> QED BY <1>2, <1>12, <1>13 DEF p, j, Passing

\* It goes on below the node.
LEMMA WayGoesOn ==
    ASSUME NEW d, NEW text, Good(d, text), NEW w \in Words, NEW at, OnTheWay(d, text, w, at),
           GoesOn(d, w, at, AddNode(d, w, at), InCommon(d, w, at, AddNode(d, w, at)))
    PROVE  LET p == AddNode(d, w, at)
               b == Below(d, p, at, InCommon(d, w, at, p))
           IN  OnTheWay(d, text, w, b) /\ Len(w) - b.read < Len(w) - at.read
<1> DEFINE p == AddNode(d, w, at)
           j == InCommon(d, w, at, p)
           b == Below(d, p, at, j)
           r == Skip(w, at.read)
<1>1. /\ at \in AddPlaces(d, w) /\ w \in Strings /\ Buffers(d) /\ Tree(d)
  BY WayIs
<1>2. b \in AddPlaces(d, w) /\ Len(w) - b.read < Len(w) - at.read
  BY <1>1, GoesOnIs
<1>3. p # None /\ ~(j < Len(d.trie[p].chars)) /\ j # Len(r)
  BY DEF GoesOn
<1>4. p \in Live(d) /\ text[p] \o Skip(r, j) = w /\ Skip(r, j) = Skip(w, at.read + j)
  <2>1. Passing(d, text, w, at, p, j)
    BY <1>3, WayPasses
  <2> HIDE DEF p, j
  <2> QED BY <1>3, <2>1 DEF Passing
<1>5. b.parent = p /\ b.array = d.trie[p].children /\ b.read = at.read + j
  BY DEF Below
<1> HIDE DEF p, j, b
<1>6. Rest(text, p, Skip(w, at.read + j)) = w
  BY <1>3, <1>4 DEF Rest
<1>7. OnTheWay(d, text, w, b)
  BY <1>2, <1>3, <1>4, <1>5, <1>6 DEF OnTheWay
<1> QED BY <1>2, <1>7 DEF p, j, b

\* One step: the word is added, or the way goes on.
LEMMA AddStepAdds ==
    ASSUME NEW d, IsDict(d), NEW text, Good(d, text), NEW w \in Words, NEW e, NEW f,
           NEW at, OnTheWay(d, text, w, at)
    PROVE  \/ \E text2 : Added(d, text, AddStep(d, w, e, f, at), text2, w, e)
           \/ \E b : /\ AddStep(d, w, e, f, at) = f[b]
                     /\ OnTheWay(d, text, w, b) /\ Len(w) - b.read < Len(w) - at.read
<1> DEFINE p == AddNode(d, w, at)
           j == InCommon(d, w, at, p)
           c == d.trie[p].chars
           r == Skip(w, at.read)
           x == AddStep(d, w, e, f, at)
           b == Below(d, p, at, j)
<1>1. x = IF p = None THEN CreateAndInsert(d, at.array, at.parent, r, e)
          ELSE IF j < Len(c) THEN Reallocate(d, p, j, r, e)
          ELSE IF j = Len(r) THEN SetProbability(d, p, e)
          ELSE IF d.trie[p].children = None THEN CreateChild(d, p, Skip(r, j), e)
          ELSE f[b]
  BY DEF AddStep, AddWith
<1>2. r \in Substrings /\ at \in AddPlaces(d, w) /\ w \in Strings /\ Buffers(d) /\ Tree(d)
  BY WayIs
<1>3. CASE p = None
  <2>1. x = CreateAndInsert(d, at.array, at.parent, r, e)
    BY <1>1, <1>3
  <2>2. Missing(d, at.array, at.parent, r)
    BY <1>3, WayEnds
  <2>3. Rest(text, at.parent, r) = w
    BY DEF OnTheWay
  <2> DEFINE a == at.array
             u == at.parent
  <2>4. Missing(d, a, u, r) /\ Rest(text, u, r) = w
    BY <2>2, <2>3
  <2> HIDE DEF a, u, r
  <2>5. \E text2 : Added(d, text, CreateAndInsert(d, a, u, r, e), text2, w, e)
    BY <2>4, CreateAndInsertAdds
  <2> HIDE DEF x
  <2> QED BY <2>1, <2>5 DEF a, u, x
<1>4. CASE p # None /\ j < Len(c)
  <2>1. x = Reallocate(d, p, j, r, e)
    BY <1>1, <1>4
  <2>2. Splitting(d, text, p, j, r, w)
    BY <1>4, WaySplits
  <2>3. p \in Live(d)
    BY <1>2, <1>4, InCommonIs
  <2> HIDE DEF p, j, r
  <2>4. \E text2 : Added(d, text, Reallocate(d, p, j, r, e), text2, w, e)
    BY <1>2, <2>2, <2>3, ReallocateAdds
  <2> HIDE DEF x
  <2> QED BY <2>1, <2>4 DEF x
<1>5. CASE p # None /\ ~(j < Len(c))
  <2>1. Passing(d, text, w, at, p, j)
    BY <1>5, WayPasses
  <2>2. /\ p \in Live(d)
        /\ j = Len(r) => text[p] = w
        /\ j # Len(r) => Skip(r, j) \in Substrings /\ text[p] \o Skip(r, j) = w
    <3> HIDE DEF p, j
    <3> QED BY <2>1 DEF Passing
  <2>3. CASE j = Len(r)
    <3>1. x = SetProbability(d, p, e)
      BY <1>1, <1>5, <2>3
    <3>2. p \in Live(d) /\ text[p] = w
      BY <2>2, <2>3
    <3> HIDE DEF p, j, x
    <3>3. \E text2 : Added(d, text, SetProbability(d, p, e), text2, text[p], e)
      BY <3>2, SetProbabilityAdds
    <3> QED BY <3>1, <3>2, <3>3 DEF x
  <2>4. CASE j # Len(r) /\ d.trie[p].children = None
    <3> DEFINE v == Skip(r, j)
    <3>1. x = CreateChild(d, p, v, e)
      BY <1>1, <1>5, <2>4
    <3>2. p \in Live(d) /\ v \in Substrings /\ text[p] \o v = w /\ d.trie[p].children = None
      BY <2>2, <2>4
    <3> HIDE DEF p, j, v, x
    <3>3. \E text2 : Added(d, text, CreateChild(d, p, v, e), text2, w, e)
      BY <3>2, CreateChildAdds
    <3> QED BY <3>1, <3>3 DEF x
  <2>5. CASE j # Len(r) /\ d.trie[p].children # None
    <3>1. x = f[b]
      BY <1>1, <1>5, <2>5
    <3>2. GoesOn(d, w, at, p, j)
      <4> HIDE DEF p, j
      <4> QED BY <1>5, <2>5 DEF GoesOn
    <3>3. OnTheWay(d, text, w, b) /\ Len(w) - b.read < Len(w) - at.read
      BY <3>2, WayGoesOn
    <3> HIDE DEF b, x, p, j
    <3> QED BY <3>1, <3>3 DEF x
  <2> QED BY <2>3, <2>4, <2>5
<1> QED BY <1>3, <1>4, <1>5

\* Adding a word tells of it, and of no other word but those it splits.
LEMMA AddedToTrieAdds ==
    ASSUME NEW d, IsDict(d), NEW text, Good(d, text), NEW w \in Words, NEW e
    PROVE  \E text2 : Added(d, text, AddedToTrie(d, w, e), text2, w, e)
<1>1. w \in Strings /\ w # <<>> /\ Buffers(d) /\ Tree(d)
  BY Constants DEF Good
<1>2. PICK f : /\ \A at \in AddPlaces(d, w) : f[at] = AddStep(d, w, e, f, at)
               /\ AddedToTrie(d, w, e) = f[AddStart]
  BY <1>1, AddDefined
<1> DEFINE T == {n \in Nat : \A at : OnTheWay(d, text, w, at) /\ Len(w) - at.read = n
                                 => \E text2 : Added(d, text, f[at], text2, w, e)}
<1>3. ASSUME NEW at, OnTheWay(d, text, w, at)
      PROVE  Len(w) - at.read \in Nat /\ f[at] = AddStep(d, w, e, f, at)
  <2>1. at \in AddPlaces(d, w)
    BY <1>3 DEF OnTheWay
  <2>2. Len(w) \in Nat /\ at.read \in Nat /\ at.read < Len(w)
    BY <1>1, <2>1, AddPlaceIs
  <2> QED BY <1>2, <2>1, <2>2
<1>4. ASSUME NEW n \in Nat, \A m \in Nat : m < n => m \in T PROVE n \in T
  <2> SUFFICES ASSUME NEW at, OnTheWay(d, text, w, at), Len(w) - at.read = n
               PROVE  \E text2 : Added(d, text, f[at], text2, w, e)
    OBVIOUS
  <2>1. CASE \E text2 : Added(d, text, AddStep(d, w, e, f, at), text2, w, e)
    BY <1>3, <2>1
  <2>2. CASE \E b : /\ AddStep(d, w, e, f, at) = f[b]
                    /\ OnTheWay(d, text, w, b) /\ Len(w) - b.read < Len(w) - at.read
    <3>1. PICK b : /\ AddStep(d, w, e, f, at) = f[b]
                   /\ OnTheWay(d, text, w, b) /\ Len(w) - b.read < Len(w) - at.read
      BY <2>2
    <3>2. Len(w) - b.read \in T
      BY <1>3, <1>4, <3>1
    <3>3. \E text2 : Added(d, text, f[b], text2, w, e)
      BY <3>1, <3>2
    <3> QED BY <1>3, <3>1, <3>3
  <2> QED BY <2>1, <2>2, AddStepAdds
<1> HIDE DEF T
<1>5. Nat \subseteq T
  <2>1. T \subseteq Nat
    BY DEF T
  <2> QED BY <1>4, <2>1, Complete
<1>6. OnTheWay(d, text, w, AddStart)
  BY WayStarts
<1>7. Len(w) - AddStart.read \in T
  BY <1>3, <1>5, <1>6
<1> QED BY <1>2, <1>6, <1>7 DEF T

-----------------------------------------------------------------------------
(* The language model.                                                     *)

Marks == {"placeholder", "seen", "used"}

\* m speaks of the first k ids.
Fits(m, k) ==
    \A q \in DOMAIN m : q \in Seq(Nat) /\ Range(q) \subseteq 0..k - 1 /\ m[q] \in Marks

LEMMA LmOKIs ==
    ASSUME NEW d
    PROVE  LmOK(d) <=> Fits(d.lm, Len(d.table))
BY DEF LmOK, Fits, Marks

LEMMA FitsMore ==
    ASSUME NEW m, NEW k \in Nat, NEW l \in Nat, k <= l, Fits(m, k)
    PROVE  Fits(m, l)
<1>1. 0..k - 1 \subseteq 0..l - 1
  OBVIOUS
<1> QED BY <1>1 DEF Fits

\* x is m with the entry e at p, and a placeholder at s if there was nothing.
OneSet(m, p, e, x) ==
    /\ DOMAIN x = DOMAIN m \cup {p} /\ x[p] = e
    /\ \A q \in DOMAIN m : q # p => x[q] = m[q]

TwoSet(m, s, p, e, x) ==
    /\ DOMAIN x = DOMAIN m \cup {s, p} /\ x[p] = e
    /\ \A q \in DOMAIN m : q # p => x[q] = m[q]
    /\ s \notin DOMAIN m => x[s] = "placeholder"

LEMMA LmSetOne ==
    ASSUME NEW m, NEW id, NEW e
    PROVE  OneSet(m, <<id>>, e, LmSet(m, <<id>>, e))
<1> DEFINE p == <<id>>
           ps == Content!ProperPrefixes(p) \cup {p}
           g == [q \in DOMAIN m \cup ps |-> IF q \in DOMAIN m THEN m[q] ELSE "placeholder"]
<1>1. Content!ProperPrefixes(p) = {}
  <2>1. 1..Len(p) - 1 = {}
    OBVIOUS
  <2> QED BY <2>1 DEF Content!ProperPrefixes
<1>2. ps = {p}
  BY <1>1
<1>3. LmSet(m, p, e) = [g EXCEPT ![p] = e]
  BY DEF LmSet, Content!SetEntry, Content!WithPlaceholders
<1> HIDE DEF p, ps
<1> QED BY <1>2, <1>3 DEF p, OneSet

LEMMA LmSetTwo ==
    ASSUME NEW m, NEW a, NEW b, NEW e
    PROVE  TwoSet(m, <<a>>, <<a, b>>, e, LmSet(m, <<a, b>>, e))
<1> DEFINE p == <<a, b>>
           s == <<a>>
           ps == Content!ProperPrefixes(p) \cup {p}
           g == [q \in DOMAIN m \cup ps |-> IF q \in DOMAIN m THEN m[q] ELSE "placeholder"]
<1>1. Content!ProperPrefixes(p) = {s}
  <2>1. Len(p) = 2 /\ 1..Len(p) - 1 = {1}
    OBVIOUS
  <2>2. SubSeq(p, 1, 1) = s
    <3> DEFINE t == SubSeq(p, 1, 1)
               S == {a, b}
    <3>1. p \in Seq(S) /\ 1 \in 0..Len(p) /\ s \in Seq(S) /\ Len(s) = 1 /\ s[1] = a /\ p[1] = a
      BY a \in S, b \in S
    <3>2. t \in Seq(S) /\ Len(t) = 1 /\ \A i \in 1..1 : t[i] = p[i]
      <4> HIDE DEF p, S
      <4> QED BY <3>1, TakeIs
    <3> HIDE DEF p, S, s, t
    <3>3. \A i \in 1..1 : t[i] = s[i]
      BY <3>1, <3>2
    <3>4. t = s
      BY <3>1, <3>2, <3>3, SeqEqual
    <3> QED BY <3>4 DEF t
  <2> HIDE DEF p, s
  <2> QED BY <2>1, <2>2 DEF Content!ProperPrefixes
<1>2. ps = {s, p} /\ s # p
  <2>1. s # p
    <3>1. Len(s) = 1 /\ Len(p) = 2
      OBVIOUS
    <3> HIDE DEF s, p
    <3> QED BY <3>1
  <2> HIDE DEF s, p
  <2> QED BY <1>1, <2>1
<1>3. LmSet(m, p, e) = [g EXCEPT ![p] = e]
  BY DEF LmSet, Content!SetEntry, Content!WithPlaceholders
<1> HIDE DEF p, ps, s
<1>4. /\ DOMAIN LmSet(m, p, e) = DOMAIN m \cup {s, p}
      /\ LmSet(m, p, e)[p] = e
      /\ \A q \in DOMAIN m : q # p => LmSet(m, p, e)[q] = m[q]
      /\ s \notin DOMAIN m => LmSet(m, p, e)[s] = "placeholder"
  BY <1>2, <1>3
<1> QED BY <1>4 DEF p, s, TwoSet

LEMMA OneFits ==
    ASSUME NEW m, NEW k \in Nat, Fits(m, k), NEW id \in 0..k - 1, NEW e \in Marks
    PROVE  Fits(LmSet(m, <<id>>, e), k)
<1> DEFINE p == <<id>>
           x == LmSet(m, p, e)
<1>1. p \in Seq(Nat) /\ Range(p) \subseteq 0..k - 1
  BY DEF Range
<1>2. /\ DOMAIN x = DOMAIN m \cup {p} /\ x[p] = e
      /\ \A q \in DOMAIN m : q # p => x[q] = m[q]
  <2>1. OneSet(m, p, e, x)
    BY LmSetOne
  <2> HIDE DEF p, x
  <2> QED BY <2>1 DEF OneSet
<1> HIDE DEF p, x
<1>3. Fits(x, k)
  BY <1>1, <1>2 DEF Fits
<1> QED BY <1>3 DEF p, x

LEMMA TwoFit ==
    ASSUME NEW m, NEW k \in Nat, Fits(m, k), NEW a \in 0..k - 1, NEW b \in 0..k - 1, NEW e \in Marks
    PROVE  Fits(LmSet(m, <<a, b>>, e), k)
<1> DEFINE p == <<a, b>>
           s == <<a>>
           x == LmSet(m, p, e)
<1>1. /\ p \in Seq(Nat) /\ Range(p) \subseteq 0..k - 1
      /\ s \in Seq(Nat) /\ Range(s) \subseteq 0..k - 1
  BY DEF Range
<1>2. /\ DOMAIN x = DOMAIN m \cup {s, p} /\ x[p] = e
      /\ \A q \in DOMAIN m : q # p => x[q] = m[q]
      /\ s \notin DOMAIN m => x[s] = "placeholder"
  <2>1. TwoSet(m, s, p, e, x)
    BY LmSetTwo
  <2> HIDE DEF p, s, x
  <2> QED BY <2>1 DEF TwoSet
<1>3. s # p
  <2>1. Len(s) = 1 /\ Len(p) = 2
    OBVIOUS
  <2> HIDE DEF s, p
  <2> QED BY <2>1
<1> HIDE DEF p, x, s
<1>4. "placeholder" \in Marks
  BY DEF Marks
<1>5. Fits(x, k)
  BY <1>1, <1>2, <1>3, <1>4 DEF Fits
<1> QED BY <1>5 DEF p, x

\* Removing entries.
LmRemove(m, path) == Content!RemoveEntry(m, path)

LEMMA LmRemoveIs ==
    ASSUME NEW m, NEW path
    PROVE  LmRemove(m, path) = [q \in {r \in DOMAIN m : ~IsPrefix(path, r)} |-> m[q]]
BY DEF LmRemove, Content!RemoveEntry, Content!Restrict, Content!IsPrefix, IsPrefix

LEMMA FewerFit ==
    ASSUME NEW m, NEW k, Fits(m, k), NEW Q \in SUBSET DOMAIN m
    PROVE  Fits([q \in Q |-> m[q]], k) /\ Fits(Restrict(m, Q), k)
BY DEF Fits, Restrict

LEMMA RemovedFits ==
    ASSUME NEW m, NEW k, Fits(m, k), NEW path
    PROVE  Fits(LmRemove(m, path), k)
<1> DEFINE Q == {r \in DOMAIN m : ~IsPrefix(path, r)}
<1>1. Q \in SUBSET DOMAIN m /\ LmRemove(m, path) = [q \in Q |-> m[q]]
  BY LmRemoveIs
<1> HIDE DEF Q
<1> QED BY <1>1, FewerFit

LEMMA RemoveEntryIs ==
    ASSUME NEW d, IsDict(d), NEW path
    PROVE  RemoveEntry(d, path) = DictOf(d.trie, d.arrays, d.table, LmRemove(d.lm, path), d.count)
<1> DEFINE v == LmRemove(d.lm, path)
<1>1. RemoveEntry(d, path) = [d EXCEPT !.lm = v]
  BY DEF RemoveEntry, LmRemove
<1> HIDE DEF v
<1> QED BY <1>1, DictWith DEF v

-----------------------------------------------------------------------------
(* The operations keep what holds.                                         *)

Holds(d) == IsDict(d) /\ Sound(d) /\ LmOK(d)

LEMMA SoundIsGood ==
    ASSUME NEW d
    PROVE  Sound(d) <=> \E text : Good(d, text)
BY DEF Sound, Good

\* The word that was added is there.
TellsOf(d, x, text2, w, e, id) ==
    /\ id \in 0..Len(x.table) - 1
    /\ <<w, id>> \in Entries(x, text2) /\ w \notin Gone(x, text2)
    /\ x.lm = LmSet(d.lm, <<id>>, e)

LEMMA AddedIsKnown ==
    ASSUME NEW d, NEW text, NEW x, NEW text2, NEW w, NEW e, Added(d, text, x, text2, w, e)
    PROVE  \E id : TellsOf(d, x, text2, w, e, id)
<1>1. PICK id, G : Tells(d, text, x, text2, w, id, G) /\ x.lm = LmSet(d.lm, <<id>>, e)
  BY DEF Added
<1>2. <<w, id>> \in Entries(x, text2) /\ w \notin Gone(x, text2)
  BY <1>1 DEF Tells
<1>3. Good(x, text2)
  BY DEF Added
<1>4. id \in 0..Len(x.table) - 1
  BY <1>2, <1>3, EntriesAre
<1> QED BY <1>1, <1>2, <1>4 DEF TellsOf

LEMMA AddedHolds ==
    ASSUME NEW d, NEW text, Good(d, text), LmOK(d), NEW x, NEW text2, NEW w, NEW e \in Marks,
           Added(d, text, x, text2, w, e)
    PROVE  Holds(x)
<1>1. IsDict(x) /\ Good(x, text2) /\ Len(d.table) <= Len(x.table)
  BY DEF Added
<1>2. PICK id : TellsOf(d, x, text2, w, e, id)
  BY AddedIsKnown
<1>3. Len(d.table) \in Nat /\ Len(x.table) \in Nat
  BY <1>1, BuffersAre DEF Good
<1>4. Fits(d.lm, Len(x.table))
  BY <1>1, <1>3, LmOKIs, FitsMore
<1>5. Fits(x.lm, Len(x.table))
  BY <1>2, <1>3, <1>4, OneFits DEF TellsOf
<1> QED BY <1>1, <1>5, LmOKIs, SoundIsGood DEF Holds

\* A word that is told of, and was not removed, has its id.
LEMMA EntryIsFound ==
    ASSUME NEW d, NEW text, Good(d, text), NEW w \in Words, NEW id,
           <<w, id>> \in Entries(d, text), w \notin Gone(d, text)
    PROVE  WordId(d, w) = id /\ id \in 0..Len(d.table) - 1 /\ id # None
<1>1. PICK q \in Terminals(d) : <<w, id>> = <<text[q], d.trie[q].id>>
  BY DEF Entries
<1>2. q \in Live(d) /\ IsTerminal(d.trie[q]) /\ text[q] = w /\ d.trie[q].id = id
  BY <1>1 DEF Terminals
<1>3. d.trie[q].flag # "deleted"
  BY <1>2 DEF Gone
<1>4. WordId(d, w) = id
  BY <1>2, <1>3, WordIdIs DEF Good
<1>5. id \in 0..Len(d.table) - 1
  BY EntriesAre
<1> QED BY <1>2, <1>4, <1>5 DEF IsTerminal

\* Only the count is different.
LEMMA CountedHolds ==
    ASSUME NEW y, Holds(y), NEW c
    PROVE  /\ Holds([y EXCEPT !.count = c])
           /\ [y EXCEPT !.count = c].trie = y.trie /\ [y EXCEPT !.count = c].arrays = y.arrays
           /\ [y EXCEPT !.count = c].table = y.table /\ [y EXCEPT !.count = c].lm = y.lm
<1> DEFINE x == [y EXCEPT !.count = c]
<1>1. IsDict(y)
  BY DEF Holds
<1>2. x = DictOf(y.trie, y.arrays, y.table, y.lm, c)
  BY <1>1, DictWith
<1> HIDE DEF x
<1>3. /\ IsDict(x) /\ x.trie = y.trie /\ x.arrays = y.arrays /\ x.table = y.table
      /\ x.lm = y.lm
  BY <1>2 DEF DictOf, IsDict
<1>4. PICK text : Good(y, text)
  BY SoundIsGood DEF Holds
<1>5. Good(x, text)
  BY <1>3, <1>4, GoodSame
<1>6. Fits(y.lm, Len(y.table))
  BY LmOKIs DEF Holds
<1>7. LmOK(x)
  BY <1>3, <1>6, LmOKIs
<1> QED BY <1>3, <1>5, <1>7, SoundIsGood DEF Holds, x

\* addUnigramEntry, and what it leaves.
LEMMA AddUnigramIs ==
    ASSUME NEW d, Holds(d), NEW text, Good(d, text), NEW w \in Words, NEW e \in Marks
    PROVE  LET x == AddUnigram(d, w, e) IN
           /\ Holds(x)
           /\ \E y, text2 : /\ Added(d, text, y, text2, w, e)
                            /\ x.trie = y.trie /\ x.arrays = y.arrays /\ x.table = y.table
                            /\ x.lm = y.lm /\ Good(x, text2)
<1> DEFINE y == AddedToTrie(d, w, e)
           c == IF WordId(d, w) = None THEN y.count + 1 ELSE y.count
           x == AddUnigram(d, w, e)
<1>1. x = [y EXCEPT !.count = c]
  BY DEF AddUnigram
<1>2. IsDict(d) /\ LmOK(d)
  BY DEF Holds
<1>3. PICK text2 : Added(d, text, y, text2, w, e)
  BY <1>2, AddedToTrieAdds
<1> HIDE DEF y, c, x
<1>4. Holds(y)
  BY <1>2, <1>3, AddedHolds
<1>5. /\ Holds(x) /\ x.trie = y.trie /\ x.arrays = y.arrays /\ x.table = y.table /\ x.lm = y.lm
  BY <1>1, <1>4, CountedHolds
<1>6. Good(y, text2)
  BY <1>3 DEF Added
<1>7. Good(x, text2)
  BY <1>5, <1>6, GoodSame
<1> QED BY <1>3, <1>5, <1>7 DEF x

\* Changing entries of the language model.
LEMMA SetEntryHolds ==
    ASSUME NEW d, Holds(d), NEW e \in Marks
    PROVE  /\ \A a \in 0..Len(d.table) - 1 : Holds(SetEntry(d, <<a>>, e))
           /\ \A a, b \in 0..Len(d.table) - 1 : Holds(SetEntry(d, <<a, b>>, e))
<1>1. PICK text : Good(d, text)
  BY SoundIsGood DEF Holds
<1>2. IsDict(d) /\ Fits(d.lm, Len(d.table)) /\ Len(d.table) \in Nat
  BY <1>1, LmOKIs, BuffersAre DEF Holds, Good
<1>3. ASSUME NEW path, Fits(LmSet(d.lm, path, e), Len(d.table)) PROVE Holds(SetEntry(d, path, e))
  <2> DEFINE x == SetEntry(d, path, e)
  <2>1. x = DictOf(d.trie, d.arrays, d.table, LmSet(d.lm, path, e), d.count)
    BY <1>2, SetEntryIs
  <2> HIDE DEF x
  <2>2. /\ IsDict(x) /\ x.trie = d.trie /\ x.arrays = d.arrays /\ x.table = d.table
        /\ x.lm = LmSet(d.lm, path, e)
    BY <2>1 DEF DictOf, IsDict
  <2>3. Good(x, text)
    BY <1>1, <2>2, GoodSame
  <2>4. LmOK(x)
    BY <1>3, <2>2, LmOKIs
  <2> QED BY <2>2, <2>3, <2>4, SoundIsGood DEF Holds, x
<1>4. ASSUME NEW a \in 0..Len(d.table) - 1 PROVE Holds(SetEntry(d, <<a>>, e))
  <2>1. Fits(LmSet(d.lm, <<a>>, e), Len(d.table))
    BY <1>2, OneFits
  <2> DEFINE path == <<a>>
  <2>2. Fits(LmSet(d.lm, path, e), Len(d.table))
    BY <2>1
  <2> HIDE DEF path
  <2>3. Holds(SetEntry(d, path, e))
    BY <1>3, <2>2
  <2> QED BY <2>3 DEF path
<1>5. ASSUME NEW a \in 0..Len(d.table) - 1, NEW b \in 0..Len(d.table) - 1
      PROVE  Holds(SetEntry(d, <<a, b>>, e))
  <2>1. Fits(LmSet(d.lm, <<a, b>>, e), Len(d.table))
    BY <1>2, TwoFit
  <2> DEFINE path == <<a, b>>
  <2>2. Fits(LmSet(d.lm, path, e), Len(d.table))
    BY <2>1
  <2> HIDE DEF path
  <2>3. Holds(SetEntry(d, path, e))
    BY <1>3, <2>2
  <2> QED BY <2>3 DEF path
<1> QED BY <1>4, <1>5

LEMMA RemoveEntryHolds ==
    ASSUME NEW d, Holds(d), NEW path
    PROVE  Holds(RemoveEntry(d, path))
<1> DEFINE x == RemoveEntry(d, path)
<1>1. PICK text : Good(d, text)
  BY SoundIsGood DEF Holds
<1>2. IsDict(d) /\ Fits(d.lm, Len(d.table))
  BY LmOKIs DEF Holds
<1>3. x = DictOf(d.trie, d.arrays, d.table, LmRemove(d.lm, path), d.count)
  BY <1>2, RemoveEntryIs
<1> HIDE DEF x
<1>4. /\ IsDict(x) /\ x.trie = d.trie /\ x.arrays = d.arrays /\ x.table = d.table
      /\ x.lm = LmRemove(d.lm, path)
  BY <1>3 DEF DictOf, IsDict
<1>5. Good(x, text)
  BY <1>1, <1>4, GoodSame
<1>6. LmOK(x)
  BY <1>2, <1>4, RemovedFits, LmOKIs
<1> QED BY <1>4, <1>5, <1>6, SoundIsGood DEF Holds, x

LEMMA MarkAsDeletedIs ==
    ASSUME NEW d, IsDict(d), NEW text, Good(d, text), NEW p \in Live(d), IsTerminal(d.trie[p])
    PROVE  LET x == MarkAsDeleted(d, p) IN
           IsDict(x) /\ Delete(d, x, p) /\ x.lm = d.lm /\ x.count = d.count
<1> DEFINE N == d.trie[p]
           f == "deleted"
           T == [d.trie EXCEPT ![p].flag = f]
           y == [d EXCEPT !.trie = T]
           x == MarkAsDeleted(d, p)
           id == N.id
           k == Len(d.table)
<1>1. x = SetPosition(y, id, None)
  BY DEF MarkAsDeleted
<1>2. Buffers(d) /\ Ids(d) /\ d.table \in Seq(Nat \cup {None}) /\ k \in Nat /\ DOMAIN d.table = 1..k
  BY BuffersAre DEF Good
<1>3. p \in DOMAIN d.trie /\ N \in Node
  BY <1>2, LiveIs, NodeIs
<1>4. id \in 0..k - 1 /\ id \in 0..k /\ id # k
  <2>1. id \in 0..k - 1 \cup {None} /\ id # None
    BY <1>2, IdIs DEF IsTerminal
  <2> QED BY <1>2, <2>1
<1>5. y = DictOf(T, d.arrays, d.table, d.lm, d.count)
  <2> HIDE DEF T
  <2> QED BY DictWith
<1>6. T = [q \in DOMAIN d.trie |->
              IF q = p THEN Rec("deleted", N.parent, N.chars, N.id, N.children) ELSE d.trie[q]]
  <2>1. [N EXCEPT !.flag = f] = Rec(f, N.parent, N.chars, N.id, N.children)
    <3> HIDE DEF N, f
    <3> QED BY <1>3, NodeWith DEF N
  <2>2. T = [q \in DOMAIN d.trie |-> IF q = p THEN [N EXCEPT !.flag = f] ELSE d.trie[q]]
    BY <1>3
  <2> QED BY <2>1, <2>2
<1> HIDE DEF T, y, x, id, f
<1>7. IsDict(y) /\ y.trie = T /\ y.arrays = d.arrays /\ y.table = d.table /\ y.lm = d.lm
      /\ y.count = d.count
  BY <1>5 DEF DictOf, IsDict
<1>8. x = DictOf(y.trie, y.arrays, Placed(y.table, id, None), y.lm, y.count)
  BY <1>1, <1>2, <1>4, <1>7, SetPositionIs
<1>9. Placed(d.table, id, None) = [d.table EXCEPT ![id + 1] = None]
  BY <1>4 DEF Placed
<1>10. /\ IsDict(x) /\ x.trie = T /\ x.arrays = d.arrays
       /\ x.table = [d.table EXCEPT ![id + 1] = None] /\ x.lm = d.lm /\ x.count = d.count
  BY <1>7, <1>8, <1>9 DEF DictOf, IsDict
<1> QED BY <1>6, <1>10 DEF Delete, x, id

\* The word that is removed.
LEMMA WordHasNode ==
    ASSUME NEW d, NEW text, Good(d, text), NEW w \in Words, WordId(d, w) # None
    PROVE  LET id == WordId(d, w)
               p == Fetched(d)[d.table[id + 1]]
           IN  /\ p \in Terminals(d) /\ text[p] = w /\ d.trie[p].id = id
               /\ d.trie[p].flag # "deleted" /\ id \in 0..Len(d.table) - 1
<1> DEFINE id == WordId(d, w)
           q == d.table[id + 1]
           p == Fetched(d)[q]
<1>1. Buffers(d) /\ Tree(d) /\ Ids(d) /\ Spells(d, text)
  BY DEF Good
<1>2. id \in 0..Len(d.table) - 1 /\ q \in Live(d) /\ text[q] = w
  BY <1>1, WordIdIs
<1>3. q # None
  BY <1>1, <1>2, LiveIs
<1>4. IsTerminal(d.trie[q]) /\ d.trie[q].id = id /\ d.trie[q].flag # "deleted"
  <2> HIDE DEF id
  <2> QED BY <1>1, <1>2, <1>3, CodePointsIs
<1>5. p = q
  <2>1. q \in DOMAIN d.trie
    BY <1>2 DEF Live
  <2> QED BY <1>1, <1>2, <2>1, FetchedIs
<1> QED BY <1>2, <1>4, <1>5 DEF Terminals

LEMMA MarkAsDeletedHolds ==
    ASSUME NEW d, Holds(d), NEW text, Good(d, text), NEW p \in Terminals(d)
    PROVE  Holds(MarkAsDeleted(d, p)) /\ Good(MarkAsDeleted(d, p), text)
<1> DEFINE x == MarkAsDeleted(d, p)
<1>1. IsDict(d) /\ Fits(d.lm, Len(d.table))
  BY LmOKIs DEF Holds
<1>2. p \in Live(d) /\ IsTerminal(d.trie[p])
  BY DEF Terminals
<1>3. IsDict(x) /\ Delete(d, x, p) /\ x.lm = d.lm
  BY <1>1, <1>2, MarkAsDeletedIs
<1> HIDE DEF x
<1>4. Good(x, text)
  BY <1>2, <1>3, DeleteIsGood
<1>5. Len(x.table) = Len(d.table)
  <2>1. x.table \in Seq(Nat \cup {None}) /\ DOMAIN x.table = 1..Len(x.table) /\ Len(x.table) \in Nat
    BY <1>4, BuffersAre DEF Good
  <2>2. DOMAIN d.table = 1..Len(d.table) /\ Len(d.table) \in Nat
    BY BuffersAre DEF Good
  <2>3. DOMAIN x.table = DOMAIN d.table
    BY <1>3 DEF Delete
  <2> QED BY <2>1, <2>2, <2>3
<1>6. LmOK(x)
  BY <1>1, <1>3, <1>5, LmOKIs
<1> QED BY <1>3, <1>4, <1>6, SoundIsGood DEF Holds, x

-----------------------------------------------------------------------------
(* The place of a number among others.                                     *)

Nth(S, r) == CHOOSE x \in S : Rank(x, S) = r

LEMMA RankIsIn ==
    ASSUME NEW S, S \subseteq Nat, IsFiniteSet(S), NEW x \in S
    PROVE  Rank(x, S) \in Nat /\ 1 <= Rank(x, S) /\ Rank(x, S) <= Cardinality(S)
<1> DEFINE U == {y \in S : y <= x}
           r == Cardinality(U)
           n == Cardinality(S)
<1>1. Rank(x, S) = r
  BY DEF Rank
<1>2. U \in SUBSET S /\ x \in U
  <2>1. x <= x
    OBVIOUS
  <2> QED BY <2>1
<1> HIDE DEF U
<1>3. IsFiniteSet(U) /\ r \in Nat /\ n \in Nat /\ r <= n
  BY <1>2, FS_Subset, FS_CardinalityType
<1>4. r # 0
  BY <1>2, <1>3, FS_EmptySet
<1> HIDE DEF r, n
<1>5. 1 <= r
  BY <1>3, <1>4
<1> QED BY <1>1, <1>3, <1>5 DEF n

LEMMA RankIsPlace ==
    ASSUME NEW S, S \subseteq Nat, IsFiniteSet(S), NEW x \in S
    PROVE  Rank(x, S) \in 1..Cardinality(S)
<1> DEFINE n == Cardinality(S)
           r == Rank(x, S)
<1>1. n \in Nat
  BY FS_CardinalityType
<1>2. r \in Nat /\ 1 <= r /\ r <= n
  BY RankIsIn
<1> HIDE DEF n, r
<1>3. r \in 1..n
  BY <1>1, <1>2
<1> QED BY <1>3 DEF n, r

LEMMA RankGrows ==
    ASSUME NEW S, S \subseteq Nat, IsFiniteSet(S), NEW x \in S, NEW y \in S, y < x
    PROVE  Rank(y, S) < Rank(x, S)
<1> DEFINE U == {z \in S : z <= y}
           W == {z \in S : z <= x}
           k == Cardinality(U)
           r == Cardinality(W)
<1>1. Rank(y, S) = k /\ Rank(x, S) = r
  BY DEF Rank
<1>2. x \in Nat /\ y \in Nat
  OBVIOUS
<1>3. U \in SUBSET W
  <2>1. ASSUME NEW z \in S, z <= y PROVE z <= x
    <3>1. z \in Nat
      OBVIOUS
    <3> QED BY <1>2, <2>1, <3>1
  <2> QED BY <2>1
<1>4. x \in W /\ x \notin U
  BY <1>2
<1>5. W \in SUBSET S
  OBVIOUS
<1> HIDE DEF U, W
<1>6. IsFiniteSet(W) /\ IsFiniteSet(U)
  BY <1>3, <1>5, FS_Subset
<1>7. k \in Nat /\ r \in Nat
  BY <1>6, FS_CardinalityType
<1>8. k <= r /\ k # r
  BY <1>3, <1>4, <1>6, FS_Subset
<1> HIDE DEF k, r
<1>9. k < r
  BY <1>7, <1>8
<1> QED BY <1>1, <1>9

LEMMA RankIsInjective ==
    ASSUME NEW S, S \subseteq Nat, IsFiniteSet(S), NEW x \in S, NEW y \in S,
           Rank(x, S) = Rank(y, S)
    PROVE  x = y
<1> DEFINE r == Rank(x, S)
           k == Rank(y, S)
<1>1. x \in Nat /\ y \in Nat
  OBVIOUS
<1>2. r \in Nat /\ k \in Nat /\ r = k
  BY RankIsIn
<1>3. x < y => r < k
  BY RankGrows
<1>4. y < x => k < r
  BY RankGrows
<1> HIDE DEF r, k
<1> QED BY <1>1, <1>2, <1>3, <1>4

LEMMA RankIsOnto ==
    ASSUME NEW S, S \subseteq Nat, IsFiniteSet(S), NEW r \in 1..Cardinality(S)
    PROVE  \E x \in S : Rank(x, S) = r
<1> DEFINE n == Cardinality(S)
           f == [x \in S |-> Rank(x, S)]
           T == 1..n
<1>1. n \in Nat
  BY FS_CardinalityType
<1>2. f \in [S -> T] /\ \A x \in S : f[x] = Rank(x, S)
  BY RankIsPlace
<1>3. IsFiniteSet(T) /\ Cardinality(T) = n
  BY <1>1, FS_Interval
<1> HIDE DEF f
<1>4. f \in Injection(S, T)
  BY <1>2, RankIsInjective DEF Injection, IsInjective
<1> HIDE DEF T
<1>5. f \in Surjection(S, T)
  BY <1>3, <1>4, FS_Injection DEF n
<1>6. r \in T
  BY DEF T
<1> QED BY <1>2, <1>5, <1>6 DEF Surjection

\* Finding the number of a place, and the place of a number.
LEMMA NthIs ==
    ASSUME NEW S, S \subseteq Nat, IsFiniteSet(S)
    PROVE  /\ Cardinality(S) \in Nat
           /\ \A r \in 1..Cardinality(S) : Nth(S, r) \in S /\ Rank(Nth(S, r), S) = r
           /\ \A x \in S : Rank(x, S) \in 1..Cardinality(S) /\ Nth(S, Rank(x, S)) = x
<1>1. ASSUME NEW r \in 1..Cardinality(S)
      PROVE  Nth(S, r) \in S /\ Rank(Nth(S, r), S) = r
  BY RankIsOnto DEF Nth
<1>2. ASSUME NEW x \in S
      PROVE  Rank(x, S) \in 1..Cardinality(S) /\ Nth(S, Rank(x, S)) = x
  <2>1. Rank(x, S) \in 1..Cardinality(S)
    BY RankIsPlace
  <2>2. Nth(S, Rank(x, S)) \in S /\ Rank(Nth(S, Rank(x, S)), S) = Rank(x, S)
    BY <1>1, <2>1
  <2> DEFINE y == Nth(S, Rank(x, S))
  <2>3. y \in S /\ Rank(y, S) = Rank(x, S)
    BY <2>2
  <2> HIDE DEF y
  <2>4. y = x
    BY <2>3, RankIsInjective
  <2> QED BY <2>1, <2>4 DEF y
<1> QED BY <1>1, <1>2, FS_CardinalityType

\* The smallest number is the first.
LEMMA LeastIsFirst ==
    ASSUME NEW S, S \subseteq Nat, IsFiniteSet(S), NEW x \in S, \A y \in S : x <= y
    PROVE  Rank(x, S) = 1
<1>1. {y \in S : y <= x} = {x}
  <2>1. ASSUME NEW y \in S, y <= x PROVE y = x
    <3>1. x \in Nat /\ y \in Nat /\ x <= y
      OBVIOUS
    <3> QED BY <2>1, <3>1
  <2>2. x <= x
    OBVIOUS
  <2> QED BY <2>1, <2>2
<1> QED BY <1>1, FS_Singleton DEF Rank

-----------------------------------------------------------------------------
(* The first traversal of a garbage collection: why it ends.               *)

LEMMA Weights ==
    ASSUME NEW a \in Nat, NEW b \in Nat, a < b, NEW k \in Nat, NEW j \in 0..k, NEW i \in Nat
    PROVE  a * (k + 1) + j < b * (k + 1) + i
<1> DEFINE c == b - (a + 1)
           w == k + 1
<1>1. c \in Nat /\ b = a + 1 + c
  OBVIOUS
<1>2. w \in Nat /\ j \in Nat /\ j < w
  OBVIOUS
<1> HIDE DEF c, w
<1>3. b * w = a * w + w + c * w
  BY <1>1, <1>2
<1>4. a * w \in Nat /\ c * w \in Nat
  BY <1>1, <1>2
<1>5. a * w + j < a * w + w + c * w + i
  <2> DEFINE x == a * w
             y == c * w
  <2>1. x \in Nat /\ y \in Nat
    BY <1>4
  <2> HIDE DEF x, y
  <2>2. x + j < x + w + y + i
    BY <1>2, <2>1
  <2> QED BY <2>2 DEF x, y
<1> QED BY <1>3, <1>5 DEF w

\* How far below the root the arrays are.
Depths(d, depth, top) ==
    /\ depth \in [DOMAIN d.arrays -> Nat] /\ top \in Nat
    /\ \A a \in DOMAIN d.arrays : depth[a] <= top
    /\ \A a \in DOMAIN d.arrays : \A i \in DOMAIN d.arrays[a] :
          d.trie[Siblings(d, a)[i]].children # None =>
             depth[a] < depth[d.trie[Siblings(d, a)[i]].children]

LEMMA DepthsAre ==
    ASSUME NEW d, Buffers(d), Tree(d), NEW text, Spells(d, text)
    PROVE  \E depth, top : Depths(d, depth, top)
<1> DEFINE over(a) == CHOOSE p \in Live(d) : d.trie[p].children = a
           n(a) == Len(text[over(a)])
           depth == [a \in DOMAIN d.arrays |-> IF a = Root THEN 0 ELSE n(a)]
<1>1. ASSUME NEW a \in DOMAIN d.arrays \ {Root}
      PROVE  over(a) \in Live(d) /\ d.trie[over(a)].children = a
  BY DEF Tree
<1>2. \A a \in DOMAIN d.arrays : a # None
  BY ArraysAre, Constants
<1>3. ASSUME NEW p \in Live(d), NEW a \in DOMAIN d.arrays \ {Root}, d.trie[p].children = a
      PROVE  over(a) = p
  BY <1>1, <1>2, <1>3 DEF Tree
<1> HIDE DEF over
<1>4. ASSUME NEW a \in DOMAIN d.arrays \ {Root} PROVE n(a) \in Nat
  BY <1>1, AboveIs
<1>5. depth \in [DOMAIN d.arrays -> Nat]
      /\ \A a \in DOMAIN d.arrays : depth[a] = IF a = Root THEN 0 ELSE n(a)
  <2> HIDE DEF n
  <2> QED BY <1>4
<1> HIDE DEF depth
<1>6. PICK top \in Nat : \A a \in DOMAIN d.arrays : depth[a] <= top
  <2>1. DOMAIN d.arrays = 1..Len(d.arrays) /\ Len(d.arrays) \in Nat
    BY ArraysAre
  <2>2. depth \in [1..Len(d.arrays) -> Nat]
    BY <1>5, <2>1
  <2> QED BY <2>1, <2>2, Bounded
<1>7. ASSUME NEW a \in DOMAIN d.arrays, NEW i \in DOMAIN d.arrays[a],
             d.trie[Siblings(d, a)[i]].children # None
      PROVE  depth[a] < depth[d.trie[Siblings(d, a)[i]].children]
  <2> DEFINE q == Siblings(d, a)[i]
             b == d.trie[q].children
  <2>1. q \in Live(d) /\ Home(d, q) = a
    BY SiblingsAre DEF Tree
  <2>2. q \in DOMAIN d.trie /\ d.trie[q].parent \in Live(d) \cup {None}
    BY <2>1, LiveIs
  <2>3. b \in DOMAIN d.arrays \ {Root}
    BY <1>7, <2>2, NodeIs
  <2>4. depth[b] = Len(text[q])
    BY <1>3, <1>5, <2>1, <2>3
  <2>5. Len(text[q]) \in Nat /\ Len(Above(d, text, q)) \in Nat
        /\ Len(Above(d, text, q)) < Len(text[q])
    BY <2>1, AboveIs
  <2>6. CASE a = Root
    <3>1. depth[a] = 0
      BY <1>5, <2>6
    <3> QED BY <2>4, <2>5, <3>1
  <2>7. CASE a # Root
    <3>1. d.trie[q].parent # None /\ d.trie[q].parent \in Live(d)
      BY <2>1, <2>2, <2>7 DEF Home
    <3>2. d.trie[d.trie[q].parent].children = a
      BY <2>1, <3>1 DEF Home
    <3>3. depth[a] = Len(text[d.trie[q].parent])
      BY <1>3, <1>5, <2>7, <3>1, <3>2
    <3>4. depth[a] = Len(Above(d, text, q))
      BY <3>1, <3>3 DEF Above
    <3> QED BY <2>4, <2>5, <3>4
  <2> QED BY <2>6, <2>7
<1> QED BY <1>5, <1>6, <1>7 DEF Depths

\* The places of the arrays, with one before the first.
Slots(d) == UNION {{a} \X (0..Len(d.arrays[a])) : a \in DOMAIN d.arrays}

Visit == [childrenValue : Nat, keeps : BOOLEAN]

\* One step of the traversal.
VisitValue(d, g, s) ==
    LET n == d.trie[Siblings(d, s[1])[s[2]]]
    IN IF n.children = None THEN g[<<s[1], s[2] - 1>>].childrenValue
       ELSE Cardinality({j \in DOMAIN d.arrays[n.children] : g[<<n.children, j>>].keeps})

VisitStep(d, g, s) ==
    IF s[2] = 0 THEN [childrenValue |-> 0, keeps |-> FALSE]
    ELSE LET n     == d.trie[Siblings(d, s[1])[s[2]]]
             value == VisitValue(d, g, s)
         IN [childrenValue |-> value,
             keeps |-> \/ IsTerminal(n) /\ IsValidEntry(d, <<n.id>>)
                       \/ value > 0]

LEMMA SlotsAre ==
    ASSUME NEW d, Buffers(d)
    PROVE  /\ \A s \in Slots(d) :
                 /\ s = <<s[1], s[2]>> /\ s[1] \in DOMAIN d.arrays
                 /\ s[2] \in 0..Len(d.arrays[s[1]])
                 /\ s[2] \in Nat
                 /\ s[2] # 0 => s[2] \in DOMAIN d.arrays[s[1]] /\ s[2] - 1 \in Nat
                                /\ <<s[1], s[2] - 1>> \in Slots(d)
           /\ \A a \in DOMAIN d.arrays : \A i \in DOMAIN d.arrays[a] :
                 <<a, i>> \in Slots(d) /\ i # 0
<1>1. ASSUME NEW a \in DOMAIN d.arrays, NEW i \in 0..Len(d.arrays[a]) PROVE <<a, i>> \in Slots(d)
  BY DEF Slots
<1>2. \A a \in DOMAIN d.arrays :
         Len(d.arrays[a]) \in Nat /\ DOMAIN d.arrays[a] = 1..Len(d.arrays[a])
  BY ArraysAre
<1>3. ASSUME NEW a \in DOMAIN d.arrays, NEW i \in DOMAIN d.arrays[a]
      PROVE  <<a, i>> \in Slots(d) /\ i # 0
  <2>1. i \in 0..Len(d.arrays[a]) /\ i # 0
    BY <1>2
  <2> QED BY <1>1, <2>1
<1>4. ASSUME NEW s \in Slots(d)
      PROVE  /\ s = <<s[1], s[2]>> /\ s[1] \in DOMAIN d.arrays
             /\ s[2] \in 0..Len(d.arrays[s[1]])
  BY DEF Slots
<1>5. ASSUME NEW s \in Slots(d)
      PROVE  /\ s[2] \in Nat
             /\ s[2] # 0 => s[2] \in DOMAIN d.arrays[s[1]] /\ s[2] - 1 \in Nat
                            /\ s[2] - 1 \in 0..Len(d.arrays[s[1]])
  BY <1>2, <1>4
<1> QED BY <1>1, <1>3, <1>4, <1>5

LEMMA VisitStepIs ==
    ASSUME NEW d, Buffers(d), NEW g \in [Slots(d) -> Visit], NEW s \in Slots(d)
    PROVE  VisitStep(d, g, s) \in Visit
<1> DEFINE n == d.trie[Siblings(d, s[1])[s[2]]]
           value == VisitValue(d, g, s)
<1>1. CASE s[2] = 0
  BY <1>1 DEF VisitStep, Visit
<1>2. CASE s[2] # 0
  <2>1. s[1] \in DOMAIN d.arrays /\ s[2] \in DOMAIN d.arrays[s[1]] /\ <<s[1], s[2] - 1>> \in Slots(d)
    BY <1>2, SlotsAre
  <2>2. Siblings(d, s[1])[s[2]] \in DOMAIN d.trie
    BY <2>1, SiblingsAre
  <2>3. n.children \in DOMAIN d.arrays \cup {None}
    BY <2>2, NodeIs
  <2>4. value \in Nat
    <3>1. CASE n.children = None
      <4>1. g[<<s[1], s[2] - 1>>] \in Visit
        BY <2>1
      <4> QED BY <3>1, <4>1 DEF VisitValue, Visit
    <3>2. CASE n.children # None
      <4> DEFINE S == {j \in DOMAIN d.arrays[n.children] : g[<<n.children, j>>].keeps}
                 k == Len(d.arrays[n.children])
      <4>1. k \in Nat /\ DOMAIN d.arrays[n.children] = 1..k
        BY <2>3, <3>2, ArraysAre
      <4>2. S \in SUBSET (1..k)
        BY <4>1
      <4>3. value = Cardinality(S)
        BY <3>2 DEF VisitValue
      <4> HIDE DEF S, k
      <4>4. IsFiniteSet(1..k)
        BY <4>1, FS_Interval
      <4>5. IsFiniteSet(S)
        BY <4>2, <4>4, FS_Subset
      <4> QED BY <4>3, <4>5, FS_CardinalityType
    <3> QED BY <3>1, <3>2
  <2> DEFINE keeps == \/ IsTerminal(n) /\ IsValidEntry(d, <<n.id>>)
                      \/ value > 0
  <2>5. keeps \in BOOLEAN
    BY DEF IsTerminal, IsValidEntry
  <2>6. VisitStep(d, g, s) = [childrenValue |-> value, keeps |-> keeps]
    BY <1>2 DEF VisitStep
  <2> HIDE DEF value, keeps
  <2> QED BY <2>4, <2>5, <2>6 DEF Visit
<1> QED BY <1>1, <1>2

\* A step reads what was left at the place before, and below.
LEMMA VisitReads ==
    ASSUME NEW d, Buffers(d), NEW s \in Slots(d), NEW g, NEW h,
           s[2] # 0 => g[<<s[1], s[2] - 1>>] = h[<<s[1], s[2] - 1>>],
           \A c \in DOMAIN d.arrays :
              s[2] # 0 /\ d.trie[Siblings(d, s[1])[s[2]]].children = c =>
                 \A j \in DOMAIN d.arrays[c] : g[<<c, j>>] = h[<<c, j>>]
    PROVE  VisitStep(d, g, s) = VisitStep(d, h, s)
<1> DEFINE n == d.trie[Siblings(d, s[1])[s[2]]]
<1>1. CASE s[2] = 0
  BY <1>1 DEF VisitStep
<1>2. CASE s[2] # 0
  <2>1. s[1] \in DOMAIN d.arrays /\ s[2] \in DOMAIN d.arrays[s[1]]
    BY <1>2, SlotsAre
  <2>2. Siblings(d, s[1])[s[2]] \in DOMAIN d.trie
    BY <2>1, SiblingsAre
  <2>3. n.children \in DOMAIN d.arrays \cup {None}
    BY <2>2, NodeIs
  <2>4. VisitValue(d, g, s) = VisitValue(d, h, s)
    <3>1. CASE n.children = None
      BY <1>2, <3>1 DEF VisitValue
    <3>2. CASE n.children # None
      <4> DEFINE c == n.children
      <4>1. c \in DOMAIN d.arrays
        BY <2>3, <3>2
      <4>2. \A j \in DOMAIN d.arrays[c] : g[<<c, j>>] = h[<<c, j>>]
        BY <1>2, <4>1
      <4>3. {j \in DOMAIN d.arrays[c] : g[<<c, j>>].keeps}
              = {j \in DOMAIN d.arrays[c] : h[<<c, j>>].keeps}
        BY <4>2
      <4> QED BY <3>2, <4>3 DEF VisitValue
    <3> QED BY <3>1, <3>2
  <2> QED BY <1>2, <2>4 DEF VisitStep
<1> QED BY <1>1, <1>2

\* The traversal visits the deeper arrays first, and an array from its start.
LEMMA VisitEnds ==
    ASSUME NEW d, Buffers(d), NEW depth, NEW top, Depths(d, depth, top)
    PROVE  \E g \in [Slots(d) -> Visit] : g = [s \in Slots(d) |-> VisitStep(d, g, s)]
<1> DEFINE S == Slots(d)
           V == Visit
           W == [S -> V]
           B == [g \in W |-> [s \in S |-> VisitStep(d, g, s)]]
<1>1. /\ depth \in [DOMAIN d.arrays -> Nat] /\ top \in Nat
      /\ \A a \in DOMAIN d.arrays : depth[a] <= top
      /\ \A a \in DOMAIN d.arrays : \A i \in DOMAIN d.arrays[a] :
            d.trie[Siblings(d, a)[i]].children # None =>
               depth[a] < depth[d.trie[Siblings(d, a)[i]].children]
  BY DEF Depths
<1>2. PICK k \in Nat : \A a \in DOMAIN d.arrays : Len(d.arrays[a]) <= k
  <2> DEFINE size == [a \in DOMAIN d.arrays |-> Len(d.arrays[a])]
  <2>1. DOMAIN d.arrays = 1..Len(d.arrays) /\ Len(d.arrays) \in Nat
    BY ArraysAre
  <2>2. size \in [1..Len(d.arrays) -> Nat] /\ \A a \in DOMAIN d.arrays : size[a] = Len(d.arrays[a])
    BY <2>1, ArraysAre
  <2> HIDE DEF size
  <2> QED BY <2>1, <2>2, Bounded
<1> DEFINE m == [s \in S |-> (top - depth[s[1]]) * (k + 1) + s[2]]
           last == (top + 1) * (k + 1)
<1>3. \A s \in S : /\ s[1] \in DOMAIN d.arrays /\ s[2] \in 0..k /\ s[2] \in Nat
                   /\ top - depth[s[1]] \in Nat /\ top - depth[s[1]] < top + 1
  <2> TAKE s \in S
  <2>1. s[1] \in DOMAIN d.arrays /\ s[2] \in 0..Len(d.arrays[s[1]]) /\ s[2] \in Nat
    BY SlotsAre
  <2>2. Len(d.arrays[s[1]]) \in Nat /\ Len(d.arrays[s[1]]) <= k
    BY <1>2, <2>1, ArraysAre
  <2>3. depth[s[1]] \in Nat /\ depth[s[1]] <= top
    BY <1>1, <2>1
  <2> QED BY <1>1, <2>1, <2>2, <2>3
<1>4. \A s \in S : m[s] = (top - depth[s[1]]) * (k + 1) + s[2] /\ m[s] \in Nat /\ m[s] <= last
  <2> TAKE s \in S
  <2> DEFINE a == top - depth[s[1]]
  <2>1. a \in Nat /\ a < top + 1 /\ s[2] \in 0..k /\ s[2] \in Nat
    BY <1>3
  <2>2. m[s] = a * (k + 1) + s[2]
    OBVIOUS
  <2> HIDE DEF a, m
  <2>3. a * (k + 1) \in Nat /\ (top + 1) * (k + 1) \in Nat
    BY <1>1, <1>2, <2>1
  <2>4. a * (k + 1) + s[2] < (top + 1) * (k + 1) + 0
    BY <1>1, <1>2, <2>1, Weights
  <2> QED BY <2>1, <2>2, <2>3, <2>4 DEF a
<1>5. m \in [S -> Nat] /\ last \in Nat
  <2>1. last \in Nat
    BY <1>1, <1>2
  <2>2. m = [s \in S |-> m[s]]
    OBVIOUS
  <2> HIDE DEF m
  <2> QED BY <1>4, <2>1, <2>2
<1>6. \A g \in W : \A s \in S : VisitStep(d, g, s) \in V
  BY VisitStepIs
<1>7. B \in [W -> W] /\ \A g \in W, s \in S : B[g][s] = VisitStep(d, g, s)
  <2> HIDE DEF S, V
  <2>1. \A g \in W : [s \in S |-> VisitStep(d, g, s)] \in W
    BY <1>6
  <2> QED BY <2>1
<1>8. W # {}
  <2>1. [childrenValue |-> 0, keeps |-> FALSE] \in V
    BY DEF Visit
  <2>2. [s \in S |-> [childrenValue |-> 0, keeps |-> FALSE]] \in W
    BY <2>1
  <2> QED BY <2>2
<1> HIDE DEF m, last, B
<1>9. ASSUME NEW g \in W, NEW h \in W, NEW s \in S, \A y \in S : m[y] < m[s] => g[y] = h[y]
      PROVE  B[g][s] = B[h][s]
  <2>1. s[2] # 0 => g[<<s[1], s[2] - 1>>] = h[<<s[1], s[2] - 1>>]
    <3> SUFFICES ASSUME s[2] # 0 PROVE g[<<s[1], s[2] - 1>>] = h[<<s[1], s[2] - 1>>]
      OBVIOUS
    <3> DEFINE y == <<s[1], s[2] - 1>>
    <3>1. y \in S /\ y[1] = s[1] /\ y[2] = s[2] - 1
      BY SlotsAre
    <3>2. s[2] \in Nat /\ top - depth[s[1]] \in Nat
      BY <1>3
    <3> DEFINE a == (top - depth[s[1]]) * (k + 1)
    <3>3. a \in Nat
      BY <1>2, <3>2
    <3>4. m[s] = a + s[2] /\ m[y] = a + (s[2] - 1)
      BY <1>4, <3>1
    <3> HIDE DEF a, y
    <3>5. m[y] < m[s]
      BY <3>2, <3>3, <3>4
    <3> QED BY <1>9, <3>1, <3>5 DEF y
  <2>2. ASSUME NEW c \in DOMAIN d.arrays, s[2] # 0,
               d.trie[Siblings(d, s[1])[s[2]]].children = c,
               NEW j \in DOMAIN d.arrays[c]
        PROVE  g[<<c, j>>] = h[<<c, j>>]
    <3> DEFINE y == <<c, j>>
               a == top - depth[c]
               b == top - depth[s[1]]
    <3>1. y \in S /\ y[1] = c /\ y[2] = j
      BY SlotsAre
    <3>2. s[1] \in DOMAIN d.arrays /\ s[2] \in DOMAIN d.arrays[s[1]] /\ c # None
      <4>1. s[1] \in DOMAIN d.arrays /\ s[2] \in DOMAIN d.arrays[s[1]]
        BY <2>2, SlotsAre
      <4>2. c \in Nat
        <5>1. DOMAIN d.arrays = 1..Len(d.arrays) /\ Len(d.arrays) \in Nat
          BY ArraysAre
        <5> QED BY <5>1
      <4> QED BY <4>1, <4>2, Constants
    <3>3. depth[s[1]] < depth[c] /\ depth[c] \in Nat /\ depth[s[1]] \in Nat
      BY <1>1, <2>2, <3>2
    <3>4. a \in Nat /\ b \in Nat /\ j \in 0..k /\ s[2] \in Nat
      BY <1>3, <3>1
    <3>5. a < b
      BY <1>1, <3>3
    <3>6. m[y] = a * (k + 1) + j /\ m[s] = b * (k + 1) + s[2]
      BY <1>4, <3>1
    <3> HIDE DEF a, b, y
    <3>7. m[y] < m[s]
      BY <1>2, <3>4, <3>5, <3>6, Weights
    <3> QED BY <1>9, <3>1, <3>7 DEF y
  <2>3. VisitStep(d, g, s) = VisitStep(d, h, s)
    BY <2>1, <2>2, VisitReads
  <2> QED BY <1>7, <2>3
<1> HIDE DEF S, V
<1>10. Recursion(S, V, B, m, last)
  <2>1. \A x \in S : m[x] <= last
    BY <1>4
  <2> QED BY <1>5, <1>7, <1>8, <1>9, <2>1 DEF Recursion
<1>11. PICK f \in W : B[f] = f
  BY <1>10, Fixpoint
<1>12. f = [s \in S |-> VisitStep(d, f, s)]
  BY <1>11 DEF B
<1> QED BY <1>11, <1>12 DEF S, V

LEMMA VisitedIs ==
    ASSUME NEW d, Buffers(d), Tree(d), NEW text, Spells(d, text)
    PROVE  /\ DOMAIN Visited(d) = Slots(d)
           /\ \A s \in Slots(d) : Visited(d)[s] = VisitStep(d, Visited(d), s)
<1>1. PICK depth, top : Depths(d, depth, top)
  BY DepthsAre
<1>2. \E g : g = [s \in Slots(d) |-> VisitStep(d, g, s)]
  BY <1>1, VisitEnds
<1> DEFINE visit == CHOOSE g : g = [s \in Slots(d) |-> VisitStep(d, g, s)]
<1>3. visit = [s \in Slots(d) |-> VisitStep(d, visit, s)]
  BY <1>2
<1>4. Visited(d) = visit
  BY DEF Visited, VisitStep, VisitValue, Slots
<1> HIDE DEF visit
<1> QED BY <1>3, <1>4

-----------------------------------------------------------------------------
(* What a garbage collection keeps: with a node its parent, and their       *)
(* arrays.                                                                  *)

KeptSlots(d) == {s \in DOMAIN Visited(d) : s[2] # 0 /\ Visited(d)[s].keeps}
KeptNodes(d) == {Siblings(d, s[1])[s[2]] : s \in KeptSlots(d)}
KeptArrays(d) == {s[1] : s \in KeptSlots(d)} \cup {Root}

\* The nodes K and the arrays A can be a tree of their own.
Closed(d, K, A) ==
    /\ K \subseteq Live(d) /\ A \subseteq DOMAIN d.arrays /\ Root \in A
    /\ \A p \in K : /\ d.trie[p].parent \in K \cup {None}
                    /\ Home(d, p) \in A
    /\ \A a \in A \ {Root} : \E p \in K : d.trie[p].children = a

LEMMA KeptSlotIs ==
    ASSUME NEW d, NEW text, Good(d, text), NEW a \in DOMAIN d.arrays, NEW i \in DOMAIN d.arrays[a]
    PROVE  <<a, i>> \in KeptSlots(d) <=> VisitStep(d, Visited(d), <<a, i>>).keeps
<1>1. Buffers(d) /\ Tree(d) /\ Spells(d, text)
  BY DEF Good
<1>2. <<a, i>> \in Slots(d) /\ i # 0
  BY <1>1, SlotsAre
<1>3. DOMAIN Visited(d) = Slots(d) /\ Visited(d)[<<a, i>>] = VisitStep(d, Visited(d), <<a, i>>)
  BY <1>1, <1>2, VisitedIs
<1> DEFINE v == Visited(d)
           s == <<a, i>>
           step == VisitStep(d, v, s)
<1>4. s[2] = i /\ s \in DOMAIN v /\ v[s] = step
  BY <1>2, <1>3
<1>5. s \in KeptSlots(d) <=> s \in {x \in DOMAIN v : x[2] # 0 /\ v[x].keeps}
  BY DEF KeptSlots
<1> HIDE DEF v, s, step
<1>6. s \in KeptSlots(d) <=> step.keeps
  BY <1>2, <1>4, <1>5
<1> QED BY <1>6 DEF s, step, v

LEMMA KeptFrom ==
    ASSUME NEW d, NEW text, Good(d, text), NEW p \in KeptNodes(d)
    PROVE  /\ p \in Live(d) /\ Home(d, p) \in DOMAIN d.arrays
           /\ \E i \in DOMAIN d.arrays[Home(d, p)] :
                 /\ Siblings(d, Home(d, p))[i] = p
                 /\ <<Home(d, p), i>> \in KeptSlots(d)
<1>1. Buffers(d) /\ Tree(d) /\ Spells(d, text)
  BY DEF Good
<1>2. PICK s \in KeptSlots(d) : p = Siblings(d, s[1])[s[2]]
  BY DEF KeptNodes
<1>3. s \in Slots(d) /\ s[2] # 0
  BY <1>1, <1>2, VisitedIs DEF KeptSlots
<1>4. s[1] \in DOMAIN d.arrays /\ s[2] \in DOMAIN d.arrays[s[1]] /\ s = <<s[1], s[2]>>
  BY <1>1, <1>3, SlotsAre
<1>5. p \in Live(d)
  BY <1>1, <1>2, <1>4, SiblingsAre
<1>6. Home(d, p) = s[1]
  BY <1>1, <1>2, <1>4 DEF Tree
<1> QED BY <1>2, <1>4, <1>5, <1>6

\* A node with a kept child is kept.
LEMMA ParentIsKept ==
    ASSUME NEW d, NEW text, Good(d, text), NEW p \in KeptNodes(d), d.trie[p].parent # None
    PROVE  d.trie[p].parent \in KeptNodes(d)
<1>1. Buffers(d) /\ Tree(d) /\ Spells(d, text)
  BY DEF Good
<1> DEFINE u == d.trie[p].parent
           a == Home(d, p)
           b == Home(d, u)
<1>2. p \in Live(d) /\ a \in DOMAIN d.arrays
  BY KeptFrom
<1>3. PICK i \in DOMAIN d.arrays[a] : Siblings(d, a)[i] = p /\ <<a, i>> \in KeptSlots(d)
  BY KeptFrom
<1>4. u \in Live(d) /\ d.trie[u].children = a
  BY <1>1, <1>2, LiveIs DEF Home
<1>5. b \in DOMAIN d.arrays
  BY <1>1, <1>4 DEF Tree
<1>6. PICK j \in DOMAIN d.arrays[b] : Siblings(d, b)[j] = u
  BY <1>1, <1>4 DEF Tree
<1> HIDE DEF b
<1> DEFINE v == Visited(d)
           S == {l \in DOMAIN d.arrays[a] : v[<<a, l>>].keeps}
           value == VisitValue(d, v, <<b, j>>)
<1>7. a # None
  <2>1. DOMAIN d.arrays = 1..Len(d.arrays) /\ Len(d.arrays) \in Nat
    BY <1>1, ArraysAre
  <2>2. a \in Nat
    BY <1>2, <2>1
  <2> QED BY <2>2, Constants
<1>8. v[<<a, i>>].keeps
  BY <1>3 DEF KeptSlots
<1>9. value = Cardinality(S)
  <2> DEFINE t == <<b, j>>
  <2>1. t[1] = b /\ t[2] = j
    OBVIOUS
  <2> HIDE DEF t, a, v
  <2>2. d.trie[Siblings(d, t[1])[t[2]]].children = a
    BY <1>4, <1>6, <2>1
  <2>3. VisitValue(d, v, t) = Cardinality(S)
    BY <1>7, <2>2 DEF VisitValue
  <2> QED BY <2>3 DEF t
<1>10. Cardinality(S) \in Nat /\ Cardinality(S) # 0
  <2> DEFINE k == Len(d.arrays[a])
  <2>1. k \in Nat /\ DOMAIN d.arrays[a] = 1..k
    BY <1>1, <1>2, ArraysAre
  <2>2. S \in SUBSET (1..k) /\ i \in S
    BY <1>8, <2>1
  <2> HIDE DEF S, k
  <2>3. IsFiniteSet(1..k)
    BY <2>1, FS_Interval
  <2>4. IsFiniteSet(S)
    BY <2>2, <2>3, FS_Subset
  <2> QED BY <2>2, <2>4, FS_CardinalityType, FS_EmptySet
<1> HIDE DEF S
<1>11. value > 0
  BY <1>9, <1>10
<1>12. VisitStep(d, v, <<b, j>>).keeps
  <2> DEFINE t == <<b, j>>
             n == d.trie[Siblings(d, t[1])[t[2]]]
  <2>1. t[2] # 0
    BY <1>1, <1>5, SlotsAre
  <2> HIDE DEF t
  <2>2. VisitValue(d, v, t) > 0
    BY <1>11 DEF t
  <2>3. VisitStep(d, v, t).keeps
    BY <2>1, <2>2 DEF VisitStep
  <2> QED BY <2>3 DEF t
<1>13. <<b, j>> \in KeptSlots(d)
  BY <1>5, <1>12, KeptSlotIs
<1> DEFINE t == <<b, j>>
<1>14. t[1] = b /\ t[2] = j
  OBVIOUS
<1> HIDE DEF t
<1>15. u = Siblings(d, t[1])[t[2]] /\ t \in KeptSlots(d)
  BY <1>6, <1>13, <1>14 DEF t
<1> QED BY <1>15 DEF KeptNodes

LEMMA KeptIsClosed ==
    ASSUME NEW d, NEW text, Good(d, text)
    PROVE  Closed(d, KeptNodes(d), KeptArrays(d))
<1>1. Buffers(d) /\ Tree(d) /\ Spells(d, text)
  BY DEF Good
<1>2. ASSUME NEW p \in KeptNodes(d)
      PROVE  /\ p \in Live(d) /\ d.trie[p].parent \in KeptNodes(d) \cup {None}
             /\ Home(d, p) \in KeptArrays(d)
  <2>1. PICK i \in DOMAIN d.arrays[Home(d, p)] : <<Home(d, p), i>> \in KeptSlots(d)
    BY KeptFrom
  <2> DEFINE s == <<Home(d, p), i>>
  <2>2. s[1] = Home(d, p) /\ s \in KeptSlots(d)
    BY <2>1
  <2> HIDE DEF s
  <2>3. Home(d, p) \in KeptArrays(d)
    BY <2>2 DEF KeptArrays
  <2> QED BY <2>3, KeptFrom, ParentIsKept
<1>3. ASSUME NEW a \in KeptArrays(d), a # Root
      PROVE  a \in DOMAIN d.arrays /\ \E p \in KeptNodes(d) : d.trie[p].children = a
  <2>1. PICK s \in KeptSlots(d) : a = s[1]
    BY <1>3 DEF KeptArrays
  <2>2. s \in Slots(d) /\ s[2] # 0
    BY <1>1, <2>1, VisitedIs DEF KeptSlots
  <2>3. a \in DOMAIN d.arrays /\ s[2] \in DOMAIN d.arrays[a]
    BY <1>1, <2>1, <2>2, SlotsAre
  <2> DEFINE p == Siblings(d, a)[s[2]]
  <2>4. p \in KeptNodes(d)
    BY <2>1 DEF KeptNodes
  <2>5. p \in Live(d) /\ Home(d, p) = a
    BY <1>1, <2>3, SiblingsAre DEF Tree
  <2>6. d.trie[p].parent # None
    BY <1>3, <2>5 DEF Home
  <2>7. d.trie[p].parent \in KeptNodes(d) /\ d.trie[d.trie[p].parent].children = a
    BY <2>4, <2>5, <2>6, ParentIsKept DEF Home
  <2> QED BY <2>3, <2>7
<1>4. Root \in KeptArrays(d) /\ Root \in DOMAIN d.arrays
  BY <1>1, ArraysAre DEF KeptArrays
<1> QED BY <1>2, <1>3, <1>4 DEF Closed

\* What has an entry is kept.
LEMMA WordsAreKept ==
    ASSUME NEW d, NEW text, Good(d, text), NEW p \in Live(d), IsTerminal(d.trie[p]),
           IsValidEntry(d, <<d.trie[p].id>>)
    PROVE  p \in KeptNodes(d)
<1>1. Buffers(d) /\ Tree(d) /\ Spells(d, text)
  BY DEF Good
<1> DEFINE b == Home(d, p)
<1>2. b \in DOMAIN d.arrays
  BY <1>1 DEF Tree
<1>3. PICK j \in DOMAIN d.arrays[b] : Siblings(d, b)[j] = p
  BY <1>1 DEF Tree
<1> DEFINE t == <<b, j>>
<1>4. t[1] = b /\ t[2] = j /\ t[2] # 0
  BY <1>1, <1>2, SlotsAre
<1> HIDE DEF b
<1>5. VisitStep(d, Visited(d), t).keeps
  <2> HIDE DEF t
  <2>1. d.trie[Siblings(d, t[1])[t[2]]] = d.trie[p]
    BY <1>3, <1>4
  <2> QED BY <1>4, <2>1 DEF VisitStep
<1>6. t \in KeptSlots(d)
  BY <1>2, <1>5, KeptSlotIs
<1> HIDE DEF t
<1> QED BY <1>3, <1>4, <1>6 DEF KeptNodes

-----------------------------------------------------------------------------
(* What a garbage collection writes: the copies of the nodes K and of the   *)
(* arrays A.                                                                *)

CopyWords(d, K) ==
    {p \in K : IsTerminal(d.trie[p]) /\ IsValidEntry(d, <<d.trie[p].id>>)}

CopyIds(d, K) == {d.trie[p].id : p \in CopyWords(d, K)}

CopyNode(d, K, A, p) ==
    LET n == d.trie[p]
    IN [flag     |-> "plain",
        parent   |-> IF n.parent \in K THEN Rank(n.parent, K) ELSE n.parent,
        chars    |-> n.chars,
        id       |-> IF p \in CopyWords(d, K) THEN Rank(n.id, CopyIds(d, K)) - 1 ELSE None,
        children |-> IF n.children \in A THEN Rank(n.children, A) ELSE None]

KeptPlaces(d, K, a) == {i \in DOMAIN Siblings(d, a) : Siblings(d, a)[i] \in K}

CopyArray(d, K, a) ==
    [r \in 1..Cardinality(KeptPlaces(d, K, a)) |->
        Rank(Siblings(d, a)[Nth(KeptPlaces(d, K, a), r)], K)]

CopyPosition(d, K, id) == CHOOSE p \in CopyWords(d, K) : d.trie[p].id = id

CopyTrie(d, K, A) == [r \in 1..Cardinality(K) |-> CopyNode(d, K, A, Nth(K, r))]
CopyArrays(d, K, A) == [r \in 1..Cardinality(A) |-> CopyArray(d, K, Nth(A, r))]
CopyTable(d, K) ==
    [r \in 1..Cardinality(CopyIds(d, K)) |->
        Rank(CopyPosition(d, K, Nth(CopyIds(d, K), r)), K)]

CopyLm(d, ids) ==
    LET former(q)  == [i \in DOMAIN q |-> Nth(ids, q[i] + 1)]
        renamed(q) == [i \in DOMAIN q |-> Rank(q[i], ids) - 1]
        lasting    == {q \in DOMAIN d.lm : Range(q) \subseteq ids}
    IN [q \in {renamed(x) : x \in lasting} |-> d.lm[former(q)]]

CopyOf(d, K, A) ==
    DictOf(CopyTrie(d, K, A), CopyArrays(d, K, A), CopyTable(d, K), CopyLm(d, CopyIds(d, K)), d.count)

LEMMA CopiedIs ==
    ASSUME NEW d
    PROVE  Copied(d) = CopyOf(d, KeptNodes(d), KeptArrays(d))
BY DEF Copied, CopyOf, DictOf, CopyTrie, CopyArrays, CopyTable, CopyLm, CopyNode, CopyArray,
       CopyPosition, CopyIds, CopyWords, KeptPlaces, Nth, KeptNodes, KeptArrays, KeptSlots

\* f has an element for each number of S, at its rank.
Numbers(f, S) ==
    /\ Cardinality(S) \in Nat /\ DOMAIN f = 1..Cardinality(S)
    /\ \A r \in DOMAIN f : Nth(S, r) \in S /\ Rank(Nth(S, r), S) = r
    /\ \A x \in S : /\ Rank(x, S) \in DOMAIN f /\ Nth(S, Rank(x, S)) = x
                    /\ Rank(x, S) \in Nat

LEMMA NumbersAre ==
    ASSUME NEW S, S \subseteq Nat, IsFiniteSet(S), NEW f, DOMAIN f = 1..Cardinality(S)
    PROVE  /\ Numbers(f, S)
           /\ \A x, y \in S : Rank(x, S) = Rank(y, S) => x = y
<1>1. ASSUME NEW x \in S, NEW y \in S, Rank(x, S) = Rank(y, S) PROVE x = y
  BY <1>1, RankIsInjective
<1>2. \A x \in S : Rank(x, S) \in Nat
  BY RankIsIn
<1> QED BY <1>1, <1>2, NthIs DEF Numbers

LEMMA FinitePart ==
    ASSUME NEW n \in Nat, NEW S, S \subseteq 1..n
    PROVE  S \subseteq Nat /\ IsFiniteSet(S)
<1>1. IsFiniteSet(1..n)
  BY FS_Interval
<1>2. S \in SUBSET (1..n)
  OBVIOUS
<1>3. IsFiniteSet(S)
  BY <1>1, <1>2, FS_Subset
<1> QED BY <1>3

LEMMA KeptAreNumbers ==
    ASSUME NEW d, NEW text, Good(d, text), NEW K, NEW A, Closed(d, K, A)
    PROVE  /\ K \subseteq Nat /\ IsFiniteSet(K)
           /\ A \subseteq Nat /\ IsFiniteSet(A)
           /\ CopyIds(d, K) \subseteq 0..Len(d.table) - 1
           /\ CopyIds(d, K) \subseteq Nat /\ IsFiniteSet(CopyIds(d, K))
<1>1. Buffers(d) /\ K \subseteq Live(d) /\ A \subseteq DOMAIN d.arrays
  BY DEF Good, Closed
<1> DEFINE nt == Len(d.trie)
           na == Len(d.arrays)
           nn == Len(d.table)
           ids == CopyIds(d, K)
<1>2. nt \in Nat /\ na \in Nat /\ nn \in Nat /\ DOMAIN d.trie = 1..nt /\ DOMAIN d.arrays = 1..na
  BY <1>1, ArraysAre
<1>3. K \subseteq 1..nt /\ A \subseteq 1..na
  BY <1>1, <1>2 DEF Live
<1>4. ids \subseteq 0..nn - 1
  <2>1. ASSUME NEW p \in CopyWords(d, K) PROVE d.trie[p].id \in 0..nn - 1
    <3>1. p \in DOMAIN d.trie /\ d.trie[p].id # None
      BY <1>2, <1>3 DEF CopyWords, IsTerminal
    <3> QED BY <1>1, <3>1 DEF Buffers, NodeOK
  <2> QED BY <2>1 DEF CopyIds
<1>5. IsFiniteSet(0..nn - 1)
  <2>1. nn - 1 \in Int /\ 0 \in Int
    BY <1>2
  <2> QED BY <2>1, FS_Interval
<1> HIDE DEF ids, nn, nt, na
<1>6. ids \in SUBSET (0..nn - 1) /\ ids \subseteq Nat
  BY <1>2, <1>4
<1>7. IsFiniteSet(ids)
  BY <1>5, <1>6, FS_Subset
<1>8. K \subseteq Nat /\ IsFiniteSet(K) /\ A \subseteq Nat /\ IsFiniteSet(A)
  BY <1>2, <1>3, FinitePart
<1> QED BY <1>4, <1>6, <1>7, <1>8 DEF ids, nn

LEMMA CopyTrieIs ==
    ASSUME NEW d, NEW text, Good(d, text), NEW K, NEW A, Closed(d, K, A)
    PROVE  /\ Numbers(CopyTrie(d, K, A), K)
           /\ \A p \in K : CopyTrie(d, K, A)[Rank(p, K)] = CopyNode(d, K, A, p)
           /\ \A p, q \in K : Rank(p, K) = Rank(q, K) => p = q
<1> DEFINE f == CopyTrie(d, K, A)
<1>1. K \subseteq Nat /\ IsFiniteSet(K)
  BY KeptAreNumbers
<1>2. DOMAIN f = 1..Cardinality(K)
      /\ \A r \in DOMAIN f : f[r] = CopyNode(d, K, A, Nth(K, r))
  BY DEF CopyTrie
<1> HIDE DEF f
<1>3. Numbers(f, K) /\ \A p, q \in K : Rank(p, K) = Rank(q, K) => p = q
  BY <1>1, <1>2, NumbersAre
<1>4. \A p \in K : f[Rank(p, K)] = CopyNode(d, K, A, p)
  BY <1>2, <1>3 DEF Numbers
<1> QED BY <1>3, <1>4 DEF f

LEMMA CopyArraysAre ==
    ASSUME NEW d, NEW text, Good(d, text), NEW K, NEW A, Closed(d, K, A)
    PROVE  /\ Numbers(CopyArrays(d, K, A), A)
           /\ \A a \in A : CopyArrays(d, K, A)[Rank(a, A)] = CopyArray(d, K, a)
           /\ \A a, b \in A : Rank(a, A) = Rank(b, A) => a = b
           /\ Rank(Root, A) = Root
           /\ \A a \in A \ {Root} : Rank(a, A) \in 2..Cardinality(A)
<1> DEFINE f == CopyArrays(d, K, A)
           n == Cardinality(A)
<1>1. A \subseteq Nat /\ IsFiniteSet(A)
  BY KeptAreNumbers
<1>2. DOMAIN f = 1..Cardinality(A)
      /\ \A r \in DOMAIN f : f[r] = CopyArray(d, K, Nth(A, r))
  BY DEF CopyArrays
<1> HIDE DEF f
<1>3. Numbers(f, A) /\ \A a, b \in A : Rank(a, A) = Rank(b, A) => a = b
  BY <1>1, <1>2, NumbersAre
<1>4. \A a \in A : f[Rank(a, A)] = CopyArray(d, K, a)
  BY <1>2, <1>3 DEF Numbers
<1>5. Root \in A /\ \A a \in A : Root <= a
  <2>1. A \subseteq DOMAIN d.arrays /\ Root \in A /\ Buffers(d)
    BY DEF Closed, Good
  <2>2. DOMAIN d.arrays = 1..Len(d.arrays) /\ Len(d.arrays) \in Nat
    BY <2>1, ArraysAre
  <2> QED BY <2>1, <2>2 DEF Root
<1>6. Rank(Root, A) = 1
  BY <1>1, <1>5, LeastIsFirst
<1>7. ASSUME NEW a \in A \ {Root} PROVE Rank(a, A) \in 2..n
  <2> DEFINE r == Rank(a, A)
  <2>1. r \in 1..n /\ n \in Nat
    BY <1>1, RankIsPlace, FS_CardinalityType
  <2>2. r # 1
    BY <1>3, <1>5, <1>6
  <2> HIDE DEF r, n
  <2>3. r \in 2..n
    BY <2>1, <2>2
  <2> QED BY <2>3 DEF r
<1> QED BY <1>3, <1>4, <1>6, <1>7 DEF f, Root

\* The copy of a node.
NodeCopied(d, K, A, p, n) ==
    LET m == d.trie[p] IN
    /\ n \in Node /\ n.flag = "plain" /\ n.chars = m.chars /\ n.chars \in Substrings
    /\ IF m.parent = None THEN n.parent = None
       ELSE m.parent \in K /\ n.parent = Rank(m.parent, K) /\ n.parent \in 1..Cardinality(K)
    /\ IF m.children \in A
          THEN n.children = Rank(m.children, A) /\ n.children \in 2..Cardinality(A)
       ELSE n.children = None
    /\ IF p \in CopyWords(d, K)
          THEN n.id = Rank(m.id, CopyIds(d, K)) - 1 /\ n.id \in 0..Cardinality(CopyIds(d, K)) - 1
       ELSE n.id = None
    /\ IsTerminal(n) <=> p \in CopyWords(d, K)

LEMMA CopyNodeIs ==
    ASSUME NEW d, NEW text, Good(d, text), NEW K, NEW A, Closed(d, K, A), NEW p \in K
    PROVE  NodeCopied(d, K, A, p, CopyNode(d, K, A, p))
<1> DEFINE m == d.trie[p]
           n == CopyNode(d, K, A, p)
           ids == CopyIds(d, K)
<1>1. Buffers(d) /\ Tree(d) /\ p \in Live(d) /\ m.parent \in K \cup {None} /\ A \subseteq DOMAIN d.arrays
  BY DEF Good, Closed
<1>2. /\ K \subseteq Nat /\ IsFiniteSet(K) /\ A \subseteq Nat /\ IsFiniteSet(A)
      /\ ids \subseteq Nat /\ IsFiniteSet(ids)
  BY KeptAreNumbers
<1>3. p \in DOMAIN d.trie /\ m \in Node /\ m.chars \in Substrings /\ m.children # Root
      /\ m.chars \in Strings
  <2>1. p \in DOMAIN d.trie
    BY <1>1 DEF Live
  <2> QED BY <1>1, <2>1, NodeIs DEF Buffers, NodeOK
<1>4. None \notin Nat
  BY Constants
<1>5. /\ n.flag = "plain" /\ n.chars = m.chars
      /\ n.parent = IF m.parent \in K THEN Rank(m.parent, K) ELSE m.parent
      /\ n.children = IF m.children \in A THEN Rank(m.children, A) ELSE None
      /\ n.id = IF p \in CopyWords(d, K) THEN Rank(m.id, ids) - 1 ELSE None
      /\ n = Rec(n.flag, n.parent, n.chars, n.id, n.children)
  BY DEF CopyNode, Rec
<1> HIDE DEF n
<1>6. IF m.parent = None THEN n.parent = None
      ELSE m.parent \in K /\ n.parent = Rank(m.parent, K) /\ n.parent \in 1..Cardinality(K)
  <2>1. CASE m.parent = None
    BY <1>2, <1>4, <1>5, <2>1
  <2>2. CASE m.parent # None
    <3>1. m.parent \in K
      BY <1>1, <2>2
    <3>2. Rank(m.parent, K) \in 1..Cardinality(K)
      BY <1>2, <3>1, RankIsPlace
    <3> QED BY <1>5, <2>2, <3>1, <3>2
  <2> QED BY <2>1, <2>2
<1>7. IF m.children \in A
         THEN n.children = Rank(m.children, A) /\ n.children \in 2..Cardinality(A)
      ELSE n.children = None
  <2>1. CASE m.children \in A
    <3>1. m.children \in A \ {Root}
      BY <1>3, <2>1
    <3>2. Rank(m.children, A) \in 2..Cardinality(A)
      BY <3>1, CopyArraysAre
    <3> QED BY <1>5, <2>1, <3>2
  <2>2. CASE m.children \notin A
    BY <1>5, <2>2
  <2> QED BY <2>1, <2>2
<1>8. IF p \in CopyWords(d, K)
         THEN n.id = Rank(m.id, ids) - 1 /\ n.id \in 0..Cardinality(ids) - 1
      ELSE n.id = None
  <2>1. CASE p \in CopyWords(d, K)
    <3> DEFINE r == Rank(m.id, ids)
               k == Cardinality(ids)
    <3>1. m.id \in ids
      BY <2>1 DEF CopyIds
    <3>2. r \in 1..k /\ k \in Nat
      BY <1>2, <3>1, RankIsPlace, FS_CardinalityType
    <3>3. n.id = r - 1
      BY <1>5, <2>1
    <3> HIDE DEF r, k
    <3>4. r - 1 \in 0..k - 1
      BY <3>2
    <3> QED BY <2>1, <3>3, <3>4 DEF r, k
  <2>2. CASE p \notin CopyWords(d, K)
    BY <1>5, <2>2
  <2> QED BY <2>1, <2>2
<1>9. Cardinality(ids) \in Nat /\ Cardinality(K) \in Nat /\ Cardinality(A) \in Nat
  BY <1>2, FS_CardinalityType
<1>10. /\ n.id \in Nat \cup {None} /\ n.parent \in Nat \cup {None} /\ n.children \in Nat \cup {None}
       /\ IsTerminal(n) <=> p \in CopyWords(d, K)
  <2> HIDE DEF m, ids
  <2>1. CASE p \in CopyWords(d, K)
    <3>1. n.id \in Nat
      BY <1>8, <1>9, <2>1
    <3> QED BY <1>4, <1>6, <1>7, <1>9, <2>1, <3>1 DEF IsTerminal
  <2>2. CASE p \notin CopyWords(d, K)
    BY <1>6, <1>7, <1>8, <1>9, <2>2 DEF IsTerminal
  <2> QED BY <2>1, <2>2
<1>11. n \in Node
  BY <1>3, <1>5, <1>10 DEF Node, Rec
<1> QED BY <1>3, <1>5, <1>6, <1>7, <1>8, <1>10, <1>11 DEF NodeCopied, n

\* The copy of an array.
ArrayCopied(d, K, a, f) ==
    /\ f \in Seq(Nat)
    /\ \A r \in DOMAIN f : f[r] \in 1..Cardinality(K)
    /\ \A r \in DOMAIN f : \E i \in DOMAIN d.arrays[a] :
          Siblings(d, a)[i] \in K /\ f[r] = Rank(Siblings(d, a)[i], K)
    /\ \A i \in DOMAIN d.arrays[a] : Siblings(d, a)[i] \in K =>
          \E r \in DOMAIN f : f[r] = Rank(Siblings(d, a)[i], K)
    /\ \A r, t \in DOMAIN f : f[r] = f[t] => r = t

LEMMA CopyArrayIs ==
    ASSUME NEW d, NEW text, Good(d, text), NEW K, NEW A, Closed(d, K, A), NEW a \in A
    PROVE  ArrayCopied(d, K, a, CopyArray(d, K, a))
<1> DEFINE P == KeptPlaces(d, K, a)
           S == Siblings(d, a)
           f == CopyArray(d, K, a)
<1>1. Buffers(d) /\ Tree(d) /\ a \in DOMAIN d.arrays /\ K \subseteq Live(d)
  BY DEF Good, Closed
<1>2. K \subseteq Nat /\ IsFiniteSet(K)
  BY KeptAreNumbers
<1>3. DOMAIN S = DOMAIN d.arrays[a] /\ P = {i \in DOMAIN d.arrays[a] : S[i] \in K}
  BY <1>1, SiblingsAre DEF KeptPlaces
<1>4. P \subseteq Nat /\ IsFiniteSet(P)
  <2>1. Len(d.arrays[a]) \in Nat /\ DOMAIN d.arrays[a] = 1..Len(d.arrays[a])
    BY <1>1, ArraysAre
  <2>2. P \subseteq 1..Len(d.arrays[a])
    BY <1>3, <2>1
  <2> HIDE DEF P
  <2> QED BY <2>1, <2>2, FinitePart
<1>5. ASSUME NEW i \in DOMAIN d.arrays[a], NEW j \in DOMAIN d.arrays[a], S[i] = S[j]
      PROVE  i = j
  BY <1>1, <1>5 DEF Tree
<1>6. DOMAIN f = 1..Cardinality(P)
      /\ \A r \in DOMAIN f : f[r] = Rank(S[Nth(P, r)], K)
  BY DEF CopyArray
<1> HIDE DEF f, P, S
<1>7. Numbers(f, P)
  BY <1>4, <1>6, NumbersAre
<1>8. ASSUME NEW r \in DOMAIN f
      PROVE  /\ Nth(P, r) \in DOMAIN d.arrays[a] /\ S[Nth(P, r)] \in K
             /\ f[r] = Rank(S[Nth(P, r)], K) /\ f[r] \in 1..Cardinality(K) /\ f[r] \in Nat
  <2>1. Nth(P, r) \in DOMAIN d.arrays[a] /\ S[Nth(P, r)] \in K
    BY <1>3, <1>7 DEF Numbers
  <2>2. Rank(S[Nth(P, r)], K) \in 1..Cardinality(K)
    BY <1>2, <2>1, RankIsPlace
  <2>3. Rank(S[Nth(P, r)], K) \in Nat
    BY <1>2, <2>1, RankIsIn
  <2> QED BY <1>6, <2>1, <2>2, <2>3
<1>9. f \in Seq(Nat)
  <2>1. Cardinality(P) \in Nat
    BY <1>7 DEF Numbers
  <2>2. f = [r \in DOMAIN f |-> f[r]]
    BY <1>6 DEF CopyArray, f
  <2>3. f \in [1..Cardinality(P) -> Nat]
    BY <1>6, <1>8, <2>2
  <2> QED BY <2>1, <2>3 DEF Seq
<1>10. ASSUME NEW i \in DOMAIN d.arrays[a], S[i] \in K
       PROVE  \E r \in DOMAIN f : f[r] = Rank(S[i], K)
  <2>1. i \in P
    BY <1>3, <1>10
  <2>2. Rank(i, P) \in DOMAIN f /\ Nth(P, Rank(i, P)) = i
    BY <1>7, <2>1 DEF Numbers
  <2> QED BY <1>6, <2>2
<1>11. ASSUME NEW r \in DOMAIN f, NEW t \in DOMAIN f, f[r] = f[t] PROVE r = t
  <2> DEFINE i == Nth(P, r)
             j == Nth(P, t)
  <2>1. /\ i \in DOMAIN d.arrays[a] /\ j \in DOMAIN d.arrays[a] /\ S[i] \in K /\ S[j] \in K
        /\ Rank(S[i], K) = Rank(S[j], K)
    BY <1>8, <1>11
  <2>2. Rank(i, P) = r /\ Rank(j, P) = t
    BY <1>7 DEF Numbers
  <2> HIDE DEF i, j
  <2>3. S[i] = S[j]
    BY <1>2, <2>1, RankIsInjective
  <2>4. i = j
    BY <1>5, <2>1, <2>3
  <2> QED BY <2>2, <2>4
<1> QED BY <1>8, <1>9, <1>10, <1>11 DEF ArrayCopied, f, S

\* The copy of the table: the node of an id.
LEMMA CopyTableIs ==
    ASSUME NEW d, NEW text, Good(d, text), NEW K, NEW A, Closed(d, K, A)
    PROVE  /\ Numbers(CopyTable(d, K), CopyIds(d, K))
           /\ CopyTable(d, K) \in Seq(Nat \cup {None})
           /\ Len(CopyTable(d, K)) = Cardinality(CopyIds(d, K))
           /\ \A p \in CopyWords(d, K) :
                 /\ d.trie[p].id \in CopyIds(d, K)
                 /\ CopyTable(d, K)[Rank(d.trie[p].id, CopyIds(d, K))] = Rank(p, K)
           /\ \A r \in DOMAIN CopyTable(d, K) : \E p \in CopyWords(d, K) :
                 r = Rank(d.trie[p].id, CopyIds(d, K))
           /\ \A p, q \in CopyWords(d, K) :
                 Rank(d.trie[p].id, CopyIds(d, K)) = Rank(d.trie[q].id, CopyIds(d, K)) => p = q
<1> DEFINE ids == CopyIds(d, K)
           W == CopyWords(d, K)
           f == CopyTable(d, K)
<1>1. Ids(d) /\ K \subseteq Live(d)
  BY DEF Good, Closed
<1>2. K \subseteq Nat /\ IsFiniteSet(K) /\ ids \subseteq Nat /\ IsFiniteSet(ids)
  BY KeptAreNumbers
<1>3. W \subseteq K /\ \A p \in W : IsTerminal(d.trie[p])
  BY DEF CopyWords
<1>4. \A p \in W : d.trie[p].id \in ids
  BY DEF CopyIds
<1>5. \A i \in ids : \E p \in W : d.trie[p].id = i
  BY DEF CopyIds
<1>6. /\ DOMAIN f = 1..Cardinality(ids)
      /\ \A r \in DOMAIN f : f[r] = Rank(CopyPosition(d, K, Nth(ids, r)), K)
      /\ f = [r \in DOMAIN f |-> f[r]]
  BY DEF CopyTable
<1> HIDE DEF f, ids, W
<1>7. \A p, q \in W : d.trie[p].id = d.trie[q].id => p = q
  BY <1>1, <1>3 DEF Ids
<1>8. Numbers(f, ids)
  BY <1>2, <1>6, NumbersAre
<1>9. \A i \in ids : CopyPosition(d, K, i) \in W /\ d.trie[CopyPosition(d, K, i)].id = i
  BY <1>5 DEF CopyPosition, W
<1>10. \A p \in W : CopyPosition(d, K, d.trie[p].id) = p
  BY <1>4, <1>7, <1>9
<1>11. \A p \in W : f[Rank(d.trie[p].id, ids)] = Rank(p, K)
  BY <1>4, <1>6, <1>8, <1>10 DEF Numbers
<1>12. f \in Seq(Nat \cup {None}) /\ Len(f) = Cardinality(ids)
  <2>1. Cardinality(ids) \in Nat
    BY <1>8 DEF Numbers
  <2>2. \A r \in DOMAIN f : f[r] \in Nat \cup {None}
    <3> TAKE r \in DOMAIN f
    <3>1. Nth(ids, r) \in ids
      BY <1>8 DEF Numbers
    <3>2. CopyPosition(d, K, Nth(ids, r)) \in K
      BY <1>3, <1>9, <3>1
    <3>3. f[r] \in Nat
      BY <1>2, <1>6, <3>2, RankIsIn
    <3> QED BY <3>3
  <2>3. f \in [1..Cardinality(ids) -> Nat \cup {None}]
    BY <1>6, <2>2
  <2>4. f \in Seq(Nat \cup {None})
    BY <2>1, <2>3 DEF Seq
  <2> QED BY <1>6, <2>1, <2>4, LenProperties
<1>13. \A r \in DOMAIN f : \E p \in W : r = Rank(d.trie[p].id, ids)
  <2> TAKE r \in DOMAIN f
  <2>1. Nth(ids, r) \in ids /\ Rank(Nth(ids, r), ids) = r
    BY <1>8 DEF Numbers
  <2> QED BY <1>5, <2>1
<1>14. ASSUME NEW p \in W, NEW q \in W, Rank(d.trie[p].id, ids) = Rank(d.trie[q].id, ids)
       PROVE  p = q
  <2>1. d.trie[p].id = d.trie[q].id
    BY <1>2, <1>4, <1>14, RankIsInjective
  <2> QED BY <1>7, <2>1
<1> QED BY <1>4, <1>8, <1>11, <1>12, <1>13, <1>14 DEF f, ids, W

\* What the copy of a dictionary consists of.
Copy(d, K, A, x) ==
    /\ Numbers(x.trie, K) /\ Numbers(x.arrays, A) /\ Numbers(x.table, CopyIds(d, K))
    /\ \A p \in K : NodeCopied(d, K, A, p, x.trie[Rank(p, K)])
    /\ \A r \in DOMAIN x.trie : x.trie[r] \in Node
    /\ \A a \in A : ArrayCopied(d, K, a, x.arrays[Rank(a, A)])
    /\ x.table = CopyTable(d, K)
    /\ x.trie \in Seq(Node) /\ x.arrays \in Seq(Seq(Nat)) /\ x.table \in Seq(Nat \cup {None})
    /\ Len(x.trie) = Cardinality(K) /\ Len(x.arrays) = Cardinality(A)
    /\ Len(x.table) = Cardinality(CopyIds(d, K))

LEMMA SeqOfElements ==
    ASSUME NEW S, NEW n \in Nat, NEW f, f = [r \in 1..n |-> f[r]], \A r \in 1..n : f[r] \in S
    PROVE  f \in Seq(S) /\ Len(f) = n
<1>1. f \in [1..n -> S]
  OBVIOUS
<1>2. f \in Seq(S)
  BY <1>1 DEF Seq
<1>3. DOMAIN f = 1..n
  BY <1>1
<1> QED BY <1>2, <1>3, LenProperties

LEMMA CopyIs ==
    ASSUME NEW d, NEW text, Good(d, text), NEW K, NEW A, Closed(d, K, A)
    PROVE  Copy(d, K, A, CopyOf(d, K, A))
<1> DEFINE x == CopyOf(d, K, A)
           T == CopyTrie(d, K, A)
           R == CopyArrays(d, K, A)
           k == Cardinality(K)
           l == Cardinality(A)
<1>1. x.trie = T /\ x.arrays = R /\ x.table = CopyTable(d, K)
  BY DEF CopyOf, DictOf
<1>2. Numbers(T, K) /\ \A p \in K : T[Rank(p, K)] = CopyNode(d, K, A, p)
  BY CopyTrieIs
<1>3. Numbers(R, A) /\ \A a \in A : R[Rank(a, A)] = CopyArray(d, K, a)
  BY CopyArraysAre
<1>4. T = [r \in 1..k |-> T[r]] /\ R = [r \in 1..l |-> R[r]]
  BY DEF CopyTrie, CopyArrays
<1> HIDE DEF T, R, x
<1>5. \A p \in K : NodeCopied(d, K, A, p, T[Rank(p, K)])
  <2> TAKE p \in K
  <2> DEFINE n == CopyNode(d, K, A, p)
  <2>1. NodeCopied(d, K, A, p, n)
    BY CopyNodeIs
  <2>2. T[Rank(p, K)] = n
    BY <1>2
  <2> HIDE DEF n
  <2> QED BY <2>1, <2>2
<1>6. \A a \in A : ArrayCopied(d, K, a, R[Rank(a, A)])
  <2> TAKE a \in A
  <2> DEFINE n == CopyArray(d, K, a)
  <2>1. ArrayCopied(d, K, a, n)
    BY CopyArrayIs
  <2>2. R[Rank(a, A)] = n
    BY <1>3
  <2> HIDE DEF n
  <2> QED BY <2>1, <2>2
<1>7. \A r \in DOMAIN T : T[r] \in Node
  <2> TAKE r \in DOMAIN T
  <2>1. Nth(K, r) \in K /\ Rank(Nth(K, r), K) = r
    BY <1>2 DEF Numbers
  <2>2. NodeCopied(d, K, A, Nth(K, r), T[Rank(Nth(K, r), K)])
    BY <1>5, <2>1
  <2>3. NodeCopied(d, K, A, Nth(K, r), T[r])
    BY <2>1, <2>2
  <2> QED BY <2>3 DEF NodeCopied
<1>8. \A r \in DOMAIN R : R[r] \in Seq(Nat)
  <2> TAKE r \in DOMAIN R
  <2>1. Nth(A, r) \in A /\ Rank(Nth(A, r), A) = r
    BY <1>3 DEF Numbers
  <2>2. ArrayCopied(d, K, Nth(A, r), R[Rank(Nth(A, r), A)])
    BY <1>6, <2>1
  <2>3. ArrayCopied(d, K, Nth(A, r), R[r])
    BY <2>1, <2>2
  <2> QED BY <2>3 DEF ArrayCopied
<1>9. k \in Nat /\ l \in Nat /\ DOMAIN T = 1..k /\ DOMAIN R = 1..l
  BY <1>2, <1>3 DEF Numbers
<1>10. T \in Seq(Node) /\ Len(T) = k
  BY <1>4, <1>7, <1>9, SeqOfElements
<1>11. R \in Seq(Seq(Nat)) /\ Len(R) = l
  BY <1>4, <1>8, <1>9, SeqOfElements
<1>12. /\ Numbers(CopyTable(d, K), CopyIds(d, K))
       /\ CopyTable(d, K) \in Seq(Nat \cup {None})
       /\ Len(CopyTable(d, K)) = Cardinality(CopyIds(d, K))
  BY CopyTableIs
<1> QED BY <1>1, <1>2, <1>3, <1>5, <1>6, <1>7, <1>10, <1>11, <1>12 DEF Copy, x

LEMMA CopyLive ==
    ASSUME NEW d, NEW text, Good(d, text), NEW K, NEW A, Closed(d, K, A), NEW x, Copy(d, K, A, x)
    PROVE  /\ Live(x) = DOMAIN x.trie /\ DOMAIN x.trie = 1..Cardinality(K)
           /\ \A r \in DOMAIN x.trie : \E p \in K : r = Rank(p, K)
           /\ \A p \in K : Rank(p, K) \in DOMAIN x.trie
<1>1. \A r \in DOMAIN x.trie : \E p \in K : r = Rank(p, K)
  BY DEF Copy, Numbers
<1>2. ASSUME NEW r \in DOMAIN x.trie PROVE x.trie[r].flag = "plain"
  <2>1. PICK p \in K : r = Rank(p, K)
    BY <1>1
  <2> QED BY <2>1 DEF Copy, NodeCopied
<1>3. Live(x) = DOMAIN x.trie
  BY <1>2 DEF Live
<1> QED BY <1>1, <1>3 DEF Copy, Numbers

LEMMA CopyBuffers ==
    ASSUME NEW d, NEW text, Good(d, text), NEW K, NEW A, Closed(d, K, A), NEW x, Copy(d, K, A, x)
    PROVE  Buffers(x)
<1>1. /\ x.trie \in Seq(Node) /\ x.arrays \in Seq(Seq(Nat)) /\ x.table \in Seq(Nat \cup {None})
      /\ Len(x.trie) = Cardinality(K) /\ Len(x.arrays) = Cardinality(A)
      /\ Len(x.table) = Cardinality(CopyIds(d, K))
      /\ Numbers(x.arrays, A) /\ Numbers(x.trie, K)
  BY DEF Copy
<1>2. Live(x) = DOMAIN x.trie /\ DOMAIN x.trie = 1..Cardinality(K)
  BY CopyLive
<1>3. Len(x.arrays) >= 1
  <2>1. Root \in A
    BY DEF Closed
  <2>2. Rank(Root, A) \in 1..Cardinality(A) /\ Cardinality(A) \in Nat
    BY <1>1, <2>1 DEF Numbers
  <2> QED BY <1>1, <2>2
<1>4. ASSUME NEW b \in DOMAIN x.arrays, NEW i \in DOMAIN x.arrays[b]
      PROVE  x.arrays[b][i] \in DOMAIN x.trie
  <2>1. Nth(A, b) \in A /\ Rank(Nth(A, b), A) = b
    BY <1>1 DEF Numbers
  <2>2. ArrayCopied(d, K, Nth(A, b), x.arrays[Rank(Nth(A, b), A)])
    BY <2>1 DEF Copy
  <2>3. ArrayCopied(d, K, Nth(A, b), x.arrays[b])
    BY <2>1, <2>2
  <2> QED BY <1>2, <2>3 DEF ArrayCopied
<1>5. ASSUME NEW r \in DOMAIN x.trie PROVE NodeOK(x, r)
  <2>1. PICK p \in K : r = Rank(p, K)
    BY CopyLive
  <2>2. NodeCopied(d, K, A, p, x.trie[r])
    BY <2>1 DEF Copy
  <2> DEFINE n == x.trie[r]
  <2>3. /\ n.flag = "plain" /\ n.chars \in Substrings
        /\ n.parent \in 1..Cardinality(K) \cup {None}
        /\ n.children \in 2..Cardinality(A) \cup {None}
        /\ n.id \in 0..Cardinality(CopyIds(d, K)) - 1 \cup {None}
    BY <2>2 DEF NodeCopied
  <2> QED BY <1>1, <1>2, <2>3 DEF NodeOK
<1> QED BY <1>1, <1>3, <1>4, <1>5 DEF Buffers, Shape

LEMMA CopySiblings ==
    ASSUME NEW d, NEW text, Good(d, text), NEW K, NEW A, Closed(d, K, A), NEW x, Copy(d, K, A, x)
    PROVE  \A b \in DOMAIN x.arrays : \A i \in DOMAIN x.arrays[b] :
              Siblings(x, b)[i] = x.arrays[b][i]
<1>1. Buffers(x) /\ Live(x) = DOMAIN x.trie
  BY CopyBuffers, CopyLive
<1> TAKE b \in DOMAIN x.arrays
<1> TAKE i \in DOMAIN x.arrays[b]
<1>2. x.arrays[b][i] \in DOMAIN x.trie
  BY <1>1 DEF Buffers
<1>3. Fetched(x)[x.arrays[b][i]] = x.arrays[b][i]
  BY <1>1, <1>2, FetchedIs
<1> QED BY <1>1, <1>3, SiblingsAre

LEMMA CopyIsImage ==
    ASSUME NEW d, NEW text, Good(d, text), NEW K, NEW A, Closed(d, K, A), NEW x, Copy(d, K, A, x)
    PROVE  Image(d, x, K, [p \in K |-> Rank(p, K)], A, [a \in A |-> Rank(a, A)])
<1> DEFINE s == [p \in K |-> Rank(p, K)]
           al == [a \in A |-> Rank(a, A)]
<1>1. (\A p \in K : s[p] = Rank(p, K)) /\ (\A a \in A : al[a] = Rank(a, A))
  OBVIOUS
<1>2. K \subseteq Live(d) /\ A \subseteq DOMAIN d.arrays /\ Root \in A
  BY DEF Closed
<1>3. /\ \A p \in K : d.trie[p].parent \in K \cup {None}
      /\ \A p \in K : Home(d, p) \in A
      /\ \A a \in A \ {Root} : \E p \in K : d.trie[p].children = a
  BY DEF Closed
<1>4. /\ Live(x) = DOMAIN x.trie
      /\ \A r \in DOMAIN x.trie : \E p \in K : r = Rank(p, K)
      /\ \A p \in K : Rank(p, K) \in DOMAIN x.trie
  BY CopyLive
<1>5. \A p, q \in K : Rank(p, K) = Rank(q, K) => p = q
  BY CopyTrieIs
<1>6. /\ \A a, b \in A : Rank(a, A) = Rank(b, A) => a = b
      /\ Rank(Root, A) = Root
  BY CopyArraysAre
<1>7. s \in [K -> Live(x)] /\ al \in [A -> DOMAIN x.arrays]
  <2>1. \A a \in A : Rank(a, A) \in DOMAIN x.arrays
    BY DEF Copy, Numbers
  <2> QED BY <1>4, <2>1
<1> HIDE DEF s, al
<1>8. \A b \in DOMAIN x.arrays : \E a \in A : al[a] = b
  <2> TAKE b \in DOMAIN x.arrays
  <2>1. Nth(A, b) \in A /\ Rank(Nth(A, b), A) = b
    BY DEF Copy, Numbers
  <2> QED BY <1>1, <2>1
<1>9. ASSUME NEW p \in K
      PROVE  /\ x.trie[s[p]].chars = d.trie[p].chars
             /\ IF d.trie[p].parent = None THEN x.trie[s[p]].parent = None
                ELSE d.trie[p].parent \in K /\ x.trie[s[p]].parent = s[d.trie[p].parent]
             /\ IF d.trie[p].children \in A THEN x.trie[s[p]].children = al[d.trie[p].children]
                ELSE x.trie[s[p]].children = None
             /\ IsTerminal(x.trie[s[p]]) => IsTerminal(d.trie[p])
  <2>1. NodeCopied(d, K, A, p, x.trie[s[p]])
    BY <1>1 DEF Copy
  <2>2. x.trie[s[p]].chars = d.trie[p].chars
    BY <2>1 DEF NodeCopied
  <2>3. IF d.trie[p].parent = None THEN x.trie[s[p]].parent = None
        ELSE d.trie[p].parent \in K /\ x.trie[s[p]].parent = Rank(d.trie[p].parent, K)
    BY <2>1 DEF NodeCopied
  <2>4. IF d.trie[p].children \in A THEN x.trie[s[p]].children = Rank(d.trie[p].children, A)
        ELSE x.trie[s[p]].children = None
    BY <2>1 DEF NodeCopied
  <2>5. IsTerminal(x.trie[s[p]]) => IsTerminal(d.trie[p])
    BY <2>1 DEF NodeCopied, CopyWords
  <2> QED BY <1>1, <2>2, <2>3, <2>4, <2>5
<1>10. NodesImage(d, x, K, s, A, al)
  BY <1>1, <1>2, <1>4, <1>5, <1>7, <1>9 DEF NodesImage
<1>11. ArraysImage(d, x, K, s, A, al)
  BY <1>1, <1>2, <1>3, <1>6, <1>7, <1>8 DEF ArraysImage
<1>12. ASSUME NEW a \in A
       PROVE  /\ \A i \in DOMAIN x.arrays[al[a]] : \E j \in DOMAIN d.arrays[a] :
                    Siblings(d, a)[j] \in K /\ Siblings(x, al[a])[i] = s[Siblings(d, a)[j]]
              /\ \A j \in DOMAIN d.arrays[a] : Siblings(d, a)[j] \in K =>
                    \E i \in DOMAIN x.arrays[al[a]] : Siblings(x, al[a])[i] = s[Siblings(d, a)[j]]
              /\ \A i, k \in DOMAIN x.arrays[al[a]] :
                    Siblings(x, al[a])[i] = Siblings(x, al[a])[k] => i = k
  <2> DEFINE f == x.arrays[al[a]]
  <2>1. ArrayCopied(d, K, a, f)
    BY <1>1 DEF Copy
  <2>2. \A i \in DOMAIN f : Siblings(x, al[a])[i] = f[i]
    BY <1>7, CopySiblings
  <2> HIDE DEF f
  <2>3. /\ \A r \in DOMAIN f : \E i \in DOMAIN d.arrays[a] :
              Siblings(d, a)[i] \in K /\ f[r] = Rank(Siblings(d, a)[i], K)
        /\ \A i \in DOMAIN d.arrays[a] : Siblings(d, a)[i] \in K =>
              \E r \in DOMAIN f : f[r] = Rank(Siblings(d, a)[i], K)
        /\ \A r, t \in DOMAIN f : f[r] = f[t] => r = t
    BY <2>1 DEF ArrayCopied
  <2>4. \A i \in DOMAIN f : \E j \in DOMAIN d.arrays[a] :
           Siblings(d, a)[j] \in K /\ Siblings(x, al[a])[i] = s[Siblings(d, a)[j]]
    BY <1>1, <2>2, <2>3
  <2>5. \A j \in DOMAIN d.arrays[a] : Siblings(d, a)[j] \in K =>
           \E i \in DOMAIN f : Siblings(x, al[a])[i] = s[Siblings(d, a)[j]]
    BY <1>1, <2>2, <2>3
  <2>6. \A i, k \in DOMAIN f : Siblings(x, al[a])[i] = Siblings(x, al[a])[k] => i = k
    BY <2>2, <2>3
  <2> QED BY <2>4, <2>5, <2>6 DEF f
<1>13. SlotsImage(d, x, K, s, A, al)
  BY <1>12 DEF SlotsImage
<1>14. Image(d, x, K, s, A, al)
  BY <1>10, <1>11, <1>13 DEF Image
<1> QED BY <1>14 DEF s, al

LEMMA CopySpells ==
    ASSUME NEW d, NEW text, Good(d, text), NEW K, NEW A, Closed(d, K, A), NEW x, Copy(d, K, A, x)
    PROVE  Tree(x) /\ \E text2 : Spells(x, text2) /\ \A p \in K : text2[Rank(p, K)] = text[p]
<1> DEFINE s == [p \in K |-> Rank(p, K)]
           al == [a \in A |-> Rank(a, A)]
           text2 == [r \in Live(x) |-> text[Nth(K, r)]]
<1>1. Buffers(d) /\ Tree(d) /\ Spells(d, text)
  BY DEF Good
<1>2. Buffers(x)
  BY CopyBuffers
<1>3. Image(d, x, K, s, A, al)
  BY CopyIsImage
<1>4. \A p \in K : s[p] = Rank(p, K)
  OBVIOUS
<1>5. Live(x) = DOMAIN x.trie
  BY CopyLive
<1>6. /\ \A r \in Live(x) : Nth(K, r) \in K
      /\ \A p \in K : Rank(p, K) \in Live(x) /\ Nth(K, Rank(p, K)) = p
  BY <1>5 DEF Copy, Numbers
<1>7. \A p \in K : text[p] \in Strings
  <2>1. K \subseteq Live(d)
    BY DEF Closed
  <2> QED BY <1>1, <2>1 DEF Spells
<1>8. text2 \in [Live(x) -> Strings] /\ \A r \in Live(x) : text2[r] = text[Nth(K, r)]
  BY <1>6, <1>7
<1> HIDE DEF s, al, text2
<1>9. \A p \in K : text2[s[p]] = text[p]
  BY <1>4, <1>6, <1>8
<1>10. Spells(x, text2)
  BY <1>1, <1>2, <1>3, <1>8, <1>9, ImageSpells
<1>11. Tree(x)
  BY <1>1, <1>2, <1>3, ImageIsTree
<1> QED BY <1>4, <1>9, <1>10, <1>11

LEMMA CopyIdsLead ==
    ASSUME NEW d, NEW text, Good(d, text), NEW K, NEW A, Closed(d, K, A), NEW x, Copy(d, K, A, x)
    PROVE  Ids(x)
<1> DEFINE ids == CopyIds(d, K)
           W == CopyWords(d, K)
           R(p) == Rank(d.trie[p].id, ids)
<1>1. /\ Live(x) = DOMAIN x.trie
      /\ \A r \in DOMAIN x.trie : \E p \in K : r = Rank(p, K)
      /\ \A p \in K : Rank(p, K) \in DOMAIN x.trie
  BY CopyLive
<1>2. /\ \A p \in W : d.trie[p].id \in ids /\ x.table[R(p)] = Rank(p, K)
      /\ \A i \in DOMAIN x.table : \E p \in W : i = R(p)
      /\ \A p, q \in W : R(p) = R(q) => p = q
  <2> DEFINE f == CopyTable(d, K)
  <2>1. /\ \A p \in W : d.trie[p].id \in ids /\ f[R(p)] = Rank(p, K)
        /\ \A i \in DOMAIN f : \E p \in W : i = R(p)
        /\ \A p, q \in W : R(p) = R(q) => p = q
    BY CopyTableIs
  <2>2. x.table = f
    BY DEF Copy
  <2> HIDE DEF f, R, W, ids
  <2> QED BY <2>1, <2>2
<1>3. W \subseteq K
  BY DEF CopyWords
<1>4. \A p \in W : R(p) \in Nat
  BY <1>2 DEF Copy, Numbers
<1> HIDE DEF R
<1>5. ASSUME NEW p \in K
      PROVE  LET n == x.trie[Rank(p, K)] IN
             /\ n.flag = "plain" /\ n \in Node
             /\ IsTerminal(n) <=> p \in W
             /\ p \in W => n.id = R(p) - 1
  <2>1. NodeCopied(d, K, A, p, x.trie[Rank(p, K)])
    BY DEF Copy
  <2> QED BY <2>1 DEF NodeCopied, R
<1> HIDE DEF W
<1>6. ASSUME NEW r \in Live(x)
      PROVE  LET n == x.trie[r] IN
             /\ n.flag # "deleted" /\ n.flag = "plain"
             /\ IsTerminal(n) => x.table[n.id + 1] = r
  <2>1. PICK p \in K : r = Rank(p, K)
    BY <1>1
  <2>2. CASE p \in W
    <3>1. x.trie[r].id = R(p) - 1 /\ R(p) \in Nat /\ x.table[R(p)] = r
      BY <1>2, <1>4, <1>5, <2>1, <2>2
    <3>2. x.trie[r].id + 1 = R(p)
      BY <3>1
    <3> QED BY <1>5, <2>1, <3>1, <3>2
  <2>3. CASE p \notin W
    BY <1>5, <2>1, <2>3
  <2> QED BY <2>2, <2>3
<1>7. ASSUME NEW r \in Live(x), NEW t \in Live(x), IsTerminal(x.trie[r]),
             x.trie[r].id = x.trie[t].id
      PROVE  r = t
  <2>1. PICK p \in K : r = Rank(p, K)
    BY <1>1
  <2>2. PICK q \in K : t = Rank(q, K)
    BY <1>1
  <2>3. IsTerminal(x.trie[t])
    BY <1>7 DEF IsTerminal
  <2>4. p \in W /\ q \in W /\ x.trie[r].id = R(p) - 1 /\ x.trie[t].id = R(q) - 1
    BY <1>5, <1>7, <2>1, <2>2, <2>3
  <2>5. R(p) \in Nat /\ R(q) \in Nat
    BY <1>4, <2>4
  <2>6. R(p) = R(q)
    <3> DEFINE u == R(p)
               v == R(q)
    <3>1. u - 1 = v - 1 /\ u \in Nat /\ v \in Nat
      BY <1>7, <2>4, <2>5
    <3> HIDE DEF u, v
    <3>2. u = v
      BY <3>1
    <3> QED BY <3>2 DEF u, v
  <2> QED BY <1>2, <2>1, <2>2, <2>4, <2>6
<1>8. ASSUME NEW i \in DOMAIN x.table
      PROVE  /\ x.table[i] \in Live(x)
             /\ x.trie[x.table[i]].flag # "deleted"
             /\ x.trie[x.table[i]].id = i - 1
  <2>1. PICK p \in W : i = R(p)
    BY <1>2
  <2>2. x.table[i] = Rank(p, K) /\ p \in K
    BY <1>2, <1>3, <2>1 DEF W
  <2> QED BY <1>1, <1>5, <2>1, <2>2
<1> QED BY <1>6, <1>7, <1>8 DEF Ids

Former(ids, q) == [i \in DOMAIN q |-> Nth(ids, q[i] + 1)]
Renamed(ids, q) == [i \in DOMAIN q |-> Rank(q[i], ids) - 1]

\* The paths of the kept ids get the new ids; nothing else is left.
LEMMA RenamedIs ==
    ASSUME NEW ids, ids \subseteq Nat, IsFiniteSet(ids), NEW q \in Seq(Nat), Range(q) \subseteq ids
    PROVE  /\ Renamed(ids, q) \in Seq(Nat) /\ DOMAIN Renamed(ids, q) = DOMAIN q
           /\ Range(Renamed(ids, q)) \subseteq 0..Cardinality(ids) - 1
           /\ Former(ids, Renamed(ids, q)) = q
<1> DEFINE r == Renamed(ids, q)
           n == Len(q)
           k == Cardinality(ids)
<1>1. n \in Nat /\ DOMAIN q = 1..n /\ q = [i \in 1..n |-> q[i]]
  BY LenProperties DEF Seq
<1>2. \A i \in DOMAIN q : q[i] \in ids
  BY DEF Range
<1>3. k \in Nat
  BY FS_CardinalityType
<1>4. r = [i \in 1..n |-> r[i]] /\ DOMAIN r = 1..n
      /\ \A i \in 1..n : r[i] = Rank(q[i], ids) - 1
  BY <1>1 DEF Renamed
<1> HIDE DEF r
<1>5. \A i \in 1..n : r[i] \in 0..k - 1 /\ Nth(ids, r[i] + 1) = q[i]
  <2> TAKE i \in 1..n
  <2> DEFINE x == q[i]
             rank == Rank(x, ids)
  <2>1. x \in ids
    BY <1>1, <1>2
  <2>2. rank \in 1..k /\ Nth(ids, rank) = x
    BY <2>1, NthIs
  <2>3. r[i] = rank - 1
    BY <1>4
  <2> HIDE DEF rank, x, k
  <2>4. r[i] \in 0..k - 1 /\ r[i] + 1 = rank
    BY <1>3, <2>2, <2>3
  <2> QED BY <2>2, <2>4 DEF x
<1> HIDE DEF n, k
<1>6. r \in Seq(Nat) /\ Len(r) = n
  <2>1. \A i \in 1..n : r[i] \in Nat
    BY <1>3, <1>5
  <2> QED BY <1>1, <1>4, <2>1, SeqOfElements
<1>7. Range(r) \subseteq 0..k - 1
  BY <1>4, <1>5 DEF Range
<1>8. Former(ids, r) = q
  BY <1>1, <1>4, <1>5 DEF Former
<1> QED BY <1>1, <1>4, <1>6, <1>7, <1>8 DEF r, k

\* The entries of the kept ids, and no others, are those of x.
LmCopied(d, ids, x) ==
    /\ \A r \in DOMAIN x : \E q \in DOMAIN d.lm : Range(q) \subseteq ids /\ r = Renamed(ids, q)
    /\ \A q \in DOMAIN d.lm : Range(q) \subseteq ids =>
          Renamed(ids, q) \in DOMAIN x /\ x[Renamed(ids, q)] = d.lm[q]

LEMMA CopyLmIs ==
    ASSUME NEW d, LmOK(d), NEW ids, ids \subseteq Nat, IsFiniteSet(ids)
    PROVE  LmCopied(d, ids, CopyLm(d, ids))
<1> DEFINE lasting == {r \in DOMAIN d.lm : Range(r) \subseteq ids}
           new == {Renamed(ids, q) : q \in lasting}
           x == CopyLm(d, ids)
<1>1. x = [q \in new |-> d.lm[Former(ids, q)]]
  BY DEF CopyLm, Former, Renamed
<1>2. \A q \in lasting : q \in Seq(Nat) /\ Range(q) \subseteq ids
  BY DEF LmOK
<1>3. \A q \in lasting : Former(ids, Renamed(ids, q)) = q
  BY <1>2, RenamedIs
<1> HIDE DEF x
<1>4. DOMAIN x = new
  BY <1>1
<1>5. ASSUME NEW q \in lasting PROVE Renamed(ids, q) \in DOMAIN x /\ x[Renamed(ids, q)] = d.lm[q]
  <2> DEFINE r == Renamed(ids, q)
  <2>1. r \in new
    OBVIOUS
  <2>2. x[r] = d.lm[Former(ids, r)]
    BY <1>1, <2>1
  <2> QED BY <1>3, <1>4, <2>1, <2>2
<1>6. ASSUME NEW r \in DOMAIN x
      PROVE  \E q \in DOMAIN d.lm : Range(q) \subseteq ids /\ r = Renamed(ids, q)
  BY <1>4
<1> QED BY <1>5, <1>6 DEF LmCopied, x

LEMMA RenamedFits ==
    ASSUME NEW d, LmOK(d), NEW ids, ids \subseteq Nat, IsFiniteSet(ids)
    PROVE  Fits(CopyLm(d, ids), Cardinality(ids))
<1> DEFINE x == CopyLm(d, ids)
           k == Cardinality(ids)
<1>1. LmCopied(d, ids, x)
  BY CopyLmIs
<1> HIDE DEF x
<1>2. ASSUME NEW r \in DOMAIN x
      PROVE  r \in Seq(Nat) /\ Range(r) \subseteq 0..k - 1 /\ x[r] \in Marks
  <2>1. PICK q \in DOMAIN d.lm : Range(q) \subseteq ids /\ r = Renamed(ids, q)
    BY <1>1 DEF LmCopied
  <2>2. q \in Seq(Nat) /\ d.lm[q] \in Marks
    BY DEF LmOK, Marks
  <2>3. Renamed(ids, q) \in Seq(Nat) /\ Range(Renamed(ids, q)) \subseteq 0..k - 1
    BY <2>1, <2>2, RenamedIs
  <2> QED BY <1>1, <2>1, <2>2, <2>3 DEF LmCopied
<1> QED BY <1>2 DEF Fits, x

LEMMA CopiedHolds ==
    ASSUME NEW d, Holds(d)
    PROVE  Holds(Copied(d))
<1> DEFINE K == KeptNodes(d)
           A == KeptArrays(d)
           x == CopyOf(d, K, A)
           ids == CopyIds(d, K)
<1>1. PICK text : Good(d, text)
  BY SoundIsGood DEF Holds
<1>2. Closed(d, K, A)
  BY <1>1, KeptIsClosed
<1>3. Copied(d) = x
  BY CopiedIs
<1>4. x.lm = CopyLm(d, ids) /\ IsDict(x)
  BY DEF CopyOf, DictOf, IsDict
<1> HIDE DEF K, A
<1>5. Copy(d, K, A, x)
  BY <1>1, <1>2, CopyIs
<1> HIDE DEF x
<1>6. Buffers(x) /\ Ids(x)
  BY <1>1, <1>2, <1>5, CopyBuffers, CopyIdsLead
<1>7. Tree(x) /\ \E text2 : Spells(x, text2)
  BY <1>1, <1>2, <1>5, CopySpells
<1>8. Sound(x)
  BY <1>6, <1>7 DEF Sound
<1>9. ids \subseteq Nat /\ IsFiniteSet(ids)
  BY <1>1, <1>2, KeptAreNumbers
<1>10. Len(x.table) = Cardinality(ids)
  BY <1>5 DEF Copy
<1> HIDE DEF ids
<1>11. Fits(x.lm, Len(x.table))
  <2>1. LmOK(d)
    BY DEF Holds
  <2>2. Fits(CopyLm(d, ids), Cardinality(ids))
    BY <1>9, <2>1, RenamedFits
  <2> QED BY <1>4, <1>10, <2>2
<1>12. LmOK(x)
  BY <1>11, LmOKIs
<1> QED BY <1>3, <1>4, <1>8, <1>12 DEF Holds

-----------------------------------------------------------------------------
(* The dictionary as a store of words.                                     *)
Valid(m, q) == q \in DOMAIN m /\ m[q] # "placeholder"

\* What is told of a word: E are the words with their ids, G the removed words,
\* m is the language model.
Says(E, G, m, w, s) ==
    /\ (\A i : <<w, i>> \notin E) => s = "absent"
    /\ \A i : <<w, i>> \in E =>
          /\ w \in G => s = "removed"
          /\ w \notin G /\ Valid(m, <<i>>) => s = m[<<i>>]
          /\ w \notin G /\ ~Valid(m, <<i>>) => s = "ghost"
PairIn(E, m, v, w) ==
    \E a, b : <<v, a>> \in E /\ <<w, b>> \in E /\ Valid(m, <<a, b>>)

Seen(E, G, m, s, ps) ==
    /\ s = [w \in Words |-> s[w]]
    /\ \A w \in Words : Says(E, G, m, w, s[w])
    /\ ps \subseteq Words \X Words
    /\ \A v, w \in Words : <<v, w>> \in ps <=> PairIn(E, m, v, w)

\* The terminal of a word is the one that is found.
LEMMA TerminalIs ==
    ASSUME NEW d, NEW text, Good(d, text), NEW w \in Words
    PROVE  LET p == TerminalPtNodePositionOfWord(d, w) IN
           /\ p = None => \A i : <<w, i>> \notin Entries(d, text)
           /\ p = None => w \notin Gone(d, text)
           /\ p # None =>
                 /\ <<w, d.trie[p].id>> \in Entries(d, text) /\ d.trie[p].id # None
                 /\ \A i : <<w, i>> \in Entries(d, text) => i = d.trie[p].id
                 /\ w \in Gone(d, text) <=> d.trie[p].flag = "deleted"
<1> DEFINE p == TerminalPtNodePositionOfWord(d, w)
<1>1. Finds(d, text, w, p)
  BY Constants, FoundIs DEF Good
<1> HIDE DEF p
<1>2. \A q \in Live(d) : q # None
  BY LiveIs DEF Good
<1>3. \A q \in Terminals(d) : text[q] = w => p = q /\ p # None
  BY <1>1, <1>2 DEF Finds, Terminals
<1>4. p # None => p \in Terminals(d) /\ text[p] = w
  BY <1>1 DEF Finds, Terminals
<1>5. \A i : <<w, i>> \in Entries(d, text) => p # None /\ i = d.trie[p].id
  BY <1>3 DEF Entries
<1>6. p # None => <<w, d.trie[p].id>> \in Entries(d, text) /\ d.trie[p].id # None
  BY <1>4 DEF Entries, Terminals, IsTerminal
<1>7. w \in Gone(d, text) => p # None /\ d.trie[p].flag = "deleted"
  <2> SUFFICES ASSUME NEW q \in Live(d), d.trie[q].flag = "deleted", text[q] = w
               PROVE  p # None /\ d.trie[p].flag = "deleted"
    BY DEF Gone
  <2>1. q \in Terminals(d)
    BY IdIs DEF Good, Terminals
  <2> QED BY <1>3, <2>1
<1>8. p # None /\ d.trie[p].flag = "deleted" => w \in Gone(d, text)
  BY <1>4 DEF Gone, Terminals
<1> QED BY <1>5, <1>6, <1>7, <1>8 DEF p

LEMMA StatusIs ==
    ASSUME NEW d, NEW text, Good(d, text), NEW w \in Words
    PROVE  Says(Entries(d, text), Gone(d, text), d.lm, w, Status(d, w))
<1> DEFINE p == TerminalPtNodePositionOfWord(d, w)
<1>1. Status(d, w) =
         IF p = None THEN "absent"
         ELSE IF d.trie[p].flag = "deleted" THEN "removed"
         ELSE IF IsValidEntry(d, <<d.trie[p].id>>) THEN d.lm[<<d.trie[p].id>>]
         ELSE "ghost"
  BY DEF Status
<1>2. /\ p = None => \A i : <<w, i>> \notin Entries(d, text)
      /\ p # None =>
            /\ <<w, d.trie[p].id>> \in Entries(d, text)
            /\ \A i : <<w, i>> \in Entries(d, text) => i = d.trie[p].id
            /\ w \in Gone(d, text) <=> d.trie[p].flag = "deleted"
  BY TerminalIs
<1> HIDE DEF p
<1>3. CASE p = None
  BY <1>1, <1>2, <1>3 DEF Says
<1>4. CASE p # None
  <2> DEFINE i == d.trie[p].id
             v == IsValidEntry(d, <<i>>)
             s == Status(d, w)
  <2>1. /\ <<w, i>> \in Entries(d, text)
        /\ \A j : <<w, j>> \in Entries(d, text) => j = i
    BY <1>2, <1>4
  <2>2. /\ w \in Gone(d, text) => s = "removed"
        /\ w \notin Gone(d, text) /\ v => s = d.lm[<<i>>]
        /\ w \notin Gone(d, text) /\ ~v => s = "ghost"
    BY <1>1, <1>2, <1>4
  <2>3. v <=> Valid(d.lm, <<i>>)
    BY DEF Valid, IsValidEntry
  <2> HIDE DEF i, v, s
  <2>4. Says(Entries(d, text), Gone(d, text), d.lm, w, s)
    BY <2>1, <2>2, <2>3 DEF Says
  <2> QED BY <2>4 DEF s
<1> QED BY <1>3, <1>4

LEMMA IdInTrieIs ==
    ASSUME NEW d, NEW text, Good(d, text), NEW w \in Words, NEW i, i # None
    PROVE  IdInTrie(d, w) = i <=> <<w, i>> \in Entries(d, text)
<1> DEFINE p == TerminalPtNodePositionOfWord(d, w)
<1>1. IdInTrie(d, w) = IF p = None THEN None ELSE d.trie[p].id
  BY DEF IdInTrie
<1>2. /\ p = None => \A j : <<w, j>> \notin Entries(d, text)
      /\ p # None =>
            /\ <<w, d.trie[p].id>> \in Entries(d, text)
            /\ \A j : <<w, j>> \in Entries(d, text) => j = d.trie[p].id
  BY TerminalIs
<1> HIDE DEF p
<1> QED BY <1>1, <1>2

\* The paths of two ids.
LEMMA PairPath ==
    ASSUME NEW m, NEW k, Fits(m, k)
    PROVE  /\ \A q \in DOMAIN m : Len(q) = 2 =>
                 q = <<q[1], q[2]>> /\ q[1] \in Nat /\ q[2] \in Nat
           /\ \A a, b : <<a, b>> \in DOMAIN m => a \in 0..k - 1 /\ b \in 0..k - 1
           /\ \A a : <<a>> \in DOMAIN m => a \in 0..k - 1
<1>1. ASSUME NEW q \in DOMAIN m, Len(q) = 2
      PROVE  q = <<q[1], q[2]>> /\ q[1] \in Nat /\ q[2] \in Nat
  <2>1. q \in Seq(Nat)
    BY DEF Fits
  <2>2. q[1] \in Nat /\ q[2] \in Nat
    <3>1. 1 \in 1..Len(q) /\ 2 \in 1..Len(q)
      BY <1>1
    <3> QED BY <2>1, <3>1, ElementOfSeq
  <2> DEFINE t == <<q[1], q[2]>>
  <2>3. t \in Seq(Nat) /\ Len(t) = 2 /\ t[1] = q[1] /\ t[2] = q[2]
    BY <2>2
  <2>4. \A i \in 1..2 : i = 1 \/ i = 2
    OBVIOUS
  <2> HIDE DEF t
  <2>5. \A i \in 1..Len(q) : q[i] = t[i]
    BY <1>1, <2>3, <2>4
  <2>6. q = t
    BY <1>1, <2>1, <2>3, <2>5, SeqEqual
  <2> QED BY <2>2, <2>6 DEF t
<1>2. ASSUME NEW a, NEW b, <<a, b>> \in DOMAIN m PROVE a \in 0..k - 1 /\ b \in 0..k - 1
  <2>1. Range(<<a, b>>) \subseteq 0..k - 1
    BY <1>2 DEF Fits
  <2> DEFINE q == <<a, b>>
  <2>2. 1 \in DOMAIN q /\ 2 \in DOMAIN q /\ q[1] = a /\ q[2] = b
    OBVIOUS
  <2> HIDE DEF q
  <2>3. a \in Range(q) /\ b \in Range(q)
    BY <2>2 DEF Range
  <2> QED BY <2>1, <2>3 DEF q
<1>3. ASSUME NEW a, <<a>> \in DOMAIN m PROVE a \in 0..k - 1
  <2>1. Range(<<a>>) \subseteq 0..k - 1
    BY <1>3 DEF Fits
  <2> DEFINE q == <<a>>
  <2>2. 1 \in DOMAIN q /\ q[1] = a
    OBVIOUS
  <2> HIDE DEF q
  <2>3. a \in Range(q)
    BY <2>2 DEF Range
  <2> QED BY <2>1, <2>3 DEF q
<1> QED BY <1>1, <1>2, <1>3

LEMMA PairsAre ==
    ASSUME NEW d, NEW text, Good(d, text), LmOK(d)
    PROVE  /\ View(d).pairs \subseteq Words \X Words
           /\ \A v, w \in Words :
                 <<v, w>> \in View(d).pairs <=> PairIn(Entries(d, text), d.lm, v, w)
<1> DEFINE Q == {r \in DOMAIN d.lm : Len(r) = 2 /\ IsValidEntry(d, r)}
           X(q) == WordsOf(d, q[1]) \X WordsOf(d, q[2])
<1>1. View(d).pairs = UNION {X(q) : q \in Q}
  BY DEF View
<1>2. \A i : WordsOf(d, i) \subseteq Words
  BY DEF WordsOf
<1>3. \A q \in Q : q = <<q[1], q[2]>> /\ q[1] \in Nat /\ q[2] \in Nat
  <2>1. Fits(d.lm, Len(d.table))
    BY LmOKIs
  <2> QED BY <2>1, PairPath
<1>4. View(d).pairs \subseteq Words \X Words
  BY <1>1, <1>2
<1>5. ASSUME NEW v \in Words, NEW w \in Words
      PROVE  <<v, w>> \in View(d).pairs <=> PairIn(Entries(d, text), d.lm, v, w)
  <2>1. \A i \in Nat : /\ v \in WordsOf(d, i) <=> <<v, i>> \in Entries(d, text)
                       /\ w \in WordsOf(d, i) <=> <<w, i>> \in Entries(d, text)
    BY Constants, IdInTrieIs DEF WordsOf
  <2>2. <<v, w>> \in View(d).pairs
           <=> \E q \in Q : v \in WordsOf(d, q[1]) /\ w \in WordsOf(d, q[2])
    BY <1>1
  <2>3. ASSUME NEW q \in Q, v \in WordsOf(d, q[1]), w \in WordsOf(d, q[2])
        PROVE  PairIn(Entries(d, text), d.lm, v, w)
    <3> DEFINE a == q[1]
               b == q[2]
    <3>1. <<v, a>> \in Entries(d, text) /\ <<w, b>> \in Entries(d, text)
      BY <1>3, <2>1, <2>3
    <3>2. Valid(d.lm, q) /\ q = <<a, b>>
      BY <1>3 DEF Valid, IsValidEntry
    <3> HIDE DEF a, b
    <3> QED BY <3>1, <3>2 DEF PairIn
  <2>4. ASSUME NEW a, NEW b, <<v, a>> \in Entries(d, text), <<w, b>> \in Entries(d, text),
               Valid(d.lm, <<a, b>>)
        PROVE  \E q \in Q : v \in WordsOf(d, q[1]) /\ w \in WordsOf(d, q[2])
    <3> DEFINE q == <<a, b>>
    <3>1. q \in Q
      BY <2>4 DEF Valid, IsValidEntry
    <3>2. q[1] = a /\ q[2] = b /\ a \in Nat /\ b \in Nat
      BY <1>3, <3>1
    <3> HIDE DEF q, Q
    <3>3. v \in WordsOf(d, q[1]) /\ w \in WordsOf(d, q[2])
      BY <2>1, <2>4, <3>2
    <3> QED BY <3>1, <3>3
  <2> HIDE DEF Q
  <2> QED BY <2>2, <2>3, <2>4 DEF PairIn
<1> QED BY <1>4, <1>5

\* The view of a dictionary is what its terminals and entries say.
LEMMA ViewIs ==
    ASSUME NEW d, NEW text, Good(d, text), LmOK(d)
    PROVE  Seen(Entries(d, text), Gone(d, text), d.lm, View(d).status, View(d).pairs)
<1>1. View(d).status = [w \in Words |-> Status(d, w)]
  BY DEF View
<1>2. \A w \in Words : View(d).status[w] = Status(d, w)
  BY <1>1
<1>3. \A w \in Words : Says(Entries(d, text), Gone(d, text), d.lm, w, View(d).status[w])
  BY <1>2, StatusIs
<1>4. View(d).status = [w \in Words |-> View(d).status[w]]
  BY <1>1
<1> QED BY <1>3, <1>4, PairsAre DEF Seen

\* What holds of the words with their ids, of the removed ones and of the
\* language model: a removed word has no entry.
World(E, G, m, k) ==
    /\ \A u, i : <<u, i>> \in E => u \in Words /\ i \in 0..k - 1
    /\ \A u, i, j : <<u, i>> \in E /\ <<u, j>> \in E => i = j
    /\ \A u, v, i : <<u, i>> \in E /\ <<v, i>> \in E => u = v
    /\ \A u \in G : \E i : <<u, i>> \in E
    /\ \A u, i : u \in G /\ <<u, i>> \in E => <<i>> \notin DOMAIN m
    /\ Fits(m, k) /\ k \in Nat

LEMMA Steps ==
    /\ \A a, b, c : <<a>> # <<b, c>>
    /\ \A a, b : <<a>> = <<b>> <=> a = b
    /\ \A a, b, c, e : <<a, b>> = <<c, e>> <=> a = c /\ b = e
<1>1. \A a, b, c : <<a>> # <<b, c>>
  <2> SUFFICES ASSUME NEW a, NEW b, NEW c, <<a>> = <<b, c>> PROVE FALSE
    OBVIOUS
  <2>1. Len(<<a>>) = 1 /\ Len(<<b, c>>) = 2
    OBVIOUS
  <2> QED BY <2>1
<1> QED BY <1>1

\* What one word is told of, in short.
LEMMA SaysOne ==
    ASSUME NEW E, NEW G, NEW m, NEW k, World(E, G, m, k), NEW w, NEW s, NEW i, <<w, i>> \in E
    PROVE  Says(E, G, m, w, s) <=>
              s = IF w \in G THEN "removed" ELSE IF Valid(m, <<i>>) THEN m[<<i>>] ELSE "ghost"
<1>1. \A j : <<w, j>> \in E => j = i
  BY DEF World
<1> QED BY <1>1 DEF Says

LEMMA SaysNone ==
    ASSUME NEW E, NEW G, NEW m, NEW w, NEW s, \A i : <<w, i>> \notin E
    PROVE  Says(E, G, m, w, s) <=> s = "absent"
BY DEF Says

\* Whether a word is known is whether it has an id and was not removed.
LEMMA KnownIs ==
    ASSUME NEW E, NEW G, NEW m, NEW k, World(E, G, m, k), NEW s, NEW ps, Seen(E, G, m, s, ps),
           NEW w \in Words
    PROVE  /\ Store!Known(s, w) <=> w \notin G /\ \E i : <<w, i>> \in E
           /\ s[w] = "removed" <=> w \in G
<1>1. Says(E, G, m, w, s[w])
  BY DEF Seen
<1>2. CASE \A i : <<w, i>> \notin E
  <2>1. s[w] = "absent"
    BY <1>1, <1>2, SaysNone
  <2>2. w \notin G
    BY <1>2 DEF World
  <2> QED BY <1>2, <2>1, <2>2 DEF Store!Known
<1>3. ASSUME NEW i, <<w, i>> \in E
      PROVE  /\ Store!Known(s, w) <=> w \notin G
             /\ s[w] = "removed" <=> w \in G
  <2> DEFINE v == Valid(m, <<i>>)
             e == m[<<i>>]
  <2>1. s[w] = IF w \in G THEN "removed" ELSE IF v THEN e ELSE "ghost"
    BY <1>1, <1>3, SaysOne
  <2>2. v => e \in {"seen", "used"}
    BY DEF Valid, World, Fits, Marks
  <2> HIDE DEF v, e
  <2> QED BY <2>1, <2>2 DEF Store!Known
<1> QED BY <1>2, <1>3

\* Two stores with the same words tell the same of a word, unless its entry or
\* whether it was removed has changed.
LEMMA SaysSame ==
    ASSUME NEW E, NEW G, NEW m, NEW k, World(E, G, m, k),
           NEW F, NEW H, NEW n, NEW l, World(F, H, n, l), NEW w, NEW s, NEW t,
           Says(E, G, m, w, s), Says(F, H, n, w, t),
           \A i : <<w, i>> \in F <=> <<w, i>> \in E,
           w \in H <=> w \in G,
           \A i : <<w, i>> \in E /\ w \notin G =>
              /\ Valid(n, <<i>>) <=> Valid(m, <<i>>)
              /\ Valid(m, <<i>>) => n[<<i>>] = m[<<i>>]
    PROVE  t = s
<1>1. CASE \A i : <<w, i>> \notin E
  BY <1>1, SaysNone
<1>2. ASSUME NEW i, <<w, i>> \in E PROVE t = s
  <2> DEFINE v == Valid(m, <<i>>)
             e == m[<<i>>]
             v2 == Valid(n, <<i>>)
             e2 == n[<<i>>]
  <2>1. s = IF w \in G THEN "removed" ELSE IF v THEN e ELSE "ghost"
    BY <1>2, SaysOne
  <2>2. t = IF w \in H THEN "removed" ELSE IF v2 THEN e2 ELSE "ghost"
    BY <1>2, SaysOne
  <2>3. w \notin G => (v2 <=> v) /\ (v => e2 = e)
    BY <1>2
  <2> HIDE DEF v, e, v2, e2
  <2> QED BY <2>1, <2>2, <2>3
<1> QED BY <1>1, <1>2

\* What is found at a path after an entry has been set.
LEMMA OneValid ==
    ASSUME NEW m, NEW p, NEW e, e # "placeholder", NEW x, OneSet(m, p, e, x), NEW q
    PROVE  /\ q # p => /\ Valid(x, q) <=> Valid(m, q)
                       /\ Valid(m, q) => x[q] = m[q]
           /\ Valid(x, p) /\ x[p] = e
BY DEF OneSet, Valid

LEMMA TwoValid ==
    ASSUME NEW m, NEW r, NEW p, r # p, NEW e, e # "placeholder", NEW x, TwoSet(m, r, p, e, x), NEW q
    PROVE  /\ q # p => /\ Valid(x, q) <=> Valid(m, q)
                       /\ Valid(m, q) => x[q] = m[q]
           /\ Valid(x, p) /\ x[p] = e
<1>1. CASE q = r /\ q \notin DOMAIN m
  BY <1>1 DEF TwoSet, Valid
<1>2. CASE q # r \/ q \in DOMAIN m
  BY <1>2 DEF TwoSet, Valid
<1> QED BY <1>1, <1>2

-----------------------------------------------------------------------------
(* What each change does to the store.                                     *)
LEMMA PairsSame ==
    ASSUME NEW E, NEW G, NEW m, NEW k, World(E, G, m, k), NEW w, NEW id,
           id = k \/ <<w, id>> \in E, NEW n,
           \A a, b : Valid(n, <<a, b>>) <=> Valid(m, <<a, b>>), NEW v, NEW u
    PROVE  PairIn(E \cup {<<w, id>>}, n, v, u) <=> PairIn(E, m, v, u)
<1> DEFINE F == E \cup {<<w, id>>}
<1>1. \A x, a : <<x, a>> \in E => <<x, a>> \in F
  OBVIOUS
<1>2. \A x, a : <<x, a>> \in F /\ a # k => <<x, a>> \in E
  <2> SUFFICES ASSUME NEW x, NEW a, <<x, a>> \in F, a # k PROVE <<x, a>> \in E
    OBVIOUS
  <2>1. CASE <<x, a>> = <<w, id>>
    BY <2>1
  <2> QED BY <2>1
<1> HIDE DEF F
<1>3. \A a, b : Valid(m, <<a, b>>) => a # k /\ b # k
  <2>1. \A a, b : <<a, b>> \in DOMAIN m => a \in 0..k - 1 /\ b \in 0..k - 1
    BY PairPath DEF World
  <2>2. k \notin 0..k - 1
    BY DEF World
  <2> QED BY <2>1, <2>2 DEF Valid
<1>4. PairIn(F, n, v, u) => PairIn(E, m, v, u)
  BY <1>2, <1>3 DEF PairIn
<1>5. PairIn(E, m, v, u) => PairIn(F, n, v, u)
  BY <1>1 DEF PairIn
<1> QED BY <1>4, <1>5 DEF F

LEMMA SamePairs ==
    ASSUME NEW ps, ps \subseteq Words \X Words, NEW qs, qs \subseteq Words \X Words,
           \A v, u \in Words : <<v, u>> \in qs <=> <<v, u>> \in ps
    PROVE  qs = ps
OBVIOUS

\* An id that is new, or that of the word, is not that of another word.
LEMMA OtherId ==
    ASSUME NEW E, NEW G, NEW m, NEW k, World(E, G, m, k), NEW w, NEW id,
           id = k \/ <<w, id>> \in E
    PROVE  \A u, i : u # w /\ <<u, i>> \in E => i # id
<1> SUFFICES ASSUME NEW u, u # w, NEW i, <<u, i>> \in E PROVE i # id
  OBVIOUS
<1>1. i \in 0..k - 1 /\ k \in Nat
  BY DEF World
<1>2. CASE id = k
  BY <1>1, <1>2
<1>3. CASE <<w, id>> \in E
  BY <1>3 DEF World
<1> QED BY <1>2, <1>3

\* What adding a word makes of the words and their entries.
Adds(E, G, m, k, w, id, e, Z, F, H, n) ==
    /\ id = k \/ <<w, id>> \in E
    /\ F = E \cup {<<w, id>>}
    /\ Z \subseteq {u \in G : Splits(u, w)}
    /\ H = G \ (Z \cup {w})
    /\ OneSet(m, <<id>>, e, n)
    /\ e \in {"seen", "used"}

LEMMA AddsClear ==
    ASSUME NEW E, NEW G, NEW m, NEW k, World(E, G, m, k), NEW w, NEW id, NEW e, NEW Z,
           NEW F, NEW H, NEW n, Adds(E, G, m, k, w, id, e, Z, F, H, n)
    PROVE  \A u, i : u \in H /\ <<u, i>> \in F => <<i>> \notin DOMAIN n
<1> SUFFICES ASSUME NEW u \in H, NEW i, <<u, i>> \in F PROVE <<i>> \notin DOMAIN n
  OBVIOUS
<1>1. u \in G /\ u # w
  BY DEF Adds
<1>2. <<u, i>> \in E
  BY <1>1 DEF Adds
<1>3. i # id
  <2>1. id = k \/ <<w, id>> \in E
    BY DEF Adds
  <2>2. \A v, j : v # w /\ <<v, j>> \in E => j # id
    BY <2>1, OtherId
  <2> QED BY <1>1, <1>2, <2>2
<1>4. <<i>> \notin DOMAIN m
  BY <1>1, <1>2 DEF World
<1> QED BY <1>3, <1>4, Steps DEF Adds, OneSet

\* One word after another has been added.
LEMMA AddsSays ==
    ASSUME NEW E, NEW G, NEW m, NEW k, World(E, G, m, k), NEW w, NEW id, NEW e, NEW Z,
           NEW F, NEW H, NEW n, Adds(E, G, m, k, w, id, e, Z, F, H, n),
           NEW l, World(F, H, n, l), NEW u, NEW s, Says(E, G, m, u, s), NEW t, Says(F, H, n, u, t)
    PROVE  t = IF u = w THEN e ELSE IF u \in Z THEN "ghost" ELSE s
<1>1. e # "placeholder" /\ OneSet(m, <<id>>, e, n) /\ <<w, id>> \in F
  BY DEF Adds
<1>2. CASE u = w
  <2>1. w \notin H
    BY DEF Adds
  <2>2. Valid(n, <<id>>) /\ n[<<id>>] = e
    BY <1>1, OneValid
  <2>3. t = IF u \in H THEN "removed" ELSE IF Valid(n, <<id>>) THEN n[<<id>>] ELSE "ghost"
    BY <1>1, <1>2, SaysOne
  <2> QED BY <1>2, <2>1, <2>2, <2>3
<1>3. ASSUME u # w
      PROVE  /\ \A i : <<u, i>> \in F <=> <<u, i>> \in E
             /\ u \in H <=> u \in G /\ u \notin Z
             /\ \A i : <<u, i>> \in E => /\ Valid(n, <<i>>) <=> Valid(m, <<i>>)
                                         /\ Valid(m, <<i>>) => n[<<i>>] = m[<<i>>]
  <2>1. \A i : <<u, i>> \in F <=> <<u, i>> \in E
    BY <1>3 DEF Adds
  <2>2. u \in H <=> u \in G /\ u \notin Z
    BY <1>3 DEF Adds
  <2>3. ASSUME NEW i, <<u, i>> \in E
        PROVE  /\ Valid(n, <<i>>) <=> Valid(m, <<i>>)
               /\ Valid(m, <<i>>) => n[<<i>>] = m[<<i>>]
    <3>1. id = k \/ <<w, id>> \in E
      BY DEF Adds
    <3>2. i # id
      <4>1. \A v, j : v # w /\ <<v, j>> \in E => j # id
        BY <3>1, OtherId
      <4> QED BY <1>3, <2>3, <4>1
    <3>3. <<i>> # <<id>>
      BY <3>2, Steps
    <3> QED BY <1>1, <3>3, OneValid
  <2> QED BY <2>1, <2>2, <2>3
<1>4. CASE u # w /\ u \notin Z
  BY <1>3, <1>4, SaysSame
<1>5. CASE u # w /\ u \in Z
  <2>1. u \in G /\ u \notin H
    BY <1>3, <1>5 DEF Adds
  <2>2. PICK i : <<u, i>> \in E
    BY <2>1 DEF World
  <2>3. ~Valid(n, <<i>>)
    <3>1. <<i>> \notin DOMAIN m
      BY <2>1, <2>2 DEF World
    <3> QED BY <1>3, <1>5, <2>2, <3>1 DEF Valid
  <2>4. <<u, i>> \in F
    BY <1>3, <1>5, <2>2
  <2>5. t = IF u \in H THEN "removed" ELSE IF Valid(n, <<i>>) THEN n[<<i>>] ELSE "ghost"
    BY <2>4, SaysOne
  <2> QED BY <1>5, <2>1, <2>3, <2>5
<1> QED BY <1>2, <1>4, <1>5

LEMMA AddsWord ==
    ASSUME NEW E, NEW G, NEW m, NEW k, World(E, G, m, k), NEW w, NEW id, NEW e, NEW Z,
           NEW F, NEW H, NEW n, Adds(E, G, m, k, w, id, e, Z, F, H, n),
           NEW l, World(F, H, n, l),
           NEW s, NEW ps, Seen(E, G, m, s, ps), NEW t, NEW qs, Seen(F, H, n, t, qs)
    PROVE  Store!AddWord(w, e, s, ps, t, qs)
<1>1. \A u \in Words : t[u] = IF u = w THEN e ELSE IF u \in Z THEN "ghost" ELSE s[u]
  BY AddsSays DEF Seen
<1>2. Z \subseteq {u \in Words : s[u] = "removed" /\ Store!BranchesOff(u, w)}
  <2> SUFFICES ASSUME NEW u \in Z
               PROVE  u \in Words /\ s[u] = "removed" /\ Store!BranchesOff(u, w)
    OBVIOUS
  <2>1. u \in G /\ Splits(u, w)
    BY DEF Adds
  <2>2. u \in Words
    BY <2>1 DEF World
  <2>3. s[u] = "removed"
    BY <2>1, <2>2, KnownIs
  <2> QED BY <2>1, <2>2, <2>3 DEF Splits, Store!BranchesOff, IsPrefix, Store!IsPrefix
<1>3. t = [u \in Words |-> IF u = w THEN e ELSE IF u \in Z THEN "ghost" ELSE s[u]]
  <2>1. t = [u \in Words |-> t[u]]
    BY DEF Seen
  <2> QED BY <1>1, <2>1
<1>4. \A a, b : Valid(n, <<a, b>>) <=> Valid(m, <<a, b>>)
  BY OneValid, Steps DEF Adds
<1>5. \A v, u : PairIn(F, n, v, u) <=> PairIn(E, m, v, u)
  BY <1>4, PairsSame DEF Adds
<1>6. qs = ps
  BY <1>5, SamePairs DEF Seen
<1> QED BY <1>2, <1>3, <1>6 DEF Store!AddWord, Store!Add

\* Setting an entry twice is setting it once.
LEMMA SetTwice ==
    ASSUME NEW m, NEW p, NEW e, NEW x, OneSet(m, p, e, x), NEW f, NEW y, OneSet(x, p, f, y)
    PROVE  OneSet(m, p, f, y)
BY DEF OneSet

\* The prefixes of the paths of one and of two ids.
LEMMA PathPrefixes ==
    /\ \A a, i : IsPrefix(<<a>>, <<i>>) <=> a = i
    /\ \A a, i, j : IsPrefix(<<a>>, <<i, j>>) <=> a = i
    /\ \A a, b, i : ~IsPrefix(<<a, b>>, <<i>>)
    /\ \A a, b, i, j : IsPrefix(<<a, b>>, <<i, j>>) <=> a = i /\ b = j
<1>1. ASSUME NEW a, NEW i PROVE IsPrefix(<<a>>, <<i>>) <=> a = i
  <2> DEFINE p == <<a>>
             q == <<i>>
             S == {a, i}
  <2>1. p \in Seq(S) /\ q \in Seq(S) /\ Len(p) = 1 /\ Len(q) = 1 /\ p[1] = a /\ q[1] = i
    OBVIOUS
  <2>2. \A x \in 1..1 : x = 1
    OBVIOUS
  <2> HIDE DEF p, q, S
  <2>3. IsPrefix(p, q) <=> \A x \in 1..1 : p[x] = q[x]
    <3>1. IsPrefix(p, q) <=> /\ Len(p) <= Len(q)
                             /\ \A x \in 1..Len(p) : p[x] = q[x]
      BY <2>1, PrefixIs
    <3> QED BY <2>1, <3>1
  <2>4. 1 \in 1..1
    OBVIOUS
  <2> QED BY <2>1, <2>2, <2>3, <2>4 DEF p, q
<1>2. ASSUME NEW a, NEW i, NEW j PROVE IsPrefix(<<a>>, <<i, j>>) <=> a = i
  <2> DEFINE p == <<a>>
             q == <<i, j>>
             S == {a, i, j}
  <2>1. /\ p \in Seq(S) /\ q \in Seq(S) /\ Len(p) = 1 /\ Len(q) = 2
        /\ p[1] = a /\ q[1] = i
    OBVIOUS
  <2>2. \A x \in 1..1 : x = 1
    OBVIOUS
  <2> HIDE DEF p, q, S
  <2>3. IsPrefix(p, q) <=> \A x \in 1..1 : p[x] = q[x]
    <3>1. IsPrefix(p, q) <=> /\ Len(p) <= Len(q)
                             /\ \A x \in 1..Len(p) : p[x] = q[x]
      BY <2>1, PrefixIs
    <3>2. Len(p) <= Len(q) /\ 1..Len(p) = 1..1
      BY <2>1
    <3> QED BY <3>1, <3>2
  <2>4. 1 \in 1..1
    OBVIOUS
  <2> QED BY <2>1, <2>2, <2>3, <2>4 DEF p, q
<1>3. ASSUME NEW a, NEW b, NEW i PROVE ~IsPrefix(<<a, b>>, <<i>>)
  <2> DEFINE p == <<a, b>>
             q == <<i>>
             S == {a, b, i}
  <2>1. p \in Seq(S) /\ q \in Seq(S) /\ Len(p) = 2 /\ Len(q) = 1
    OBVIOUS
  <2> HIDE DEF p, q, S
  <2>3. ~IsPrefix(p, q)
    <3>1. IsPrefix(p, q) <=> /\ Len(p) <= Len(q)
                             /\ \A x \in 1..Len(p) : p[x] = q[x]
      BY <2>1, PrefixIs
    <3>2. ~(Len(p) <= Len(q))
      BY <2>1
    <3> QED BY <3>1, <3>2
  <2> QED BY <2>3 DEF p, q
<1>4. ASSUME NEW a, NEW b, NEW i, NEW j
      PROVE  IsPrefix(<<a, b>>, <<i, j>>) <=> a = i /\ b = j
  <2> DEFINE p == <<a, b>>
             q == <<i, j>>
             S == {a, b, i, j}
  <2>1. /\ p \in Seq(S) /\ q \in Seq(S) /\ Len(p) = 2 /\ Len(q) = 2
        /\ p[1] = a /\ q[1] = i /\ p[2] = b /\ q[2] = j
    OBVIOUS
  <2>2. \A x \in 1..2 : x = 1 \/ x = 2
    OBVIOUS
  <2> HIDE DEF p, q, S
  <2>3. IsPrefix(p, q) <=> \A x \in 1..2 : p[x] = q[x]
    <3>1. IsPrefix(p, q) <=> /\ Len(p) <= Len(q)
                             /\ \A x \in 1..Len(p) : p[x] = q[x]
      BY <2>1, PrefixIs
    <3> QED BY <2>1, <3>1
  <2>4. 1 \in 1..2 /\ 2 \in 1..2
    OBVIOUS
  <2> QED BY <2>1, <2>2, <2>3, <2>4 DEF p, q
<1> QED BY <1>1, <1>2, <1>3, <1>4

LEMMA RemoveValid ==
    ASSUME NEW m, NEW p, NEW n, n = LmRemove(m, p), NEW q
    PROVE  /\ Valid(n, q) <=> Valid(m, q) /\ ~IsPrefix(p, q)
           /\ Valid(n, q) => n[q] = m[q]
           /\ q \in DOMAIN n => q \in DOMAIN m /\ ~IsPrefix(p, q)
<1>1. n = [r \in {x \in DOMAIN m : ~IsPrefix(p, x)} |-> m[r]]
  BY LmRemoveIs
<1> DEFINE D == {x \in DOMAIN m : ~IsPrefix(p, x)}
<1>2. DOMAIN n = D /\ \A r \in D : n[r] = m[r]
  BY <1>1
<1> QED BY <1>2 DEF Valid

\* Nothing that is told of a word depends on pairs.
LEMMA SameStatus ==
    ASSUME NEW E, NEW G, NEW m, NEW k, World(E, G, m, k), NEW n, World(E, G, n, k),
           NEW s, NEW ps, Seen(E, G, m, s, ps), NEW t, NEW qs, Seen(E, G, n, t, qs),
           \A i : /\ Valid(n, <<i>>) <=> Valid(m, <<i>>)
                  /\ Valid(m, <<i>>) => n[<<i>>] = m[<<i>>]
    PROVE  t = s
<1>1. \A u \in Words : t[u] = s[u]
  BY SaysSame DEF Seen
<1>2. s = [u \in Words |-> s[u]] /\ t = [u \in Words |-> t[u]]
  BY DEF Seen
<1> QED BY <1>1, <1>2

\* Two words v and w that are known, with their ids.
Both(E, G, v, a, w, b) ==
    /\ v \in Words /\ w \in Words
    /\ <<v, a>> \in E /\ <<w, b>> \in E /\ v \notin G /\ w \notin G

\* The entry of a pair is of these two words only.
LEMMA OnePair ==
    ASSUME NEW E, NEW G, NEW m, NEW k, World(E, G, m, k),
           NEW v, NEW a, NEW w, NEW b, Both(E, G, v, a, w, b), NEW x, NEW y, NEW i, NEW j,
           <<x, i>> \in E, <<y, j>> \in E
    PROVE  <<i, j>> = <<a, b>> <=> x = v /\ y = w
<1>1. <<v, a>> \in E /\ <<w, b>> \in E
  BY DEF Both
<1>2. i = a <=> x = v
  BY <1>1 DEF World
<1>3. j = b <=> y = w
  BY <1>1 DEF World
<1> QED BY <1>2, <1>3, Steps

LEMMA PairSetClear ==
    ASSUME NEW E, NEW G, NEW m, NEW k, World(E, G, m, k),
           NEW v, NEW a, NEW w, NEW b, Both(E, G, v, a, w, b),
           NEW n, TwoSet(m, <<a>>, <<a, b>>, "used", n)
    PROVE  \A u, i : u \in G /\ <<u, i>> \in E => <<i>> \notin DOMAIN n
<1> SUFFICES ASSUME NEW u \in G, NEW i, <<u, i>> \in E PROVE <<i>> \notin DOMAIN n
  OBVIOUS
<1>1. <<i>> \notin DOMAIN m
  BY DEF World
<1>2. i # a
  BY DEF World, Both
<1>3. <<i>> # <<a>> /\ <<i>> # <<a, b>>
  BY <1>2, Steps
<1> QED BY <1>1, <1>3 DEF TwoSet

LEMMA PairIsSet ==
    ASSUME NEW E, NEW G, NEW m, NEW k, World(E, G, m, k),
           NEW v, NEW a, NEW w, NEW b, Both(E, G, v, a, w, b),
           NEW n, TwoSet(m, <<a>>, <<a, b>>, "used", n), World(E, G, n, k),
           NEW s, NEW ps, Seen(E, G, m, s, ps), NEW t, NEW qs, Seen(E, G, n, t, qs)
    PROVE  t = s /\ qs = ps \cup {<<v, w>>}
<1>1. <<a>> # <<a, b>>
  BY Steps
<1>2. \A q : /\ q # <<a, b>> => /\ Valid(n, q) <=> Valid(m, q)
                                /\ Valid(m, q) => n[q] = m[q]
             /\ Valid(n, <<a, b>>)
  BY <1>1, TwoValid
<1>3. t = s
  <2>1. \A i : /\ Valid(n, <<i>>) <=> Valid(m, <<i>>)
               /\ Valid(m, <<i>>) => n[<<i>>] = m[<<i>>]
    BY <1>2, Steps
  <2> QED BY <2>1, SameStatus
<1>4. ASSUME NEW x \in Words, NEW y \in Words
      PROVE  <<x, y>> \in qs <=> <<x, y>> \in ps \cup {<<v, w>>}
  <2>1. PairIn(E, n, x, y) <=> PairIn(E, m, x, y) \/ (x = v /\ y = w)
    <3>1. ASSUME NEW i, NEW j, <<x, i>> \in E, <<y, j>> \in E
          PROVE  Valid(n, <<i, j>>) <=> Valid(m, <<i, j>>) \/ (x = v /\ y = w)
      <4>1. <<i, j>> = <<a, b>> <=> x = v /\ y = w
        BY <3>1, OnePair
      <4> DEFINE q == <<i, j>>
      <4> HIDE DEF q
      <4>2. Valid(n, q) <=> Valid(m, q) \/ q = <<a, b>>
        BY <1>2
      <4> QED BY <4>1, <4>2 DEF q
    <3>2. x = v /\ y = w => <<x, a>> \in E /\ <<y, b>> \in E
      BY DEF Both
    <3> QED BY <3>1, <3>2 DEF PairIn
  <2>2. <<x, y>> = <<v, w>> <=> x = v /\ y = w
    BY Steps
  <2> QED BY <2>1, <2>2 DEF Seen
<1>5. qs = ps \cup {<<v, w>>}
  <2>1. v \in Words /\ w \in Words
    BY DEF Both
  <2>2. ps \cup {<<v, w>>} \subseteq Words \X Words /\ qs \subseteq Words \X Words
    BY <2>1 DEF Seen
  <2> DEFINE rs == ps \cup {<<v, w>>}
  <2> HIDE DEF rs
  <2>3. rs \subseteq Words \X Words /\ \A x, y \in Words : <<x, y>> \in qs <=> <<x, y>> \in rs
    BY <1>4, <2>2 DEF rs
  <2>4. qs = rs
    BY <2>2, <2>3, SamePairs
  <2> QED BY <2>4 DEF rs
<1> QED BY <1>3, <1>5

LEMMA PairIsRemoved ==
    ASSUME NEW E, NEW G, NEW m, NEW k, World(E, G, m, k),
           NEW v, NEW a, NEW w, NEW b, Both(E, G, v, a, w, b),
           NEW n, n = LmRemove(m, <<a, b>>), World(E, G, n, k),
           NEW s, NEW ps, Seen(E, G, m, s, ps), NEW t, NEW qs, Seen(E, G, n, t, qs)
    PROVE  t = s /\ qs = ps \ {<<v, w>>}
<1>1. t = s
  <2>1. \A i : /\ Valid(n, <<i>>) <=> Valid(m, <<i>>)
               /\ Valid(m, <<i>>) => n[<<i>>] = m[<<i>>]
    <3>1. \A q : ~IsPrefix(<<a, b>>, q) =>
             /\ Valid(n, q) <=> Valid(m, q)
             /\ Valid(m, q) => n[q] = m[q]
      BY RemoveValid
    <3>2. \A i : ~IsPrefix(<<a, b>>, <<i>>)
      BY PathPrefixes
    <3> QED BY <3>1, <3>2
  <2> QED BY <2>1, SameStatus
<1>2. ASSUME NEW x \in Words, NEW y \in Words
      PROVE  <<x, y>> \in qs <=> <<x, y>> \in ps \ {<<v, w>>}
  <2>1. PairIn(E, n, x, y) <=> PairIn(E, m, x, y) /\ ~(x = v /\ y = w)
    <3>1. ASSUME NEW i, NEW j, <<x, i>> \in E, <<y, j>> \in E
          PROVE  Valid(n, <<i, j>>) <=> Valid(m, <<i, j>>) /\ ~(x = v /\ y = w)
      <4>1. <<i, j>> = <<a, b>> <=> x = v /\ y = w
        BY <3>1, OnePair
      <4>2. IsPrefix(<<a, b>>, <<i, j>>) <=> <<i, j>> = <<a, b>>
        BY PathPrefixes, Steps
      <4> DEFINE q == <<i, j>>
      <4> HIDE DEF q
      <4>3. Valid(n, q) <=> Valid(m, q) /\ ~IsPrefix(<<a, b>>, q)
        BY RemoveValid
      <4> QED BY <4>1, <4>2, <4>3 DEF q
    <3> QED BY <3>1 DEF PairIn
  <2>2. <<x, y>> = <<v, w>> <=> x = v /\ y = w
    BY Steps
  <2> QED BY <2>1, <2>2 DEF Seen
<1>3. qs = ps \ {<<v, w>>}
  <2> DEFINE rs == ps \ {<<v, w>>}
  <2>1. rs \subseteq Words \X Words /\ qs \subseteq Words \X Words
    BY DEF Seen
  <2>2. \A x, y \in Words : <<x, y>> \in qs <=> <<x, y>> \in rs
    BY <1>2
  <2> HIDE DEF rs
  <2>3. qs = rs
    BY <2>1, <2>2, SamePairs
  <2> QED BY <2>3 DEF rs
<1> QED BY <1>1, <1>3

LEMMA RemovedClear ==
    ASSUME NEW E, NEW G, NEW m, NEW k, World(E, G, m, k), NEW p, NEW n, n = LmRemove(m, p)
    PROVE  /\ \A u, i : u \in G /\ <<u, i>> \in E => <<i>> \notin DOMAIN n
           /\ \A w, id : p = <<id>> /\ <<w, id>> \in E =>
                 \A u, i : u \in G \cup {w} /\ <<u, i>> \in E => <<i>> \notin DOMAIN n
<1>1. \A q \in DOMAIN n : q \in DOMAIN m /\ ~IsPrefix(p, q)
  BY RemoveValid
<1>2. \A u, i : u \in G /\ <<u, i>> \in E => <<i>> \notin DOMAIN n
  BY <1>1 DEF World
<1>3. ASSUME NEW w, NEW id, p = <<id>>, <<w, id>> \in E, NEW i, <<w, i>> \in E
      PROVE  <<i>> \notin DOMAIN n
  <2>1. i = id
    BY <1>3 DEF World
  <2>2. IsPrefix(p, <<i>>)
    BY <1>3, <2>1, PathPrefixes
  <2> QED BY <1>1, <2>2
<1> QED BY <1>2, <1>3

\* A word is removed, and with it the pairs it begins.
LEMMA WordIsForgotten ==
    ASSUME NEW E, NEW G, NEW m, NEW k, World(E, G, m, k), NEW w \in Words, NEW id,
           <<w, id>> \in E, w \notin G,
           NEW H, H = G \cup {w}, NEW n, n = LmRemove(m, <<id>>), World(E, H, n, k),
           NEW s, NEW ps, Seen(E, G, m, s, ps), NEW t, NEW qs, Seen(E, H, n, t, qs)
    PROVE  Store!Forget(w, s, ps, t, qs)
<1>1. Store!Known(s, w)
  BY KnownIs
<1>2. t = [s EXCEPT ![w] = "removed"]
  <2>1. t[w] = "removed"
    BY KnownIs
  <2>2. ASSUME NEW u \in Words, u # w PROVE t[u] = s[u]
    <3>1. \A i : <<u, i>> \in E /\ u \notin G =>
             /\ Valid(n, <<i>>) <=> Valid(m, <<i>>)
             /\ Valid(m, <<i>>) => n[<<i>>] = m[<<i>>]
      <4> SUFFICES ASSUME NEW i, <<u, i>> \in E
                   PROVE  /\ Valid(n, <<i>>) <=> Valid(m, <<i>>)
                          /\ Valid(m, <<i>>) => n[<<i>>] = m[<<i>>]
        OBVIOUS
      <4>1. i # id
        BY <2>2 DEF World
      <4>2. ~IsPrefix(<<id>>, <<i>>)
        BY <4>1, PathPrefixes
      <4> QED BY <4>2, RemoveValid
    <3>2. u \in H <=> u \in G
      BY <2>2
    <3>3. Says(E, G, m, u, s[u]) /\ Says(E, H, n, u, t[u])
      BY DEF Seen
    <3> QED BY <3>1, <3>2, <3>3, SaysSame
  <2>3. s = [u \in Words |-> s[u]] /\ t = [u \in Words |-> t[u]]
    BY DEF Seen
  <2> QED BY <2>1, <2>2, <2>3
<1>3. ASSUME NEW x \in Words, NEW y \in Words
      PROVE  <<x, y>> \in qs <=> <<x, y>> \in ps /\ x # w
  <2>1. PairIn(E, n, x, y) <=> PairIn(E, m, x, y) /\ x # w
    <3>1. ASSUME NEW i, NEW j, <<x, i>> \in E
          PROVE  Valid(n, <<i, j>>) <=> Valid(m, <<i, j>>) /\ x # w
      <4>1. i = id <=> x = w
        BY <3>1 DEF World
      <4>2. IsPrefix(<<id>>, <<i, j>>) <=> i = id
        BY PathPrefixes
      <4> DEFINE q == <<i, j>>
      <4> HIDE DEF q
      <4>3. Valid(n, q) <=> Valid(m, q) /\ ~IsPrefix(<<id>>, q)
        BY RemoveValid
      <4> QED BY <4>1, <4>2, <4>3 DEF q
    <3> QED BY <3>1 DEF PairIn
  <2> QED BY <2>1 DEF Seen
<1>4. qs = {p \in ps : p[1] # w}
  <2> DEFINE rs == {p \in ps : p[1] # w}
  <2>1. rs \subseteq Words \X Words /\ qs \subseteq Words \X Words
    BY DEF Seen
  <2>2. \A x, y \in Words : <<x, y>> \in qs <=> <<x, y>> \in rs
    BY <1>3
  <2> HIDE DEF rs
  <2>3. qs = rs
    BY <2>1, <2>2, SamePairs
  <2> QED BY <2>3 DEF rs
<1> QED BY <1>1, <1>2, <1>4 DEF Store!Forget

-----------------------------------------------------------------------------
(* The operations do to the store what WordStore says.                     *)
\* A removed word has no entry.
Cleared(d) ==
    \A p \in Live(d) : d.trie[p].flag = "deleted" => <<d.trie[p].id>> \notin DOMAIN d.lm
StoreHolds(d) == Holds(d) /\ Cleared(d)

LEMMA ClearedIs ==
    ASSUME NEW d, NEW text, Good(d, text)
    PROVE  Cleared(d) <=>
              \A u, i : u \in Gone(d, text) /\ <<u, i>> \in Entries(d, text)
                           => <<i>> \notin DOMAIN d.lm
<1>1. ASSUME Cleared(d), NEW u, NEW i, u \in Gone(d, text), <<u, i>> \in Entries(d, text)
      PROVE  <<i>> \notin DOMAIN d.lm
  <2>1. PICK p \in Live(d) : d.trie[p].flag = "deleted" /\ text[p] = u
    BY <1>1 DEF Gone
  <2>2. p \in Terminals(d)
    BY <2>1, IdIs DEF Good, Terminals
  <2>3. <<u, d.trie[p].id>> \in Entries(d, text)
    BY <2>1, <2>2 DEF Entries
  <2>4. i = d.trie[p].id
    BY <1>1, <2>3, EntriesAre
  <2> QED BY <1>1, <2>1, <2>4 DEF Cleared
<1>2. ASSUME \A u, i : u \in Gone(d, text) /\ <<u, i>> \in Entries(d, text)
                           => <<i>> \notin DOMAIN d.lm,
             NEW p \in Live(d), d.trie[p].flag = "deleted"
      PROVE  <<d.trie[p].id>> \notin DOMAIN d.lm
  <2>1. p \in Terminals(d)
    BY <1>2, IdIs DEF Good, Terminals
  <2>2. text[p] \in Gone(d, text) /\ <<text[p], d.trie[p].id>> \in Entries(d, text)
    BY <1>2, <2>1 DEF Gone, Entries
  <2> QED BY <1>2, <2>2
<1> QED BY <1>1, <1>2 DEF Cleared

LEMMA WorldIs ==
    ASSUME NEW d, NEW text, Good(d, text), LmOK(d)
    PROVE  Cleared(d) <=> World(Entries(d, text), Gone(d, text), d.lm, Len(d.table))
<1>1. Fits(d.lm, Len(d.table)) /\ Len(d.table) \in Nat
  BY LmOKIs, ArraysAre DEF Good
<1> QED BY <1>1, ClearedIs, EntriesAre DEF World

\* d, its words with their ids, and its removed words.
Describes(d, text, E, G) ==
    /\ Good(d, text) /\ StoreHolds(d)
    /\ E = Entries(d, text) /\ G = Gone(d, text)

LEMMA DescribedIs ==
    ASSUME NEW d, NEW text, NEW E, NEW G, Describes(d, text, E, G)
    PROVE  /\ World(E, G, d.lm, Len(d.table))
           /\ Seen(E, G, d.lm, View(d).status, View(d).pairs)
           /\ IsDict(d) /\ LmOK(d) /\ Len(d.table) \in Nat
<1>1. IsDict(d) /\ LmOK(d) /\ Cleared(d) /\ Good(d, text)
  BY DEF Describes, StoreHolds, Holds
<1>2. World(E, G, d.lm, Len(d.table))
  BY <1>1, WorldIs DEF Describes
<1>3. Seen(E, G, d.lm, View(d).status, View(d).pairs)
  BY <1>1, ViewIs DEF Describes
<1> QED BY <1>1, <1>2, <1>3 DEF World

LEMMA DescribeIt ==
    ASSUME NEW d, StoreHolds(d)
    PROVE  \E text, E, G : Describes(d, text, E, G)
BY SoundIsGood DEF StoreHolds, Holds, Describes

\* The dictionary after a change.
LEMMA DescribesThen ==
    ASSUME NEW x, Holds(x), NEW text, Good(x, text),
           NEW E, E = Entries(x, text), NEW G, G = Gone(x, text),
           \A u, i : u \in G /\ <<u, i>> \in E => <<i>> \notin DOMAIN x.lm
    PROVE  Describes(x, text, E, G)
BY ClearedIs DEF Describes, StoreHolds

\* Only the language model has changed.
LEMMA DescribesStill ==
    ASSUME NEW d, NEW text, NEW E, NEW G, Describes(d, text, E, G),
           NEW x, Holds(x), x.trie = d.trie, x.arrays = d.arrays, x.table = d.table,
           \A u, i : u \in G /\ <<u, i>> \in E => <<i>> \notin DOMAIN x.lm
    PROVE  Describes(x, text, E, G)
<1>1. Good(d, text)
  BY DEF Describes
<1>2. Good(x, text) /\ Entries(x, text) = Entries(d, text) /\ Gone(x, text) = Gone(d, text)
  BY <1>1, GoodSame
<1> QED BY <1>2, DescribesThen DEF Describes

\* What adding a word leaves.
LEMMA UnigramIsAdded ==
    ASSUME NEW d, NEW text, NEW E, NEW G, Describes(d, text, E, G), NEW w \in Words,
           NEW e \in {"seen", "used"}
    PROVE  \E text2, F, H, id, Z :
              /\ Describes(AddUnigram(d, w, e), text2, F, H)
              /\ Adds(E, G, d.lm, Len(d.table), w, id, e, Z, F, H, AddUnigram(d, w, e).lm)
<1> DEFINE x == AddUnigram(d, w, e)
           k == Len(d.table)
<1>1. Holds(d) /\ Good(d, text) /\ e \in Marks
  BY DEF Describes, StoreHolds, Marks
<1>2. PICK y, text2 : /\ Added(d, text, y, text2, w, e) /\ Holds(x)
                      /\ x.trie = y.trie /\ x.arrays = y.arrays /\ x.table = y.table
                      /\ x.lm = y.lm /\ Good(x, text2)
  BY <1>1, AddUnigramIs
<1> HIDE DEF x
<1>3. PICK id, Z : Tells(d, text, y, text2, w, id, Z) /\ y.lm = LmSet(d.lm, <<id>>, e)
  BY <1>2 DEF Added
<1> DEFINE F == Entries(x, text2)
           H == Gone(x, text2)
<1>4. F = Entries(y, text2) /\ H = Gone(y, text2)
  BY <1>2, GoodSame DEF Added
<1>5. OneSet(d.lm, <<id>>, e, x.lm)
  BY <1>2, <1>3, LmSetOne
<1>6. Adds(E, G, d.lm, k, w, id, e, Z, F, H, x.lm)
  <2> HIDE DEF F, H
  <2> QED BY <1>3, <1>4, <1>5 DEF Adds, Tells, Describes
<1>7. \A u, i : u \in H /\ <<u, i>> \in F => <<i>> \notin DOMAIN x.lm
  <2>1. World(E, G, d.lm, k)
    BY DescribedIs
  <2> HIDE DEF F, H, k
  <2> QED BY <1>6, <2>1, AddsClear
<1>8. Describes(x, text2, F, H)
  BY <1>2, <1>7, DescribesThen
<1> QED BY <1>6, <1>8 DEF x

LEMMA AddsTold ==
    ASSUME NEW d, NEW text, NEW E, NEW G, Describes(d, text, E, G),
           NEW x, NEW text2, NEW F, NEW H, Describes(x, text2, F, H),
           NEW w, NEW id, NEW e, NEW Z, Adds(E, G, d.lm, Len(d.table), w, id, e, Z, F, H, x.lm)
    PROVE  Store!AddWord(w, e, View(d).status, View(d).pairs, View(x).status, View(x).pairs)
<1> DEFINE s == View(d).status
           ps == View(d).pairs
           t == View(x).status
           qs == View(x).pairs
           m == d.lm
           n == x.lm
           k == Len(d.table)
           l == Len(x.table)
<1>1. World(E, G, m, k) /\ Seen(E, G, m, s, ps)
  BY DescribedIs
<1>2. World(F, H, n, l) /\ Seen(F, H, n, t, qs)
  BY DescribedIs
<1>3. Adds(E, G, m, k, w, id, e, Z, F, H, n)
  OBVIOUS
<1> HIDE DEF s, ps, t, qs, m, n, k, l
<1>4. Store!AddWord(w, e, s, ps, t, qs)
  BY <1>1, <1>2, <1>3, AddsWord
<1> QED BY <1>4 DEF s, ps, t, qs

\* A word is added.
LEMMA AddTold ==
    ASSUME NEW d, StoreHolds(d), NEW w \in Words, NEW e \in {"seen", "used"}
    PROVE  LET x == AddUnigram(d, w, e) IN
           /\ StoreHolds(x)
           /\ Store!AddWord(w, e, View(d).status, View(d).pairs, View(x).status, View(x).pairs)
<1> DEFINE x == AddUnigram(d, w, e)
<1>1. PICK text, E, G : Describes(d, text, E, G)
  BY DescribeIt
<1>2. \E text2, F, H, id, Z :
         /\ Describes(x, text2, F, H)
         /\ Adds(E, G, d.lm, Len(d.table), w, id, e, Z, F, H, x.lm)
  BY <1>1, UnigramIsAdded
<1> HIDE DEF x
<1>3. PICK text2, F, H, id, Z :
         /\ Describes(x, text2, F, H)
         /\ Adds(E, G, d.lm, Len(d.table), w, id, e, Z, F, H, x.lm)
  BY <1>2
<1>4. Store!AddWord(w, e, View(d).status, View(d).pairs, View(x).status, View(x).pairs)
  BY <1>1, <1>3, AddsTold
<1>5. StoreHolds(x)
  BY <1>3 DEF Describes
<1> QED BY <1>4, <1>5 DEF x

LEMMA AddUnigramTold ==
    ASSUME StoreHolds(dict), NEW w \in Words, AddUnigramEntry(w)
    PROVE  /\ StoreHolds(dict')
           /\ Store!AddWord(w, "used", View(dict).status, View(dict).pairs,
                            View(dict').status, View(dict').pairs)
<1> DEFINE e == "used"
           x == AddUnigram(dict, w, e)
<1>1. dict' = x
  BY DEF AddUnigramEntry, Becomes
<1>2. e \in {"seen", "used"}
  OBVIOUS
<1>3. /\ StoreHolds(x)
      /\ Store!AddWord(w, e, View(dict).status, View(dict).pairs, View(x).status, View(x).pairs)
  <2> HIDE DEF e
  <2> QED BY <1>2, AddTold
<1> HIDE DEF x
<1> QED BY <1>1, <1>3

\* A word is removed.
LEMMA RemoveUnigramTold ==
    ASSUME StoreHolds(dict), NEW w \in Words, RemoveUnigramEntry(w)
    PROVE  /\ StoreHolds(dict')
           /\ Store!Forget(w, View(dict).status, View(dict).pairs,
                           View(dict').status, View(dict').pairs)
<1> DEFINE id == WordId(dict, w)
           p == Fetched(dict)[dict.table[id + 1]]
           z == MarkAsDeleted(dict, p)
           path == <<id>>
           y == RemoveEntry(z, path)
           c == IF <<id>> \in DOMAIN dict.lm THEN y.count - 1 ELSE y.count
           x == [y EXCEPT !.count = c]
           m == dict.lm
           k == Len(dict.table)
<1>1. id # None /\ dict' = x
  BY DEF RemoveUnigramEntry, Becomes
<1>2. PICK text, E, G : Describes(dict, text, E, G)
  BY DescribeIt
<1>3. Holds(dict) /\ Good(dict, text) /\ IsDict(dict)
      /\ E = Entries(dict, text) /\ G = Gone(dict, text)
  BY <1>2 DEF Describes, StoreHolds, Holds
<1>4. /\ p \in Terminals(dict) /\ text[p] = w /\ dict.trie[p].id = id
      /\ dict.trie[p].flag # "deleted" /\ id \in 0..k - 1
  BY <1>1, <1>3, WordHasNode
<1> HIDE DEF id, p
<1>5. p \in Live(dict) /\ IsTerminal(dict.trie[p])
  BY <1>4 DEF Terminals
<1>6. IsDict(z) /\ Delete(dict, z, p) /\ z.lm = m
  BY <1>3, <1>5, MarkAsDeletedIs
<1>7. Holds(z) /\ Good(z, text)
  BY <1>3, <1>4, MarkAsDeletedHolds
<1> HIDE DEF z
<1> DEFINE H == G \cup {w}
<1>8. Entries(z, text) = E /\ Gone(z, text) = H
  BY <1>3, <1>4, <1>5, <1>6, DeleteEntries
<1>9. y = DictOf(z.trie, z.arrays, z.table, LmRemove(m, path), z.count)
  <2> HIDE DEF path
  <2> QED BY <1>6, RemoveEntryIs
<1>10. Holds(y)
  <2> HIDE DEF path
  <2> QED BY <1>7, RemoveEntryHolds
<1> HIDE DEF y
<1>11. /\ y.trie = z.trie /\ y.arrays = z.arrays /\ y.table = z.table
       /\ y.lm = LmRemove(m, path)
  BY <1>9 DEF DictOf
<1> HIDE DEF c
<1>12. /\ Holds(x) /\ x.trie = z.trie /\ x.arrays = z.arrays /\ x.table = z.table
       /\ x.lm = LmRemove(m, path)
  BY <1>10, <1>11, CountedHolds
<1> HIDE DEF x
<1>13. Good(x, text) /\ Entries(x, text) = E /\ Gone(x, text) = H
  BY <1>7, <1>8, <1>12, GoodSame
<1>14. World(E, G, m, k)
  BY <1>2, DescribedIs
<1>15. <<w, id>> \in E /\ w \notin G
  BY <1>3, <1>4, KnownIsNotGone DEF Entries
<1>16. \A u, i : u \in H /\ <<u, i>> \in E => <<i>> \notin DOMAIN x.lm
  <2> HIDE DEF m, k
  <2>1. \A u, j : u \in G \cup {w} /\ <<u, j>> \in E => <<j>> \notin DOMAIN LmRemove(m, <<id>>)
    BY <1>14, <1>15, RemovedClear
  <2> QED BY <1>12, <2>1
<1>17. Describes(x, text, E, H)
  <2> HIDE DEF H
  <2> QED BY <1>12, <1>13, <1>16, DescribesThen
<1>18. World(E, H, x.lm, Len(x.table)) /\ Seen(E, H, x.lm, View(x).status, View(x).pairs)
  <2> HIDE DEF H
  <2> QED BY <1>17, DescribedIs
<1>19. Len(x.table) = k
  <2>1. x.table = [dict.table EXCEPT ![dict.trie[p].id + 1] = None]
    BY <1>6, <1>12 DEF Delete
  <2>2. dict.table \in Seq(Nat \cup {None})
    BY <1>3, BuffersAre DEF Good
  <2> QED BY <2>1, <2>2
<1> DEFINE s == View(dict).status
           ps == View(dict).pairs
           t == View(x).status
           qs == View(x).pairs
           n == x.lm
<1>20. Seen(E, G, m, s, ps)
  BY <1>2, DescribedIs
<1>21. World(E, H, n, k) /\ Seen(E, H, n, t, qs)
  BY <1>18, <1>19
<1>22. n = LmRemove(m, <<id>>)
  BY <1>12
<1>23. H = G \cup {w}
  OBVIOUS
<1> HIDE DEF s, ps, t, qs, m, n, k, H
<1>24. Store!Forget(w, s, ps, t, qs)
  BY <1>14, <1>15, <1>20, <1>21, <1>22, <1>23, WordIsForgotten
<1>25. StoreHolds(x)
  BY <1>17 DEF Describes
<1> QED BY <1>1, <1>24, <1>25 DEF s, ps, t, qs

\* A word that is found is described as known.
LEMMA FoundIsKnown ==
    ASSUME NEW d, NEW text, NEW E, NEW G, Describes(d, text, E, G), NEW w \in Words,
           WordId(d, w) # None
    PROVE  <<w, WordId(d, w)>> \in E /\ w \notin G /\ WordId(d, w) \in 0..Len(d.table) - 1
<1> DEFINE id == WordId(d, w)
           p == Fetched(d)[d.table[id + 1]]
<1>1. Good(d, text) /\ E = Entries(d, text) /\ G = Gone(d, text)
  BY DEF Describes
<1>2. /\ p \in Terminals(d) /\ text[p] = w /\ d.trie[p].id = id
      /\ d.trie[p].flag # "deleted" /\ id \in 0..Len(d.table) - 1
  BY <1>1, WordHasNode
<1> HIDE DEF id, p
<1>3. <<w, id>> \in E /\ w \notin G
  BY <1>1, <1>2, KnownIsNotGone DEF Entries
<1> QED BY <1>2, <1>3 DEF id

\* And the other way.
LEMMA KnownIsFound ==
    ASSUME NEW d, NEW text, NEW E, NEW G, Describes(d, text, E, G), NEW w \in Words, NEW id,
           <<w, id>> \in E, w \notin G
    PROVE  WordId(d, w) = id /\ id # None
BY EntryIsFound DEF Describes

\* Whether a word is found is whether the store knows it.
LEMMA FoundIffKnown ==
    ASSUME NEW d, StoreHolds(d), NEW w \in Words
    PROVE  WordId(d, w) # None <=> Store!Known(View(d).status, w)
<1>1. PICK text, E, G : Describes(d, text, E, G)
  BY DescribeIt
<1> DEFINE s == View(d).status
           ps == View(d).pairs
           m == d.lm
           k == Len(d.table)
<1>2. World(E, G, m, k) /\ Seen(E, G, m, s, ps)
  BY <1>1, DescribedIs
<1>3. Store!Known(s, w) <=> w \notin G /\ \E i : <<w, i>> \in E
  <2> HIDE DEF s, ps, m, k
  <2> QED BY <1>2, KnownIs
<1>4. ASSUME WordId(d, w) # None PROVE Store!Known(s, w)
  <2>1. <<w, WordId(d, w)>> \in E /\ w \notin G
    BY <1>1, <1>4, FoundIsKnown
  <2> QED BY <1>3, <2>1
<1>5. ASSUME Store!Known(s, w) PROVE WordId(d, w) # None
  <2>1. PICK i : <<w, i>> \in E /\ w \notin G
    BY <1>3, <1>5
  <2> QED BY <1>1, <2>1, KnownIsFound
<1> QED BY <1>4, <1>5

\* The entry of a pair of words that are there is set.
LEMMA PairSetTold ==
    ASSUME NEW d, NEW text, NEW E, NEW G, Describes(d, text, E, G),
           NEW v, NEW a, NEW w, NEW b, Both(E, G, v, a, w, b),
           NEW x, x = SetEntry(d, <<a, b>>, "used")
    PROVE  /\ Describes(x, text, E, G)
           /\ View(x).status = View(d).status
           /\ View(x).pairs = View(d).pairs \cup {<<v, w>>}
<1> DEFINE m == d.lm
           k == Len(d.table)
           s == View(d).status
           ps == View(d).pairs
           t == View(x).status
           qs == View(x).pairs
           n == x.lm
           e == "used"
           path == <<a, b>>
<1>1. World(E, G, m, k) /\ Seen(E, G, m, s, ps) /\ IsDict(d)
  BY DescribedIs
<1>2. a \in 0..k - 1 /\ b \in 0..k - 1
  BY <1>1 DEF World, Both
<1>3. x = DictOf(d.trie, d.arrays, d.table, LmSet(m, path, e), d.count)
  <2> HIDE DEF path, e, m
  <2>1. x = SetEntry(d, path, e)
    BY DEF path, e
  <2> QED BY <1>1, <2>1, SetEntryIs DEF m
<1>4. /\ x.trie = d.trie /\ x.arrays = d.arrays /\ x.table = d.table
      /\ n = LmSet(m, path, e)
  BY <1>3 DEF DictOf
<1>5. Holds(x)
  <2>1. Holds(d) /\ e \in Marks
    BY DEF Describes, StoreHolds, Marks
  <2> HIDE DEF e
  <2>2. Holds(SetEntry(d, <<a, b>>, e))
    BY <1>2, <2>1, SetEntryHolds
  <2> QED BY <2>2 DEF e
<1>6. TwoSet(m, <<a>>, <<a, b>>, "used", n)
  <2> HIDE DEF m, n
  <2> QED BY <1>4, LmSetTwo
<1>7. \A u, i : u \in G /\ <<u, i>> \in E => <<i>> \notin DOMAIN n
  <2> HIDE DEF m, n, k
  <2> QED BY <1>1, <1>6, PairSetClear
<1>8. Describes(x, text, E, G)
  BY <1>4, <1>5, <1>7, DescribesStill
<1>9. World(E, G, n, Len(x.table)) /\ Seen(E, G, n, t, qs)
  BY <1>8, DescribedIs
<1>10. World(E, G, n, k)
  BY <1>4, <1>9
<1> HIDE DEF m, n, k, s, ps, t, qs
<1>11. t = s /\ qs = ps \cup {<<v, w>>}
  BY <1>1, <1>6, <1>9, <1>10, PairIsSet
<1> QED BY <1>8, <1>11 DEF s, ps, t, qs

LEMMA BothAreFound ==
    ASSUME NEW d, NEW text, NEW E, NEW G, Describes(d, text, E, G),
           NEW v \in Words, WordId(d, v) # None, NEW w \in Words, WordId(d, w) # None
    PROVE  Both(E, G, v, WordId(d, v), w, WordId(d, w))
BY FoundIsKnown DEF Both

LEMMA AddNgramTold ==
    ASSUME StoreHolds(dict), NEW v \in Words, NEW w \in Words, AddNgramEntry(v, w)
    PROVE  /\ StoreHolds(dict')
           /\ Store!AddPair(v, w, View(dict).status, View(dict).pairs,
                            View(dict').status, View(dict').pairs)
<1> DEFINE a == WordId(dict, v)
           b == WordId(dict, w)
           x == SetEntry(dict, <<a, b>>, "used")
<1>1. None \notin Range(<<a, b>>) /\ dict' = x
  BY DEF AddNgramEntry, Becomes
<1>2. a # None /\ b # None
  <2>1. Range(<<a, b>>) = {a, b}
    BY DEF Range
  <2> QED BY <1>1, <2>1
<1>3. PICK text, E, G : Describes(dict, text, E, G)
  BY DescribeIt
<1>4. Both(E, G, v, a, w, b)
  BY <1>2, <1>3, BothAreFound
<1>5. Store!Known(View(dict).status, v) /\ Store!Known(View(dict).status, w)
  BY <1>2, FoundIffKnown
<1>6. x = SetEntry(dict, <<a, b>>, "used")
  OBVIOUS
<1> HIDE DEF a, b, x
<1>7. /\ Describes(x, text, E, G)
      /\ View(x).status = View(dict).status
      /\ View(x).pairs = View(dict).pairs \cup {<<v, w>>}
  BY <1>3, <1>4, <1>6, PairSetTold
<1>8. StoreHolds(x)
  BY <1>7 DEF Describes
<1> QED BY <1>1, <1>5, <1>7, <1>8 DEF Store!AddPair

LEMMA RemoveNgramTold ==
    ASSUME StoreHolds(dict), NEW v \in Words, NEW w \in Words, RemoveNgramEntry(v, w)
    PROVE  /\ StoreHolds(dict')
           /\ Store!RemovePair(v, w, View(dict).status, View(dict).pairs,
                               View(dict').status, View(dict').pairs)
<1> DEFINE a == WordId(dict, v)
           b == WordId(dict, w)
           path == <<a, b>>
           x == RemoveEntry(dict, path)
           m == dict.lm
           k == Len(dict.table)
           n == x.lm
<1>1. None \notin Range(path) /\ dict' = x
  BY DEF RemoveNgramEntry, Becomes
<1>2. a # None /\ b # None
  <2>1. Range(<<a, b>>) = {a, b}
    BY DEF Range
  <2> QED BY <1>1, <2>1
<1>3. PICK text, E, G : Describes(dict, text, E, G)
  BY DescribeIt
<1>4. Both(E, G, v, a, w, b)
  BY <1>2, <1>3, BothAreFound
<1>5. Store!Known(View(dict).status, v) /\ Store!Known(View(dict).status, w)
  BY <1>2, FoundIffKnown
<1>6. World(E, G, m, k) /\ IsDict(dict)
      /\ Seen(E, G, m, View(dict).status, View(dict).pairs)
  BY <1>3, DescribedIs
<1>7. Holds(x) /\ x = DictOf(dict.trie, dict.arrays, dict.table, LmRemove(m, path), dict.count)
  <2>1. Holds(dict)
    BY DEF StoreHolds
  <2> HIDE DEF path
  <2> QED BY <1>6, <2>1, RemoveEntryIs, RemoveEntryHolds
<1>8. /\ x.trie = dict.trie /\ x.arrays = dict.arrays /\ x.table = dict.table
      /\ n = LmRemove(m, path)
  <2> HIDE DEF x
  <2> QED BY <1>7 DEF DictOf
<1>9. path = <<a, b>>
  OBVIOUS
<1> HIDE DEF a, b, path, x, m, k
<1>10. \A u, i : u \in G /\ <<u, i>> \in E => <<i>> \notin DOMAIN n
  <2> HIDE DEF n
  <2> QED BY <1>6, <1>8, RemovedClear
<1>11. Describes(x, text, E, G)
  BY <1>3, <1>7, <1>8, <1>10, DescribesStill
<1>12. World(E, G, n, k) /\ Seen(E, G, n, View(x).status, View(x).pairs)
  <2>1. World(E, G, n, Len(x.table)) /\ Seen(E, G, n, View(x).status, View(x).pairs)
    BY <1>11, DescribedIs
  <2> QED BY <1>8, <2>1 DEF k
<1> DEFINE s == View(dict).status
           ps == View(dict).pairs
           t == View(x).status
           qs == View(x).pairs
<1>13. Seen(E, G, m, s, ps) /\ Seen(E, G, n, t, qs)
  BY <1>6, <1>12
<1> HIDE DEF n, s, ps, t, qs
<1>14. t = s /\ qs = ps \ {<<v, w>>}
  BY <1>4, <1>6, <1>8, <1>9, <1>12, <1>13, PairIsRemoved
<1>15. StoreHolds(x)
  BY <1>11 DEF Describes
<1> QED BY <1>1, <1>5, <1>14, <1>15 DEF Store!RemovePair, s, ps, t, qs

\* The entry of one word that is there is set.
LEMMA OneSetTold ==
    ASSUME NEW d, NEW text, NEW E, NEW G, Describes(d, text, E, G), NEW w, NEW id,
           <<w, id>> \in E, w \notin G, NEW x, x = SetEntry(d, <<id>>, "used")
    PROVE  Describes(x, text, E, G) /\ OneSet(d.lm, <<id>>, "used", x.lm)
<1> DEFINE m == d.lm
           k == Len(d.table)
           n == x.lm
           e == "used"
           path == <<id>>
<1>1. World(E, G, m, k) /\ IsDict(d)
  BY DescribedIs
<1>2. id \in 0..k - 1
  BY <1>1 DEF World
<1>3. x = DictOf(d.trie, d.arrays, d.table, LmSet(m, path, e), d.count)
  <2> HIDE DEF path, e, m
  <2>1. x = SetEntry(d, path, e)
    BY DEF path, e
  <2> QED BY <1>1, <2>1, SetEntryIs DEF m
<1>4. /\ x.trie = d.trie /\ x.arrays = d.arrays /\ x.table = d.table
      /\ n = LmSet(m, path, e)
  BY <1>3 DEF DictOf
<1>5. Holds(x)
  <2>1. Holds(d) /\ e \in Marks
    BY DEF Describes, StoreHolds, Marks
  <2> HIDE DEF e
  <2>2. Holds(SetEntry(d, <<id>>, e))
    BY <1>2, <2>1, SetEntryHolds
  <2> QED BY <2>2 DEF e
<1>6. OneSet(m, <<id>>, "used", n)
  <2> HIDE DEF m, n
  <2> QED BY <1>4, LmSetOne
<1>7. \A u, i : u \in G /\ <<u, i>> \in E => <<i>> \notin DOMAIN n
  <2> HIDE DEF m, n, k
  <2> SUFFICES ASSUME NEW u, NEW i, u \in G, <<u, i>> \in E PROVE <<i>> \notin DOMAIN n
    OBVIOUS
  <2>1. <<i>> \notin DOMAIN m /\ i # id
    BY <1>1 DEF World
  <2>2. DOMAIN n = DOMAIN m \cup {<<id>>}
    BY <1>6 DEF OneSet
  <2>3. <<i>> # <<id>>
    BY <2>1, Steps
  <2> QED BY <2>1, <2>2, <2>3
<1>8. Describes(x, text, E, G)
  BY <1>4, <1>5, <1>7, DescribesStill
<1> QED BY <1>6, <1>8

\* A word that is typed is noted, if it is new, and used then.
LEMMA WordIsUsed ==
    ASSUME NEW d, NEW text, NEW E, NEW G, Describes(d, text, E, G), NEW w \in Words
    PROVE  LET noted == IF WordId(d, w) = None THEN AddUnigram(d, w, "seen") ELSE d
               id    == WordId(noted, w)
               used  == SetEntry(noted, <<id>>, "used")
           IN  \E text2, F, H, Z :
                  /\ Describes(noted, text2, F, H) /\ Describes(used, text2, F, H)
                  /\ <<w, id>> \in F /\ w \notin H
                  /\ Adds(E, G, d.lm, Len(d.table), w, id, "used", Z, F, H, used.lm)
<1> DEFINE noted == IF WordId(d, w) = None THEN AddUnigram(d, w, "seen") ELSE d
           id == WordId(noted, w)
           used == SetEntry(noted, <<id>>, "used")
           m == d.lm
           k == Len(d.table)
           Goal == \E text2, F, H, Z :
                      /\ Describes(noted, text2, F, H) /\ Describes(used, text2, F, H)
                      /\ <<w, id>> \in F /\ w \notin H
                      /\ Adds(E, G, m, k, w, id, "used", Z, F, H, used.lm)
<1>1. World(E, G, m, k)
  BY DescribedIs
<1>2. CASE WordId(d, w) = None
  <2> DEFINE e == "seen"
             x == AddUnigram(d, w, e)
  <2>1. e \in {"seen", "used"}
    OBVIOUS
  <2>2. \E text2, F, H, i, Z :
           /\ Describes(x, text2, F, H) /\ Adds(E, G, d.lm, Len(d.table), w, i, e, Z, F, H, x.lm)
    <3> HIDE DEF e
    <3> QED BY <2>1, UnigramIsAdded
  <2>3. noted = x
    BY <1>2
  <2> HIDE DEF x, noted, used, m, k
  <2>4. PICK text2, F, H, i, Z :
           /\ Describes(x, text2, F, H) /\ Adds(E, G, d.lm, Len(d.table), w, i, e, Z, F, H, x.lm)
    BY <2>2
  <2>5. <<w, i>> \in F /\ w \notin H
    BY <2>4 DEF Adds
  <2>6. id = i
    BY <2>3, <2>4, <2>5, KnownIsFound
  <2>7. used = SetEntry(x, <<i>>, "used")
    BY <2>3, <2>6 DEF used
  <2>8. Describes(used, text2, F, H) /\ OneSet(x.lm, <<i>>, "used", used.lm)
    BY <2>4, <2>5, <2>7, OneSetTold
  <2>9. OneSet(m, <<i>>, e, x.lm)
    BY <2>4 DEF Adds, m
  <2>10. OneSet(m, <<i>>, "used", used.lm)
    BY <2>8, <2>9, SetTwice
  <2>11. Adds(E, G, m, k, w, i, "used", Z, F, H, used.lm)
    BY <2>4, <2>10 DEF Adds, m, k
  <2> HIDE DEF id
  <2>12. /\ Describes(noted, text2, F, H) /\ Describes(used, text2, F, H)
         /\ <<w, id>> \in F /\ w \notin H
         /\ Adds(E, G, m, k, w, id, "used", Z, F, H, used.lm)
    BY <2>3, <2>4, <2>5, <2>6, <2>8, <2>11
  <2> QED BY <2>12 DEF noted, used, id, m, k
<1>3. CASE WordId(d, w) # None
  <2>1. noted = d
    BY <1>3
  <2> HIDE DEF noted, used, m, k
  <2>2. <<w, id>> \in E /\ w \notin G
    BY <1>3, <2>1, FoundIsKnown
  <2>3. used = SetEntry(d, <<id>>, "used")
    BY <2>1 DEF used
  <2> HIDE DEF id
  <2>4. Describes(used, text, E, G) /\ OneSet(d.lm, <<id>>, "used", used.lm)
    BY <2>2, <2>3, OneSetTold
  <2>5. E = E \cup {<<w, id>>} /\ G = G \ ({} \cup {w})
    BY <2>2
  <2>6. Adds(E, G, m, k, w, id, "used", {}, E, G, used.lm)
    BY <2>2, <2>4, <2>5 DEF Adds, m
  <2>7. /\ Describes(noted, text, E, G) /\ Describes(used, text, E, G)
        /\ <<w, id>> \in E /\ w \notin G
        /\ Adds(E, G, m, k, w, id, "used", {}, E, G, used.lm)
    BY <2>1, <2>2, <2>4, <2>6
  <2> QED BY <2>7 DEF noted, used, id, m, k
<1> QED BY <1>2, <1>3

\* Two dictionaries with the same words find the same.
LEMMA FoundSame ==
    ASSUME NEW d, NEW x, NEW text, NEW E, NEW G, Describes(d, text, E, G), Describes(x, text, E, G),
           NEW w \in Words
    PROVE  WordId(d, w) = WordId(x, w)
<1>1. ASSUME NEW y, NEW z, Describes(y, text, E, G), Describes(z, text, E, G), WordId(y, w) # None
      PROVE  WordId(z, w) = WordId(y, w)
  <2> DEFINE id == WordId(y, w)
  <2>1. <<w, id>> \in E /\ w \notin G
    BY <1>1, FoundIsKnown
  <2> HIDE DEF id
  <2>2. WordId(z, w) = id
    BY <1>1, <2>1, KnownIsFound
  <2> QED BY <2>2 DEF id
<1>2. CASE WordId(d, w) # None
  BY <1>1, <1>2
<1>3. CASE WordId(d, w) = None
  BY <1>1, <1>3
<1> QED BY <1>2, <1>3

LEMMA UpdateTold ==
    ASSUME StoreHolds(dict), NEW w \in Words, NEW v \in Words, NEW before, before \in {{}, {v}},
           NEW isValidWord, UpdateEntriesForWord(w, before, isValidWord)
    PROVE  /\ StoreHolds(dict')
           /\ \/ Store!AddWord(w, "seen", View(dict).status, View(dict).pairs,
                               View(dict').status, View(dict').pairs)
              \/ Store!Learn(w, before, View(dict).status, View(dict).pairs,
                             View(dict').status, View(dict').pairs)
<1> DEFINE isNew == WordId(dict, w) = None
           e == "seen"
           noted == IF WordId(dict, w) = None THEN AddUnigram(dict, w, "seen") ELSE dict
           id == WordId(noted, w)
           used == SetEntry(noted, <<id>>, "used")
           prev == {WordId(noted, u) : u \in before} \ {None}
           b == CHOOSE i \in prev : TRUE
           m == dict.lm
           k == Len(dict.table)
           s == View(dict).status
           ps == View(dict).pairs
<1>1. dict' = IF isNew /\ ~isValidWord THEN noted
              ELSE IF prev = {} THEN used ELSE SetEntry(used, <<b, id>>, "used")
  BY DEF UpdateEntriesForWord, Becomes
<1>2. CASE isNew /\ ~isValidWord
  <2> DEFINE x == AddUnigram(dict, w, e)
  <2>1. dict' = x
    BY <1>1, <1>2
  <2>2. e \in {"seen", "used"}
    OBVIOUS
  <2>3. /\ StoreHolds(x)
        /\ Store!AddWord(w, e, s, ps, View(x).status, View(x).pairs)
    <3> HIDE DEF e
    <3> QED BY <2>2, AddTold
  <2> HIDE DEF x
  <2> QED BY <2>1, <2>3
<1>3. CASE ~(isNew /\ ~isValidWord)
  <2>1. PICK text, E, G : Describes(dict, text, E, G)
    BY DescribeIt
  <2>2. \E text2, F, H, Z :
           /\ Describes(noted, text2, F, H) /\ Describes(used, text2, F, H)
           /\ <<w, id>> \in F /\ w \notin H
           /\ Adds(E, G, m, k, w, id, "used", Z, F, H, used.lm)
    BY <2>1, WordIsUsed
  <2>3. dict' = IF prev = {} THEN used ELSE SetEntry(used, <<b, id>>, "used")
    BY <1>1, <1>3
  <2>4. /\ prev = {WordId(noted, u) : u \in before} \ {None}
        /\ prev # {} => b \in prev
    <3>1. prev = {WordId(noted, u) : u \in before} \ {None}
      OBVIOUS
    <3> HIDE DEF prev
    <3> QED BY <3>1
  <2> HIDE DEF id, noted, used, prev, b, m, k
  <2>5. PICK text2, F, H, Z :
           /\ Describes(noted, text2, F, H) /\ Describes(used, text2, F, H)
           /\ <<w, id>> \in F /\ w \notin H
           /\ Adds(E, G, m, k, w, id, "used", Z, F, H, used.lm)
    BY <2>2
  <2> DEFINE t == View(used).status
             rs == View(used).pairs
  <2>6. Store!AddWord(w, "used", s, ps, t, rs)
    <3>1. Adds(E, G, dict.lm, Len(dict.table), w, id, "used", Z, F, H, used.lm)
      BY <2>5 DEF m, k
    <3> DEFINE f == "used"
    <3>2. Adds(E, G, dict.lm, Len(dict.table), w, id, f, Z, F, H, used.lm)
      BY <3>1
    <3> HIDE DEF f
    <3>3. Store!AddWord(w, f, s, ps, t, rs)
      BY <2>1, <2>5, <3>2, AddsTold
    <3> QED BY <3>3 DEF f
  <2>7. Store!Add(w, "used", s, t) /\ rs = ps
    <3> HIDE DEF s, ps, t, rs
    <3> QED BY <2>6 DEF Store!AddWord
  <2>8. StoreHolds(used)
    BY <2>5 DEF Describes
  <2>9. \A u \in Words : Store!Known(t, u) <=> WordId(noted, u) # None
    <3> SUFFICES ASSUME NEW u \in Words PROVE Store!Known(t, u) <=> WordId(noted, u) # None
      OBVIOUS
    <3>1. WordId(noted, u) = WordId(used, u)
      BY <2>5, FoundSame
    <3> QED BY <2>8, <3>1, FoundIffKnown
  <2>10. CASE prev = {}
    <3>1. dict' = used
      BY <2>3, <2>10
    <3>2. {u \in before : Store!Known(t, u)} = {}
      BY <2>4, <2>9, <2>10
    <3>3. Store!Learn(w, before, s, ps, t, rs)
      <4> HIDE DEF s, ps, t, rs
      <4>1. {<<u, w>> : u \in {y \in before : Store!Known(t, y)}} = {}
        BY <3>2
      <4>2. rs = ps \cup {<<u, w>> : u \in {y \in before : Store!Known(t, y)}}
        BY <2>7, <4>1
      <4> QED BY <2>7, <4>2 DEF Store!Learn
    <3> QED BY <2>8, <3>1, <3>3
  <2>11. CASE prev # {}
    <3> DEFINE a == WordId(noted, v)
               x == SetEntry(used, <<a, id>>, "used")
               qs == View(x).pairs
    <3>1. before = {v} /\ a # None /\ b = a
      BY <2>4, <2>11
    <3>2. dict' = x
      BY <2>3, <2>11, <3>1
    <3>3. Both(F, H, v, a, w, id)
      BY <2>5, <3>1, FoundIsKnown DEF Both
    <3>4. x = SetEntry(used, <<a, id>>, "used")
      OBVIOUS
    <3> HIDE DEF x, a
    <3>5. Describes(x, text2, F, H) /\ View(x).status = t /\ qs = rs \cup {<<v, w>>}
      BY <2>5, <3>3, <3>4, PairSetTold
    <3>6. {u \in before : Store!Known(t, u)} = {v}
      BY <2>9, <3>1 DEF a
    <3>7. Store!Learn(w, before, s, ps, t, qs)
      <4> HIDE DEF s, ps, t, rs, qs
      <4>1. {<<u, w>> : u \in {y \in before : Store!Known(t, y)}} = {<<v, w>>}
        BY <3>6
      <4>2. qs = ps \cup {<<u, w>> : u \in {y \in before : Store!Known(t, y)}}
        BY <2>7, <3>5, <4>1
      <4> QED BY <2>7, <4>2 DEF Store!Learn
    <3>8. StoreHolds(x)
      BY <3>5 DEF Describes
    <3> QED BY <3>2, <3>5, <3>7, <3>8
  <2> QED BY <2>10, <2>11
<1> QED BY <1>2, <1>3

\* What a garbage collection makes of the words and their entries: m is what
\* is left of the language model, ids are the ids with an entry in it.
Collects(E, ids, m, F, H, n) ==
    /\ H = {}
    /\ \A w, j : <<w, j>> \in F =>
          LET i == Nth(ids, j + 1)
          IN <<w, i>> \in E /\ Valid(m, <<i>>) /\ Valid(n, <<j>>) /\ n[<<j>>] = m[<<i>>]
    /\ \A w, i : <<w, i>> \in E /\ Valid(m, <<i>>) => \E j : <<w, j>> \in F
    /\ \A a, b : Valid(n, <<a, b>>) => Valid(m, <<Nth(ids, a + 1), Nth(ids, b + 1)>>)

LEMMA StoreCollects ==
    ASSUME NEW E, NEW G, NEW o, NEW k, World(E, G, o, k), NEW s, NEW ps, Seen(E, G, o, s, ps),
           NEW m, \A q : Valid(m, q) => Valid(o, q) /\ m[q] = o[q],
           NEW ids, NEW F, NEW H, NEW n, Collects(E, ids, m, F, H, n),
           NEW l, World(F, H, n, l), NEW t, NEW qs, Seen(F, H, n, t, qs)
    PROVE  Store!Collect(s, ps, t, qs)
<1> DEFINE kept == {w \in Words : \E i : <<w, i>> \in E /\ Valid(m, <<i>>)}
<1>1. ASSUME NEW w \in Words, NEW i, <<w, i>> \in E, Valid(m, <<i>>)
      PROVE  s[w] = m[<<i>>] /\ s[w] \in {"seen", "used"}
  <2>1. Valid(o, <<i>>) /\ m[<<i>>] = o[<<i>>] /\ <<i>> \in DOMAIN o
    BY <1>1 DEF Valid
  <2>2. w \notin G
    BY <1>1, <2>1 DEF World
  <2>3. Says(E, G, o, w, s[w])
    BY DEF Seen
  <2>4. s[w] = o[<<i>>]
    BY <1>1, <2>1, <2>2, <2>3 DEF Says
  <2>5. o[<<i>>] \in Marks /\ o[<<i>>] # "placeholder"
    BY <2>1 DEF World, Fits, Valid
  <2> QED BY <2>1, <2>4, <2>5 DEF Marks
<1>2. kept \in SUBSET {w \in Words : s[w] \in {"seen", "used"}}
  BY <1>1
<1>3. ASSUME NEW w \in Words
      PROVE  t[w] = IF w \in kept THEN s[w] ELSE "absent"
  <2>1. Says(F, H, n, w, t[w]) /\ w \notin H
    BY DEF Seen, Collects
  <2>2. CASE w \in kept
    <3>1. PICK i : <<w, i>> \in E /\ Valid(m, <<i>>)
      BY <2>2
    <3>2. PICK j : <<w, j>> \in F
      BY <3>1 DEF Collects
    <3> DEFINE h == Nth(ids, j + 1)
    <3>3. <<w, h>> \in E /\ Valid(m, <<h>>) /\ Valid(n, <<j>>) /\ n[<<j>>] = m[<<h>>]
      BY <3>2 DEF Collects
    <3> HIDE DEF h
    <3>4. t[w] = n[<<j>>]
      BY <2>1, <3>2, <3>3 DEF Says
    <3>5. s[w] = m[<<h>>]
      BY <1>1, <3>3
    <3> QED BY <2>2, <3>3, <3>4, <3>5
  <2>3. CASE w \notin kept
    <3>1. ASSUME NEW j, <<w, j>> \in F PROVE FALSE
      <4> DEFINE h == Nth(ids, j + 1)
      <4>1. <<w, h>> \in E /\ Valid(m, <<h>>)
        BY <3>1 DEF Collects
      <4> HIDE DEF h
      <4> QED BY <2>3, <4>1
    <3>2. t[w] = "absent"
      BY <2>1, <3>1 DEF Says
    <3> QED BY <2>3, <3>2
  <2> QED BY <2>2, <2>3
<1>4. t = [w \in Words |-> IF w \in kept THEN s[w] ELSE "absent"]
  <2>1. t = [w \in Words |-> t[w]]
    BY DEF Seen
  <2> HIDE DEF kept
  <2> QED BY <1>3, <2>1
<1>5. qs \subseteq ps \cap (kept \X kept)
  <2>1. qs \subseteq Words \X Words
    BY DEF Seen
  <2> SUFFICES ASSUME NEW v \in Words, NEW w \in Words, <<v, w>> \in qs
               PROVE  <<v, w>> \in ps /\ <<v, w>> \in kept \X kept
    <3> HIDE DEF kept
    <3> QED BY <2>1
  <2>2. PairIn(F, n, v, w)
    BY DEF Seen
  <2>3. PICK a, b : <<v, a>> \in F /\ <<w, b>> \in F /\ Valid(n, <<a, b>>)
    BY <2>2 DEF PairIn
  <2> DEFINE i == Nth(ids, a + 1)
             j == Nth(ids, b + 1)
  <2>4. <<v, i>> \in E /\ Valid(m, <<i>>) /\ <<w, j>> \in E /\ Valid(m, <<j>>)
    BY <2>3 DEF Collects
  <2>5. Valid(m, <<i, j>>)
    BY <2>3 DEF Collects
  <2> HIDE DEF i, j
  <2>6. Valid(o, <<i, j>>)
    BY <2>5
  <2>7. PairIn(E, o, v, w)
    BY <2>4, <2>6 DEF PairIn
  <2>8. <<v, w>> \in ps
    BY <2>7 DEF Seen
  <2> QED BY <2>4, <2>8
<1> HIDE DEF kept
<1> QED BY <1>2, <1>4, <1>5 DEF Store!Collect

\* The words of a copy.
LEMMA CopyTerminals ==
    ASSUME NEW d, NEW text, Good(d, text), NEW K, NEW A, Closed(d, K, A), NEW x, Copy(d, K, A, x),
           NEW text2, \A p \in K : text2[Rank(p, K)] = text[p]
    PROVE  /\ Gone(x, text2) = {}
           /\ \A w, j : <<w, j>> \in Entries(x, text2) <=>
                 \E p \in CopyWords(d, K) :
                    w = text[p] /\ j = Rank(d.trie[p].id, CopyIds(d, K)) - 1
<1> DEFINE ids == CopyIds(d, K)
<1>1. /\ Live(x) = DOMAIN x.trie
      /\ \A r \in DOMAIN x.trie : \E p \in K : r = Rank(p, K)
      /\ \A p \in K : Rank(p, K) \in DOMAIN x.trie
  BY CopyLive
<1>2. ASSUME NEW p \in K
      PROVE  LET n == x.trie[Rank(p, K)] IN
             /\ n.flag = "plain"
             /\ p \in CopyWords(d, K) => n.id = Rank(d.trie[p].id, ids) - 1
             /\ IsTerminal(n) <=> p \in CopyWords(d, K)
  <2>1. NodeCopied(d, K, A, p, x.trie[Rank(p, K)])
    BY DEF Copy
  <2> DEFINE n == x.trie[Rank(p, K)]
  <2>2. NodeCopied(d, K, A, p, n)
    BY <2>1
  <2> HIDE DEF n
  <2>3. /\ n.flag = "plain"
        /\ p \in CopyWords(d, K) => n.id = Rank(d.trie[p].id, ids) - 1
        /\ IsTerminal(n) <=> p \in CopyWords(d, K)
    BY <2>2 DEF NodeCopied
  <2> QED BY <2>3 DEF n
<1>3. Gone(x, text2) = {}
  <2>1. ASSUME NEW r \in Live(x) PROVE x.trie[r].flag # "deleted"
    <3>1. PICK p \in K : r = Rank(p, K)
      BY <1>1
    <3>2. x.trie[r].flag = "plain"
      BY <1>2, <3>1
    <3> QED BY <3>2
  <2> QED BY <2>1 DEF Gone
<1> HIDE DEF ids
<1>4. ASSUME NEW w, NEW j, <<w, j>> \in Entries(x, text2)
      PROVE  \E p \in CopyWords(d, K) : w = text[p] /\ j = Rank(d.trie[p].id, ids) - 1
  <2>1. PICK r \in Terminals(x) : <<w, j>> = <<text2[r], x.trie[r].id>>
    BY <1>4 DEF Entries
  <2>2. w = text2[r] /\ j = x.trie[r].id
    BY <2>1
  <2>3. r \in DOMAIN x.trie /\ IsTerminal(x.trie[r])
    BY <1>1 DEF Terminals
  <2>4. PICK p \in K : r = Rank(p, K)
    BY <1>1, <2>3
  <2>5. p \in CopyWords(d, K)
    BY <1>2, <2>3, <2>4
  <2>6. x.trie[r].id = Rank(d.trie[p].id, ids) - 1
    BY <1>2, <2>4, <2>5
  <2>7. text2[r] = text[p]
    BY <2>4
  <2> QED BY <2>2, <2>5, <2>6, <2>7
<1>5. ASSUME NEW p \in CopyWords(d, K)
      PROVE  <<text[p], Rank(d.trie[p].id, ids) - 1>> \in Entries(x, text2)
  <2> DEFINE r == Rank(p, K)
  <2>1. p \in K
    BY DEF CopyWords
  <2>2. r \in DOMAIN x.trie /\ text2[r] = text[p]
    BY <1>1, <2>1
  <2>3. IsTerminal(x.trie[r]) /\ x.trie[r].id = Rank(d.trie[p].id, ids) - 1
    BY <1>2, <2>1
  <2> HIDE DEF r
  <2>4. r \in Terminals(x)
    BY <1>1, <2>2, <2>3 DEF Terminals
  <2> QED BY <2>2, <2>3, <2>4 DEF Entries
<1>6. ASSUME NEW w, NEW j
      PROVE  <<w, j>> \in Entries(x, text2) <=>
                \E p \in CopyWords(d, K) : w = text[p] /\ j = Rank(d.trie[p].id, ids) - 1
  BY <1>4, <1>5
<1> QED BY <1>3, <1>6 DEF ids

\* The entries of a copy.
LEMMA CopyValid ==
    ASSUME NEW d, LmOK(d), NEW ids, ids \subseteq Nat, IsFiniteSet(ids), NEW n, LmCopied(d, ids, n)
    PROVE  /\ \A i \in ids : Valid(d.lm, <<i>>) =>
                 /\ Valid(n, <<Rank(i, ids) - 1>>)
                 /\ n[<<Rank(i, ids) - 1>>] = d.lm[<<i>>]
           /\ \A a, b : Valid(n, <<a, b>>) => Valid(d.lm, <<Nth(ids, a + 1), Nth(ids, b + 1)>>)
<1>1. ASSUME NEW i \in ids, Valid(d.lm, <<i>>)
      PROVE  /\ Valid(n, <<Rank(i, ids) - 1>>)
             /\ n[<<Rank(i, ids) - 1>>] = d.lm[<<i>>]
  <2>1. Range(<<i>>) \subseteq ids
    BY DEF Range
  <2>2. Renamed(ids, <<i>>) = <<Rank(i, ids) - 1>>
    BY DEF Renamed
  <2>3. <<i>> \in DOMAIN d.lm /\ d.lm[<<i>>] # "placeholder"
    BY <1>1 DEF Valid
  <2> DEFINE q == <<i>>
  <2>4. q \in DOMAIN d.lm /\ Range(q) \subseteq ids /\ d.lm[q] # "placeholder"
    BY <2>1, <2>3
  <2> HIDE DEF q
  <2>5. Renamed(ids, q) \in DOMAIN n /\ n[Renamed(ids, q)] = d.lm[q]
    BY <2>4 DEF LmCopied
  <2>6. Valid(n, Renamed(ids, q)) /\ n[Renamed(ids, q)] = d.lm[q]
    BY <2>4, <2>5 DEF Valid
  <2> QED BY <2>2, <2>6 DEF q
<1>2. ASSUME NEW a, NEW b, Valid(n, <<a, b>>)
      PROVE  Valid(d.lm, <<Nth(ids, a + 1), Nth(ids, b + 1)>>)
  <2> DEFINE r == <<a, b>>
  <2>1. r \in DOMAIN n /\ n[r] # "placeholder"
    BY <1>2 DEF Valid
  <2>2. Former(ids, r) = <<Nth(ids, a + 1), Nth(ids, b + 1)>>
    BY DEF Former
  <2> HIDE DEF r
  <2>3. PICK q \in DOMAIN d.lm : Range(q) \subseteq ids /\ r = Renamed(ids, q)
    BY <2>1 DEF LmCopied
  <2>4. q \in Seq(Nat)
    BY DEF LmOK
  <2>5. Former(ids, r) = q
    BY <2>3, <2>4, RenamedIs
  <2>6. n[r] = d.lm[q]
    BY <2>3 DEF LmCopied
  <2>7. Valid(d.lm, q)
    BY <2>1, <2>6 DEF Valid
  <2> QED BY <2>2, <2>5, <2>7
<1> QED BY <1>1, <1>2

LEMMA CopiedTells ==
    ASSUME NEW d, Holds(d), NEW text, Good(d, text)
    PROVE  LET x == Copied(d) IN
           /\ Holds(x)
           /\ \E ids, text2 :
                 /\ Good(x, text2) /\ Gone(x, text2) = {}
                 /\ Collects(Entries(d, text), ids, d.lm, Entries(x, text2), Gone(x, text2), x.lm)
<1> DEFINE K == KeptNodes(d)
           A == KeptArrays(d)
           x == CopyOf(d, K, A)
           ids == CopyIds(d, K)
           m == d.lm
           E == Entries(d, text)
<1>1. Closed(d, K, A)
  BY KeptIsClosed
<1>2. Copied(d) = x /\ Holds(Copied(d))
  BY CopiedIs, CopiedHolds
<1>3. x.lm = CopyLm(d, ids)
  BY DEF CopyOf, DictOf
<1>4. \A p \in Live(d) : IsTerminal(d.trie[p]) /\ Valid(m, <<d.trie[p].id>>) => p \in K
  BY WordsAreKept DEF IsValidEntry, Valid
<1>5. \A p : p \in CopyWords(d, K) <=> p \in K /\ IsTerminal(d.trie[p]) /\ Valid(m, <<d.trie[p].id>>)
  BY DEF CopyWords, IsValidEntry, Valid
<1> HIDE DEF K, A
<1>6. Copy(d, K, A, x)
  BY <1>1, CopyIs
<1> HIDE DEF x
<1>7. Buffers(x) /\ Ids(x) /\ Tree(x)
  BY <1>1, <1>6, CopyBuffers, CopyIdsLead, CopySpells
<1>8. PICK text2 : Spells(x, text2) /\ \A p \in K : text2[Rank(p, K)] = text[p]
  BY <1>1, <1>6, CopySpells
<1>9. Good(x, text2)
  BY <1>7, <1>8 DEF Good
<1> DEFINE F == Entries(x, text2)
           H == Gone(x, text2)
<1>10. /\ H = {}
       /\ \A w, j : <<w, j>> \in F <=>
             \E p \in CopyWords(d, K) : w = text[p] /\ j = Rank(d.trie[p].id, ids) - 1
  BY <1>1, <1>6, <1>8, CopyTerminals
<1>11. ids \subseteq Nat /\ IsFiniteSet(ids) /\ K \subseteq Live(d)
  BY <1>1, KeptAreNumbers DEF Closed
<1>12. \A p \in CopyWords(d, K) : d.trie[p].id \in ids
  BY DEF CopyIds
<1>13. \A p \in CopyWords(d, K) : <<text[p], d.trie[p].id>> \in E
  BY <1>5, <1>11 DEF Entries, Terminals
<1>14. \A w, i : <<w, i>> \in E => \E p \in Live(d) : IsTerminal(d.trie[p]) /\ w = text[p]
                                                     /\ i = d.trie[p].id
  BY DEF Entries, Terminals
<1> HIDE DEF ids, F, H, E, m
<1>15. \A i \in ids : Nth(ids, Rank(i, ids)) = i /\ Rank(i, ids) \in Nat
  <2> DEFINE f == [r \in 1..Cardinality(ids) |-> r]
  <2>1. DOMAIN f = 1..Cardinality(ids)
    OBVIOUS
  <2> HIDE DEF f
  <2>2. Numbers(f, ids)
    BY <1>11, <2>1, NumbersAre
  <2> QED BY <2>2 DEF Numbers
<1>16. LmOK(d) /\ LmCopied(d, ids, x.lm)
  <2>1. LmOK(d)
    BY DEF Holds
  <2> QED BY <1>3, <1>11, <2>1, CopyLmIs
<1> DEFINE n == x.lm
<1>17. /\ \A i \in ids : Valid(m, <<i>>) =>
             /\ Valid(n, <<Rank(i, ids) - 1>>)
             /\ n[<<Rank(i, ids) - 1>>] = m[<<i>>]
       /\ \A a, b : Valid(n, <<a, b>>) => Valid(m, <<Nth(ids, a + 1), Nth(ids, b + 1)>>)
  <2> HIDE DEF n
  <2>1. LmCopied(d, ids, n)
    BY <1>16 DEF n
  <2> QED BY <1>11, <1>16, <2>1, CopyValid DEF m
<1> HIDE DEF n
<1>18. ASSUME NEW w, NEW j, <<w, j>> \in F
       PROVE  LET i == Nth(ids, j + 1)
              IN <<w, i>> \in E /\ Valid(m, <<i>>) /\ Valid(n, <<j>>) /\ n[<<j>>] = m[<<i>>]
  <2>1. PICK p \in CopyWords(d, K) : w = text[p] /\ j = Rank(d.trie[p].id, ids) - 1
    BY <1>10, <1>18
  <2> DEFINE i == d.trie[p].id
  <2>2. i \in ids /\ <<w, i>> \in E /\ Valid(m, <<i>>)
    BY <1>5, <1>12, <1>13, <2>1
  <2>3. j = Rank(i, ids) - 1
    BY <2>1
  <2> HIDE DEF i
  <2>4. j + 1 = Rank(i, ids)
    BY <1>15, <2>2, <2>3
  <2>5. Nth(ids, j + 1) = i
    BY <1>15, <2>2, <2>4
  <2>6. Valid(n, <<j>>) /\ n[<<j>>] = m[<<i>>]
    BY <1>17, <2>2, <2>3
  <2> QED BY <2>2, <2>5, <2>6
<1>19. ASSUME NEW w, NEW i, <<w, i>> \in E, Valid(m, <<i>>)
       PROVE  \E j : <<w, j>> \in F
  <2>1. PICK p \in Live(d) : IsTerminal(d.trie[p]) /\ w = text[p] /\ i = d.trie[p].id
    BY <1>14, <1>19
  <2>2. p \in CopyWords(d, K)
    BY <1>4, <1>5, <1>19, <2>1
  <2> QED BY <1>10, <2>1, <2>2
<1>20. Collects(E, ids, m, F, H, n)
  BY <1>10, <1>17, <1>18, <1>19 DEF Collects
<1> QED BY <1>2, <1>9, <1>10, <1>20 DEF E, F, H, m, n

LEMMA CollectedTold ==
    ASSUME NEW d, StoreHolds(d), NEW old
    PROVE  LET x == Collected(d, old) IN
           /\ StoreHolds(x)
           /\ Store!Collect(View(d).status, View(d).pairs, View(x).status, View(x).pairs)
<1> DEFINE gone(q) == \E r \in old : IsPrefix(r, q)
           Q == {q \in DOMAIN d.lm : ~gone(q)}
           lm == Restrict(d.lm, Q)
           u == [d EXCEPT !.lm = lm]
           c == Cardinality({q \in DOMAIN u.lm : Len(q) = 1})
           y == Copied(u)
           x == [y EXCEPT !.count = c]
           o == d.lm
<1>1. Collected(d, old) = x
  BY DEF Collected
<1>2. PICK text, E, G : Describes(d, text, E, G)
  BY DescribeIt
<1>3. Good(d, text) /\ E = Entries(d, text) /\ IsDict(d) /\ LmOK(d)
  BY <1>2, DescribedIs DEF Describes
<1>4. Q \subseteq DOMAIN d.lm
  OBVIOUS
<1> HIDE DEF Q
<1>5. \A q : Valid(lm, q) => Valid(o, q) /\ lm[q] = o[q]
  BY <1>4 DEF Valid, Restrict
<1>6. Fits(lm, Len(d.table))
  <2>1. Fits(d.lm, Len(d.table))
    BY <1>3, LmOKIs
  <2> QED BY <1>4, <2>1, FewerFit
<1> HIDE DEF lm, c
<1>7. u = DictOf(d.trie, d.arrays, d.table, lm, d.count)
  BY <1>3, DictWith
<1> HIDE DEF u
<1>8. /\ IsDict(u) /\ u.trie = d.trie /\ u.arrays = d.arrays /\ u.table = d.table /\ u.lm = lm
  BY <1>7 DEF DictOf, IsDict
<1>9. Good(u, text) /\ Entries(u, text) = E
  BY <1>3, <1>8, GoodSame
<1>10. Holds(u)
  <2>1. LmOK(u)
    BY <1>6, <1>8, LmOKIs
  <2> QED BY <1>8, <1>9, <2>1, SoundIsGood DEF Holds
<1>11. /\ Holds(y)
       /\ \E ids, text2 :
             /\ Good(y, text2) /\ Gone(y, text2) = {}
             /\ Collects(Entries(u, text), ids, u.lm, Entries(y, text2), Gone(y, text2), y.lm)
  BY <1>9, <1>10, CopiedTells
<1> HIDE DEF y
<1>12. /\ Holds(x) /\ x.trie = y.trie /\ x.arrays = y.arrays /\ x.table = y.table
       /\ x.lm = y.lm
  BY <1>11, CountedHolds
<1> HIDE DEF x
<1>13. PICK ids, text2 :
          /\ Good(y, text2) /\ Gone(y, text2) = {}
          /\ Collects(Entries(u, text), ids, u.lm, Entries(y, text2), Gone(y, text2), y.lm)
  BY <1>11
<1> DEFINE F == Entries(x, text2)
           H == Gone(x, text2)
<1>14. Good(x, text2) /\ F = Entries(y, text2) /\ H = Gone(y, text2) /\ H = {}
  BY <1>12, <1>13, GoodSame
<1> HIDE DEF F, H
<1> DEFINE n == x.lm
<1>15. Collects(E, ids, lm, F, H, n)
  BY <1>8, <1>9, <1>12, <1>13, <1>14
<1>16. Describes(x, text2, F, H)
  BY <1>12, <1>14, DescribesThen DEF F, H
<1> DEFINE s == View(d).status
           ps == View(d).pairs
           t == View(x).status
           qs == View(x).pairs
           k == Len(d.table)
           l == Len(x.table)
<1>17. World(E, G, o, k) /\ Seen(E, G, o, s, ps)
  BY <1>2, DescribedIs
<1>18. World(F, H, n, l) /\ Seen(F, H, n, t, qs)
  BY <1>16, DescribedIs
<1> HIDE DEF o, n, s, ps, t, qs, k, l
<1>19. Store!Collect(s, ps, t, qs)
  BY <1>5, <1>15, <1>17, <1>18, StoreCollects
<1>20. StoreHolds(x)
  BY <1>16 DEF Describes
<1> QED BY <1>1, <1>19, <1>20 DEF s, ps, t, qs

LEMMA CollectTold ==
    ASSUME StoreHolds(dict), FlushWithGC
    PROVE  /\ StoreHolds(dict')
           /\ Store!Collect(View(dict).status, View(dict).pairs,
                            View(dict').status, View(dict').pairs)
<1>1. PICK old : dict' = Collected(dict, old)
  BY DEF FlushWithGC, Becomes
<1> DEFINE x == Collected(dict, old)
<1>2. /\ StoreHolds(x)
      /\ Store!Collect(View(dict).status, View(dict).pairs, View(x).status, View(x).pairs)
  BY CollectedTold
<1> HIDE DEF x
<1> QED BY <1>1, <1>2 DEF x

-----------------------------------------------------------------------------
(* The invariants.                                                         *)

\* What is known of the dictionary is what its buffers tell.
IndInv ==
    /\ StoreHolds(dict)
    /\ known = View(dict)
    /\ historical \in BOOLEAN

LEMMA EmptyView ==
    /\ Cleared(EmptyDict)
    /\ View(EmptyDict) = [status |-> [w \in Words |-> "absent"], pairs |-> {}]
<1> DEFINE d == EmptyDict
           s == View(d).status
           ps == View(d).pairs
<1>1. Live(d) = {}
  BY DEF EmptyDict, Live
<1>2. View(d) = [status |-> s, pairs |-> ps]
  BY DEF View
<1>3. LmOK(d) /\ Sound(d)
  BY EmptyIsSound
<1> HIDE DEF d
<1>4. PICK text : Good(d, text)
  BY <1>3, SoundIsGood
<1>5. Entries(d, text) = {} /\ Gone(d, text) = {}
  BY <1>1 DEF Entries, Gone, Terminals
<1>6. Seen({}, {}, d.lm, s, ps)
  BY <1>3, <1>4, <1>5, ViewIs
<1> HIDE DEF s, ps
<1>7. s = [w \in Words |-> "absent"]
  BY <1>6 DEF Seen, Says
<1>8. ps = {}
  BY <1>6 DEF Seen, PairIn
<1>9. Cleared(d)
  BY <1>1 DEF Cleared
<1> QED BY <1>2, <1>7, <1>8, <1>9 DEF d

LEMMA IndInvInit == Init => IndInv /\ Store!Init
<1> SUFFICES ASSUME Init PROVE IndInv /\ Store!Init
  OBVIOUS
<1>1. /\ dict = EmptyDict /\ historical \in BOOLEAN
      /\ known = [status |-> [w \in Words |-> "absent"], pairs |-> {}]
  BY DEF Init
<1>2. IndInv
  <2>1. IsDict(EmptyDict)
    BY DEF IsDict, EmptyDict
  <2>2. Holds(EmptyDict)
    BY <2>1, EmptyIsSound DEF Holds
  <2> QED BY <1>1, <2>2, EmptyView DEF IndInv, StoreHolds
<1>3. Store!Init
  BY <1>1 DEF Store!Init
<1> QED BY <1>2, <1>3

LEMMA IndInvNext ==
    ASSUME IndInv, Next
    PROVE  IndInv' /\ Store!Next
<1> DEFINE s == View(dict).status
           ps == View(dict).pairs
           t == View(dict').status
           qs == View(dict').pairs
<1>1. StoreHolds(dict) /\ known.status = s /\ known.pairs = ps
  BY DEF IndInv
<1>2. \A p \in Pairs : p[1] \in Words /\ p[2] \in Words
  BY PatriciaTrieAssumption DEF PatriciaTrieAssumption
<1>3. ASSUME StoreHolds(dict'), known' = View(dict'), UNCHANGED historical
      PROVE  IndInv' /\ known'.status = t /\ known'.pairs = qs
  <2>1. IndInv'
    BY <1>3 DEF IndInv
  <2> QED BY <1>3, <2>1
<1> DEFINE Steps1 ==
             \/ \E v, w \in Words :
                   Store!AddPair(v, w, s, ps, t, qs) \/ Store!RemovePair(v, w, s, ps, t, qs)
             \/ \E w \in Words : Store!Forget(w, s, ps, t, qs)
             \/ \E w \in Words, e \in {"seen", "used"} : Store!AddWord(w, e, s, ps, t, qs)
             \/ \E w \in Words, before \in {{}} \cup {{v} : v \in Words} :
                   Store!Learn(w, before, s, ps, t, qs)
             \/ Store!Collect(s, ps, t, qs)
<1>4. ASSUME Steps1, known'.status = t, known'.pairs = qs
      PROVE  Store!Next
  <2> HIDE DEF s, ps, t, qs
  <2> QED BY <1>1, <1>4 DEF Store!Next
<1>5. ASSUME NEW w \in Words, AddUnigramEntry(w)
      PROVE  StoreHolds(dict') /\ Steps1 /\ known' = View(dict') /\ UNCHANGED historical
  <2>1. known' = View(dict') /\ UNCHANGED historical
    BY <1>5 DEF AddUnigramEntry, Becomes
  <2> DEFINE e == "used"
  <2>2. StoreHolds(dict') /\ Store!AddWord(w, e, s, ps, t, qs)
    BY <1>1, <1>5, AddUnigramTold
  <2>3. e \in {"seen", "used"}
    OBVIOUS
  <2> HIDE DEF s, ps, t, qs, e
  <2> QED BY <2>1, <2>2, <2>3
<1>6. ASSUME NEW w \in Words, RemoveUnigramEntry(w)
      PROVE  StoreHolds(dict') /\ Steps1 /\ known' = View(dict') /\ UNCHANGED historical
  <2>1. known' = View(dict') /\ UNCHANGED historical
    BY <1>6 DEF RemoveUnigramEntry, Becomes
  <2>2. StoreHolds(dict') /\ Store!Forget(w, s, ps, t, qs)
    BY <1>1, <1>6, RemoveUnigramTold
  <2> HIDE DEF s, ps, t, qs
  <2> QED BY <2>1, <2>2
<1>7. ASSUME NEW p \in Pairs, AddNgramEntry(p[1], p[2])
      PROVE  StoreHolds(dict') /\ Steps1 /\ known' = View(dict') /\ UNCHANGED historical
  <2>1. known' = View(dict') /\ UNCHANGED historical
    BY <1>7 DEF AddNgramEntry, Becomes
  <2>2. StoreHolds(dict') /\ Store!AddPair(p[1], p[2], s, ps, t, qs)
    BY <1>1, <1>2, <1>7, AddNgramTold
  <2> HIDE DEF s, ps, t, qs
  <2> QED BY <1>2, <2>1, <2>2
<1>8. ASSUME NEW p \in Pairs, RemoveNgramEntry(p[1], p[2])
      PROVE  StoreHolds(dict') /\ Steps1 /\ known' = View(dict') /\ UNCHANGED historical
  <2>1. known' = View(dict') /\ UNCHANGED historical
    BY <1>8 DEF RemoveNgramEntry, Becomes
  <2>2. StoreHolds(dict') /\ Store!RemovePair(p[1], p[2], s, ps, t, qs)
    BY <1>1, <1>2, <1>8, RemoveNgramTold
  <2> HIDE DEF s, ps, t, qs
  <2> QED BY <1>2, <2>1, <2>2
<1>9. ASSUME NEW w \in Words, NEW isValidWord \in BOOLEAN,
             NEW before \in {{}} \cup {{p[1]} : p \in {q \in Pairs : q[2] = w}},
             UpdateEntriesForWord(w, before, isValidWord)
      PROVE  StoreHolds(dict') /\ Steps1 /\ known' = View(dict') /\ UNCHANGED historical
  <2>1. known' = View(dict') /\ UNCHANGED historical
    BY <1>9 DEF UpdateEntriesForWord, Becomes
  <2>2. PICK v \in Words : before \in {{}, {v}}
    <3>1. CASE before = {}
      BY <3>1
    <3>2. CASE before # {}
      <4>1. PICK p \in Pairs : before = {p[1]}
        BY <3>2
      <4> QED BY <1>2, <4>1
    <3> QED BY <3>1, <3>2
  <2>3. /\ StoreHolds(dict')
        /\ \/ Store!AddWord(w, "seen", s, ps, t, qs)
           \/ Store!Learn(w, before, s, ps, t, qs)
    BY <1>1, <1>9, <2>2, UpdateTold
  <2>4. before \in {{}} \cup {{u} : u \in Words}
    BY <2>2
  <2> DEFINE e == "seen"
  <2>5. \/ Store!AddWord(w, e, s, ps, t, qs)
        \/ Store!Learn(w, before, s, ps, t, qs)
    BY <2>3
  <2>6. e \in {"seen", "used"}
    OBVIOUS
  <2> HIDE DEF s, ps, t, qs, e
  <2>7. Steps1
    BY <2>4, <2>5, <2>6
  <2> QED BY <2>1, <2>3, <2>7
<1>10. ASSUME FlushWithGC
       PROVE  StoreHolds(dict') /\ Steps1 /\ known' = View(dict') /\ UNCHANGED historical
  <2>1. known' = View(dict') /\ UNCHANGED historical
    BY <1>10 DEF FlushWithGC, Becomes
  <2>2. StoreHolds(dict') /\ Store!Collect(s, ps, t, qs)
    BY <1>1, <1>10, CollectTold
  <2> HIDE DEF s, ps, t, qs
  <2> QED BY <2>1, <2>2
<1> HIDE DEF s, ps, t, qs, Steps1
<1>11. StoreHolds(dict') /\ Steps1 /\ known' = View(dict') /\ UNCHANGED historical
  BY <1>5, <1>6, <1>7, <1>8, <1>9, <1>10 DEF Next
<1> QED BY <1>3, <1>4, <1>11

LEMMA IndInvStep == IndInv /\ [Next]_vars => IndInv' /\ [Store!Next]_(Store!vars)
<1>1. CASE IndInv /\ Next
  BY <1>1, IndInvNext
<1>2. CASE IndInv /\ UNCHANGED vars
  BY <1>2 DEF vars, Store!vars, IndInv
<1> QED BY <1>1, <1>2

LEMMA IndInvAlways == Spec => []IndInv
BY IndInvInit, IndInvStep, PTL DEF Spec

\* No link, array, position or id of the buffers leads out of them, whatever
\* is added, removed, split, moved and collected: what DynamicPtReadingHelper
\* would report as a corrupted dictionary does not happen.
THEOREM BuffersAreTyped == Spec => []DictTypeOK
<1>1. IndInv => DictTypeOK
  BY SoundIsTyped DEF IndInv, StoreHolds, Holds
<1> QED BY <1>1, IndInvAlways, PTL

\* Every array belongs to one node, the nodes of an array are its children and
\* begin with different letters, after every step of every operation of
\* Ver4PatriciaTriePolicy: no word is hidden by another one.
THEOREM TrieIsTree == Spec => []TreeOK
<1>1. IndInv => TreeOK
  BY SoundIsTree DEF IndInv, StoreHolds, Holds
<1> QED BY <1>1, IndInvAlways, PTL

\* A word and its terminal id lead to each other, through the trie and through
\* the table, however often nodes are split, moved and collected.
THEOREM WordsAndIdsLeadBack == Spec => []IdsLeadBack
<1>1. IndInv => IdsLeadBack
  BY SoundLeadsBack DEF IndInv, StoreHolds, Holds
<1> QED BY <1>1, IndInvAlways, PTL

\* Whatever is added, removed and collected, the dictionary is to its caller
\* the store of words of WordStore: no operation of Ver4PatriciaTriePolicy but
\* a garbage collection changes what it tells of another word, except that a
\* removed word whose node is split is found again.
THEOREM DictionaryIsStore == Spec => ImplementsStore
BY IndInvInit, IndInvStep, PTL DEF Spec, ImplementsStore, Store!Spec

-----------------------------------------------------------------------------
(* The keys of the map of the language model.  addNewEntryByResolvingConflict *)
(* relies on their shuffling: it recurses one level deeper until the labels of *)
(* two keys differ.  That the labels of a shuffled key determine it is left to *)
(* the runs of TrieMap.                                                        *)

\* Every bit of the key has a place in the shuffled key.
LEMMA SourceBitOnto ==
    ASSUME NEW i \in KeyBits
    PROVE  \E p \in KeyBits : SourceBit(p) = i
<1> DEFINE byte == i \div 8
           j    == i % 8
           q    == IF j < 4 THEN 8 * j ELSE 8 * (j - 4) + 4
           p    == q + byte
<1>1. byte \in 0..3 /\ j \in 0..7 /\ i = 8 * byte + j
  BY DEF KeyBits
<1>2. q \in 0..28 /\ q % 4 = 0 /\ q - 7 * (q \div 8) = j
  BY <1>1
<1>3. p \in KeyBits /\ p % 4 = byte
  BY <1>1, <1>2 DEF KeyBits
<1>4. p - (p % 4) = q
  BY <1>1, <1>2, <1>3
<1>5. SourceBit(p) = i
  BY <1>1, <1>2, <1>3, <1>4 DEF SourceBit
<1> QED  BY <1>3, <1>5

\* getBitShuffledKey "returns different values for different inputs".
THEOREM ShuffleIsInjective ==
    ASSUME NEW a \in [KeyBits -> {0, 1}], NEW b \in [KeyBits -> {0, 1}],
           Shuffled(a) = Shuffled(b)
    PROVE  a = b
<1>1. ASSUME NEW i \in KeyBits PROVE a[i] = b[i]
  <2>1. PICK p \in KeyBits : SourceBit(p) = i
    BY SourceBitOnto
  <2>2. Shuffled(a)[p] = a[i] /\ Shuffled(b)[p] = b[i]
    BY <2>1 DEF Shuffled
  <2> QED  BY <2>2
<1> QED  BY <1>1
=============================================================================
