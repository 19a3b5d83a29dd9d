---------------------------- MODULE PatriciaTrie ----------------------------
(***************************************************************************)
(* The dictionary that can be changed, of native/jni/src/dictionary/       *)
(* structure: a trie whose nodes hold one or more letters (pt_common), and *)
(* beside it the table of terminal ids and the language model (v4).  A     *)
(* node is never rewritten where it is: a new one is written at the end of *)
(* the buffer and the old one becomes a link to it.                        *)
(* A position in the buffer is the number of the node or array written     *)
(* there.  The arrays that forward links chain are one sequence.           *)
(***************************************************************************)
EXTENDS Naturals, Sequences, SequencesExt, FiniteSets, FiniteSetsExt, Functions

CONSTANTS
    Words,          \* the words, as sequences of letters
    Pairs,          \* bound of the model: the bigrams that are set and removed
    MaxOld,         \* bound of the model: entries removed at once for their age
    SizeLimit,      \* MIN_DICT_SIZE_TO_REFUSE_DYNAMIC_OPERATIONS, in nodes
    None            \* NOT_A_DICT_POS, NOT_A_TERMINAL_ID, NOT_A_WORD_ID

ASSUME PatriciaTrieAssumption ==
    /\ \A w \in Words : w # <<>> /\ w \in Seq(Range(w))
    /\ Pairs \subseteq Words \X Words
    /\ SizeLimit \in Nat /\ MaxOld \in Nat
    /\ None \notin Nat

VARIABLES
    dict,           \* the buffers of one dictionary
    historical,     \* its header's attribute: entries have counts and grow old
    known           \* history: what the dictionary tells of every word

vars == <<dict, historical, known>>

(***************************************************************************)
(* A dictionary: trie and arrays, the table of terminal ids (the id i has  *)
(* the entry i + 1), the language model (an entry for each path of ids:    *)
(* "placeholder", or "seen" without and "used" with a count or a           *)
(* probability) and the counter of unigrams.                               *)
(***************************************************************************)
Root == 1

EmptyDict ==
    [trie   |-> <<>>,
     arrays |-> <<(<<>>)>>,
     table  |-> <<>>,
     lm     |-> [p \in {} |-> "placeholder"],
     count  |-> 0]

Init ==
    /\ dict = EmptyDict
    /\ historical \in BOOLEAN
    /\ known = [status |-> [w \in Words |-> "absent"], pairs |-> {}]

(***************************************************************************)
(* Reading.  The link of a moved node is in the field of its parent.       *)
(***************************************************************************)
Fetched(d) ==
    LET dest[p \in DOMAIN d.trie] ==
            IF d.trie[p].flag = "moved" THEN dest[d.trie[p].parent] ELSE p
    IN dest

Siblings(d, a) == [i \in DOMAIN d.arrays[a] |-> Fetched(d)[d.arrays[a][i]]]

IsTerminal(n) == n.id # None

\* The part of w after its first k letters.
Skip(w, k) == SubSeq(w, k + 1, Len(w))

\* The first node of an array that satisfies Test, or None.
First(d, a, Test(_)) ==
    LET fitting == {i \in DOMAIN d.arrays[a] : Test(Siblings(d, a)[i])}
    IN IF fitting = {} THEN None ELSE Siblings(d, a)[Min(fitting)]

\* The terminal node of w, deleted or not.
TerminalPtNodePositionOfWord(d, w) ==
    LET find[at \in [array : DOMAIN d.arrays, read : 0..Len(w) - 1]] ==
            LET rest == Skip(w, at.read)
                fits(p) == /\ Len(d.trie[p].chars) <= Len(rest)
                           /\ Head(d.trie[p].chars) = Head(rest)
                p    == First(d, at.array, fits)
                n    == d.trie[p]
            IN IF p = None \/ ~IsPrefix(n.chars, rest) THEN None
               ELSE IF n.chars = rest THEN IF IsTerminal(n) THEN p ELSE None
               ELSE IF n.children = None THEN None
               ELSE find[[array |-> n.children, read |-> at.read + Len(n.chars)]]
    IN find[[array |-> Root, read |-> 0]]

\* The id of w in the trie, be w removed or not.
IdInTrie(d, w) ==
    LET p == TerminalPtNodePositionOfWord(d, w)
    IN IF p = None THEN None ELSE d.trie[p].id

WordId(d, w) ==
    LET p == TerminalPtNodePositionOfWord(d, w)
    IN IF p = None \/ d.trie[p].flag = "deleted" THEN None ELSE d.trie[p].id

\* The letters from the root to the node of an id.
CodePoints(d, id) ==
    LET up[p \in DOMAIN d.trie] ==
            LET n == d.trie[Fetched(d)[p]]
            IN IF n.parent = None THEN n.chars ELSE up[n.parent] \o n.chars
        p == IF id + 1 \in DOMAIN d.table THEN d.table[id + 1] ELSE None
    IN IF p = None THEN <<>>
       ELSE LET n == d.trie[Fetched(d)[p]]
            IN IF n.flag = "deleted" \/ ~IsTerminal(n) THEN <<>> ELSE up[p]

(***************************************************************************)
(* The language model is the one of NestedMap: setting an entry creates    *)
(* the entries on the way to it, removing one removes what is below it.    *)
(***************************************************************************)
Content ==
    INSTANCE NestedMap WITH
        Keys <- 0..SizeLimit, Values <- {"seen", "used"}, Depth <- 2,
        NotValid <- "placeholder", map <- dict.lm, call <- <<>>

SetEntry(d, path, e) == [d EXCEPT !.lm = Content!SetEntry(@, path, e)]
RemoveEntry(d, path) == [d EXCEPT !.lm = Content!RemoveEntry(@, path)]

IsValidEntry(d, path) ==
    path \in DOMAIN d.lm /\ d.lm[path] # "placeholder"

(***************************************************************************)
(* Writing.                                                                *)
(***************************************************************************)
SetPosition(d, id, p) ==
    [d EXCEPT !.table = [i \in 1..Max({Len(@), id + 1}) |->
                            IF i = id + 1 THEN p ELSE @[i]]]

\* A node without children yet, as addUnigramWord gives it to the writer.
NewNode(parent, chars, id) ==
    [flag |-> "plain", parent |-> parent, chars |-> chars,
     id |-> id, children |-> None]

NextTerminalId(d) == Len(d.table)

\* Faulty variant: only a new id is entered in the table.
WritePtNodeOfNew(d, n) ==
    LET written == [d EXCEPT !.trie = Append(@, n)]
    IN IF n.id = NextTerminalId(d) THEN SetPosition(written, n.id, Len(d.trie) + 1)
       ELSE written

\* A node at the end of the buffer; its id, if it has one, leads to it.
WritePtNode(d, n) ==
    LET written == [d EXCEPT !.trie = Append(@, n)]
    IN IF IsTerminal(n) THEN SetPosition(written, n.id, Len(d.trie) + 1)
       ELSE written

\* A terminal node and its entry.  A node that had an id keeps it.
WriteNewTerminal(d, n, e) ==
    LET id == IF n.id = None THEN NextTerminalId(d) ELSE n.id
    IN SetEntry(WritePtNode(d, [n EXCEPT !.id = id]), <<id>>, e)

WriteArray(d, ps) == [d EXCEPT !.arrays = Append(@, ps)]

\* The node at p becomes a link to another one; linked is the new parent of
\* its children.
MarkAsMoved(d, p, to, linked) ==
    LET kids == IF d.trie[p].children = None THEN {}
                ELSE Range(Siblings(d, d.trie[p].children))
    IN [d EXCEPT !.trie = [q \in DOMAIN @ |->
            IF q = p THEN [@[q] EXCEPT !.flag = "moved", !.parent = to]
            ELSE IF q \in kids THEN [@[q] EXCEPT !.parent = linked]
            ELSE @[q]]]

MarkAsDeleted(d, p) ==
    SetPosition([d EXCEPT !.trie[p].flag = "deleted"], d.trie[p].id, None)

(***************************************************************************)
(* Adding a word: what the dictionary becomes.                             *)
(***************************************************************************)
\* A first node of another array, chained to array a.
CreateAndInsert(d, a, parent, rest, e) ==
    WriteNewTerminal([d EXCEPT !.arrays[a] = Append(@, Len(d.trie) + 1)],
                     NewNode(parent, rest, None), e)

\* A first child for the node at p.
CreateChild(d, p, rest, e) ==
    WriteNewTerminal(
        WriteArray([d EXCEPT !.trie[p].children = Len(d.arrays) + 1],
                   <<Len(d.trie) + 1>>),
        NewNode(p, rest, None), e)

\* Faulty variant: the children of the node are linked to the place it has left.
SetProbabilityLeavingChildren(d, p, e) ==
    LET n == d.trie[p]
    IN IF IsTerminal(n) /\ n.flag # "deleted" THEN SetEntry(d, <<n.id>>, e)
       ELSE MarkAsMoved(WriteNewTerminal(d, [n EXCEPT !.flag = "plain"], e),
                        p, Len(d.trie) + 1, p)

\* The node at p is the word.  If it does not count as one, a copy of it
\* does; the copy of a removed word gets the id the word had.
SetProbability(d, p, e) ==
    LET n == d.trie[p]
    IN IF IsTerminal(n) /\ n.flag # "deleted" THEN SetEntry(d, <<n.id>>, e)
       ELSE MarkAsMoved(WriteNewTerminal(d, [n EXCEPT !.flag = "plain"], e),
                        p, Len(d.trie) + 1, Len(d.trie) + 1)

\* The node at p is split after its first j letters.  Its second part is
\* written as a plain node, whatever the flags of p were.
Reallocate(d, p, j, rest, e) ==
    LET n       == d.trie[p]
        first   == Len(d.trie) + 1
        second  == first + 1
        array   == Len(d.arrays) + 1
        head    == [NewNode(n.parent, SubSeq(n.chars, 1, j), None)
                        EXCEPT !.children = array]
        tail    == [n EXCEPT !.flag = "plain", !.parent = first,
                             !.chars = Skip(@, j)]
        ends    == Len(rest) = j
        writes1 == IF ends THEN WriteNewTerminal(d, head, e)
                   ELSE WritePtNode(d, head)
        writes2 == WritePtNode(writes1, tail)
        writes3 == IF ends THEN WriteArray(writes2, <<second>>)
                   ELSE WriteArray(
                            WriteNewTerminal(writes2,
                                NewNode(first, Skip(rest, j), None), e),
                            <<second, second + 1>>)
    IN MarkAsMoved(writes3, p, first, second)

CommonPrefixLength(s, t) ==
    Max({n \in 0..Min({Len(s), Len(t)}) : SubSeq(s, 1, n) = SubSeq(t, 1, n)})

\* From the root to the place of the word, and the change there.
AddedToTrie(d, w, e) ==
    LET add[at \in [array : DOMAIN d.arrays, parent : DOMAIN d.trie \cup {None},
                    read : 0..Len(w) - 1]] ==
            LET rest == Skip(w, at.read)
                p    == First(d, at.array,
                              LAMBDA q : Head(d.trie[q].chars) = Head(rest))
                n    == d.trie[p]
                j    == CommonPrefixLength(n.chars, rest)
            IN IF p = None THEN CreateAndInsert(d, at.array, at.parent, rest, e)
               ELSE IF j < Len(n.chars) THEN Reallocate(d, p, j, rest, e)
               ELSE IF j = Len(rest) THEN SetProbability(d, p, e)
               ELSE IF n.children = None
                   THEN CreateChild(d, p, Skip(rest, j), e)
               ELSE add[[array |-> n.children, parent |-> p, read |-> at.read + j]]
    IN add[[array |-> Root, parent |-> None, read |-> 0]]

IsFull(d) == Len(d.trie) >= SizeLimit

\* addUnigramEntry where it succeeds; it counts the words it adds.
AddUnigram(d, w, e) ==
    LET isNew == WordId(d, w) = None
    IN [AddedToTrie(d, w, e) EXCEPT !.count = IF isNew THEN @ + 1 ELSE @]

(***************************************************************************)
(* Garbage collection: what the dictionary becomes.                        *)
(***************************************************************************)
\* The first traversal visits the children before their parents and counts
\* in mChildrenValue the children a node keeps.  A node without children
\* does not reset it: it finds what its last sibling with children left.
Visited(d) ==
    LET visit[s \in UNION {{a} \X (0..Len(d.arrays[a])) : a \in DOMAIN d.arrays}] ==
            IF s[2] = 0 THEN [childrenValue |-> 0, keeps |-> FALSE]
            ELSE LET n     == d.trie[Siblings(d, s[1])[s[2]]]
                     value ==
                        IF n.children = None
                        THEN visit[<<s[1], s[2] - 1>>].childrenValue
                        ELSE Cardinality({j \in DOMAIN d.arrays[n.children] :
                                              visit[<<n.children, j>>].keeps})
                 IN [childrenValue |-> value,
                     keeps |-> \/ IsTerminal(n) /\ IsValidEntry(d, <<n.id>>)
                               \/ value > 0]
    IN visit

\* Where x comes among the numbers of S.
Rank(x, S) == Cardinality({y \in S : y <= x})

\* The kept nodes are copied to a new buffer, their ids and the language
\* model renumbered; a word without a valid entry becomes a mere node.
Copied(d) ==
    LET visited      == Visited(d)
        slots        == {s \in DOMAIN visited : s[2] # 0 /\ visited[s].keeps}
        kept         == {Siblings(d, s[1])[s[2]] : s \in slots}
        arrays       == {s[1] : s \in slots} \cup {Root}
        words        == {p \in kept : IsTerminal(d.trie[p])
                                        /\ IsValidEntry(d, <<d.trie[p].id>>)}
        ids          == {d.trie[p].id : p \in words}
        newId(id)    == Rank(id, ids) - 1
        newNode(p)   ==
            LET n == d.trie[p]
            IN [flag     |-> "plain",
                parent   |-> IF n.parent \in kept THEN Rank(n.parent, kept)
                             ELSE n.parent,
                chars    |-> n.chars,
                id       |-> IF p \in words THEN newId(n.id) ELSE None,
                children |-> IF n.children \in arrays
                             THEN Rank(n.children, arrays) ELSE None]
        at(S, r)     == CHOOSE x \in S : Rank(x, S) = r
        newArray(a)  ==
            LET ps == Siblings(d, a)
                is == {i \in DOMAIN ps : ps[i] \in kept}
            IN [r \in 1..Cardinality(is) |-> Rank(ps[at(is, r)], kept)]
        position(id) == CHOOSE p \in words : d.trie[p].id = id
        former(q)    == [i \in DOMAIN q |-> at(ids, q[i] + 1)]
        renamed(q)   == [i \in DOMAIN q |-> newId(q[i])]
        lasting      == {q \in DOMAIN d.lm : Range(q) \subseteq ids}
    IN [trie   |-> [r \in 1..Cardinality(kept) |-> newNode(at(kept, r))],
        arrays |-> [r \in 1..Cardinality(arrays) |-> newArray(at(arrays, r))],
        table  |-> [r \in 1..Cardinality(ids) |->
                       Rank(position(at(ids, r)), kept)],
        lm     |-> [q \in {renamed(x) : x \in lasting} |-> d.lm[former(q)]],
        count  |-> d.count]

\* The entries in old are removed first, and the unigrams counted, valid
\* or not.
Collected(d, old) ==
    LET gone(q)  == \E r \in old : IsPrefix(r, q)
        updated  == [d EXCEPT !.lm = Restrict(@, {q \in DOMAIN @ : ~gone(q)})]
        unigrams == {q \in DOMAIN updated.lm : Len(q) = 1}
    IN [Copied(updated) EXCEPT !.count = Cardinality(unigrams)]

(***************************************************************************)
(* What the caller may know of a dictionary.                               *)
(***************************************************************************)
Status(d, w) ==
    LET p == TerminalPtNodePositionOfWord(d, w)
        n == d.trie[p]
    IN IF p = None THEN "absent"
       ELSE IF n.flag = "deleted" THEN "removed"
       ELSE IF IsValidEntry(d, <<n.id>>) THEN d.lm[<<n.id>>] ELSE "ghost"

WordsOf(d, id) == {w \in Words : IdInTrie(d, w) = id}

View(d) ==
    [status |-> [w \in Words |-> Status(d, w)],
     pairs  |-> UNION {WordsOf(d, q[1]) \X WordsOf(d, q[2]) :
                    q \in {r \in DOMAIN d.lm : Len(r) = 2 /\ IsValidEntry(d, r)}}]

Becomes(d) ==
    /\ dict' = d
    /\ known' = View(d)
    /\ UNCHANGED historical

(***************************************************************************)
(* The operations of Ver4PatriciaTriePolicy.  One that fails changes       *)
(* nothing.  Entries with counts come only from updateEntriesForWord...,   *)
(* entries with probabilities only from add...                             *)
(***************************************************************************)
AddUnigramEntry(w) ==
    /\ ~historical /\ ~IsFull(dict)
    /\ Becomes(AddUnigram(dict, w, "used"))

\* Faulty variant: the word's entry stays, and the pairs it begins with it.
RemoveUnigramEntryOnly(w) ==
    LET id == WordId(dict, w)
        p  == Fetched(dict)[dict.table[id + 1]]
    IN id # None /\ Becomes([MarkAsDeleted(dict, p) EXCEPT !.count = @ - 1])

RemoveUnigramEntry(w) ==
    LET id     == WordId(dict, w)
        p      == Fetched(dict)[dict.table[id + 1]]
        counts == <<id>> \in DOMAIN dict.lm
    IN /\ id # None
       /\ Becomes([RemoveEntry(MarkAsDeleted(dict, p), <<id>>)
                       EXCEPT !.count = IF counts THEN @ - 1 ELSE @])

\* Faulty variant: that a word is not there is not noticed.
AddNgramEntryUnchecked(v, w) ==
    /\ ~historical /\ ~IsFull(dict)
    /\ Becomes(SetEntry(dict, <<WordId(dict, v), WordId(dict, w)>>, "used"))

AddNgramEntry(v, w) ==
    LET ids == <<WordId(dict, v), WordId(dict, w)>>
    IN /\ ~historical /\ ~IsFull(dict)
       /\ None \notin Range(ids)
       /\ Becomes(SetEntry(dict, ids, "used"))

RemoveNgramEntry(v, w) ==
    LET ids == <<WordId(dict, v), WordId(dict, w)>>
    IN /\ ~IsFull(dict)
       /\ None \notin Range(ids)
       /\ Becomes(RemoveEntry(dict, ids))

\* w was typed, after the word in before if there is one.  A new word is
\* only noted if it is in no other dictionary.
UpdateEntriesForWord(w, before, isValidWord) ==
    LET isNew == WordId(dict, w) = None
        noted == IF isNew THEN AddUnigram(dict, w, "seen") ELSE dict
        id    == WordId(noted, w)
        used  == SetEntry(noted, <<id>>, "used")
        prev  == {WordId(noted, v) : v \in before} \ {None}
    IN /\ historical
       /\ isNew => ~IsFull(dict)
       /\ Becomes(IF isNew /\ ~isValidWord THEN noted
                  ELSE IF prev = {} THEN used
                  ELSE SetEntry(used, <<CHOOSE i \in prev : TRUE, id>>, "used"))

\* flushWithGC, and opening what it wrote.
FlushWithGC ==
    LET aging == {q \in DOMAIN dict.lm : historical /\ IsValidEntry(dict, q)}
    IN \E old \in UNION {kSubset(n, aging) : n \in 0..MaxOld} :
           Becomes(Collected(dict, old))

Next ==
    \/ \E w \in Words : AddUnigramEntry(w) \/ RemoveUnigramEntry(w)
    \/ \E p \in Pairs : AddNgramEntry(p[1], p[2]) \/ RemoveNgramEntry(p[1], p[2])
    \/ \E w \in Words, isValidWord \in BOOLEAN :
        \E before \in {{}} \cup {{p[1]} : p \in {q \in Pairs : q[2] = w}} :
            UpdateEntriesForWord(w, before, isValidWord)
    \/ FlushWithGC

Spec == Init /\ [][Next]_vars

(***************************************************************************)
(* Correctness.                                                            *)
(***************************************************************************)
PtNodes(d) ==
    [flag     : {"plain", "moved", "deleted"},
     parent   : DOMAIN d.trie \cup {None},
     chars    : (UNION {{Skip(SubSeq(w, 1, n), k) :
                           n \in 1..Len(w), k \in 0..Len(w) - 1} : w \in Words})
                    \ {<<>>},
     id       : 0..Len(d.table) - 1 \cup {None},
     children : DOMAIN d.arrays \cup {None}]

\* The buffers hold what their readers expect: no link, array, position or
\* id leads out of them (DynamicPtReadingHelper would report an error and
\* the dictionary would be taken for corrupted).
DictTypeOK ==
    /\ Range(dict.trie) \subseteq PtNodes(dict)
    /\ UNION {Range(dict.arrays[a]) : a \in DOMAIN dict.arrays}
            \subseteq DOMAIN dict.trie
    /\ Range(dict.table) \subseteq DOMAIN dict.trie \cup {None}
    /\ \A q \in DOMAIN dict.lm :
        /\ Range(q) \subseteq 0..Len(dict.table) - 1
        /\ dict.lm[q] \in {"placeholder", "seen", "used"}
    /\ historical \in BOOLEAN

\* A word and its id lead to each other, one through the trie from its
\* root, the other through the table and the parents of the nodes, however
\* often the nodes have been split, copied and collected.
IdsLeadBack ==
    /\ \A w \in Words : LET id == WordId(dict, w)
                         IN id # None => CodePoints(dict, id) = w
    /\ \A id \in 0..Len(dict.table) - 1 :
          LET w == CodePoints(dict, id)
          IN w # <<>> => w \in Words /\ WordId(dict, w) = id

\* Every node is in one array, its letters branch off from those of its
\* siblings, and its parent is the node that has the array: no word can be
\* hidden by another one.
TreeOK ==
    LET d == dict
        parents(a) == {p \in DOMAIN d.trie :
                          /\ d.trie[p].flag # "moved" /\ d.trie[p].children = a}
    IN \A a \in DOMAIN d.arrays :
        /\ \A i, j \in DOMAIN d.arrays[a] :
              Head(d.trie[Siblings(d, a)[i]].chars) = Head(d.trie[Siblings(d, a)[j]].chars)
                  => i = j
        /\ Cardinality(parents(a)) = (IF a = Root THEN 0 ELSE 1)
        /\ \A i \in DOMAIN d.arrays[a] :
              d.trie[Siblings(d, a)[i]].parent \in
                  (IF a = Root THEN {None} ELSE parents(a))

Store ==
    INSTANCE WordStore WITH
        Entries <- {"seen", "used"}, status <- known.status, pairs <- known.pairs

\* The trie, the table and the language model together are a store of
\* words: no operation changes what is known of another word, except that
\* splitting the node of a removed word makes that word known again.
ImplementsStore == Store!Spec

\* What the comment on the traversal says of garbage collection: a node
\* that is neither a word nor on the way to one is gone after it.
NoUselessNode ==
    [][FlushWithGC =>
        \A p \in DOMAIN dict'.trie :
            IsTerminal(dict'.trie[p]) \/ dict'.trie[p].children # None]_vars
=============================================================================
