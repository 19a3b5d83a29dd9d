------------------------------ MODULE NestedMap ------------------------------
(***************************************************************************)
(* What the native dictionary expects of its language model content        *)
(* (structure/v4/content/language_model_dict_content.cpp): a map from word *)
(* ids to entries in which every entry may have a map of its own below it. *)
(* An n-gram is the path of its word ids, the nearest previous word first. *)
(***************************************************************************)
EXTENDS Naturals, Sequences, SequencesExt, FiniteSets, Functions

CONSTANTS
    Keys,           \* word ids
    Values,         \* encoded probability entries
    NotValid,       \* the placeholder entry, ProbabilityEntry()
    Depth           \* how many words an n-gram has at most

Paths == UNION {[1..n -> Keys] : n \in 1..Depth}

Halved(v) == v \div 2

VARIABLES
    map,            \* the entries that exist: a function on a set of paths
    call            \* the last call and the answer the caller got

vars == <<map, call>>

NoCall == <<"none">>
SetCall(p, v, ok)   == <<"set", p, v, ok>>
RemoveCall(p, ok)   == <<"remove", p, ok>>
GCCall(old, halves) == <<"gc", old, halves>>

\* An empty dictionary.
Init ==
    /\ map = [p \in {} |-> NotValid]
    /\ call = NoCall

ProperPrefixes(p) == {SubSeq(p, 1, n) : n \in 1..Len(p) - 1}

\* The map with a placeholder at every path of ps that has no entry.
WithPlaceholders(m, ps) ==
    [q \in DOMAIN m \cup ps |-> IF q \in DOMAIN m THEN m[q] ELSE NotValid]

\* The operations, as the map they make of the map m.
\* Setting an entry creates the entries on the way to it.
SetEntry(m, p, v) ==
    LET grown == WithPlaceholders(m, ProperPrefixes(p) \cup {p})
    IN [grown EXCEPT ![p] = v]

\* When the buffer is full the entry is not set; the first n entries on the
\* way to it may have been created.
SetFails(m, p, n) == WithPlaceholders(m, {SubSeq(p, 1, i) : i \in 1..n})

\* Removing an entry removes everything below it.
RemoveEntry(m, p) == Restrict(m, {q \in DOMAIN m : ~IsPrefix(p, q)})

\* Garbage collection drops the entries that are too old (or whose count
\* becomes 0 when the counters are halved) and every n-gram in which a word
\* without a valid entry of its own takes part, and renumbers the words that
\* remain in their order.
GC(m, old, halves) ==
    LET dies(v)     == v # NotValid /\ (v \in old \/ (halves /\ Halved(v) = 0))
        kept        == {k \in Keys : /\ <<k>> \in DOMAIN m
                                     /\ m[<<k>>] # NotValid
                                     /\ ~dies(m[<<k>>])}
        survives(p) == /\ ToSet(p) \subseteq kept
                       /\ \A n \in 1..Len(p) : ~dies(m[SubSeq(p, 1, n)])
        newId(k)    == Cardinality({j \in kept : j < k})
        oldId(i)    == CHOOSE k \in kept : newId(k) = i
        former(q)   == [i \in DOMAIN q |-> oldId(q[i])]
        renamed(p)  == [i \in DOMAIN p |-> newId(p[i])]
        value(v)    == IF halves /\ v # NotValid THEN Halved(v) ELSE v
    IN [q \in {renamed(p) : p \in {p \in DOMAIN m : survives(p)}} |->
           value(m[former(q)])]

\* m and n are the map before and after.
Next ==
    \E m \in {map}, n \in {map'} :
        \/ \E p \in Paths, v \in Values :
            /\ call' = SetCall(p, v, TRUE)
            /\ n = SetEntry(m, p, v)
        \/ \E p \in Paths, v \in Values, i \in 0..Depth - 1 :
            /\ call' = SetCall(p, v, FALSE)
            /\ i < Len(p)
            /\ n = SetFails(m, p, i)
        \/ \E p \in Paths :
            /\ call' = RemoveCall(p, p \in DOMAIN m)
            /\ n = RemoveEntry(m, p)
        \/ \E old \in SUBSET Values, halves \in BOOLEAN :
            /\ call' = GCCall(old, halves)
            /\ n = GC(m, old, halves)

Spec == Init /\ [][Next]_vars

=============================================================================
