------------------------------ MODULE WordStore ------------------------------
(***************************************************************************)
(* What a dictionary that can be changed promises its caller: words with   *)
(* their entries and pairs of words (bigrams), nothing of how they are     *)
(* stored.  PatriciaTrie implements it.                                    *)
(***************************************************************************)
EXTENDS Sequences, SequencesExt, FiniteSets

CONSTANTS
    Words,          \* the words, as sequences of letters
    Entries         \* what can be known of a word: "seen", "used"

(***************************************************************************)
(* A word that was removed may become known again, without an entry, when  *)
(* another word is added that branches off inside its last letters: it     *)
(* is then found, but it has no probability.                               *)
(***************************************************************************)
States == {"absent", "removed", "ghost"} \cup Entries

VARIABLES
    status,         \* what the dictionary knows of each word
    pairs           \* the pairs of words it has an entry of

vars == <<status, pairs>>

Init ==
    /\ status = [w \in Words |-> "absent"]
    /\ pairs = {}

Known(s, w) == s[w] \in Entries \cup {"ghost"}

\* u and w begin with the same letter, and u is no prefix of w.
BranchesOff(u, w) == Head(u) = Head(w) /\ ~IsPrefix(u, w)

(***************************************************************************)
(* The operations: s and ps are the status and the pairs before, t and qs  *)
(* those after.                                                            *)
(***************************************************************************)
\* One word and its entry: nothing changes but the words that branch off.
Add(w, e, s, t) ==
    \E ghosts \in SUBSET {u \in Words : s[u] = "removed" /\ BranchesOff(u, w)} :
        t = [u \in Words |-> IF u = w THEN e
                             ELSE IF u \in ghosts THEN "ghost" ELSE s[u]]

AddWord(w, e, s, ps, t, qs) == qs = ps /\ Add(w, e, s, t)

\* Learning that w was typed after the word in before, if there is one.
Learn(w, before, s, ps, t, qs) ==
    /\ Add(w, "used", s, t)
    /\ qs = ps \cup {<<v, w>> : v \in {u \in before : Known(t, u)}}

AddPair(v, w, s, ps, t, qs) ==
    /\ t = s
    /\ Known(s, v) /\ Known(s, w)
    /\ qs = ps \cup {<<v, w>>}

RemovePair(v, w, s, ps, t, qs) ==
    /\ t = s
    /\ Known(s, v) /\ Known(s, w)
    /\ qs = ps \ {<<v, w>>}

\* With a word go the pairs it begins.  A pair it ends is only hidden: it is
\* there again if the word is added before a garbage collection.
Forget(w, s, ps, t, qs) ==
    /\ t = [s EXCEPT ![w] = "removed"]
    /\ Known(s, w)
    /\ qs = {p \in ps : p[1] # w}

\* Garbage collection may forget words and pairs that are old; of the words
\* that have no entry nothing is left.
Collect(s, ps, t, qs) ==
    \E kept \in SUBSET {w \in Words : s[w] \in Entries} :
        /\ t = [w \in Words |-> IF w \in kept THEN s[w] ELSE "absent"]
        /\ qs \subseteq ps \cap (kept \X kept)

Next ==
    \E s \in {status}, ps \in {pairs}, t \in {status'}, qs \in {pairs'} :
        \/ \E v, w \in Words :
              AddPair(v, w, s, ps, t, qs) \/ RemovePair(v, w, s, ps, t, qs)
        \/ \E w \in Words : Forget(w, s, ps, t, qs)
        \/ \E w \in Words, e \in Entries : AddWord(w, e, s, ps, t, qs)
        \/ \E w \in Words, before \in {{}} \cup {{v} : v \in Words} :
              Learn(w, before, s, ps, t, qs)
        \/ Collect(s, ps, t, qs)

Spec == Init /\ [][Next]_vars
=============================================================================
