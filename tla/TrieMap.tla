------------------------------- MODULE TrieMap -------------------------------
(***************************************************************************)
(* utils/trie_map.cpp: a hash array mapped trie in one growing array of    *)
(* entries, with freed tables kept on lists by size, and the operations    *)
(* structure/v4/content/language_model_dict_content.cpp performs on it.    *)
(* An entry has two fields; the second says what the first one is:         *)
(*   flag "table"  bitmap entry: data0 the labels present, data1 where the *)
(*                 table of their entries starts                           *)
(*   flag "value"  terminal entry: data0 the key, data1 the value          *)
(*   flag "link"   terminal entry: data0 the key, data1 where its value    *)
(*                 entry is; the bitmap entry of its next level follows it *)
(* A value entry holds the value in data1 (the code splits it over both).  *)
(***************************************************************************)
EXTENDS TrieKey, Integers, Sequences, SequencesExt, FiniteSets, TLC

CONSTANTS
    Keys, Values, NotValid, Depth,
    VALUE_MASK,     \* values below it fit in a terminal entry
    NGrams,         \* bound of the model: the n-grams that are set and removed
    MaxEntries,     \* where the buffer ends: MAX_BUFFER_SIZE
    MaxOps          \* bound of the model: operations performed

ASSUME TrieMapAssumption ==
    /\ Keys \subseteq Nat /\ IsFiniteSet(Keys)
    /\ \A k \in Keys : 0..k \subseteq Keys    \* runGC renumbers
    /\ Depth \in Nat \ {0}
    /\ Values \subseteq Nat /\ NotValid \in Values
    /\ VALUE_MASK \in Nat /\ MaxEntries \in Nat \ {0} /\ MaxOps \in Nat

INVALID_INDEX == -1
ROOT_BITMAP_ENTRY_INDEX == 0
TERMINAL_LINKED_ENTRY_COUNT == 2
MAX_NUM_OF_ENTRIES_IN_ONE_LEVEL == 2^NUM_OF_BITS_USED_FOR_ONE_LEVEL
Levels == 0..6
INVALID_VALUE_IN_KEY_VALUE_ENTRY == VALUE_MASK

Entry(data0, flag, data1) == [data0 |-> data0, flag |-> flag, data1 |-> data1]
EMPTY_BITMAP_ENTRY == Entry({}, "table", 0)

VARIABLES
    buffer,         \* mBuffer: its entries and the heads of the free lists
    call,           \* the last call and the answer the caller got
    stored,         \* history: the entries that can be found in the buffer
    ops             \* operations performed

vars == <<buffer, call, stored, ops>>

(***************************************************************************)
(* The buffer.  Every operation maps a buffer to a result: whether it      *)
(* succeeded, the buffer it leaves, and an index where it returns one.     *)
(***************************************************************************)
Ok(b, index)   == [ok |-> TRUE, b |-> b, index |-> index]
Failed(b)      == [ok |-> FALSE, b |-> b, index |-> INVALID_INDEX]

\* Op of the value x, which is computed once.
With(x, Op(_)) == CHOOSE r \in {Op(y) : y \in {x}} : TRUE
IfOk(r, Op(_)) == With(r, LAMBDA s : IF s.ok THEN Op(s) ELSE s)

\* A new TrieMap: the root bitmap entry and empty free lists.
NewBuffer ==
    [entries |-> [i \in {ROOT_BITMAP_ENTRY_INDEX} |-> EMPTY_BITMAP_ENTRY],
     free    |-> [n \in 1..MAX_NUM_OF_ENTRIES_IN_ONE_LEVEL |-> 0]]

Write(b, i, entry) == [b EXCEPT !.entries[i] = entry]

FreeTable(b, index, count) ==
    [b EXCEPT !.entries[index].data0 = b.free[count], !.free[count] = index]

\* Faulty variant: the limit is checked before the table is added to it.
ExtendBeyond(b, count) ==
    LET tail == Cardinality(DOMAIN b.entries)
    IN IF tail < MaxEntries
       THEN Ok([b EXCEPT !.entries =
                   @ @@ [i \in tail..tail + count - 1 |-> EMPTY_BITMAP_ENTRY]],
               tail)
       ELSE Failed(b)

\* Room at the end of the buffer (BufferWithExtendableBuffer::extend).
Extend(b, count) ==
    LET tail == Cardinality(DOMAIN b.entries)
    IN IF tail + count <= MaxEntries
       THEN Ok([b EXCEPT !.entries =
                   @ @@ [i \in tail..tail + count - 1 |-> EMPTY_BITMAP_ENTRY]],
               tail)
       ELSE Failed(b)

\* Faulty variant: the table that is reused stays on its list.
AllocateTableAndKeep(b, count) ==
    IF b.free[count] > 0 THEN Ok(b, b.free[count]) ELSE Extend(b, count)

AllocateTable(b, count) ==
    LET head == b.free[count]
    IN IF head > 0
       THEN Ok([b EXCEPT !.free[count] = b.entries[head].data0], head)
       ELSE Extend(b, count)

LabelOf == [k \in Keys |-> [l \in Levels |-> Label(Shuffled(BitsOf(k)), l)]]

\* How many of the labels come before one of them in the table.
Before(bitmap, label) == Cardinality({l \in bitmap : l < label})

\* Where the table of a bitmap entry has the entry of a label.
Slot(b, at, label) ==
    IF label \in b.entries[at].data0
    THEN b.entries[at].data1 + Before(b.entries[at].data0, label)
    ELSE INVALID_INDEX

IsBitmapEntry(e) == e.flag = "table"
IsValidTerminalEntry(e) ==
    e.flag = "link" \/ e.data1 # INVALID_VALUE_IN_KEY_VALUE_ENTRY

\* getTerminalEntryIndex, from the bitmap entry at an index
TerminalIndex(b, key, bitmapIndex) ==
    LET find[at \in DOMAIN b.entries, level \in Levels] ==
          With(Slot(b, at, LabelOf[key][level]), LAMBDA index :
            IF index = INVALID_INDEX THEN INVALID_INDEX
            ELSE IF IsBitmapEntry(b.entries[index]) THEN find[index, level + 1]
            ELSE IF /\ IsValidTerminalEntry(b.entries[index])
                    /\ b.entries[index].data0 = key
                 THEN index ELSE INVALID_INDEX)
    IN IF bitmapIndex = INVALID_INDEX THEN INVALID_INDEX ELSE find[bitmapIndex, 0]

NotFound == [valid |-> FALSE, value |-> NotValid, next |-> INVALID_INDEX]

\* get: what the bitmap at an index holds for a key
Get(b, key, bitmapIndex) ==
    With(TerminalIndex(b, key, bitmapIndex), LAMBDA index :
      IF index = INVALID_INDEX THEN NotFound
      ELSE IF b.entries[index].flag = "link"
      THEN [valid |-> TRUE, value |-> b.entries[b.entries[index].data1].data1,
            next |-> b.entries[index].data1 + 1]
      ELSE [valid |-> TRUE, value |-> b.entries[index].data1,
            next |-> INVALID_INDEX])

\* A value entry, the empty bitmap of the next level behind it, and the link
\* from the terminal entry.
LinkValueEntry(b, index, value) ==
    IfOk(AllocateTable(b, TERMINAL_LINKED_ENTRY_COUNT),
         LAMBDA r :
           LET v  == Write(r.b, r.index, Entry(0, "table", value))
               nx == Write(v, r.index + 1, EMPTY_BITMAP_ENTRY)
           IN Ok(Write(nx, index, Entry(b.entries[index].data0, "link", r.index)),
                 r.index + 1))

WriteValue(b, index, value) ==
    IF value < VALUE_MASK
    THEN Ok(Write(b, index, Entry(b.entries[index].data0, "value", value)), index)
    ELSE LinkValueEntry(b, index, value)

UpdateValue(b, index, value) ==
    IF b.entries[index].flag = "link"
    THEN Ok(Write(b, b.entries[index].data1, Entry(0, "table", value)), index)
    ELSE WriteValue(b, index, value)

WriteTerminalEntry(b, key, value, index) ==
    WriteValue([b EXCEPT !.entries[index].data0 = key], index, value)

\* Faulty variant: the new entry is written behind the others, whatever its
\* label.
AppendToTable(b, key, value, bitmapIndex, label) ==
    LET bitmap == b.entries[bitmapIndex].data0
        old    == b.entries[bitmapIndex].data1
        count  == Cardinality(bitmap)
    IN IfOk(AllocateTable(b, count + 1),
            LAMBDA r :
              LET copied == [r.b EXCEPT !.entries = [i \in DOMAIN @ |->
                                IF i \in r.index..r.index + count - 1
                                THEN b.entries[old + i - r.index] ELSE @[i]]]
              IN IfOk(WriteTerminalEntry(copied, key, value, r.index + count),
                      LAMBDA w : Ok(Write(w.b, bitmapIndex,
                                          Entry(bitmap \cup {label}, "table", r.index)),
                                    r.index)))

\* addNewEntryByExpandingTable: copy the table into a larger one
ExpandTable(b, key, value, bitmapIndex, label) ==
    LET bitmap == b.entries[bitmapIndex].data0
        old    == b.entries[bitmapIndex].data1
        count  == Cardinality(bitmap)
        at     == Before(bitmap, label)
        Copied(r) ==
            [r.b EXCEPT !.entries = [i \in DOMAIN @ |->
                CASE i \in r.index..r.index + at - 1 ->
                       b.entries[old + i - r.index]
                  [] i \in r.index + at + 1..r.index + count ->
                       b.entries[old + i - r.index - 1]
                  [] OTHER -> @[i]]]
        Linked(r, table) ==
            Write(r.b, bitmapIndex, Entry(bitmap \cup {label}, "table", table))
        Freed(c) == IF count > 0 THEN FreeTable(c, old, count) ELSE c
    IN IfOk(AllocateTable(b, count + 1),
            LAMBDA r :
              IfOk(WriteTerminalEntry(Copied(r), key, value, r.index + at),
                   LAMBDA w : Ok(Freed(Linked(w, r.index)), r.index)))

\* putInternal: down the bitmap entries that have the label, to the one that
\* has not or to a terminal entry.
Place(b, key, bitmapIndex) ==
    LET down[at \in DOMAIN b.entries, level \in Levels] ==
          With(Slot(b, at, LabelOf[key][level]), LAMBDA index :
            IF index # INVALID_INDEX /\ IsBitmapEntry(b.entries[index])
            THEN down[index, level + 1]
            ELSE [at |-> at, level |-> level, index |-> index])
    IN down[bitmapIndex, 0]

\* addNewEntryByResolvingConflict: the entry of another key moves down, alone
\* through the levels where the two have the same label, and then beside the
\* new one.
ResolveConflict(b, key, value, place) ==
    LET found == b.entries[place.index]
        mine  == LabelOf[key]
        its   == LabelOf[found.data0]
        level == Min({l \in Levels : l > place.level /\ mine[l] # its[l]})
        first == IF mine[level] < its[level] THEN 0 ELSE 1
        Alone(r, l) ==
            IfOk(r, LAMBDA c :
              IfOk(AllocateTable(c.b, 1), LAMBDA t :
                Ok(Write(Write(t.b, t.index, found), c.index,
                         Entry({its[l]}, "table", t.index)), t.index)))
        Beside(c) ==
            IfOk(AllocateTable(c.b, 2), LAMBDA t :
              IfOk(WriteTerminalEntry(Write(t.b, t.index + 1 - first, found),
                                      key, value, t.index + first),
                   LAMBDA w : Ok(Write(w.b, c.index,
                                       Entry({mine[level], its[level]}, "table",
                                             t.index)), t.index)))
    IN IfOk(FoldLeft(Alone, Ok(b, place.index),
                     [n \in 1..level - place.level - 1 |-> place.level + n]),
            Beside)

PutAt(b, key, value, place) ==
    LET found == b.entries[place.index]
    IN CASE place.index = INVALID_INDEX ->
              ExpandTable(b, key, value, place.at, LabelOf[key][place.level])
         [] place.index # INVALID_INDEX /\ ~IsValidTerminalEntry(found) ->
              WriteTerminalEntry(b, key, value, place.index)
         [] place.index # INVALID_INDEX /\ IsValidTerminalEntry(found)
              /\ found.data0 = key ->
              UpdateValue(b, place.index, value)
         [] OTHER -> ResolveConflict(b, key, value, place)

Put(b, key, value, bitmapIndex) ==
    With(Place(b, key, bitmapIndex), LAMBDA place : PutAt(b, key, value, place))

\* Faulty variant: the value stays behind when the level is made.
NextLevelWithoutValue(b, key, bitmapIndex) ==
    With(TerminalIndex(b, key, bitmapIndex), LAMBDA index :
      IF index = INVALID_INDEX THEN Failed(b)
      ELSE IF b.entries[index].flag = "link" THEN Ok(b, b.entries[index].data1 + 1)
      ELSE LinkValueEntry(b, index, 0))

\* getNextLevelBitmapEntryIndex: made on demand
NextLevel(b, key, bitmapIndex) ==
    With(TerminalIndex(b, key, bitmapIndex), LAMBDA index :
      IF index = INVALID_INDEX THEN Failed(b)
      ELSE IF b.entries[index].flag = "link" THEN Ok(b, b.entries[index].data1 + 1)
      ELSE LinkValueEntry(b, index, b.entries[index].data1))

Invalidated(b, index) ==
    [b EXCEPT !.entries[index].flag = "value",
              !.entries[index].data1 = INVALID_VALUE_IN_KEY_VALUE_ENTRY]

\* The terminal entries below a bitmap entry, in the order of the tables; with
\* those of the next levels if deep.
TerminalsBelow(b, bitmapIndex, deep) ==
    LET below[at \in DOMAIN b.entries] ==
          FlattenSeq([n \in 1..Cardinality(b.entries[at].data0) |->
            LET index == b.entries[at].data1 + n - 1
            IN CASE IsBitmapEntry(b.entries[index]) -> below[index]
                 [] b.entries[index].flag = "link" /\ deep ->
                      <<index>> \o below[b.entries[index].data1 + 1]
                 [] OTHER -> <<index>>])
    IN IF bitmapIndex = INVALID_INDEX THEN <<>> ELSE below[bitmapIndex]

\* removeInner: invalidate all below a bitmap entry; the value and bitmap
\* entries are freed, the tables are not.
RemoveInner(b, bitmapIndex) ==
    FoldLeft(LAMBDA c, index :
               IF c.entries[index].flag = "link"
               THEN FreeTable(Invalidated(c, index), c.entries[index].data1,
                              TERMINAL_LINKED_ENTRY_COUNT)
               ELSE Invalidated(c, index),
             b, TerminalsBelow(b, bitmapIndex, TRUE))

RemoveKey(b, key, bitmapIndex) ==
    With(TerminalIndex(b, key, bitmapIndex), LAMBDA index :
      IF index = INVALID_INDEX THEN Failed(b)
      ELSE IF b.entries[index].flag = "link"
      THEN Ok(RemoveInner(FreeTable(Invalidated(b, index), b.entries[index].data1,
                                    TERMINAL_LINKED_ENTRY_COUNT),
                          b.entries[index].data1 + 1),
              index)
      ELSE Ok(Invalidated(b, index), index))

\* iterateNext, to the end: the keys a level holds, in table order
KeysAt(b, bitmapIndex) ==
    LET valid(index) == IsValidTerminalEntry(b.entries[index])
        found == SelectSeq(TerminalsBelow(b, bitmapIndex, FALSE), valid)
    IN [n \in DOMAIN found |-> b.entries[found[n]].data0]

(***************************************************************************)
(* language_model_dict_content.cpp.  An n-gram is the path of its word     *)
(* ids: the previous words, the nearest first, then the word itself.       *)
(***************************************************************************)
Paths == UNION {[1..n -> Keys] : n \in 1..Depth}

PrevWords(p) == Front(p)
Word(p) == Last(p)

\* createAndGetBitmapEntryIndex: placeholders for the previous words that have
\* no entry, next levels for those that have none.
CreateBitmapEntry(b, prevWords) ==
    LET Step(r, key) ==
          LET found == Get(r.b, key, r.index)
              placed == IF found.valid THEN Ok(r.b, r.index)
                        ELSE Put(r.b, key, NotValid, r.index)
          IN IF found.next # INVALID_INDEX THEN Ok(r.b, found.next)
             ELSE IfOk(placed, LAMBDA c : NextLevel(c.b, key, r.index))
    IN FoldLeft(LAMBDA r, key : IF r.ok THEN Step(r, key) ELSE r,
                Ok(b, ROOT_BITMAP_ENTRY_INDEX), prevWords)

\* getBitmapEntryIndex: the last previous word may have no next level.
BitmapEntryOf(b, prevWords) ==
    FoldLeft(LAMBDA r, key :
               LET found == Get(b, key, r.index)
               IN CASE ~r.ok -> r
                    [] r.ok /\ ~found.valid -> Failed(b)
                    [] OTHER -> Ok(b, found.next),
             Ok(b, ROOT_BITMAP_ENTRY_INDEX), prevWords)

\* getNgramProbabilityEntry; an entry that is not found is a placeholder
NgramEntry(b, p) ==
    With(BitmapEntryOf(b, PrevWords(p)), LAMBDA level :
      IF level.index = INVALID_INDEX THEN NotFound
      ELSE Get(b, Word(p), level.index))

SetNgram(b, p, value) ==
    IfOk(CreateBitmapEntry(b, PrevWords(p)),
         LAMBDA r : Put(r.b, Word(p), value, r.index))

RemoveNgram(b, p) ==
    LET level == BitmapEntryOf(b, PrevWords(p))
    IN IF level.index = INVALID_INDEX THEN Failed(b)
       ELSE RemoveKey(b, Word(p), level.index)

\* The level below an n-gram; that of the empty one is the root.
LevelBelow(b, p) ==
    IF p = <<>> THEN ROOT_BITMAP_ENTRY_INDEX ELSE NgramEntry(b, p).next

\* The n-grams a walk over the levels meets, each before those below it.
NgramsInOrder(b) ==
    LET below[p \in Paths \cup {<<>>}] ==
          With(KeysAt(b, LevelBelow(b, p)), LAMBDA keys :
            FlattenSeq([n \in DOMAIN keys |->
              <<Append(p, keys[n])>> \o below[Append(p, keys[n])]]))
    IN below[<<>>]

\* updateAllProbabilityEntriesForGCInner.  What the loop changes is only the
\* entry it is at and what is below it, so the walk is planned beforehand and
\* passes over what has gone.
UpdateEntry(c, p, e, old, halves) ==
    LET isValid == e.valid /\ e.value # NotValid
        orphan  == Len(p) > 1 /\ ~Get(c, Word(p), ROOT_BITMAP_ENTRY_INDEX).valid
        expired == e.value \in old \/ (halves /\ e.value \div 2 = 0)
    IN CASE ~isValid -> c
         [] isValid /\ (orphan \/ expired) -> RemoveNgram(c, p).b
         [] OTHER -> IF halves
                     THEN Put(c, Word(p), e.value \div 2,
                              BitmapEntryOf(c, PrevWords(p)).index).b
                     ELSE c

UpdateAll(b, old, halves) ==
    With(NgramsInOrder(b), LAMBDA order :
      FoldLeft(LAMBDA c, p :
                 With(NgramEntry(c, p),
                      LAMBDA e : UpdateEntry(c, p, e, old, halves)),
               b, order))

\* terminalIdMap (runGCTerminalIds): the words that keep their trie node, those
\* with a valid entry of their own, get the numbers 0, 1, .. in their order.
TerminalIdMap(b) ==
    LET kept == {k \in Keys : LET e == Get(b, k, ROOT_BITMAP_ENTRY_INDEX)
                              IN e.valid /\ e.value # NotValid}
    IN [k \in kept |-> Cardinality({j \in kept : j < k})]

\* runGCInner: copy what remains into the map of the new dictionary.
CopyForGC(b, idMap) ==
    LET Copied(new, p, e) ==
          With(BitmapEntryOf(new, PrevWords(p)).index, LAMBDA level :
            IfOk(Put(new, Word(p), e.value, level), LAMBDA c :
              IF e.next = INVALID_INDEX THEN c ELSE NextLevel(c.b, Word(p), level)))
        Step(r, p) ==
          IF ToSet(p) \subseteq DOMAIN idMap
          THEN IfOk(r, LAMBDA c :
                 With([n \in DOMAIN p |-> idMap[p[n]]], LAMBDA q :
                   With(NgramEntry(b, p), LAMBDA e : Copied(c.b, q, e))))
          ELSE r
    IN With(NgramsInOrder(b), LAMBDA order :
         FoldLeft(Step, Ok(NewBuffer, ROOT_BITMAP_ENTRY_INDEX), order))

RunGC(b, old, halves) ==
    With(UpdateAll(b, old, halves), LAMBDA c :
      With(TerminalIdMap(c), LAMBDA idMap : CopyForGC(c, idMap)))

-----------------------------------------------------------------------------
\* The entries that can be found, and their values: the map of NestedMap.
Stored(b) ==
    [p \in {p \in Paths : NgramEntry(b, p).valid} |-> NgramEntry(b, p).value]

Abstract == INSTANCE NestedMap WITH map <- stored

\* The buffer an operation leaves, and what can be found in it.
Becomes(b) ==
    /\ buffer' = b
    /\ stored' = Stored(buffer')

Init ==
    /\ buffer = NewBuffer
    /\ call = Abstract!NoCall
    /\ stored = Stored(buffer)
    /\ ops = 0

Counted == ops < MaxOps /\ ops' = ops + 1

\* setNgramProbabilityEntry; when it fails the caller gets false and the
\* buffer keeps what was written.
setNgramProbabilityEntry(p, value) ==
    /\ Counted
    /\ \E r \in {SetNgram(buffer, p, value)} :
          /\ Becomes(r.b)
          /\ call' = Abstract!SetCall(p, value, r.ok)

removeNgramProbabilityEntry(p) ==
    /\ Counted
    /\ \E r \in {RemoveNgram(buffer, p)} :
          /\ Becomes(r.b)
          /\ call' = Abstract!RemoveCall(p, r.ok)

\* A garbage collection that finds room for the new map.  (When it does not
\* the dictionary is marked as corrupted and is not used any more.)
runGC(old, halves) ==
    /\ Counted
    /\ \E r \in {RunGC(buffer, old, halves)} :
          /\ r.ok
          /\ Becomes(r.b)
          /\ call' = Abstract!GCCall(old, halves)

Next ==
    \/ \E p \in NGrams, value \in Values \ {NotValid} :
           setNgramProbabilityEntry(p, value)
    \/ \E p \in NGrams : removeNgramProbabilityEntry(p)
    \/ \E v \in Values, halves \in BOOLEAN : runGC({v} \ {NotValid}, halves)

Spec == Init /\ [][Next]_vars

-----------------------------------------------------------------------------
(***************************************************************************)
(* Properties                                                              *)
(***************************************************************************)
\* The trie promises what NestedMap says: every operation on it (conflicts,
\* reused tables, full buffer and garbage collection included) changes the
\* entries of the n-grams it names, and of no other, and says so to its caller.
Implements == Abstract!Spec

\* The entries in use, each a first index and a count: the root, and below a
\* bitmap entry its table and the pairs its terminal entries link to.
TablesBelow(b, bitmapIndex) ==
    LET below[at \in DOMAIN b.entries] ==
          LET first == b.entries[at].data1
              count == Cardinality(b.entries[at].data0)
              Of(i) ==
                CASE b.entries[i].flag = "table" -> below[i]
                  [] b.entries[i].flag = "link" ->
                       {<<i, b.entries[i].data1, TERMINAL_LINKED_ENTRY_COUNT>>}
                       \cup below[b.entries[i].data1 + 1]
                  [] OTHER -> {}
          IN IF count = 0 THEN {}
             ELSE {<<INVALID_INDEX, first, count>>}
                  \cup UNION {Of(i) : i \in first..first + count - 1}
    IN below[bitmapIndex]

FreeFrom(b, head) ==
    LET chain[i \in DOMAIN b.entries, n \in 0..Cardinality(DOMAIN b.entries)] ==
          IF i = 0 \/ n = 0 THEN {} ELSE {i} \cup chain[b.entries[i].data0, n - 1]
    IN chain[head, Cardinality(DOMAIN b.entries)]

FreeTables(b) ==
    UNION {{<<INVALID_INDEX, i, n>> : i \in FreeFrom(b, b.free[n])}
           : n \in DOMAIN b.free}

Spanned(t) == t[2]..t[2] + t[3] - 1

\* No entry belongs to two tables, and none that is in use is on a free list:
\* allocateTable can hand out a freed table without losing an n-gram.
TablesDisjoint ==
    LET used == {<<INVALID_INDEX, ROOT_BITMAP_ENTRY_INDEX, 1>>}
                \cup TablesBelow(buffer, ROOT_BITMAP_ENTRY_INDEX)
        all  == used \cup FreeTables(buffer)
    IN /\ used \cap FreeTables(buffer) = {}
       /\ \A s, t \in all : s # t => Spanned(s) \cap Spanned(t) = {}
       /\ \A t \in all : Spanned(t) \subseteq DOMAIN buffer.entries

\* What an iteration of a level (iterateNext) visits is what get finds there,
\* each key once: a garbage collection, which goes by iteration, loses no
\* n-gram and counts none twice.
IterationComplete ==
    \A p \in DOMAIN stored \cup {<<>>} :
        LET level == LevelBelow(buffer, p)
            found == KeysAt(buffer, level)
        IN /\ IsInjective(found)
           /\ ToSet(found) = {k \in Keys : Get(buffer, k, level).valid}

\* Every entry is of one of the kinds, and the counters are in range.
TrieMapTypeOK ==
    /\ ops \in 0..MaxOps
    /\ DOMAIN buffer.entries = 0..Cardinality(DOMAIN buffer.entries) - 1
    /\ Cardinality(DOMAIN buffer.entries) <= MaxEntries
    /\ \A i \in DOMAIN buffer.entries :
           buffer.entries[i].flag \in {"table", "value", "link"}
    /\ \A n \in DOMAIN buffer.free : buffer.free[n] \in DOMAIN buffer.entries

=============================================================================
