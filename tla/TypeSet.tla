------------------------------ MODULE TypeSet ------------------------------
(***************************************************************************)
(* type_set.c: a set of type ids as an array of words, one bit for each    *)
(* id.  A word is modelled by the set of the bits that are 1, a shift of   *)
(* ones by the bits from there on.  The cursor belongs to the caller.      *)
(***************************************************************************)
EXTENDS Integers, FiniteSetsExt

CONSTANTS
  WordBits,   \* bits of a word: 64
  Counts,     \* the counts sets are made with
  Args        \* the ids and cursor positions callers pass

ASSUME TypeSetAssumption == /\ WordBits \in Nat \ {0}
                            /\ Counts \subseteq Nat
                            /\ Args \subseteq Nat

VARIABLES
  words,      \* set->words[0 .. word_count-1], no words for NULL
  wordCount,  \* set->word_count
  count,      \* set->count
  selected,   \* set->selected
  cursor,     \* the caller's cursor
  answer,     \* what the last call returned, and *id
  start,      \* where the caller's cursor started (history)
  seen,       \* the ids returned since (history)
  late        \* the ids added behind the cursor since (history)

set   == <<words, wordCount, count, selected>>
walk  == <<start, seen, late>>
tvars == <<set, cursor, answer, walk>>

Bits      == 0 .. WordBits - 1
WordOf(id) == id \div WordBits
BitOf(id)  == id % WordBits

RoundedDown(n) == n \div WordBits                                  \* faulty variant

\* word_count_for_bits
WordCount(n) == IF n = 0 THEN 1 ELSE (n + WordBits - 1) \div WordBits

ZeroWords(n) == [w \in 0 .. n - 1 |-> {}]
NoWords == ZeroWords(0)

\* What remains of a set that is destroyed, or that no memory was found for.
BecomesNull == words' = NoWords /\ wordCount' = 0 /\ count' = 0 /\ selected' = 0

Returns(ok) == answer' = [ok |-> ok, id |-> 0]

Init == /\ words = NoWords /\ wordCount = 0 /\ count = 0 /\ selected = 0
        /\ cursor = 0 /\ start = 0 /\ seen = {} /\ late = {}
        /\ answer = [ok |-> FALSE, id |-> 0]

\* mch_type_set_init; callers keep no set they destroyed or never made.
TypeSetInit(n) ==
  /\ words = NoWords
  /\ words' = ZeroWords(WordCount(n))
  /\ wordCount' = WordCount(n)
  /\ count' = n /\ selected' = 0
  /\ seen' = {} /\ late' = {} /\ Returns(TRUE)
  /\ UNCHANGED <<cursor, start>>

TypeSetInitFails == /\ words = NoWords
                    /\ BecomesNull /\ seen' = {} /\ late' = {} /\ Returns(FALSE)
                    /\ UNCHANGED <<cursor, start>>

Destroy == BecomesNull /\ seen' = {} /\ late' = {} /\ Returns(TRUE) /\ UNCHANGED <<cursor, start>>

IsSet(id) == id < count /\ BitOf(id) \in words[WordOf(id)]

Contains(id) == Returns(IsSet(id)) /\ UNCHANGED <<set, cursor, walk>>

Add(id) == /\ id < count /\ ~ IsSet(id)
           /\ words' = [words EXCEPT ![WordOf(id)] = @ \cup {BitOf(id)}]
           /\ selected' = selected + 1
           /\ late' = IF id < cursor THEN late \cup {id} ELSE late
           /\ Returns(TRUE)
           /\ UNCHANGED <<wordCount, count, cursor, start, seen>>

AddNothing(id) == /\ id >= count \/ IsSet(id)
                  /\ Returns(FALSE)
                  /\ UNCHANGED <<set, cursor, walk>>

\* Not a call: the caller starts another enumeration, from 0 or from 1.
StartAt(from) == /\ cursor' = from /\ start' = from
                 /\ seen' = {} /\ late' = {} /\ Returns(TRUE)
                 /\ UNCHANGED set

MaskedFromZero(w)   == words[w]                                    \* faulty variant
MaskedEverywhere(w) == {b \in words[w] : b >= BitOf(cursor)}       \* faulty variant

\* The bits of a word from the cursor on.
Masked(w) == {b \in words[w] : w = WordOf(cursor) => b >= BitOf(cursor)}
\* The words with such bits.
Occupied  == {w \in WordOf(cursor) .. wordCount - 1 : Masked(w) # {}}

NextPastEnd == cursor >= count /\ Returns(FALSE) /\ UNCHANGED <<set, cursor, walk>>

NextFinds ==
  /\ cursor < count /\ Occupied # {}
  /\ LET found == Min(Occupied) * WordBits + Min(Masked(Min(Occupied)))
     IN IF found >= count THEN Returns(FALSE) /\ UNCHANGED <<cursor, seen>>
        ELSE /\ answer' = [ok |-> TRUE, id |-> found]
             /\ cursor' = found + 1
             /\ seen' = seen \cup {found}
  /\ UNCHANGED <<set, start, late>>

NextNone == /\ cursor < count /\ Occupied = {}
            /\ cursor' = count
            /\ Returns(FALSE)
            /\ UNCHANGED <<set, walk>>

Next == \/ \E n \in Counts : TypeSetInit(n)
        \/ TypeSetInitFails \/ Destroy
        \/ \E a \in Args : Contains(a) \/ Add(a) \/ AddNothing(a) \/ StartAt(a)
        \/ NextPastEnd \/ NextFinds \/ NextNone

Spec == Init /\ [][Next]_tvars

-----------------------------------------------------------------------------
\* The ids whose bit is 1, wherever the bit lies.
Contents == {id \in 0 .. wordCount * WordBits - 1 : BitOf(id) \in words[WordOf(id)]}

\* No bit outside of the words is used, and none in the last word from count on:
\* mch_type_set_next looks at whole words (type_set.c:80-99).
TypeOK == /\ wordCount \in Nat /\ count \in Nat /\ selected \in Nat
          /\ words \in [0 .. wordCount - 1 -> SUBSET Bits]
          /\ count <= wordCount * WordBits
          /\ Contents \subseteq 0 .. count - 1
          /\ cursor \in Nat /\ start \in Nat
          /\ answer \in [ok : BOOLEAN, id : Nat]

\* An enumeration has returned every id behind its cursor and ends at the count
\* only (type_set.c:71-106): the filling of the worklist and the groups of the
\* emitter miss no id.  Ids added behind the cursor are exempt; the functions allow
\* that, but no caller adds while it enumerates.
EnumerationIsComplete ==
  /\ seen \subseteq Contents
  /\ \A id \in Contents : start <= id /\ id < cursor => id \in seen \cup late

\* The words, masks and shifts are a set of ids with a cursor that visits its ids in
\* order (type_set.c:9-106).
Ids == INSTANCE IdSet WITH ids <- Contents, limit <- count, size <- selected,
                           Limits <- Counts
IsIdSet == Ids!SetSpec
=============================================================================
