--------------------------- MODULE TypeSetProofs ---------------------------
(***************************************************************************)
(* Proofs about TypeSet for words of any width: no bit lies outside of the *)
(* set, an enumeration misses no id, and the words with their masks are    *)
(* the set of ids with a cursor that IdSet describes.                      *)
(***************************************************************************)
EXTENDS TypeSet, FiniteSetTheorems, WellFoundedInduction, TLAPS

\* The ids that fit into n words.
Fitting(n) == 0 .. n * WordBits - 1

-----------------------------------------------------------------------------
\* Words and bits

\* The word and the bit of an id are its quotient and its remainder.
LEMMA Division ==
  ASSUME NEW x \in Nat
  PROVE  /\ WordOf(x) \in Nat /\ BitOf(x) \in Bits
         /\ x = WordOf(x) * WordBits + BitOf(x)
<1>1. WordBits \in Nat \ {0}
  BY TypeSetAssumption
<1>2. /\ x \div WordBits \in Nat
      /\ x % WordBits \in 0 .. WordBits - 1
      /\ x = (WordBits * (x \div WordBits)) + (x % WordBits)
  BY <1>1, Z3
<1>3. WordBits * (x \div WordBits) = (x \div WordBits) * WordBits
  BY <1>1, <1>2, Z3
<1> QED BY <1>2, <1>3 DEF WordOf, BitOf, Bits

\* Each word and bit is that of one id.
LEMMA Composition ==
  ASSUME NEW w \in Nat, NEW b \in Bits
  PROVE  /\ w * WordBits + b \in Nat
         /\ WordOf(w * WordBits + b) = w /\ BitOf(w * WordBits + b) = b
<1>1. WordBits \in Nat \ {0} /\ b \in 0 .. WordBits - 1 /\ b \in Nat
  BY TypeSetAssumption DEF Bits
<1>2. w * WordBits \in Nat
  BY <1>1, Z3
<1>3. ((w * WordBits) + b) \div WordBits = w /\ ((w * WordBits) + b) % WordBits = b
  BY <1>1, Z3
<1> QED BY <1>1, <1>2, <1>3 DEF WordOf, BitOf

\* Ids are ordered by their words first.
LEMMA WordsFirst ==
  ASSUME NEW x \in Nat, NEW y \in Nat
  PROVE  /\ WordOf(x) < WordOf(y) => x < y
         /\ WordOf(x) = WordOf(y) => (BitOf(x) < BitOf(y) <=> x < y)
<1>1. WordBits \in Nat \ {0}
  BY TypeSetAssumption
<1> DEFINE qx == WordOf(x)  rx == BitOf(x)  qy == WordOf(y)  ry == BitOf(y)
<1>2. /\ qx \in Nat /\ rx \in Nat /\ qy \in Nat /\ ry \in Nat
      /\ rx < WordBits /\ ry < WordBits
      /\ x = qx * WordBits + rx /\ y = qy * WordBits + ry
  BY <1>1, Division DEF Bits
<1> HIDE DEF qx, rx, qy, ry
<1>3. ASSUME qx < qy PROVE x < y
  <2>1. qx + 1 <= qy
    BY <1>3, <1>2
  <2>2. (qx + 1) * WordBits <= qy * WordBits
    BY <2>1, <1>1, <1>2, Z3
  <2>3. (qx + 1) * WordBits = qx * WordBits + WordBits
    BY <1>1, <1>2, Z3
  <2> QED BY <2>2, <2>3, <1>1, <1>2, Z3
<1>4. qx = qy => (rx < ry <=> x < y)
  BY <1>1, <1>2, Z3
<1> QED BY <1>3, <1>4 DEF qx, rx, qy, ry

\* An id fits into n words if its word is one of them.
LEMMA FitsByWord ==
  ASSUME NEW n \in Nat, NEW x \in Nat
  PROVE  x \in Fitting(n) <=> WordOf(x) \in 0 .. n - 1
<1>1. WordBits \in Nat \ {0} /\ 0 \in Bits
  BY TypeSetAssumption DEF Bits
<1>2. n * WordBits + 0 \in Nat /\ WordOf(n * WordBits + 0) = n /\ BitOf(n * WordBits + 0) = 0
  BY <1>1, Composition
<1>3. n * WordBits \in Nat /\ n * WordBits + 0 = n * WordBits
  BY <1>1, Z3
<1>4. WordOf(x) < n => x < n * WordBits
  BY <1>2, <1>3, WordsFirst
<1>5. n < WordOf(x) => n * WordBits < x
  BY <1>2, <1>3, WordsFirst
<1>6. WordOf(x) = n => n * WordBits <= x
  BY <1>2, <1>3, Division DEF Bits
<1>7. WordOf(x) \in Nat
  BY Division
<1> QED BY <1>3, <1>4, <1>5, <1>6, <1>7 DEF Fitting

\* The words of a new set hold as many ids as were asked for.
LEMMA WordsSuffice ==
  ASSUME NEW n \in Nat
  PROVE  WordCount(n) \in Nat /\ n <= WordCount(n) * WordBits
<1>1. WordBits \in Nat \ {0}
  BY TypeSetAssumption
<1>2. CASE n = 0
  BY <1>1, <1>2, Z3 DEF WordCount
<1>3. CASE n # 0
  <2>1. n + WordBits - 1 \in Nat
    BY <1>1
  <2> DEFINE q == WordOf(n + WordBits - 1)  r == BitOf(n + WordBits - 1)
  <2>2. q \in Nat /\ r \in Nat /\ r < WordBits /\ n + WordBits - 1 = q * WordBits + r
    BY <2>1, <1>1, Division DEF Bits
  <2>3. WordCount(n) = q
    BY <1>3 DEF WordCount, WordOf
  <2> HIDE DEF q, r
  <2>4. n <= q * WordBits
    BY <2>2, <1>1, Z3
  <2> QED BY <2>2, <2>3, <2>4
<1> QED BY <1>2, <1>3

\* A set of numbers that is not empty has a least one, and Min is it.
LEMMA MinIsLeast ==
  ASSUME NEW S \in SUBSET Nat, S # {}
  PROVE  Min(S) \in S /\ \A y \in S : Min(S) <= y
<1>1. \E x \in S : \A y \in S : ~ (<<y, x>> \in OpToRel(<, Nat))
  BY NatLessThanWellFounded, WFMin
<1>2. PICK x \in S : \A y \in S : ~ (<<y, x>> \in OpToRel(<, Nat))
  BY <1>1
<1>3. ASSUME NEW y \in S PROVE x <= y
  <2>1. ~ (y < x)
    BY <1>2 DEF OpToRel
  <2> QED BY <2>1
<1> QED BY <1>3 DEF Min

-----------------------------------------------------------------------------
\* The bits of the set

\* What the invariant adds to the properties: the count of the ids.
Inv == TypeOK /\ EnumerationIsComplete /\ selected = Cardinality(Contents)

LEMMA InContents ==
  ASSUME TypeOK, NEW id \in Nat
  PROVE  /\ id \in Contents <=> WordOf(id) \in 0 .. wordCount - 1 /\ BitOf(id) \in words[WordOf(id)]
         /\ id \in Contents <=> IsSet(id)
         /\ id < count => WordOf(id) \in 0 .. wordCount - 1
<1>1. id \in Contents <=> id \in Fitting(wordCount) /\ BitOf(id) \in words[WordOf(id)]
  BY DEF Contents, Fitting
<1>2. id \in Fitting(wordCount) <=> WordOf(id) \in 0 .. wordCount - 1
  BY FitsByWord DEF TypeOK
<1>3. WordBits \in Nat /\ wordCount * WordBits \in Nat
  BY TypeSetAssumption, Z3 DEF TypeOK
<1>4. id < count => id \in Fitting(wordCount)
  BY <1>3 DEF TypeOK, Fitting
<1>5. id \in Contents => id < count
  BY DEF TypeOK
<1> QED BY <1>1, <1>2, <1>4, <1>5 DEF IsSet

LEMMA ContentsFinite ==
  ASSUME TypeOK
  PROVE  IsFiniteSet(Contents) /\ Contents \subseteq Nat
<1>1. Contents \in SUBSET (0 .. count - 1) /\ count \in Nat
  BY DEF TypeOK
<1>2. IsFiniteSet(0 .. count - 1)
  BY <1>1, FS_Interval
<1>3. IsFiniteSet(Contents)
  BY <1>1, <1>2, FS_Subset
<1>4. Contents \subseteq Nat
  BY <1>1
<1> QED BY <1>3, <1>4

\* An id at or after the cursor is among the bits that mch_type_set_next looks at.
LEMMA LookedAt ==
  ASSUME TypeOK, NEW id \in Contents, cursor <= id
  PROVE  WordOf(id) \in Occupied /\ BitOf(id) \in Masked(WordOf(id))
<1>1. id \in Nat /\ cursor \in Nat
  BY ContentsFinite DEF TypeOK
<1>2. /\ WordOf(id) \in Nat /\ BitOf(id) \in Nat
      /\ WordOf(cursor) \in Nat /\ BitOf(cursor) \in Nat
  BY <1>1, Division DEF Bits
<1>3. WordOf(id) \in 0 .. wordCount - 1 /\ BitOf(id) \in words[WordOf(id)]
  BY <1>1, InContents
<1>4. WordOf(cursor) <= WordOf(id)
  BY <1>1, <1>2, WordsFirst
<1>5. WordOf(id) = WordOf(cursor) => BitOf(id) >= BitOf(cursor)
  BY <1>1, <1>2, WordsFirst
<1>6. BitOf(id) \in Masked(WordOf(id))
  BY <1>3, <1>5 DEF Masked
<1>7. WordOf(id) \in WordOf(cursor) .. wordCount - 1
  BY <1>2, <1>3, <1>4 DEF TypeOK
<1> QED BY <1>6, <1>7 DEF Occupied

\* The id it finds is the least of the set at or after the cursor.
LEMMA FindsLeast ==
  ASSUME TypeOK, Occupied # {},
         NEW found, found = Min(Occupied) * WordBits + Min(Masked(Min(Occupied)))
  PROVE  /\ found \in Contents /\ cursor <= found
         /\ \A id \in Contents : cursor <= id => found <= id
<1> DEFINE w == Min(Occupied)  b == Min(Masked(w))
<1>0. cursor \in Nat /\ wordCount \in Nat /\ WordBits \in Nat
  BY TypeSetAssumption DEF TypeOK
<1>1. cursor \in Nat /\ WordOf(cursor) \in Nat /\ BitOf(cursor) \in Nat
  <2>1. WordOf(cursor) \in Nat /\ BitOf(cursor) \in Bits
    BY <1>0, Division
  <2> QED BY <1>0, <2>1 DEF Bits
<1>2. Occupied \subseteq Nat
  BY <1>1 DEF Occupied, TypeOK
<1>3. w \in Occupied /\ \A y \in Occupied : w <= y
  BY <1>2, MinIsLeast
<1>4. w \in Nat /\ w \in 0 .. wordCount - 1 /\ WordOf(cursor) <= w /\ Masked(w) # {}
  <2>1. w \in WordOf(cursor) .. wordCount - 1 /\ Masked(w) # {}
    BY <1>3 DEF Occupied
  <2> HIDE DEF w
  <2> QED BY <1>0, <1>1, <2>1
<1>5. Masked(w) \subseteq Bits /\ Bits \subseteq Nat
  BY <1>4, TypeSetAssumption DEF Masked, TypeOK, Bits
<1>6. b \in Masked(w) /\ \A y \in Masked(w) : b <= y
  BY <1>4, <1>5, MinIsLeast
<1>7. found \in Nat /\ WordOf(found) = w /\ BitOf(found) = b /\ b \in Nat
  BY <1>4, <1>5, <1>6, Composition
<1>8. found \in Contents
  BY <1>4, <1>6, <1>7, InContents DEF Masked
<1>9. cursor <= found
  <2>1. w = WordOf(cursor) => BitOf(cursor) <= b
    BY <1>6 DEF Masked
  <2> HIDE DEF w, b
  <2> QED BY <2>1, <1>1, <1>4, <1>7, WordsFirst
<1>10. ASSUME NEW id \in Contents, cursor <= id PROVE found <= id
  <2>1. id \in Nat /\ WordOf(id) \in Nat /\ BitOf(id) \in Nat
    BY ContentsFinite, Division DEF Bits
  <2>2. w <= WordOf(id) /\ (WordOf(id) = w => b <= BitOf(id))
    BY <1>3, <1>6, <1>10, LookedAt
  <2> HIDE DEF w, b
  <2> QED BY <2>1, <2>2, <1>4, <1>7, WordsFirst
<1> QED BY <1>8, <1>9, <1>10

-----------------------------------------------------------------------------
\* The operations

\* Words of zeroes hold no id.
LEMMA Emptied ==
  ASSUME NEW n \in Nat, words' = ZeroWords(n), wordCount' = n
  PROVE  Contents' = {} /\ words' \in [0 .. n - 1 -> SUBSET Bits]
<1>1. ASSUME NEW x \in Contents' PROVE FALSE
  <2>1. x \in Fitting(n) /\ BitOf(x) \in words'[WordOf(x)]
    BY <1>1 DEF Contents, Fitting
  <2>2. x \in Nat
    BY <2>1 DEF Fitting
  <2>3. WordOf(x) \in 0 .. n - 1
    BY <2>1, <2>2, FitsByWord
  <2> QED BY <2>1, <2>3 DEF ZeroWords
<1> QED BY <1>1 DEF ZeroWords

\* A set that is destroyed, or was never made, is empty.
LEMMA BecomesEmpty ==
  ASSUME BecomesNull
  PROVE  Contents' = {} /\ words' \in [0 .. wordCount' - 1 -> SUBSET Bits]
<1>1. words' = ZeroWords(0) /\ wordCount' = 0
  BY DEF BecomesNull, NoWords
<1> QED BY <1>1, Emptied

\* mch_type_set_add sets the bit of its id and no other.
LEMMA Added ==
  ASSUME TypeOK, NEW id \in Nat, Add(id)
  PROVE  /\ id \notin Contents /\ id < count
         /\ Contents' = Contents \cup {id}
         /\ words' \in [0 .. wordCount - 1 -> SUBSET Bits]
<1>1. WordOf(id) \in 0 .. wordCount - 1 /\ id < count /\ ~ IsSet(id)
  BY InContents DEF Add
<1>2. words \in [0 .. wordCount - 1 -> SUBSET Bits] /\ wordCount \in Nat
  BY DEF TypeOK
<1>3. words' = [words EXCEPT ![WordOf(id)] = @ \cup {BitOf(id)}] /\ wordCount' = wordCount
  BY DEF Add
<1>4. BitOf(id) \in Bits
  BY Division
<1>5. words' \in [0 .. wordCount - 1 -> SUBSET Bits]
  BY <1>1, <1>2, <1>3, <1>4
<1>6. Contents' = {x \in Fitting(wordCount) : BitOf(x) \in words'[WordOf(x)]}
  BY <1>3 DEF Contents, Fitting
<1>7. Contents = {x \in Fitting(wordCount) : BitOf(x) \in words[WordOf(x)]}
  BY DEF Contents, Fitting
<1>8. ASSUME NEW x \in Fitting(wordCount)
      PROVE  BitOf(x) \in words'[WordOf(x)] <=> BitOf(x) \in words[WordOf(x)] \/ x = id
  <2>1. x \in Nat
    BY DEF Fitting
  <2>2. WordOf(x) \in 0 .. wordCount - 1
    BY <1>2, <2>1, FitsByWord
  <2>3. WordOf(x) = WordOf(id) /\ BitOf(x) = BitOf(id) => x = id
    BY <2>1, Division
  <2> QED BY <1>1, <1>2, <1>3, <2>2, <2>3
<1>9. id \in Fitting(wordCount)
  BY <1>1, <1>2, FitsByWord
<1> QED BY <1>1, <1>5, <1>6, <1>7, <1>8, <1>9, InContents

-----------------------------------------------------------------------------
LEMMA InitInv == Init => Inv
<1> SUFFICES ASSUME Init PROVE Inv
  OBVIOUS
<1>1. words = ZeroWords(0) /\ wordCount = 0
  BY DEF Init, NoWords
<1>2. Contents = {}
  BY <1>1, TypeSetAssumption, Z3 DEF Contents
<1>3. TypeOK
  BY <1>1, <1>2, TypeSetAssumption, Z3 DEF Init, TypeOK, ZeroWords
<1>4. EnumerationIsComplete
  BY <1>2 DEF Init, EnumerationIsComplete
<1> QED BY <1>2, <1>3, <1>4, FS_EmptySet DEF Inv, Init

\* What calls that set or clear no bit leave as it is.
LEMMA SetUnchanged ==
  ASSUME UNCHANGED set
  PROVE  Contents' = Contents /\ UNCHANGED <<words, wordCount, count, selected>>
BY DEF set, Contents

\* A set without ids satisfies what is said of its ids.
LEMMA EmptyInv ==
  ASSUME TypeOK, Contents' = {}, words' \in [0 .. wordCount' - 1 -> SUBSET Bits],
         wordCount' \in Nat, count' \in Nat, count' <= wordCount' * WordBits,
         selected' = 0, seen' = {}, UNCHANGED <<cursor, start>>, answer' \in [ok : BOOLEAN, id : Nat]
  PROVE  Inv'
<1>1. TypeOK'
  BY DEF TypeOK
<1>2. EnumerationIsComplete'
  BY DEF EnumerationIsComplete
<1> QED BY <1>1, <1>2, FS_EmptySet DEF Inv

\* Calls that leave the set alone keep the types.
LEMMA SameSet ==
  ASSUME TypeOK, UNCHANGED set, cursor' \in Nat, start' \in Nat,
         answer' \in [ok : BOOLEAN, id : Nat]
  PROVE  TypeOK' /\ Contents' = Contents
<1>1. Contents' = Contents /\ UNCHANGED <<words, wordCount, count, selected>>
  BY SetUnchanged
<1> QED BY <1>1 DEF TypeOK

LEMMA NextInv == Inv /\ [Next]_tvars => Inv'
<1> SUFFICES ASSUME Inv, [Next]_tvars PROVE Inv'
  OBVIOUS
<1> USE DEF Inv
<1>1. ASSUME NEW n \in Counts, TypeSetInit(n) PROVE Inv'
  <2>1. n \in Nat /\ WordCount(n) \in Nat /\ n <= WordCount(n) * WordBits
    BY WordsSuffice, TypeSetAssumption
  <2>2. /\ words' = ZeroWords(WordCount(n)) /\ wordCount' = WordCount(n)
        /\ count' = n /\ selected' = 0 /\ seen' = {} /\ UNCHANGED <<cursor, start>>
        /\ answer' \in [ok : BOOLEAN, id : Nat]
    BY <1>1 DEF TypeSetInit, Returns
  <2>3. Contents' = {} /\ words' \in [0 .. wordCount' - 1 -> SUBSET Bits]
    BY <2>1, <2>2, Emptied
  <2> QED BY <2>1, <2>2, <2>3, EmptyInv
<1>2. ASSUME TypeSetInitFails \/ Destroy PROVE Inv'
  <2>1. BecomesNull /\ seen' = {} /\ UNCHANGED <<cursor, start>>
    BY <1>2 DEF TypeSetInitFails, Destroy
  <2>2. answer' \in [ok : BOOLEAN, id : Nat]
    <3>1. CASE TypeSetInitFails
      BY <3>1 DEF TypeSetInitFails, Returns
    <3>2. CASE Destroy
      BY <3>2 DEF Destroy, Returns
    <3> QED BY <1>2, <3>1, <3>2
  <2>3. 0 <= 0 * WordBits
    BY TypeSetAssumption, Z3
  <2>4. wordCount' = 0 /\ count' = 0 /\ selected' = 0
    BY <2>1 DEF BecomesNull
  <2>5. Contents' = {} /\ words' \in [0 .. wordCount' - 1 -> SUBSET Bits]
    BY <2>1, BecomesEmpty
  <2>6. wordCount' \in Nat /\ count' \in Nat /\ count' <= wordCount' * WordBits
    BY <2>3, <2>4
  <2> QED BY <2>1, <2>2, <2>4, <2>5, <2>6, EmptyInv
<1>3. ASSUME NEW a \in Args, Contains(a) \/ AddNothing(a) PROVE Inv'
  <2>1. UNCHANGED <<set, cursor, walk>>
    BY <1>3 DEF Contains, AddNothing
  <2>2. answer' \in [ok : BOOLEAN, id : Nat]
    <3>1. PICK ok \in BOOLEAN : answer' = [ok |-> ok, id |-> 0]
      BY <1>3, Zenon DEF Contains, AddNothing, Returns, IsSet
    <3> QED BY <3>1
  <2>3. TypeOK' /\ Contents' = Contents
    BY <2>1, <2>2, SameSet DEF TypeOK, walk
  <2> QED BY <2>1, <2>3, SetUnchanged DEF EnumerationIsComplete, walk
<1>4. ASSUME NEW a \in Args, Add(a) PROVE Inv'
  <2>1. a \in Nat
    BY TypeSetAssumption
  <2>2. /\ a \notin Contents /\ a < count
        /\ Contents' = Contents \cup {a}
        /\ words' \in [0 .. wordCount - 1 -> SUBSET Bits]
    BY <2>1, <1>4, Added
  <2>3. /\ selected' = selected + 1 /\ UNCHANGED <<wordCount, count, cursor, start, seen>>
        /\ late' = IF a < cursor THEN late \cup {a} ELSE late
        /\ answer' \in [ok : BOOLEAN, id : Nat]
    BY <1>4 DEF Add, Returns
  <2>4. TypeOK'
    BY <2>1, <2>2, <2>3 DEF TypeOK
  <2>5. EnumerationIsComplete'
    BY <2>1, <2>2, <2>3 DEF EnumerationIsComplete
  <2>6. selected' = Cardinality(Contents')
    BY <2>2, <2>3, ContentsFinite, FS_AddElement
  <2> QED BY <2>4, <2>5, <2>6
<1>5. ASSUME NEW a \in Args, StartAt(a) PROVE Inv'
  <2>1. /\ cursor' = a /\ start' = a /\ seen' = {} /\ UNCHANGED set /\ a \in Nat
        /\ answer' \in [ok : BOOLEAN, id : Nat]
    BY <1>5, TypeSetAssumption DEF StartAt, Returns
  <2>2. TypeOK' /\ Contents' = Contents
    BY <2>1, SameSet
  <2>3. EnumerationIsComplete'
    BY <2>1, <2>2, ContentsFinite DEF EnumerationIsComplete
  <2> QED BY <2>1, <2>2, <2>3, SetUnchanged
<1>6. ASSUME NextPastEnd PROVE Inv'
  <2>1. UNCHANGED <<set, cursor, walk>> /\ answer' \in [ok : BOOLEAN, id : Nat]
    BY <1>6 DEF NextPastEnd, Returns
  <2>2. TypeOK' /\ Contents' = Contents
    BY <2>1, SameSet DEF TypeOK, walk
  <2> QED BY <2>1, <2>2, SetUnchanged DEF EnumerationIsComplete, walk
<1>7. ASSUME NextFinds PROVE Inv'
  <2> DEFINE found == Min(Occupied) * WordBits + Min(Masked(Min(Occupied)))
  <2>1. /\ found \in Contents /\ cursor <= found
        /\ \A id \in Contents : cursor <= id => found <= id
    BY <1>7, FindsLeast DEF NextFinds
  <2>3. /\ IF found >= count THEN Returns(FALSE) /\ UNCHANGED <<cursor, seen>>
           ELSE /\ answer' = [ok |-> TRUE, id |-> found]
                /\ cursor' = found + 1 /\ seen' = seen \cup {found}
        /\ UNCHANGED <<set, start, late>>
    BY <1>7 DEF NextFinds
  <2> HIDE DEF found
  <2>2. /\ found < count /\ found \in Nat
        /\ answer' = [ok |-> TRUE, id |-> found]
        /\ cursor' = found + 1 /\ seen' = seen \cup {found}
    <3>1. Contents \subseteq 0 .. count - 1 /\ count \in Nat
      BY DEF TypeOK
    <3>2. found \in Nat /\ found < count
      BY <3>1, <2>1
    <3>3. ~ (found >= count)
      BY <3>1, <3>2
    <3>4. /\ answer' = [ok |-> TRUE, id |-> found]
          /\ cursor' = found + 1 /\ seen' = seen \cup {found}
      BY <2>3, <3>3, Zenon
    <3> QED BY <3>2, <3>4
  <2>4. TypeOK' /\ Contents' = Contents
    BY <2>2, <2>3, SameSet DEF TypeOK
  <2>5. EnumerationIsComplete'
    BY <2>1, <2>2, <2>3, <2>4, ContentsFinite DEF EnumerationIsComplete, TypeOK
  <2> QED BY <2>3, <2>4, <2>5, SetUnchanged
<1>8. ASSUME NextNone PROVE Inv'
  <2>1. /\ Occupied = {} /\ cursor < count /\ cursor' = count /\ UNCHANGED <<set, walk>>
        /\ answer' \in [ok : BOOLEAN, id : Nat]
    BY <1>8 DEF NextNone, Returns
  <2>2. TypeOK' /\ Contents' = Contents
    BY <2>1, SameSet DEF TypeOK, walk
  <2>3. \A id \in Contents : id < cursor
    BY <2>1, LookedAt, ContentsFinite DEF TypeOK
  <2>4. EnumerationIsComplete'
    BY <2>1, <2>2, <2>3 DEF EnumerationIsComplete, walk
  <2> QED BY <2>1, <2>2, <2>4, SetUnchanged
<1>9. CASE UNCHANGED tvars
  <2>1. UNCHANGED <<set, cursor, walk, answer>>
    BY <1>9 DEF tvars
  <2>2. TypeOK' /\ Contents' = Contents
    BY <2>1, SameSet DEF TypeOK, walk
  <2> QED BY <2>1, <2>2, SetUnchanged DEF EnumerationIsComplete, walk
<1> QED BY <1>1, <1>2, <1>3, <1>4, <1>5, <1>6, <1>7, <1>8, <1>9 DEF Next

\* The words, the count and the history of an enumeration agree (type_set.c:9-106).
THEOREM Invariance == Spec => []Inv
BY InitInv, NextInv, PTL DEF Spec

\* Whatever the width of a word and the number of ids, no bit is used outside of the set
\* (type_set.c:7, 56-66), so that no look at a whole word finds one.
THEOREM TypeCorrect == Spec => []TypeOK
BY Invariance, PTL DEF Inv

\* No order of additions and steps makes an enumeration pass over an id
\* (mch_type_set_next, type_set.c:71-106).
THEOREM EnumerationMissesNothing == Spec => []EnumerationIsComplete
BY Invariance, PTL DEF Inv

-----------------------------------------------------------------------------
\* Every call on the words, masks and shifts is the operation on the set of ids that it
\* stands for; a step of an enumeration visits the least id from the cursor on
\* (type_set.c:9-106).
THEOREM Refinement == Spec => IsIdSet
<1>1. Init => Ids!SetInit
  <2> SUFFICES ASSUME Init PROVE Ids!SetInit
    OBVIOUS
  <2>1. wordCount = 0
    BY DEF Init
  <2>2. Contents = {}
    BY <2>1, TypeSetAssumption, Z3 DEF Contents
  <2> QED BY <2>2 DEF Init, Ids!SetInit, Ids!Empty
<1>2. Inv /\ Inv' /\ [Next]_tvars => [Ids!SetNext]_Ids!idvars
  <2> SUFFICES ASSUME Inv, Inv', [Next]_tvars PROVE [Ids!SetNext]_Ids!idvars
    OBVIOUS
  <2>0. /\ TypeOK /\ Contents \subseteq Nat /\ cursor \in Nat /\ count \in Nat
        /\ selected' = Cardinality(Contents')
    BY ContentsFinite DEF Inv, TypeOK
  <2>c. Ids!Cardinality(Contents') = Cardinality(Contents')
    BY DEF Ids!Cardinality, Cardinality
  <2>1. ASSUME NEW n \in Counts, TypeSetInit(n) PROVE Ids!Make
    <3>1. WordCount(n) \in Nat /\ words' = ZeroWords(WordCount(n)) /\ wordCount' = WordCount(n)
      BY <2>1, WordsSuffice, TypeSetAssumption DEF TypeSetInit
    <3>2. Contents' = {}
      BY <3>1, Emptied
    <3> QED BY <2>1, <3>2 DEF TypeSetInit, Returns, Ids!Make, Ids!Answers
  <2>2. ASSUME TypeSetInitFails PROVE Ids!Make
    BY <2>2, BecomesEmpty DEF TypeSetInitFails, BecomesNull, Returns, Ids!Make, Ids!Answers
  <2>3. ASSUME Destroy PROVE Ids!Drop
    BY <2>3, BecomesEmpty DEF Destroy, BecomesNull, Returns, Ids!Drop, Ids!Empty, Ids!Answers
  <2>4. ASSUME NEW a \in Args, Contains(a) PROVE Ids!Has(a)
    <3>1. a \in Contents <=> IsSet(a)
      BY <2>0, InContents, TypeSetAssumption
    <3>2. UNCHANGED <<set, cursor, walk>> /\ answer' = [ok |-> IsSet(a), id |-> 0]
      BY <2>4 DEF Contains, Returns
    <3>3. IsSet(a) = (a \in Contents)
      BY <3>1 DEF IsSet
    <3> QED BY <3>2, <3>3, SetUnchanged DEF Ids!Has, Ids!Answers
  <2>5. ASSUME NEW a \in Args, Add(a) PROVE Ids!Insert(a)
    <3>1. /\ a \notin Contents /\ a < count /\ Contents' = Contents \cup {a}
      BY <2>0, <2>5, Added, TypeSetAssumption
    <3>2. /\ UNCHANGED <<count, cursor>> /\ answer' = [ok |-> TRUE, id |-> 0]
      BY <2>5 DEF Add, Returns
    <3>3. (Contents' # Contents) = TRUE
      BY <3>1
    <3>4. answer' = [ok |-> Contents' # Contents, id |-> 0]
      BY <3>2, <3>3, Zenon
    <3>5. Contents' = (IF a < count THEN Contents \cup {a} ELSE Contents)
      BY <3>1, Zenon
    <3> QED BY <2>0, <2>c, <3>2, <3>4, <3>5 DEF Ids!Insert, Ids!Answers
  <2>6. ASSUME NEW a \in Args, AddNothing(a) PROVE Ids!Insert(a)
    <3>1. a \in Nat /\ (a >= count \/ a \in Contents)
      BY <2>0, <2>6, InContents, TypeSetAssumption DEF AddNothing
    <3>2. UNCHANGED <<set, cursor, walk>> /\ answer' = [ok |-> FALSE, id |-> 0]
      BY <2>6 DEF AddNothing, Returns
    <3>3. Contents' = (IF a < count THEN Contents \cup {a} ELSE Contents) /\ Contents' = Contents
      BY <2>0, <3>1, <3>2, SetUnchanged
    <3>4. (Contents' # Contents) = FALSE
      BY <3>3
    <3>5. answer' = [ok |-> Contents' # Contents, id |-> 0]
      BY <3>2, <3>4, Zenon
    <3>6. UNCHANGED <<count, cursor>>
      BY <3>2, SetUnchanged
    <3> QED BY <2>0, <2>c, <3>3, <3>5, <3>6 DEF Ids!Insert, Ids!Answers
  <2>7. ASSUME NEW a \in Args, StartAt(a) PROVE Ids!Seek(a)
    BY <2>7, SetUnchanged DEF StartAt, Returns, Ids!Seek, Ids!Answers
  <2>8. ASSUME NextPastEnd PROVE Ids!Visit
    <3>1. cursor >= count /\ UNCHANGED <<set, cursor, walk>> /\ answer' = [ok |-> FALSE, id |-> 0]
      BY <2>8 DEF NextPastEnd, Returns
    <3>2. \A id \in Contents : id < cursor
      BY <2>0, <3>1 DEF TypeOK
    <3> QED BY <2>0, <3>1, <3>2, SetUnchanged DEF Ids!Visit, Ids!Answers
  <2>9. ASSUME NextFinds PROVE Ids!Visit
    <3> DEFINE found == Min(Occupied) * WordBits + Min(Masked(Min(Occupied)))
    <3>1. /\ found \in Contents /\ cursor <= found
          /\ \A id \in Contents : cursor <= id => found <= id
      BY <2>0, <2>9, FindsLeast DEF NextFinds
    <3>2. /\ IF found >= count THEN Returns(FALSE) /\ UNCHANGED <<cursor, seen>>
             ELSE /\ answer' = [ok |-> TRUE, id |-> found]
                  /\ cursor' = found + 1 /\ seen' = seen \cup {found}
          /\ UNCHANGED <<set, start, late>>
      BY <2>9 DEF NextFinds
    <3> HIDE DEF found
    <3>3. ~ (found >= count)
      BY <2>0, <3>1 DEF TypeOK
    <3>4. answer' = [ok |-> TRUE, id |-> found] /\ cursor' = found + 1
      BY <3>2, <3>3, Zenon
    <3> QED BY <3>1, <3>2, <3>4, SetUnchanged DEF Ids!Visit
  <2>10. ASSUME NextNone PROVE Ids!Visit
    <3>1. /\ Occupied = {} /\ cursor < count /\ cursor' = count /\ UNCHANGED <<set, walk>>
          /\ answer' = [ok |-> FALSE, id |-> 0]
      BY <2>10 DEF NextNone, Returns
    <3>2. \A id \in Contents : id < cursor
      BY <2>0, <3>1, LookedAt
    <3> QED BY <3>1, <3>2, SetUnchanged DEF Ids!Visit, Ids!Answers
  <2>11. CASE UNCHANGED tvars
    BY <2>11, SetUnchanged DEF tvars, Ids!idvars
  <2>12. CASE \E n \in Counts : TypeSetInit(n)
    BY <2>12, <2>1 DEF Ids!SetNext
  <2>13. CASE TypeSetInitFails
    BY <2>13, <2>2 DEF Ids!SetNext
  <2>14. CASE Destroy \/ NextPastEnd \/ NextFinds \/ NextNone
    BY <2>14, <2>3, <2>8, <2>9, <2>10 DEF Ids!SetNext
  <2>15. CASE \E a \in Args : Contains(a) \/ Add(a) \/ AddNothing(a) \/ StartAt(a)
    BY <2>15, <2>4, <2>5, <2>6, <2>7 DEF Ids!SetNext
  <2> QED BY <2>11, <2>12, <2>13, <2>14, <2>15 DEF Next
<1> QED BY <1>1, <1>2, Invariance, PTL DEF Spec, IsIdSet, Ids!SetSpec
=============================================================================
