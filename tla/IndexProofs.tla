--------------------------- MODULE IndexProofs ---------------------------
(***************************************************************************)
(* Proofs about Index for every base BTF, every hash function and every    *)
(* number of buckets: the chains stay complete, a name has one entry, and  *)
(* both lookups are exact.                                                 *)
(***************************************************************************)
EXTENDS Index, TLAPS

\* The table, which lookups only read.
table == <<btf, hash, buckets, entries>>

-----------------------------------------------------------------------------
\* Facts about the operators

LEMMA InputTypes ==
  ASSUME TypeOK
  PROVE  /\ btf \in Seq(BaseType) /\ Len(btf) \in Nat
         /\ hash \in [Keys -> Nat]
         /\ \A i \in 1 .. Len(btf) : btf[i] \in BaseType /\ Key(btf[i]) \in Keys
         /\ id \in Nat /\ at \in Nat
         /\ Len(entries) \in Nat /\ Len(buckets) \in Nat
         /\ \A e \in 1 .. Len(entries) : entries[e] \in Entry /\ Key(entries[e]) \in Keys
         /\ \A b \in 1 .. Len(buckets) : buckets[b] \in 0 .. Len(entries)
<1>1. btf \in Seq(BaseType) /\ hash \in [Keys -> Nat]
  BY IndexAssumption DEF TypeOK
<1>2. \A i \in 1 .. Len(btf) : btf[i] \in BaseType
  BY <1>1
<1>3. \A i \in 1 .. Len(btf) : Key(btf[i]) \in Keys
  BY <1>2 DEF Key, Keys, BaseType
<1>4. \A e \in 1 .. Len(entries) : entries[e] \in Entry
  BY DEF TypeOK
<1>5. \A e \in 1 .. Len(entries) : Key(entries[e]) \in Keys
  BY <1>4 DEF Key, Keys, Entry
<1> QED BY <1>1, <1>2, <1>3, <1>4, <1>5 DEF TypeOK

\* hash & (bucket_count - 1) is the number of a bucket.
LEMMA BucketInTable ==
  ASSUME hash \in [Keys -> Nat], NEW key \in Keys, Len(buckets) \in Nat, Len(buckets) > 0
  PROVE  Bucket(key) \in 1 .. Len(buckets)
<1>1. hash[key] \in Nat
  OBVIOUS
<1>2. hash[key] % Len(buckets) \in 0 .. Len(buckets) - 1
  BY <1>1, SMT
<1> QED BY <1>2 DEF Bucket

LEMMA QueryTypes ==
  ASSUME TypeOK, query.by \in {"name", "anonymous"}
  PROVE  query \in Queries /\ Key(query) \in Keys
<1>1. query \in Queries
  BY DEF TypeOK, NoQuery
<1> QED BY <1>1 DEF Queries, Key, Keys

\* One step along a chain: the entry behind a walk is in the chain, and
\* there is none of the chain between the two.
LEMMA NextInChain ==
  ASSUME TypeOK, HasTable, ChainsComplete, NEW key \in Keys,
         at # None, OnChain(key), Key(entries[at]) # key
  PROVE  LET next == entries[at].next
         IN /\ next = None \/ InChain(next, Bucket(key))
            /\ next \in Nat
            /\ \A f \in 1 .. Len(entries) :
                  next < f /\ InChain(f, Bucket(key)) => Key(entries[f]) # key
<1> DEFINE next == entries[at].next
<1>1. InChain(at, Bucket(key)) /\ at \in 1 .. Len(entries)
  BY DEF OnChain, InChain
<1>2. Bucket(Key(entries[at])) = Bucket(key)
  BY <1>1 DEF InChain
<1>3. LeadsTo(next, Bucket(key), at)
  BY <1>1, <1>2 DEF ChainsComplete
<1>4. next \in Nat
  BY <1>1, InputTypes DEF Entry
<1>5. at \in Nat /\ Len(entries) \in Nat
  BY InputTypes
<1>6. ASSUME NEW f \in 1 .. Len(entries), next < f, InChain(f, Bucket(key))
      PROVE  Key(entries[f]) # key
  <2>1. CASE f > at
    BY <2>1, <1>6 DEF OnChain
  <2>2. CASE f = at
    BY <2>2
  <2>3. CASE f < at
    BY <2>3, <1>3, <1>6 DEF LeadsTo
  <2> QED BY <2>1, <2>2, <2>3, <1>5
<1> QED BY <1>3, <1>4, <1>6 DEF LeadsTo

\* A walk that has come to the end of the chain has seen no entry of the key.
LEMMA EndOfChain ==
  ASSUME TypeOK, NEW key, OnChain(key), at = None
  PROVE  \A e \in 1 .. Len(entries) : Key(entries[e]) # key
<1>1. SUFFICES ASSUME NEW e \in 1 .. Len(entries), Key(entries[e]) = key
               PROVE  FALSE
  OBVIOUS
<1>2. InChain(e, Bucket(key))
  BY <1>1 DEF InChain
<1>3. at < e
  BY InputTypes DEF None
<1> QED BY <1>1, <1>2, <1>3 DEF OnChain

\* A walk starts at the head of the bucket.
LEMMA StartOfChain ==
  ASSUME TypeOK, HasTable, Sized, ChainsComplete, NEW key \in Keys
  PROVE  LET head == buckets[Bucket(key)]
         IN /\ head \in Nat
            /\ head = None \/ InChain(head, Bucket(key))
            /\ \A f \in 1 .. Len(entries) :
                  head < f /\ InChain(f, Bucket(key)) => Key(entries[f]) # key
<1> DEFINE head == buckets[Bucket(key)]
<1>1. Bucket(key) \in 1 .. Len(buckets)
  BY BucketInTable, InputTypes DEF Sized
<1>2. LeadsTo(head, Bucket(key), Len(entries) + 1)
  BY <1>1 DEF ChainsComplete
<1>3. head \in Nat
  BY <1>1, InputTypes
<1>4. \A f \in 1 .. Len(entries) : f < Len(entries) + 1
  BY InputTypes
<1> QED BY <1>2, <1>3, <1>4 DEF LeadsTo

-----------------------------------------------------------------------------
\* The initial states and the construction of the table

LEMMA InitInv == Init => Inv
<1> SUFFICES ASSUME Init PROVE Inv
  OBVIOUS
<1> USE DEF Init, HasTable, None
<1>1. btf \in Seq(BaseType) /\ Len(btf) \in Nat
  BY IndexAssumption
<1>2. TypeOK
  <2>1. << >> \in Seq(0 .. Len(entries)) /\ << >> \in Seq(Entry)
    OBVIOUS
  <2> QED BY <1>1, <2>1 DEF TypeOK
<1>3. Sized /\ ChainsComplete /\ Lossless
  BY DEF Sized, ChainsComplete, Lossless
<1>4. OneEntryPerName
  BY <1>1 DEF OneEntryPerName, Capacity
<1>5. Walking /\ Scanning /\ NamedLookupExact /\ AnonymousLookupExact
  BY DEF Walking, Scanning, NamedLookupExact, AnonymousLookupExact
<1> QED BY <1>2, <1>3, <1>4, <1>5 DEF Inv

LEMMA BuildInv == Inv /\ Build => Inv'
<1> SUFFICES ASSUME Inv, Build PROVE Inv'
  OBVIOUS
<1> USE DEF Inv, Build, None
<1>1. PICK n \in NextPowersOfTwo(2 * Capacity) : buckets' = [b \in 1 .. n |-> None]
  OBVIOUS
<1>2. n \in Nat /\ n > 0
  BY IndexAssumption DEF NextPowersOfTwo
<1>3. entries' = << >> /\ id' = 1 /\ pc' = "scan"
  BY DEF Sized, HasTable, Walking
<1>4. buckets' \in Seq(0 .. 0) /\ Len(buckets') = n
  BY <1>1, <1>2
<1>5. TypeOK'
  BY <1>3, <1>4, InputTypes DEF TypeOK, Entry
<1>6. Sized'
  <2>1. HasTable' /\ Seen' = 1 /\ Len(entries') = 0
    BY <1>3 DEF HasTable, Seen
  <2>2. Len(buckets') > 0
    BY <1>2, <1>4
  <2> HIDE DEF Inv, Build
  <2> QED BY <2>1, <2>2 DEF Sized
<1>7. ChainsComplete'
  BY <1>1, <1>2, <1>3, <1>4 DEF ChainsComplete, LeadsTo, InChain
<1>8. OneEntryPerName' /\ Lossless'
  BY <1>3, InputTypes DEF OneEntryPerName, Lossless, Capacity, Seen
<1>9. Walking' /\ Scanning' /\ NamedLookupExact' /\ AnonymousLookupExact'
  BY <1>3 DEF Walking, Scanning, NamedLookupExact, AnonymousLookupExact
<1> QED BY <1>5, <1>6, <1>7, <1>8, <1>9

\* What is known of the table depends on the table and the types seen only.
LEMMA TableKept ==
  ASSUME Inv, HasTable, HasTable', UNCHANGED table, Seen' = Seen
  PROVE  Sized' /\ ChainsComplete' /\ OneEntryPerName' /\ Lossless'
<1> USE DEF Inv, table
<1>1. Sized'
  BY DEF Sized
<1>2. ChainsComplete'
  BY DEF ChainsComplete, LeadsTo, InChain, Bucket
<1>3. OneEntryPerName'
  BY DEF OneEntryPerName, Capacity
<1>4. Lossless'
  BY DEF Lossless, TypesOf, Listed
<1> QED BY <1>1, <1>2, <1>3, <1>4

-----------------------------------------------------------------------------
\* The insertion of a type

LEMMA SkipTypeInv == Inv /\ SkipType => Inv'
<1> SUFFICES ASSUME Inv, SkipType PROVE Inv'
  OBVIOUS
<1> USE DEF Inv, SkipType
<1>1. HasTable /\ HasTable' /\ Seen = id /\ Seen' = id + 1 /\ id \in Nat /\ id <= Len(btf)
  BY InputTypes DEF HasTable, Seen
<1>2. TypeOK'
  BY InputTypes DEF TypeOK, Entry
<1>3. Sized' /\ ChainsComplete' /\ OneEntryPerName'
  BY <1>1, InputTypes
  DEF Sized, ChainsComplete, LeadsTo, InChain, Bucket, OneEntryPerName, Capacity
<1>4. \A key : TypesOf(key, Seen)' = TypesOf(key, Seen)
  BY <1>1 DEF TypesOf, Listed
<1>5. Lossless'
  <2>1. ASSUME NEW i \in 1 .. Seen' - 1, Listed(i)'
        PROVE  \E e \in 1 .. Len(entries) : Key(entries[e]) = Key(btf[i])
    <3>1. i # id /\ i \in 1 .. Seen - 1
      BY <1>1, <2>1 DEF Listed
    <3> QED BY <3>1, <2>1, <1>1 DEF Lossless, Listed
  <2>2. \A e \in 1 .. Len(entries) :
            IF entries[e].ambiguous
              THEN \E i, j \in TypesOf(Key(entries[e]), Seen) : i # j
              ELSE TypesOf(Key(entries[e]), Seen) = {entries[e].type_id}
    BY <1>1 DEF Lossless
  <2> QED BY <1>1, <1>4, <2>1, <2>2 DEF Lossless
<1>6. Walking' /\ Scanning' /\ NamedLookupExact' /\ AnonymousLookupExact'
  BY DEF Walking, Scanning, NamedLookupExact, AnonymousLookupExact
<1> QED BY <1>2, <1>3, <1>5, <1>6

LEMMA InsertTypeInv == Inv /\ InsertType => Inv'
<1> SUFFICES ASSUME Inv, InsertType PROVE Inv'
  OBVIOUS
<1> USE DEF Inv, InsertType
<1> DEFINE key == Key(btf[id])
<1>1. HasTable /\ HasTable' /\ Seen' = Seen
  BY DEF HasTable, Seen
<1>2. Sized' /\ ChainsComplete' /\ OneEntryPerName' /\ Lossless'
  BY <1>1, TableKept DEF table
<1>3. id \in 1 .. Len(btf) /\ key \in Keys
  BY InputTypes DEF TypeOK
<1>4. at' \in Nat /\ (at' = None \/ InChain(at', Bucket(key)))
      /\ \A f \in 1 .. Len(entries) : at' < f /\ InChain(f, Bucket(key)) => Key(entries[f]) # key
  <2> HIDE DEF key
  <2>1. at' = buckets[Bucket(key)]
    BY DEF key
  <2> QED BY <1>1, <1>3, <2>1, StartOfChain
<1>5. TypeOK'
  BY <1>4 DEF TypeOK, Entry
<1>6. OnChain(key)'
  BY <1>4 DEF OnChain, InChain, Bucket
<1>7. Walking'
  BY <1>6 DEF Walking, Listed
<1>8. Scanning' /\ NamedLookupExact' /\ AnonymousLookupExact'
  BY DEF Scanning, NamedLookupExact, AnonymousLookupExact
<1> QED BY <1>2, <1>5, <1>7, <1>8

LEMMA PassEntryInv == Inv /\ PassEntry => Inv'
<1> SUFFICES ASSUME Inv, PassEntry PROVE Inv'
  OBVIOUS
<1> USE DEF Inv, PassEntry
<1> DEFINE key == Key(btf[id])
<1>1. HasTable /\ HasTable' /\ Seen' = Seen
  BY DEF HasTable, Seen
<1>2. Sized' /\ ChainsComplete' /\ OneEntryPerName' /\ Lossless'
  BY <1>1, TableKept DEF table
<1>3. id \in 1 .. Len(btf) /\ key \in Keys /\ Listed(id) /\ OnChain(key)
  BY InputTypes DEF TypeOK, Walking
<1>4. at' \in Nat /\ (at' = None \/ InChain(at', Bucket(key)))
      /\ \A f \in 1 .. Len(entries) : at' < f /\ InChain(f, Bucket(key)) => Key(entries[f]) # key
  <2>1. Key(entries[at]) # key /\ at # None /\ at' = entries[at].next
    OBVIOUS
  <2> HIDE DEF key
  <2> QED BY <1>1, <1>3, <2>1, NextInChain
<1>5. TypeOK'
  BY <1>4 DEF TypeOK, Entry
<1>6. OnChain(key)'
  BY <1>4 DEF OnChain, InChain, Bucket
<1>7. Walking'
  BY <1>3, <1>6 DEF Walking, Listed
<1>8. Scanning' /\ NamedLookupExact' /\ AnonymousLookupExact'
  BY DEF Scanning, NamedLookupExact, AnonymousLookupExact
<1> QED BY <1>2, <1>5, <1>7, <1>8

\* An entry that is found becomes ambiguous: now there are two types of its key.
LEMMA MarkAmbiguousInv == Inv /\ MarkAmbiguous => Inv'
<1> SUFFICES ASSUME Inv, MarkAmbiguous PROVE Inv'
  OBVIOUS
<1> USE DEF Inv, MarkAmbiguous
<1>1. HasTable /\ HasTable' /\ Seen = id /\ Seen' = id + 1
  BY DEF HasTable, Seen
<1>2. /\ id \in 1 .. Len(btf) /\ Listed(id) /\ Len(btf) \in Nat
      /\ at \in 1 .. Len(entries) /\ Len(entries) \in Nat
  BY InputTypes DEF TypeOK, Walking, OnChain, InChain
<1>3. PICK key, new : key = Key(btf[id]) /\ new = id
  OBVIOUS
<1>4. /\ entries' \in Seq(Entry) /\ Len(entries') = Len(entries)
      /\ \A e \in 1 .. Len(entries) :
            /\ Key(entries'[e]) = Key(entries[e]) /\ entries'[e].next = entries[e].next
            /\ e # at => entries'[e] = entries[e]
      /\ entries'[at].ambiguous
  <2> DEFINE marked == [entries[at] EXCEPT !.ambiguous = TRUE, !.type_id = 0]
  <2>1. entries \in Seq(Entry) /\ entries[at] \in Entry
    BY <1>2, InputTypes DEF TypeOK
  <2>2. /\ marked \in Entry /\ Key(marked) = Key(entries[at])
        /\ marked.next = entries[at].next /\ marked.ambiguous
    <3> HIDE DEF Inv, MarkAmbiguous
    <3>1. 0 \in 0 .. Len(btf)
      BY <1>2
    <3>2. marked \in Entry
      BY <2>1, <3>1, Zenon DEF Entry
    <3>3. marked.name = entries[at].name /\ marked.kind = entries[at].kind
      BY <2>1 DEF Entry
    <3>4. marked.next = entries[at].next /\ marked.ambiguous
      BY <2>1 DEF Entry
    <3> HIDE DEF marked
    <3> QED BY <3>2, <3>3, <3>4 DEF Key
  <2>3. entries' = [entries EXCEPT ![at] = marked]
    OBVIOUS
  <2> HIDE DEF marked
  <2> HIDE DEF Inv, MarkAmbiguous
  <2>4. entries' \in Seq(Entry) /\ Len(entries') = Len(entries)
    BY <1>2, <2>1, <2>2, <2>3
  <2>5. \A e \in 1 .. Len(entries) : entries'[e] = IF e = at THEN marked ELSE entries[e]
    BY <1>2, <2>1, <2>3
  <2> QED BY <1>2, <2>2, <2>4, <2>5
<1>5. TypeOK'
  <2>1. Entry' = Entry
    BY <1>4 DEF Entry
  <2>2. buckets' \in Seq(0 .. Len(entries'))
    BY <1>4 DEF TypeOK
  <2>3. id' \in 1 .. Len(btf) + 1
    BY <1>2
  <2> QED BY <1>4, <2>1, <2>2, <2>3 DEF TypeOK
<1>6. Sized' /\ OneEntryPerName'
  BY <1>1, <1>2, <1>4 DEF Sized, OneEntryPerName, Capacity
<1>7. ChainsComplete'
  <2>1. \A e, b : InChain(e, b)' <=> InChain(e, b)
    BY <1>4 DEF InChain, Bucket
  <2>2. \A link, b, e : LeadsTo(link, b, e)' <=> LeadsTo(link, b, e)
    BY <1>4, <2>1 DEF LeadsTo
  <2>3. ASSUME NEW b \in 1 .. Len(buckets)
        PROVE  LeadsTo(buckets[b], b, Len(entries) + 1)'
    BY <1>1, <1>4, <2>2 DEF ChainsComplete
  <2>4. ASSUME NEW e \in 1 .. Len(entries)
        PROVE  LeadsTo(entries[e].next, Bucket(Key(entries[e])), e)'
    <3>1. LeadsTo(entries[e].next, Bucket(Key(entries[e])), e)
      BY <1>1 DEF ChainsComplete
    <3>2. entries'[e].next = entries[e].next /\ Bucket(Key(entries[e]))' = Bucket(Key(entries[e]))
      BY <1>4 DEF Bucket
    <3> QED BY <2>2, <3>1, <3>2
  <2> QED BY <1>4, <2>3, <2>4 DEF ChainsComplete
<1>8. Lossless'
  <2>1. \A k : TypesOf(k, Seen)' = TypesOf(k, Seen) \cup IF k = key THEN {new} ELSE {}
    BY <1>1, <1>2, <1>3 DEF TypesOf, Listed
  <2>2. ASSUME NEW i \in 1 .. Seen' - 1, Listed(i)'
        PROVE  \E e \in 1 .. Len(entries) : Key(entries[e]) = Key(btf[i])
    <3>1. CASE i = id
      BY <1>2, <3>1
    <3>2. CASE i # id
      <4>1. i \in 1 .. Seen - 1 /\ Listed(i)
        BY <1>1, <1>2, <2>2, <3>2 DEF Listed
      <4> QED BY <1>1, <4>1 DEF Lossless
    <3> QED BY <3>1, <3>2
  <2>3. \E i, j \in TypesOf(key, Seen)' : i # j
    <3>1. \E i \in TypesOf(key, Seen) : i # new
      <4>1. key = Key(entries[at])
        BY <1>3
      <4>2. CASE entries[at].ambiguous
        BY <1>1, <1>2, <4>1, <4>2 DEF Lossless
      <4>3. CASE ~entries[at].ambiguous
        <5>1. entries[at].type_id \in TypesOf(key, Seen)
          BY <1>1, <1>2, <4>1, <4>3 DEF Lossless
        <5>2. new \notin TypesOf(key, Seen)
          BY <1>1, <1>2, <1>3 DEF TypesOf
        <5> QED BY <5>1, <5>2
      <4> QED BY <4>2, <4>3
    <3> QED BY <2>1, <3>1
  <2>4. ASSUME NEW e \in 1 .. Len(entries), NEW k, k = Key(entries[e])
        PROVE  IF entries'[e].ambiguous
                 THEN \E i, j \in TypesOf(k, Seen)' : i # j
                 ELSE TypesOf(k, Seen)' = {entries'[e].type_id}
    <3>1. CASE e = at
      BY <1>3, <1>4, <2>3, <2>4, <3>1
    <3>2. CASE e # at
      <4>1. k # key /\ entries'[e] = entries[e]
        BY <1>2, <1>3, <1>4, <2>4, <3>2 DEF OneEntryPerName
      <4>2. TypesOf(k, Seen)' = TypesOf(k, Seen)
        BY <2>1, <4>1
      <4>3. IF entries[e].ambiguous
              THEN \E i, j \in TypesOf(k, Seen) : i # j
              ELSE TypesOf(k, Seen) = {entries[e].type_id}
        BY <1>1, <2>4 DEF Lossless
      <4> HIDE DEF Inv, MarkAmbiguous
      <4> QED BY <4>1, <4>2, <4>3
    <3> QED BY <3>1, <3>2
  <2> QED BY <1>1, <1>4, <2>2, <2>4 DEF Lossless
<1>9. Walking' /\ Scanning' /\ NamedLookupExact' /\ AnonymousLookupExact'
  BY DEF Walking, Scanning, NamedLookupExact, AnonymousLookupExact
<1> QED BY <1>5, <1>6, <1>7, <1>8, <1>9

\* A new entry is the head of its chain, with the chain of the bucket behind it.
LEMMA AppendEntryInv == Inv /\ AppendEntry => Inv'
<1> SUFFICES ASSUME Inv, AppendEntry PROVE Inv'
  OBVIOUS
<1> USE DEF Inv, AppendEntry
<1>1. HasTable /\ HasTable' /\ Seen = id /\ Seen' = id + 1
  BY DEF HasTable, Seen
<1>2. /\ id \in 1 .. Len(btf) /\ Listed(id) /\ Len(btf) \in Nat
      /\ Len(entries) \in Nat /\ Len(buckets) \in Nat
  BY InputTypes DEF TypeOK, Walking
<1>3. PICK key, new, last : key = Key(btf[id]) /\ new = id /\ last = Len(entries)
  OBVIOUS
<1>4. key \in Keys /\ \A e \in 1 .. last : Key(entries[e]) # key
  <2>1. OnChain(key) /\ at = None
    BY <1>3 DEF Walking
  <2> QED BY <1>2, <1>3, <2>1, EndOfChain, InputTypes
<1>5. PICK b0 : b0 = Bucket(key) /\ b0 \in 1 .. Len(buckets)
  BY <1>1, <1>2, <1>4, BucketInTable, InputTypes DEF Sized
<1>6. buckets[b0] \in 0 .. last /\ LeadsTo(buckets[b0], b0, last + 1)
  BY <1>1, <1>3, <1>5, InputTypes DEF ChainsComplete
<1>7. /\ Len(entries') = last + 1 /\ last \in Nat
      /\ \A e \in 1 .. last : entries'[e] = entries[e]
      /\ entries'[last + 1] = [name |-> btf[id].name, kind |-> btf[id].kind, type_id |-> id,
                              next |-> buckets[b0], ambiguous |-> FALSE]
      /\ Key(entries'[last + 1]) = key
  <2>1. entries' = Append(entries, NewEntry(buckets[b0]))
    BY <1>3, <1>5
  <2>2. entries \in Seq(Entry)
    BY DEF TypeOK
  <2> HIDE DEF Inv, AppendEntry
  <2>3. Len(entries') = last + 1 /\ \A e \in 1 .. last : entries'[e] = entries[e]
    BY <1>2, <1>3, <2>1, <2>2
  <2>4. entries'[last + 1] = NewEntry(buckets[b0])
    BY <1>2, <1>3, <2>1, <2>2
  <2> QED BY <1>2, <1>3, <2>3, <2>4 DEF NewEntry, Key
<1>8. /\ Len(buckets') = Len(buckets) /\ buckets' \in Seq(0 .. last + 1)
      /\ \A b \in 1 .. Len(buckets) : buckets'[b] = IF b = b0 THEN last + 1 ELSE buckets[b]
  <2>1. buckets' = [buckets EXCEPT ![b0] = last + 1]
    BY <1>3, <1>5
  <2>2. buckets \in Seq(0 .. last)
    BY <1>3 DEF TypeOK
  <2> HIDE DEF Inv, AppendEntry
  <2>3. buckets \in Seq(0 .. last + 1)
    BY <1>2, <1>3, <2>2
  <2> QED BY <1>2, <1>3, <1>5, <2>1, <2>3
<1>9. TypeOK'
  <2>1. ASSUME NEW e \in 1 .. last + 1
        PROVE  entries'[e] \in Entry'
    <3>1. CASE e \in 1 .. last
      <4>1. entries[e] \in Entry /\ entries'[e] = entries[e]
        BY <1>3, <1>7, <3>1, InputTypes
      <4>2. 0 .. Len(entries) \subseteq 0 .. Len(entries')
        BY <1>2, <1>3, <1>7
      <4>3. btf' = btf
        OBVIOUS
      <4> HIDE DEF Inv, AppendEntry
      <4> QED BY <4>1, <4>2, <4>3, Zenon DEF Entry
    <3>2. CASE e = last + 1
      <4>1. btf[id] \in BaseType
        BY <1>2, InputTypes
      <4>2. buckets[b0] \in 0 .. Len(entries') /\ id \in 0 .. Len(btf')
        BY <1>2, <1>6, <1>7
      <4>3. btf[id].name \in Names /\ btf[id].kind \in TypeKinds
        BY <4>1 DEF BaseType
      <4> HIDE DEF Inv, AppendEntry
      <4>4. [name |-> btf[id].name, kind |-> btf[id].kind, type_id |-> id,
             next |-> buckets[b0], ambiguous |-> FALSE] \in Entry'
        BY <4>2, <4>3 DEF Entry
      <4> QED BY <1>7, <3>2, <4>4
    <3> QED BY <1>7, <3>1, <3>2
  <2>2. entries' \in Seq(Entry')
    <3>1. entries' = [e \in 1 .. last + 1 |-> entries'[e]]
      <4>1. entries \in Seq(Entry) /\ entries' = Append(entries, NewEntry(buckets[b0]))
        BY <1>3, <1>5 DEF TypeOK
      <4> HIDE DEF Inv, AppendEntry
      <4> QED BY <1>2, <1>3, <4>1
    <3> HIDE DEF Inv, AppendEntry
    <3> QED BY <1>7, <2>1, <3>1
  <2>3. id' \in 1 .. Len(btf) + 1
    BY <1>2
  <2> QED BY <1>7, <1>8, <2>2, <2>3 DEF TypeOK
<1>10. Sized'
  BY <1>1, <1>2, <1>3, <1>7, <1>8 DEF Sized
<1>11. OneEntryPerName'
  <2>1. last + 1 <= Capacity'
    BY <1>1, <1>2, <1>3 DEF Sized, Capacity
  <2> HIDE DEF Inv, AppendEntry
  <2>2. OneEntryPerName
    BY DEF Inv
  <2>3. ASSUME NEW e \in 1 .. last + 1, NEW f \in 1 .. last + 1, Key(entries'[e]) = Key(entries'[f])
        PROVE  e = f
    <3>1. CASE e \in 1 .. last /\ f \in 1 .. last
      BY <1>3, <1>7, <2>2, <2>3, <3>1 DEF OneEntryPerName
    <3>2. CASE e = last + 1 \/ f = last + 1
      BY <1>4, <1>7, <2>3, <3>2
    <3> QED BY <1>7, <3>1, <3>2
  <2> QED BY <1>7, <2>1, <2>3 DEF OneEntryPerName
<1>12. ChainsComplete'
  <2>1. \A k : Bucket(k)' = Bucket(k)
    BY <1>8 DEF Bucket
  <2>2. \A b : \A e \in 1 .. last : InChain(e, b)' <=> InChain(e, b)
    BY <1>3, <1>7, <2>1 DEF InChain
  <2>3. \A b : InChain(last + 1, b)' <=> b = b0
    BY <1>5, <1>7, <2>1 DEF InChain
  <2> HIDE DEF Inv, AppendEntry
  <2>4. ASSUME NEW b, NEW e \in 1 .. last + 1, NEW link \in 0 .. last, LeadsTo(link, b, e)
        PROVE  LeadsTo(link, b, e)'
    <3>1. \A f \in 1 .. last + 1 : f < e => f \in 1 .. last
      BY <1>7
    <3>2. CASE link = None
      BY <1>3, <1>7, <2>2, <2>4, <3>1, <3>2 DEF LeadsTo, InChain, None
    <3>3. CASE link # None
      BY <1>3, <1>7, <2>2, <2>4, <3>1, <3>3 DEF LeadsTo, None
    <3> QED BY <3>2, <3>3
  <2>5. ASSUME NEW b \in 1 .. Len(buckets), NEW link, link = buckets'[b]
        PROVE  LeadsTo(link, b, last + 2)'
    <3>1. CASE b = b0
      BY <1>7, <1>8, <2>3, <2>5, <3>1 DEF LeadsTo
    <3>2. CASE b # b0
      <4>1. link = buckets[b] /\ link \in 0 .. last
        BY <1>3, <1>8, <2>5, <3>2, InputTypes DEF Inv
      <4>2. LeadsTo(link, b, last + 1)
        BY <1>1, <1>3, <4>1 DEF Inv, ChainsComplete
      <4>3. LeadsTo(link, b, last + 1)'
        BY <1>7, <2>4, <4>1, <4>2
      <4>4. ~InChain(last + 1, b)'
        BY <2>3, <3>2
      <4> QED BY <1>7, <4>1, <4>3, <4>4 DEF LeadsTo
    <3> QED BY <3>1, <3>2
  <2>6. ASSUME NEW e \in 1 .. last + 1, NEW b, b = Bucket(Key(entries'[e])),
               NEW link, link = entries'[e].next
        PROVE  LeadsTo(link, b, e)'
    <3>1. CASE e = last + 1
      BY <1>5, <1>6, <1>7, <2>4, <2>6, <3>1
    <3>2. CASE e \in 1 .. last
      <4>1. link = entries[e].next /\ b = Bucket(Key(entries[e]))
        BY <1>7, <2>6, <3>2
      <4>2. LeadsTo(link, b, e)
        BY <1>1, <1>3, <3>2, <4>1 DEF Inv, ChainsComplete
      <4>3. link \in 0 .. last
        BY <1>3, <3>2, <4>1, InputTypes DEF Inv, Entry
      <4> QED BY <2>4, <4>1, <4>2, <4>3
    <3> QED BY <1>7, <3>1, <3>2
  <2> QED BY <1>7, <1>8, <2>1, <2>5, <2>6 DEF ChainsComplete
<1>13. Lossless'
  <2>1. \A k : TypesOf(k, Seen)' = TypesOf(k, Seen) \cup IF k = key THEN {new} ELSE {}
    BY <1>1, <1>2, <1>3 DEF TypesOf, Listed
  <2>2. \A i \in 1 .. Seen - 1 : Listed(i) =>
            \E e \in 1 .. last : Key(entries[e]) = Key(btf[i])
    BY <1>1, <1>3 DEF Lossless
  <2>3. TypesOf(key, Seen) = {}
    BY <1>4, <2>2 DEF TypesOf
  <2>4. ASSUME NEW i \in 1 .. Seen' - 1, Listed(i)'
        PROVE  \E e \in 1 .. last + 1 : Key(entries'[e]) = Key(btf[i])
    <3>1. CASE i = id
      BY <1>3, <1>7, <3>1
    <3>2. CASE i # id
      <4>1. i \in 1 .. Seen - 1 /\ Listed(i)
        BY <1>1, <1>2, <2>4, <3>2 DEF Listed
      <4> QED BY <1>7, <2>2, <4>1
    <3> QED BY <3>1, <3>2
  <2>5. ASSUME NEW e \in 1 .. last + 1, NEW k, k = Key(entries'[e])
        PROVE  IF entries'[e].ambiguous
                 THEN \E i, j \in TypesOf(k, Seen)' : i # j
                 ELSE TypesOf(k, Seen)' = {entries'[e].type_id}
    <3>1. CASE e = last + 1
      BY <1>3, <1>7, <2>1, <2>3, <2>5, <3>1
    <3>2. CASE e \in 1 .. last
      <4>1. entries'[e] = entries[e] /\ k = Key(entries[e]) /\ k # key
        BY <1>4, <1>7, <2>5, <3>2
      <4>2. TypesOf(k, Seen)' = TypesOf(k, Seen)
        BY <2>1, <4>1
      <4>3. IF entries[e].ambiguous
              THEN \E i, j \in TypesOf(k, Seen) : i # j
              ELSE TypesOf(k, Seen) = {entries[e].type_id}
        BY <1>1, <1>3, <3>2, <4>1 DEF Lossless
      <4> HIDE DEF Inv, AppendEntry
      <4> QED BY <4>1, <4>2, <4>3
    <3> QED BY <1>7, <3>1, <3>2
  <2>6. btf' = btf
    OBVIOUS
  <2> HIDE DEF Inv, AppendEntry
  <2> QED BY <1>1, <1>7, <2>4, <2>5, <2>6 DEF Lossless
<1>14. Walking' /\ Scanning' /\ NamedLookupExact' /\ AnonymousLookupExact'
  BY DEF Walking, Scanning, NamedLookupExact, AnonymousLookupExact
<1> QED BY <1>9, <1>10, <1>11, <1>12, <1>13, <1>14

LEMMA BuiltInv == Inv /\ Built => Inv'
<1> SUFFICES ASSUME Inv, Built PROVE Inv'
  OBVIOUS
<1> USE DEF Inv, Built, Leave, None
<1>1. HasTable /\ HasTable' /\ Seen' = Seen
  BY InputTypes DEF HasTable, Seen, TypeOK
<1>2. Sized' /\ ChainsComplete' /\ OneEntryPerName' /\ Lossless'
  BY <1>1, TableKept DEF table
<1>3. TypeOK'
  BY InputTypes DEF TypeOK, Entry
<1>4. Walking' /\ Scanning' /\ NamedLookupExact' /\ AnonymousLookupExact'
  BY DEF Walking, Scanning, NamedLookupExact, AnonymousLookupExact
<1> QED BY <1>2, <1>3, <1>4

\* Without a table: no types, no entries, and no lookup runs.
LEMMA NoTableInv == Inv /\ (BuildFails \/ Destroy) => Inv'
<1> SUFFICES ASSUME Inv, BuildFails \/ Destroy PROVE Inv'
  OBVIOUS
<1> USE DEF Inv, BuildFails, Destroy, Asking
<1>1. ~HasTable' /\ entries' = << >>
  BY DEF HasTable, Sized
<1>2. Sized' /\ ChainsComplete' /\ Lossless'
  BY <1>1 DEF Sized, ChainsComplete, Lossless
<1>3. OneEntryPerName'
  BY <1>1, InputTypes DEF OneEntryPerName, Capacity
<1>4. TypeOK'
  <2>1. buckets' \in Seq(0 .. Len(entries')) /\ entries' \in Seq(Entry')
    <3>1. CASE BuildFails
      BY <1>1, <3>1 DEF TypeOK, HasTable, Sized
    <3>2. CASE Destroy
      BY <1>1, <3>2
    <3> QED BY <3>1, <3>2
  <2> QED BY <2>1, InputTypes DEF TypeOK
<1>5. Walking' /\ Scanning' /\ NamedLookupExact' /\ AnonymousLookupExact'
  BY DEF Walking, Scanning, NamedLookupExact, AnonymousLookupExact
<1> QED BY <1>2, <1>3, <1>4, <1>5

-----------------------------------------------------------------------------
\* Lookups by name

LEMMA LookupInv == Inv /\ Lookup => Inv'
<1> SUFFICES ASSUME Inv, Lookup PROVE Inv'
  OBVIOUS
<1> USE DEF Inv, Lookup, Asking
<1> DEFINE key == Key(query')
<1>1. HasTable /\ HasTable' /\ Seen' = Seen
  BY DEF HasTable, Seen
<1>2. Sized' /\ ChainsComplete' /\ OneEntryPerName' /\ Lossless'
  BY <1>1, TableKept DEF table
<1>3. query' \in Queries /\ query'.by = "name" /\ query'.name # Unnamed /\ key \in Keys
  BY DEF Queries, Key, Keys
<1>4. at' \in Nat /\ (at' = None \/ InChain(at', Bucket(key)))
      /\ \A f \in 1 .. Len(entries) : at' < f /\ InChain(f, Bucket(key)) => Key(entries[f]) # key
  <2>1. at' = buckets[Bucket(key)]
    OBVIOUS
  <2> HIDE DEF key
  <2> QED BY <1>1, <1>3, <2>1, StartOfChain
<1>5. TypeOK'
  BY <1>3, <1>4 DEF TypeOK, Entry
<1>6. OnChain(Key(query))'
  BY <1>4 DEF OnChain, InChain, Bucket
<1>7. Walking'
  BY <1>3, <1>6 DEF Walking
<1>8. Scanning' /\ NamedLookupExact' /\ AnonymousLookupExact'
  BY DEF Scanning, NamedLookupExact, AnonymousLookupExact
<1> QED BY <1>2, <1>5, <1>7, <1>8

LEMMA NextEntryInv == Inv /\ NextEntry => Inv'
<1> SUFFICES ASSUME Inv, NextEntry PROVE Inv'
  OBVIOUS
<1> USE DEF Inv, NextEntry
<1> DEFINE key == Key(query)
<1>1. HasTable /\ HasTable' /\ Seen' = Seen
  BY DEF HasTable, Seen
<1>2. Sized' /\ ChainsComplete' /\ OneEntryPerName' /\ Lossless'
  BY <1>1, TableKept DEF table
<1>3. query.by = "name" /\ query.name # Unnamed /\ key \in Keys /\ OnChain(key)
  BY QueryTypes DEF Walking
<1>4. at' \in Nat /\ (at' = None \/ InChain(at', Bucket(key)))
      /\ \A f \in 1 .. Len(entries) : at' < f /\ InChain(f, Bucket(key)) => Key(entries[f]) # key
  <2>1. Key(entries[at]) # key /\ at # None /\ at' = entries[at].next
    OBVIOUS
  <2> HIDE DEF key
  <2> QED BY <1>1, <1>3, <2>1, NextInChain
<1>5. TypeOK'
  BY <1>4 DEF TypeOK, Entry
<1>6. OnChain(key)'
  BY <1>4 DEF OnChain, InChain, Bucket
<1>7. Walking'
  BY <1>3, <1>6 DEF Walking
<1>8. Scanning' /\ NamedLookupExact' /\ AnonymousLookupExact'
  BY DEF Scanning, NamedLookupExact, AnonymousLookupExact
<1> QED BY <1>2, <1>5, <1>7, <1>8

\* A return needs to be exact only: it leaves the table alone and forgets the walk.
LEMMA AnswerInv ==
  ASSUME Inv, HasTable, pc \notin {"scan", "insert"},
         UNCHANGED table, pc' = "answered", Leave,
         query' \in Queries, answer' \in [rc : {-1, 0, 1}, id : 0 .. Len(btf)],
         NamedLookupExact', AnonymousLookupExact'
  PROVE  Inv'
<1> USE DEF Inv, table, Leave, None
<1>1. HasTable' /\ Seen' = Seen
  BY DEF HasTable, Seen
<1>2. TypeOK'
  BY InputTypes DEF TypeOK, Entry
<1>3. Walking' /\ Scanning'
  BY DEF Walking, Scanning
<1>4. Sized' /\ ChainsComplete' /\ OneEntryPerName' /\ Lossless'
  BY <1>1, TableKept
<1> QED BY <1>2, <1>3, <1>4

\* An unnamed type is in no entry's name and kind.
LEMMA LookupUnnamedInv == Inv /\ LookupUnnamed => Inv'
<1> SUFFICES ASSUME Inv, LookupUnnamed PROVE Inv'
  OBVIOUS
<1> USE DEF LookupUnnamed, Return, Asking
<1>1. query' \in Queries /\ query'.by = "name" /\ query'.name = Unnamed
  OBVIOUS
<1>2. HasTable /\ pc \notin {"scan", "insert"}
  BY DEF HasTable
<1>3. answer' = [rc |-> 0, id |-> 0] /\ Len(btf) \in Nat
  BY InputTypes DEF Inv
<1>4. TypesOf(Key(query), Len(btf) + 1)' = {}
  BY <1>1 DEF TypesOf, Listed, Key
<1>5. NamedLookupExact'
  BY <1>3, <1>4 DEF NamedLookupExact, Answers
<1>6. AnonymousLookupExact'
  BY <1>1 DEF AnonymousLookupExact
<1> QED BY <1>1, <1>2, <1>3, <1>5, <1>6, AnswerInv DEF table

\* The walk ends: at an entry of the name and kind, or behind the chain.
LEMMA WalkEndsInv == Inv /\ (Ambiguous \/ Found \/ NotFound) => Inv'
<1> SUFFICES ASSUME Inv, Ambiguous \/ Found \/ NotFound PROVE Inv'
  OBVIOUS
<1> USE DEF Ambiguous, Found, NotFound, Return
<1>1. HasTable /\ pc = "lookup" /\ Seen = Len(btf) + 1 /\ Len(btf) \in Nat
  BY InputTypes DEF HasTable, Seen, Inv
<1>2. PICK key, S : key = Key(query) /\ S = TypesOf(key, Seen)
  OBVIOUS
<1>3. query.by = "name" /\ OnChain(key) /\ query \in Queries /\ query' = query
  BY <1>1, <1>2, QueryTypes DEF Inv, Walking
<1>4. TypesOf(Key(query), Len(btf) + 1)' = S
  BY <1>1, <1>2 DEF TypesOf, Listed, Key
<1>5. S \subseteq 1 .. Len(btf)
  BY <1>1, <1>2 DEF TypesOf
<1>6. ASSUME at # None, key = Key(entries[at])
      PROVE  IF entries[at].ambiguous THEN \E i, j \in S : i # j ELSE S = {entries[at].type_id}
  <2>1. at \in 1 .. Len(entries)
    BY <1>3, <1>6 DEF OnChain, InChain
  <2> QED BY <1>1, <1>2, <1>6, <2>1 DEF Inv, Lossless
<1>7. ASSUME at = None PROVE S = {}
  <2>1. \A e \in 1 .. Len(entries) : Key(entries[e]) # key
    BY <1>3, <1>7, EndOfChain DEF Inv
  <2> QED BY <1>1, <1>2, <2>1 DEF Inv, Lossless, TypesOf
<1>8. answer' \in [rc : {-1, 0, 1}, id : 0 .. Len(btf)] /\ Answers(S)'
  <2>1. CASE Ambiguous
    <3>1. answer' = [rc |-> -1, id |-> 0] /\ \E i, j \in S : i # j
      BY <1>2, <1>6, <2>1
    <3> QED BY <1>1, <3>1 DEF Answers
  <2>2. CASE Found
    <3>1. PICK i : i = entries[at].type_id
      OBVIOUS
    <3>2. answer' = [rc |-> 1, id |-> i] /\ S = {i}
      BY <1>2, <1>6, <2>2, <3>1
    <3>3. i \in 1 .. Len(btf)
      BY <1>5, <3>2
    <3> HIDE DEF Ambiguous, Found, NotFound
    <3> QED BY <1>1, <3>2, <3>3 DEF Answers
  <2>3. CASE NotFound
    <3>1. answer' = [rc |-> 0, id |-> 0] /\ S = {}
      BY <1>7, <2>3
    <3> QED BY <1>1, <3>1 DEF Answers
  <2> QED BY <2>1, <2>2, <2>3
<1>9. NamedLookupExact'
  BY <1>4, <1>8 DEF NamedLookupExact, Answers
<1>10. AnonymousLookupExact'
  BY <1>3 DEF AnonymousLookupExact
<1> QED BY <1>1, <1>3, <1>8, <1>9, <1>10, AnswerInv DEF table

-----------------------------------------------------------------------------
\* Lookups of an anonymous enum

LEMMA NotAnonymousEnumInv == Inv /\ NotAnonymousEnum => Inv'
<1> SUFFICES ASSUME Inv, NotAnonymousEnum PROVE Inv'
  OBVIOUS
<1> USE DEF NotAnonymousEnum, Return, Asking
<1>1. query' \in Queries /\ query'.by = "anonymous" /\ ~IsAnonymousEnum(query')
  OBVIOUS
<1>2. HasTable /\ pc \notin {"scan", "insert"}
  BY DEF HasTable
<1>3. answer' = [rc |-> 0, id |-> 0] /\ Len(btf) \in Nat
  BY InputTypes DEF Inv
<1>4. NamedLookupExact'
  BY <1>1 DEF NamedLookupExact
<1>5. AnonymousLookupExact'
  BY <1>1, <1>3 DEF AnonymousLookupExact, Answers, IsAnonymousEnum
<1> QED BY <1>1, <1>2, <1>3, <1>4, <1>5, AnswerInv DEF table

\* The scan of the types: it starts with no match, and keeps at most one.
LEMMA ScanningInv == Inv /\ (LookupAnonymous \/ Differs \/ FirstMatch) => Inv'
<1> SUFFICES ASSUME Inv, LookupAnonymous \/ Differs \/ FirstMatch PROVE Inv'
  OBVIOUS
<1> USE DEF LookupAnonymous, Differs, FirstMatch, Asking, Inv
<1>1. HasTable /\ HasTable' /\ Seen' = Seen
  BY DEF HasTable, Seen
<1>2. Sized' /\ ChainsComplete' /\ OneEntryPerName' /\ Lossless'
  BY <1>1, TableKept DEF table
<1>3. Len(btf) \in Nat /\ id \in Nat
  BY InputTypes
<1>4. TypeOK'
  <2>1. id' \in 1 .. Len(btf) + 1 /\ matches' \subseteq 1 .. Len(btf)
    <3>1. CASE LookupAnonymous
      BY <1>3, <3>1
    <3>2. CASE Differs
      BY <1>3, <3>2 DEF TypeOK
    <3>3. CASE FirstMatch
      BY <1>3, <3>3 DEF TypeOK
    <3> QED BY <3>1, <3>2, <3>3
  <2>2. query' \in Queries \cup {NoQuery}
    BY DEF TypeOK
  <2> QED BY <2>1, <2>2 DEF TypeOK, Entry
<1>5. Scanning'
  <2>1. CASE LookupAnonymous
    BY <2>1 DEF Scanning, IsAnonymousEnum
  <2>2. CASE Differs
    BY <1>3, <2>2 DEF Scanning, IsAnonymousEnum, AnonymousEnumMatches, TypeOK
  <2>3. CASE FirstMatch
    BY <1>3, <2>3 DEF Scanning, IsAnonymousEnum, AnonymousEnumMatches, TypeOK
  <2> QED BY <2>1, <2>2, <2>3
<1>6. Walking' /\ NamedLookupExact' /\ AnonymousLookupExact'
  BY DEF Walking, NamedLookupExact, AnonymousLookupExact
<1> QED BY <1>2, <1>4, <1>5, <1>6

LEMMA ScanEndsInv == Inv /\ (SecondMatch \/ Compared) => Inv'
<1> SUFFICES ASSUME Inv, SecondMatch \/ Compared PROVE Inv'
  OBVIOUS
<1> USE DEF SecondMatch, Compared, Return
<1>1. HasTable /\ pc = "compare" /\ Len(btf) \in Nat /\ id \in Nat /\ id > 0
  BY InputTypes DEF HasTable, Inv, TypeOK
<1>2. PICK S : S = {i \in 1 .. Len(btf) : AnonymousEnumMatches(btf[i], query)}
  OBVIOUS
<1>3. query.by = "anonymous" /\ IsAnonymousEnum(query) /\ query \in Queries /\ query' = query
  BY <1>1, QueryTypes DEF Inv, Scanning
<1>4. /\ matches = {i \in 1 .. id - 1 : AnonymousEnumMatches(btf[i], query)}
      /\ \A i, j \in matches : i = j
  BY <1>1 DEF Inv, Scanning
<1>5. (IF IsAnonymousEnum(query) /\ query.body # Unreadable THEN EqualEnums ELSE {})' = S
  BY <1>2, <1>3 DEF IsAnonymousEnum, EqualEnums, AnonymousEnumMatches
<1>6. answer' \in [rc : {-1, 0, 1}, id : 0 .. Len(btf)] /\ Answers(S)'
  <2>1. CASE SecondMatch
    <3>1. answer' = [rc |-> -1, id |-> 0]
      BY <2>1
    <3>2. id \in S /\ \E i \in matches : i \in S /\ i # id
      BY <1>1, <1>2, <1>4, <2>1
    <3> QED BY <1>1, <3>1, <3>2 DEF Answers
  <2>2. CASE Compared
    <3>1. matches = S
      BY <1>1, <1>2, <1>4, <2>2 DEF Inv, TypeOK
    <3>2. CASE matches = {} /\ answer' = [rc |-> 0, id |-> 0]
      BY <1>1, <3>1, <3>2 DEF Answers
    <3>3. ASSUME NEW found \in matches, answer' = [rc |-> 1, id |-> found]
          PROVE  answer' \in [rc : {-1, 0, 1}, id : 0 .. Len(btf)] /\ Answers(S)'
      <4>1. S = {found} /\ found \in 1 .. Len(btf)
        BY <1>2, <1>4, <3>1, <3>3
      <4> QED BY <1>1, <3>3, <4>1 DEF Answers
    <3> QED BY <2>2, <3>2, <3>3
  <2> QED BY <2>1, <2>2
<1>7. AnonymousLookupExact'
  BY <1>5, <1>6 DEF AnonymousLookupExact, Answers
<1>8. NamedLookupExact'
  BY <1>3 DEF NamedLookupExact
<1> QED BY <1>1, <1>3, <1>6, <1>7, <1>8, AnswerInv DEF table

-----------------------------------------------------------------------------
\* The theorems

LEMMA StutteringInv == Inv /\ UNCHANGED vars => Inv'
<1> SUFFICES ASSUME Inv, UNCHANGED vars PROVE Inv'
  OBVIOUS
<1> USE DEF Inv, vars
<1>1. Seen' = Seen /\ HasTable' = HasTable
  BY DEF Seen, HasTable
<1>2. TypeOK' /\ Sized' /\ OneEntryPerName'
  BY DEF TypeOK, Entry, Sized, Seen, HasTable, OneEntryPerName, Capacity
<1>3. ChainsComplete'
  BY DEF ChainsComplete, LeadsTo, InChain, Bucket, HasTable
<1>4. Lossless'
  BY DEF Lossless, TypesOf, Listed, HasTable, Seen
<1>5. Walking' /\ Scanning'
  BY DEF Walking, OnChain, InChain, Bucket, Listed, Scanning
<1>6. NamedLookupExact' /\ AnonymousLookupExact'
  <2>1. TypesOf(Key(query), Len(btf) + 1)' = TypesOf(Key(query), Len(btf) + 1)
    BY DEF TypesOf, Listed, Key
  <2>2. (IF IsAnonymousEnum(query) /\ query.body # Unreadable THEN EqualEnums ELSE {})'
          = IF IsAnonymousEnum(query) /\ query.body # Unreadable THEN EqualEnums ELSE {}
    BY DEF EqualEnums
  <2> QED BY <2>1, <2>2 DEF NamedLookupExact, AnonymousLookupExact, Answers
<1> QED BY <1>2, <1>3, <1>4, <1>5, <1>6

\* The table and every walk and scan keep the invariant, from the first
\* insertion of mch_btf_index_init to mch_btf_index_destroy.
THEOREM Invariance == Spec => []Inv
<1>1. Inv /\ Next => Inv'
  BY BuildInv, NoTableInv, SkipTypeInv, InsertTypeInv, PassEntryInv, MarkAmbiguousInv,
     AppendEntryInv, BuiltInv, LookupUnnamedInv, LookupInv, NextEntryInv, WalkEndsInv,
     NotAnonymousEnumInv, ScanningInv, ScanEndsInv
  DEF Next, Insertion, Walk, Scan
<1> QED BY InitInv, <1>1, StutteringInv, PTL DEF Spec

\* Every link in the table is the number of an entry, so no walk of
\* index_insert or mch_btf_index_lookup reads past entry_count.
THEOREM TypeCorrect == Spec => []TypeOK
<1>1. Inv => TypeOK
  BY DEF Inv
<1> QED BY <1>1, Invariance, PTL

\* An insertion never loses an entry of its bucket and no chain runs in a
\* circle, whatever the hash function and the number of buckets
\* (index_insert).
THEOREM ChainsStayComplete == Spec => []ChainsComplete
<1>1. Inv => ChainsComplete
  BY DEF Inv
<1> QED BY <1>1, Invariance, PTL

\* A name and kind has one entry, and entry_capacity is never exceeded
\* (index_insert, mch_btf_index_init).
THEOREM OneEntry == Spec => []OneEntryPerName
<1>1. Inv => OneEntryPerName
  BY DEF Inv
<1> QED BY <1>1, Invariance, PTL

\* mch_btf_index_lookup finds a type exactly when it is the only one of its
\* name and kind in the base BTF.
THEOREM NamedExact == Spec => []NamedLookupExact
<1>1. Inv => NamedLookupExact
  BY DEF Inv
<1> QED BY <1>1, Invariance, PTL

\* mch_btf_index_lookup_anonymous_enum finds an enum exactly when it is the
\* only anonymous enum of the base BTF equal to the one asked for.
THEOREM AnonymousExact == Spec => []AnonymousLookupExact
<1>1. Inv => AnonymousLookupExact
  BY DEF Inv
<1> QED BY <1>1, Invariance, PTL
=============================================================================
