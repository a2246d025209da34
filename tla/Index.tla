------------------------------ MODULE Index ------------------------------
(***************************************************************************)
(* The index of the base BTF (btf_index.c).  mch_btf_index_init inserts    *)
(* every named type of an indexed kind into a hash table with chains: the  *)
(* first type of a (name, kind) takes an entry, a further one makes that   *)
(* entry ambiguous.  mch_btf_index_lookup walks one chain and answers      *)
(* "found" only for a type that is the only one of its name and kind.      *)
(* Anonymous enums have no name to hash:                                   *)
(* mch_btf_index_lookup_anonymous_enum compares all types instead.         *)
(*                                                                         *)
(* An action is one iteration of a loop or the step between two loops, so  *)
(* a walk reads the very links that the insertions before it left.         *)
(*                                                                         *)
(* Representation.  A type of the base BTF is the kind, the name and the   *)
(* body that anonymous_enum_matches compares (size, kflag, enumerators).   *)
(* hash_name_kind is any function of (name, kind): nothing depends on      *)
(* which, and every collision is allowed.  Entries are numbered from 1 and *)
(* 0 ends a chain, for the code's 0 and MCH_BTF_INDEX_NONE.                *)
(***************************************************************************)
EXTENDS Integers, Sequences, FiniteSets

CONSTANTS Names,        \* type names, Unnamed among them
          Unnamed,      \* the empty name
          Bodies,       \* what else of a type is compared
          Unreadable,   \* a body with an enumerator whose name libbpf cannot read
          TypeKinds,    \* kinds that occur
          Btfs,         \* base BTFs
          Hashes,       \* hash functions
          MaxBuckets    \* UINT32_MAX

BaseType == [kind : TypeKinds, name : Names, body : Bodies]
Keys     == Names \X TypeKinds

ASSUME IndexAssumption == /\ Btfs \subseteq Seq(BaseType)
                          /\ Hashes \subseteq [Keys -> Nat]
                          /\ MaxBuckets \in Nat
                          /\ Unnamed \in Names
                          /\ Unreadable \in Bodies

VARIABLES btf, hash,    \* the input
          buckets,      \* index->buckets: the first entry of each chain
          entries,      \* index->entries
          pc,
          id,           \* the type a scan has come to
          at,           \* the entry a walk has come to
          query,        \* the arguments of a lookup
          matches,      \* the types an anonymous lookup has matched
          answer        \* what the last lookup returned, and its *type_id

vars == <<btf, hash, buckets, entries, pc, id, at, query, matches, answer>>

None      == 0
EnumKinds == {"ENUM", "ENUM64"}

IndexedKind(kind) == kind \in {"STRUCT", "UNION", "TYPEDEF", "FWD"} \cup EnumKinds

\* The types that get into the table.
Listed(i)   == IndexedKind(btf[i].kind) /\ btf[i].name # Unnamed
Key(x)      == <<x.name, x.kind>>
Bucket(key) == (hash[key] % Len(buckets)) + 1

\* btf__type_cnt(btf) - 1 entries, or 1 for an empty BTF.
Capacity == IF Len(btf) > 0 THEN Len(btf) ELSE 1

\* next_power_of_two(value), when it is at most MaxBuckets.
NextPowersOfTwo(value) ==
    {n \in 1 .. MaxBuckets : (\E k \in 0 .. n : n = 2 ^ k) /\ value <= n /\ n < 2 * value}

\* What a lookup is given: a name and a kind, or a type of an object's BTF.
Queries == [by : {"name"}, name : Names, kind : TypeKinds]
             \cup [by : {"anonymous"}, name : Names, kind : TypeKinds, body : Bodies]

NoQuery == [by |-> "none"]

Init == /\ btf \in Btfs /\ hash \in Hashes
        /\ buckets = << >> /\ entries = << >>
        /\ pc = "start"
        /\ id = 1 /\ at = None /\ matches = {}
        /\ query  = NoQuery
        /\ answer = [rc |-> 0, id |-> 0]

\* A function returns: its locals are gone.
Leave == id' = 1 /\ at' = None /\ matches' = {}

Return(rc, i) == pc' = "answered" /\ answer' = [rc |-> rc, id |-> i] /\ Leave

-----------------------------------------------------------------------------
\* mch_btf_index_init

Build == /\ pc = "start"
         /\ \E n \in NextPowersOfTwo(2 * Capacity) : buckets' = [b \in 1 .. n |-> None]
         /\ pc' = "scan"
         /\ UNCHANGED <<btf, hash, entries, id, at, query, matches, answer>>

\* Too many types, or an allocation fails: the index stays empty.
BuildFails == /\ pc = "start"
              /\ pc' = "failed"
              /\ UNCHANGED <<btf, hash, buckets, entries, id, at, query, matches, answer>>

SkipType == /\ pc = "scan" /\ id <= Len(btf) /\ ~Listed(id)
            /\ id' = id + 1
            /\ UNCHANGED <<btf, hash, buckets, entries, pc, at, query, matches, answer>>

InsertType == /\ pc = "scan" /\ id <= Len(btf) /\ Listed(id)
              /\ pc' = "insert" /\ at' = buckets[Bucket(Key(btf[id]))]
              /\ UNCHANGED <<btf, hash, buckets, entries, id, query, matches, answer>>

\* Variant: only the head of the chain is compared.
PassChain == /\ pc = "insert" /\ at # None /\ Key(entries[at]) # Key(btf[id])
             /\ at' = None
             /\ UNCHANGED <<btf, hash, buckets, entries, pc, id, query, matches, answer>>

PassEntry == /\ pc = "insert" /\ at # None /\ Key(entries[at]) # Key(btf[id])
             /\ at' = entries[at].next
             /\ UNCHANGED <<btf, hash, buckets, entries, pc, id, query, matches, answer>>

\* Variant: the name is found, but the entry goes on naming the first type.
MarkNothing == /\ pc = "insert" /\ at # None /\ Key(entries[at]) = Key(btf[id])
               /\ pc' = "scan" /\ id' = id + 1
               /\ UNCHANGED <<btf, hash, buckets, entries, at, query, matches, answer>>

MarkAmbiguous == /\ pc = "insert" /\ at # None /\ Key(entries[at]) = Key(btf[id])
                 /\ entries' = [entries EXCEPT ![at] = [@ EXCEPT !.ambiguous = TRUE, !.type_id = 0]]
                 /\ pc' = "scan" /\ id' = id + 1
                 /\ UNCHANGED <<btf, hash, buckets, at, query, matches, answer>>

NewEntry(next) == [name |-> btf[id].name, kind |-> btf[id].kind, type_id |-> id,
                   next |-> next, ambiguous |-> FALSE]

\* Variant: the chain that was in the bucket is not linked behind the entry.
AppendDroppingChain ==
    /\ pc = "insert" /\ at = None
    /\ entries' = Append(entries, NewEntry(None))
    /\ buckets' = [buckets EXCEPT ![Bucket(Key(btf[id]))] = Len(entries) + 1]
    /\ pc' = "scan" /\ id' = id + 1
    /\ UNCHANGED <<btf, hash, at, query, matches, answer>>

\* Variant: the bucket is set after entry_count is incremented.
AppendCountingFirst ==
    /\ pc = "insert" /\ at = None
    /\ entries' = Append(entries, NewEntry(buckets[Bucket(Key(btf[id]))]))
    /\ buckets' = [buckets EXCEPT ![Bucket(Key(btf[id]))] = Len(entries) + 2]
    /\ pc' = "scan" /\ id' = id + 1
    /\ UNCHANGED <<btf, hash, at, query, matches, answer>>

AppendEntry ==
    /\ pc = "insert" /\ at = None
    /\ entries' = Append(entries, NewEntry(buckets[Bucket(Key(btf[id]))]))
    /\ buckets' = [buckets EXCEPT ![Bucket(Key(btf[id]))] = Len(entries) + 1]
    /\ pc' = "scan" /\ id' = id + 1
    /\ UNCHANGED <<btf, hash, at, query, matches, answer>>

Built == /\ pc = "scan" /\ id > Len(btf)
         /\ pc' = "ready" /\ Leave
         /\ UNCHANGED <<btf, hash, buckets, entries, query, answer>>

-----------------------------------------------------------------------------
\* mch_btf_index_lookup

Asking == pc \in {"ready", "answered"}

LookupUnnamed == /\ Asking
                 /\ \E q \in Queries : q.by = "name" /\ q.name = Unnamed /\ query' = q
                 /\ Return(0, 0)
                 /\ UNCHANGED <<btf, hash, buckets, entries>>

Lookup == /\ Asking
          /\ \E q \in Queries : /\ q.by = "name" /\ q.name # Unnamed
                                /\ query' = q
                                /\ at' = buckets[Bucket(Key(q))]
          /\ pc' = "lookup"
          /\ UNCHANGED <<btf, hash, buckets, entries, id, matches, answer>>

\* Variant: the walk does not move on.
StayAtEntry == /\ pc = "lookup" /\ at # None /\ Key(entries[at]) # Key(query)
               /\ UNCHANGED vars

NextEntry == /\ pc = "lookup" /\ at # None /\ Key(entries[at]) # Key(query)
             /\ at' = entries[at].next
             /\ UNCHANGED <<btf, hash, buckets, entries, pc, id, query, matches, answer>>

Ambiguous == /\ pc = "lookup" /\ at # None /\ Key(entries[at]) = Key(query)
             /\ entries[at].ambiguous
             /\ Return(-1, 0)
             /\ UNCHANGED <<btf, hash, buckets, entries, query>>

Found == /\ pc = "lookup" /\ at # None /\ Key(entries[at]) = Key(query)
         /\ ~entries[at].ambiguous
         /\ Return(1, entries[at].type_id)
         /\ UNCHANGED <<btf, hash, buckets, entries, query>>

NotFound == /\ pc = "lookup" /\ at = None
            /\ Return(0, 0)
            /\ UNCHANGED <<btf, hash, buckets, entries, query>>

-----------------------------------------------------------------------------
\* mch_btf_index_lookup_anonymous_enum

\* Variant: a named enum with the same enumerators matches as well.
EnumMatches(t, q) == t.kind = q.kind /\ t.body = q.body /\ t.body # Unreadable

AnonymousEnumMatches(t, q) == /\ t.kind = q.kind /\ t.name = Unnamed
                              /\ t.body = q.body /\ t.body # Unreadable

IsAnonymousEnum(t) == t.kind \in EnumKinds /\ t.name = Unnamed

LookupAnonymous ==
    /\ Asking
    /\ \E q \in Queries : q.by = "anonymous" /\ IsAnonymousEnum(q) /\ query' = q
    /\ pc' = "compare" /\ id' = 1 /\ matches' = {}
    /\ UNCHANGED <<btf, hash, buckets, entries, at, answer>>

NotAnonymousEnum ==
    /\ Asking
    /\ \E q \in Queries : q.by = "anonymous" /\ ~IsAnonymousEnum(q) /\ query' = q
    /\ Return(0, 0)
    /\ UNCHANGED <<btf, hash, buckets, entries>>

Differs == /\ pc = "compare" /\ id <= Len(btf) /\ ~AnonymousEnumMatches(btf[id], query)
           /\ id' = id + 1
           /\ UNCHANGED <<btf, hash, buckets, entries, pc, at, query, matches, answer>>

FirstMatch == /\ pc = "compare" /\ id <= Len(btf) /\ AnonymousEnumMatches(btf[id], query)
              /\ matches = {}
              /\ matches' = {id} /\ id' = id + 1
              /\ UNCHANGED <<btf, hash, buckets, entries, pc, at, query, answer>>

SecondMatch == /\ pc = "compare" /\ id <= Len(btf) /\ AnonymousEnumMatches(btf[id], query)
               /\ matches # {}
               /\ Return(-1, 0)
               /\ UNCHANGED <<btf, hash, buckets, entries, query>>

Compared == /\ pc = "compare" /\ id > Len(btf)
            /\ \/ matches = {} /\ Return(0, 0)
               \/ \E found \in matches : Return(1, found)
            /\ UNCHANGED <<btf, hash, buckets, entries, query>>

\* mch_btf_index_destroy
Destroy == /\ Asking \/ pc = "failed"
           /\ pc' = "destroyed"
           /\ buckets' = << >> /\ entries' = << >>
           /\ UNCHANGED <<btf, hash, id, at, query, matches, answer>>

-----------------------------------------------------------------------------
Insertion == SkipType \/ InsertType \/ PassEntry \/ MarkAmbiguous \/ AppendEntry \/ Built
Walk      == NextEntry \/ Ambiguous \/ Found \/ NotFound
Scan      == Differs \/ FirstMatch \/ SecondMatch \/ Compared

Next == \/ Build \/ BuildFails \/ Insertion
        \/ LookupUnnamed \/ Lookup \/ Walk
        \/ LookupAnonymous \/ NotAnonymousEnum \/ Scan
        \/ Destroy

Spec == Init /\ [][Next]_vars

\* Once called, init and the lookups run on.
FairSpec == Spec /\ WF_vars(Build \/ BuildFails \/ Insertion) /\ WF_vars(Walk) /\ WF_vars(Scan)

-----------------------------------------------------------------------------
Entry == [name : Names, kind : TypeKinds, type_id : 0 .. Len(btf),
          next : 0 .. Len(entries), ambiguous : BOOLEAN]

\* Types of the variables; every link is the number of an entry, so no walk
\* reads past entry_count (index_insert, mch_btf_index_lookup).
TypeOK == /\ btf \in Btfs /\ hash \in Hashes
          /\ buckets \in Seq(0 .. Len(entries))
          /\ entries \in Seq(Entry)
          /\ pc \in {"start", "scan", "insert", "ready", "lookup", "compare", "answered",
                     "failed", "destroyed"}
          /\ id \in 1 .. Len(btf) + 1
          /\ at \in Nat
          /\ query \in Queries \cup {NoQuery}
          /\ matches \subseteq 1 .. Len(btf)
          /\ answer \in [rc : {-1, 0, 1}, id : 0 .. Len(btf)]

HasTable == pc \notin {"start", "failed", "destroyed"}

InChain(e, b) == e \in 1 .. Len(entries) /\ Bucket(Key(entries[e])) = b

\* link leads to the last entry before entry number e in the chain of bucket b.
LeadsTo(link, b, e) ==
    \/ link = None /\ \A f \in 1 .. Len(entries) : f < e => ~InChain(f, b)
    \/ /\ link < e /\ InChain(link, b)
       /\ \A f \in 1 .. Len(entries) : link < f /\ f < e => ~InChain(f, b)

\* Each chain goes through all entries of its bucket and no other, newest
\* first: an insertion loses no entry of the bucket, two chains never run
\* into each other and none runs in a circle (index_insert links the old
\* head behind the new entry, then moves the head).
ChainsComplete ==
    HasTable => /\ \A b \in 1 .. Len(buckets) : LeadsTo(buckets[b], b, Len(entries) + 1)
                /\ \A e \in 1 .. Len(entries) :
                      LeadsTo(entries[e].next, Bucket(Key(entries[e])), e)

\* A name and kind never takes a second entry, so the entry_capacity entries
\* that mch_btf_index_init allocates are enough and the entry a walk stops at
\* is the one that counts for its name (the duplicate test of index_insert).
OneEntryPerName ==
    /\ \A e, f \in 1 .. Len(entries) : Key(entries[e]) = Key(entries[f]) => e = f
    /\ Len(entries) <= Capacity

\* The types below n that a lookup of key is about.
TypesOf(key, n) == {i \in 1 .. n - 1 : Listed(i) /\ Key(btf[i]) = key}

Answers(S) == /\ answer.rc = 0  <=> S = {}
              /\ answer.rc = 1  <=> S = {answer.id}
              /\ answer.rc = -1 <=> \E i, j \in S : i # j

\* A lookup by name and kind finds a type exactly when it is the only one of
\* its name and kind in the base BTF, reports two or more as ambiguous, in
\* whatever order they were inserted and however names collide, and reports
\* none for a kind the index does not keep (mch_btf_index_lookup).
NamedLookupExact ==
    pc = "answered" /\ query.by = "name" => Answers(TypesOf(Key(query), Len(btf) + 1))

\* The anonymous enums of the base BTF that equal the one asked for.
EqualEnums == {i \in 1 .. Len(btf) : /\ IsAnonymousEnum(btf[i]) /\ btf[i].kind = query.kind
                                     /\ btf[i].body = query.body}

\* A lookup of an anonymous enum finds the only anonymous enum of the base BTF
\* that is equal to it, and never settles for one of several or for a named
\* enum with the same enumerators (mch_btf_index_lookup_anonymous_enum).
AnonymousLookupExact ==
    pc = "answered" /\ query.by = "anonymous"
      => Answers(IF IsAnonymousEnum(query) /\ query.body # Unreadable THEN EqualEnums ELSE {})

(***************************************************************************)
(* The inductive invariant: what the table says of the types seen so far,  *)
(* and what the walk of a chain or the scan of the types has passed.       *)
(***************************************************************************)
Seen == IF pc \in {"scan", "insert"} THEN id ELSE Len(btf) + 1

Sized == IF HasTable THEN Len(buckets) > 0 /\ Len(entries) < Seen ELSE entries = << >>

\* Every type of the table has an entry, which names it or is ambiguous.
Lossless ==
    HasTable =>
      /\ \A i \in 1 .. Seen - 1 : Listed(i) =>
            \E e \in 1 .. Len(entries) : Key(entries[e]) = Key(btf[i])
      /\ \A e \in 1 .. Len(entries) :
            IF entries[e].ambiguous
              THEN \E i, j \in TypesOf(Key(entries[e]), Seen) : i # j
              ELSE TypesOf(Key(entries[e]), Seen) = {entries[e].type_id}

\* The walk is in the chain of the key, and no entry of the chain before it has the key.
OnChain(key) == /\ at = None \/ InChain(at, Bucket(key))
                /\ \A f \in 1 .. Len(entries) :
                      at < f /\ InChain(f, Bucket(key)) => Key(entries[f]) # key

Walking == /\ pc = "start" => id = 1
           /\ pc = "insert" => id <= Len(btf) /\ Listed(id) /\ OnChain(Key(btf[id]))
           /\ pc = "lookup" => query.by = "name" /\ query.name # Unnamed /\ OnChain(Key(query))

Scanning ==
    pc = "compare" =>
      /\ query.by = "anonymous" /\ IsAnonymousEnum(query)
      /\ matches = {i \in 1 .. id - 1 : AnonymousEnumMatches(btf[i], query)}
      /\ \A i, j \in matches : i = j

Inv == /\ TypeOK /\ Sized /\ ChainsComplete /\ OneEntryPerName /\ Lossless
       /\ Walking /\ Scanning /\ NamedLookupExact /\ AnonymousLookupExact

\* Building the index and every lookup end: the loops over entry->next of
\* index_insert and mch_btf_index_lookup leave their chain.
CallsReturn == /\ pc = "start" ~> pc \in {"ready", "answered", "failed", "destroyed"}
               /\ pc \in {"lookup", "compare"} ~> pc = "answered"
=============================================================================
