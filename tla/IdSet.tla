------------------------------- MODULE IdSet -------------------------------
(***************************************************************************)
(* What the rest of the program takes struct mch_type_set for: a set of    *)
(* ids below a limit, its size, and a cursor that visits its ids in        *)
(* ascending order.  Closure, Seeds and Emitter use it in this form.       *)
(***************************************************************************)
EXTENDS Integers, FiniteSets

CONSTANTS
  Limits,     \* the limits sets are made with
  Args        \* the ids and cursor positions callers pass

VARIABLES
  ids,        \* the set
  limit,      \* ids lie below it
  size,       \* the number of ids
  cursor,     \* where the caller's enumeration stands
  answer      \* what the last operation returned: [ok, id]

idvars == <<ids, limit, size, cursor, answer>>

Empty == ids = {} /\ limit = 0 /\ size = 0

SetInit == Empty /\ cursor = 0 /\ answer = [ok |-> FALSE, id |-> 0]

\* Operations that report success or failure only.
Answers(ok) == answer' = [ok |-> ok, id |-> 0]

Make == /\ ids' = {} /\ size' = 0
        /\ \/ limit' \in Limits /\ Answers(TRUE)
           \/ limit' = 0 /\ Answers(FALSE)
        /\ UNCHANGED cursor

Drop == Empty' /\ Answers(TRUE) /\ UNCHANGED cursor

Insert(id) ==
  /\ ids' = IF id < limit THEN ids \cup {id} ELSE ids
  /\ size' = Cardinality(ids')
  /\ Answers(ids' # ids)
  /\ UNCHANGED <<limit, cursor>>

Has(id) == Answers(id \in ids) /\ UNCHANGED <<ids, limit, size, cursor>>

Seek(from) == cursor' = from /\ Answers(TRUE) /\ UNCHANGED <<ids, limit, size>>

\* The least id at or after the cursor.
Visit ==
  /\ UNCHANGED <<ids, limit, size>>
  /\ \/ \E id \in ids : /\ cursor <= id /\ \A other \in ids : cursor <= other => id <= other
                        /\ answer' = [ok |-> TRUE, id |-> id]
                        /\ cursor' = id + 1
     \/ /\ \A id \in ids : id < cursor
        /\ Answers(FALSE)
        /\ cursor' = IF cursor < limit THEN limit ELSE cursor

SetNext == Make \/ Drop \/ Visit \/ \E a \in Args : Insert(a) \/ Has(a) \/ Seek(a)

SetSpec == SetInit /\ [][SetNext]_idvars
=============================================================================
