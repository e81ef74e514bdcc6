---------------------------- MODULE RecordStore ----------------------------
(***************************************************************************)
(* What a database of FinVM promises, whatever it keeps to answer faster:   *)
(* tables of contents under ids, a fresh id for each new record, a copy     *)
(* that can be kept aside and restored, and answers that are the records    *)
(* asked for. There are no indices, no counters and no order here.          *)
(***************************************************************************)
CONSTANTS
  Table,    \* the names of tables
  Id,       \* the ids of records
  Content,  \* what a record may hold
  Foreign,  \* copies kept aside by earlier versions of the program
  Nothing   \* no store

VARIABLES
  store,    \* store[t]: a function from the ids of table t to their contents
  brought,  \* brought[t]: the ids that came with the copy of an earlier version
  kept      \* the copy kept aside, with what came so, or Nothing

vars == <<store, brought, kept>>

Empty == [t \in Table |-> [id \in {} |-> Nothing]]

None == [t \in Table |-> {}]

Copy(s, b) == [store |-> s, brought |-> b]
Found(f)   == Copy(f, [t \in Table |-> DOMAIN f[t]])

Init == store = Empty /\ brought = None /\ kept \in {Nothing} \union {Found(f) : f \in Foreign}

\* The answers: the content under an id, and the ids whose content is asked for.
Get(t, id)     == IF id \in DOMAIN store[t] THEN store[t][id] ELSE Nothing
Find(t, asked) == {id \in DOMAIN store[t] : store[t][id] \in asked}

With(t, id, c) == [store EXCEPT ![t] = [i \in DOMAIN @ \union {id} |-> IF i = id THEN c ELSE @[i]]]

\* An insertion takes an id no record of the table has, or one that came with the
\* copy of an earlier version.
Insert(t, c) ==
  /\ \E id \in Id : (id \in DOMAIN store[t] => id \in brought[t]) /\ store' = With(t, id, c)
  /\ UNCHANGED <<brought, kept>>

Update(t, id, c) ==
  /\ id \in DOMAIN store[t]
  /\ store' = With(t, id, c)
  /\ UNCHANGED <<brought, kept>>

Delete(t, id) ==
  /\ store' = [store EXCEPT ![t] = [i \in DOMAIN @ \ {id} |-> @[i]]]
  /\ UNCHANGED <<brought, kept>>

Keep == kept' = Copy(store, brought) /\ UNCHANGED <<store, brought>>

Restore == kept # Nothing /\ store' = kept.store /\ brought' = kept.brought /\ UNCHANGED kept

Restart == store' = Empty /\ brought' = None /\ UNCHANGED kept

Next ==
  \/ \E t \in Table :
       \/ \E c \in Content : Insert(t, c)
       \/ \E id \in DOMAIN store[t] : Delete(t, id) \/ \E c \in Content : Update(t, id, c)
  \/ Keep \/ Restore \/ Restart

Spec == Init /\ [][Next]_vars
=============================================================================
