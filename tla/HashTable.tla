------------------------------ MODULE HashTable ------------------------------
(***************************************************************************)
(* infra_hash of ppdb/src/internal/infra/infra_ds.c: a fixed number of     *)
(* buckets, each a chain of entries linked by `next`, to which new ones    *)
(* are added in front.  put, get and remove walk along a chain, one entry  *)
(* a step; as the caller promises to be alone, no call begins before   *)
(* the last one has returned.  Keys are the strings themselves, of which   *)
(* the table has its own copies; which bucket a key falls into is any      *)
(* function.                                                               *)
(***************************************************************************)
EXTENDS Elements, Naturals, FiniteSets

CONSTANTS Strings,  \* the keys
          Capacity  \* the number of buckets

\* infra_hash_create refuses a table of no buckets.
ASSUME HashAssumption == Capacity \in Nat \ {0}

VARIABLES
  bucket_of,  \* hash_string(key) % capacity
  bucket,     \* hash->buckets: the first entry of each chain
  entry,      \* the entries that are allocated
  size,
  reply,      \* what the last call returned, if a get or remove
  walk        \* the call under way: its arguments, entry and prev

hash_vars == <<bucket_of, bucket, entry, size, reply, walk>>

Buckets == 0 .. Capacity - 1
Entry == [key : Strings, value : Values, next : Pointer]
Operations == {"put", "get", "remove"}
NoWalk == [op |-> "none"]
Walks == {NoWalk} \cup
  [op : Operations, key : Strings, value : Values \cup {None}, entry : Pointer, prev : Pointer]

HashTypeOK ==
  /\ bucket_of \in [Strings -> Buckets]
  /\ bucket \in [Buckets -> Pointer]
  /\ DOMAIN entry \subseteq Nodes /\ entry \in [DOMAIN entry -> Entry]
  /\ size \in Nat
  /\ reply \in Values \cup {None}
  /\ walk \in Walks

HashInit ==
  /\ bucket_of \in [Strings -> Buckets]
  /\ bucket = [b \in Buckets |-> Null]
  /\ entry = <<>>
  /\ size = 0
  /\ reply = None
  /\ walk = NoWalk

-----------------------------------------------------------------------------
(* infra_hash_put, _get and _remove: the way along the chain.               *)

Call(op, k, v) ==
  /\ walk = NoWalk
  /\ walk' = [op |-> op, key |-> k, value |-> v, entry |-> bucket[bucket_of[k]], prev |-> Null]
  /\ UNCHANGED <<bucket_of, bucket, entry, size, reply>>

WalkOn ==
  /\ walk # NoWalk /\ walk.entry # Null
  /\ entry[walk.entry].key # walk.key
  /\ walk' = [walk EXCEPT !.prev = walk.entry, !.entry = entry[walk.entry].next]
  /\ UNCHANGED <<bucket_of, bucket, entry, size, reply>>

MeetsKey(op) == walk.op = op /\ walk.entry # Null /\ entry[walk.entry].key = walk.key
AtEnd(op) == walk.op = op /\ walk.entry = Null

Returns(answer) == walk' = NoWalk /\ reply' = answer

-----------------------------------------------------------------------------
(* What they come to.                                                      *)

ReplaceValue ==
  /\ MeetsKey("put") /\ Returns(None)
  /\ entry' = [entry EXCEPT ![walk.entry].value = walk.value]
  /\ UNCHANGED <<bucket_of, bucket, size>>

AddEntry(n) ==
  LET b == bucket_of[walk.key]
      new == [key |-> walk.key, value |-> walk.value, next |-> bucket[b]]
  IN  /\ AtEnd("put") /\ Returns(None)
      /\ n \notin DOMAIN entry
      /\ entry' = [e \in DOMAIN entry \cup {n} |-> IF e = n THEN new ELSE entry[e]]
      /\ bucket' = [bucket EXCEPT ![b] = n]
      /\ size' = size + 1
      /\ UNCHANGED bucket_of

GetValue ==
  /\ MeetsKey("get") /\ Returns(entry[walk.entry].value)
  /\ UNCHANGED <<bucket_of, bucket, entry, size>>

\* Faulty: a key that is not there is counted as removed.
NothingCounts ==
  /\ \E op \in Operations : AtEnd(op)
  /\ Returns(None)
  /\ size' = IF walk.op = "remove" THEN size - 1 ELSE size
  /\ UNCHANGED <<bucket_of, bucket, entry>>

\* The key is not there; or put finds no memory for the entry or for the copy
\* of the key, and has freed what it got.
FindsNothing ==
  /\ \E op \in Operations : AtEnd(op)
  /\ Returns(None)
  /\ UNCHANGED <<bucket_of, bucket, entry, size>>

\* The entries without the one that the walk has met.
\* Faulty: the one in front loses what comes behind.
UnlinkedFromAll ==
  [e \in DOMAIN entry \ {walk.entry} |->
     IF e = walk.prev THEN [entry[e] EXCEPT !.next = Null] ELSE entry[e]]

Unlinked ==
  [e \in DOMAIN entry \ {walk.entry} |->
     IF e = walk.prev THEN [entry[e] EXCEPT !.next = entry[walk.entry].next] ELSE entry[e]]

RemoveEntry ==
  /\ MeetsKey("remove") /\ Returns(entry[walk.entry].value)
  /\ bucket' = IF walk.prev = Null
                 THEN [bucket EXCEPT ![bucket_of[walk.key]] = entry[walk.entry].next]
                 ELSE bucket
  /\ entry' = Unlinked
  /\ size' = size - 1
  /\ UNCHANGED bucket_of

HashClear ==
  /\ walk = NoWalk
  /\ bucket' = [b \in Buckets |-> Null]
  /\ entry' = <<>>
  /\ size' = 0
  /\ reply' = None
  /\ UNCHANGED <<bucket_of, walk>>

HashNext ==
  \/ \E k \in Strings : Call("get", k, None) \/ Call("remove", k, None)
  \/ \E k \in Strings, v \in Values : Call("put", k, v)
  \/ WalkOn \/ ReplaceValue \/ GetValue \/ FindsNothing \/ RemoveEntry \/ HashClear
  \/ \E n \in Nodes : AddEntry(n)

HashSpec == HashInit /\ [][HashNext]_hash_vars

-----------------------------------------------------------------------------
\* The value of a key is that of an entry for it anywhere in memory.  Whatever
\* keys collide and wherever in a chain an entry is taken out (225-243), the
\* table is a map: put stores, get returns what was stored last, and remove what
\* it takes away, so that no link that is set wrong loses an entry behind it or
\* lets a key be met twice; and size counts the keys (infra_hash_put, _get,
\* _remove, _clear).
Entries(k) == {e \in DOMAIN entry : entry[e].key = k}
ValueOf(k) == IF Entries(k) = {} THEN None ELSE entry[CHOOSE e \in Entries(k) : TRUE].value
Map == INSTANCE KeyValueMap WITH Keys <- Strings, map <- [k \in Strings |-> ValueOf(k)]
HashIsAMap == Map!Spec
=============================================================================
