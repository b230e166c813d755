-------------------------------- MODULE Dict --------------------------------
(***************************************************************************)
(* patty_dict (dict.c): the trie of 16-slot buckets behind every table of  *)
(* pattyd (sockets by fd, by client, by address hash; clients; routes).    *)
(* Level c of the trie is indexed by nibble c of the key; a slot holds a   *)
(* key, a value, a set flag and a pointer to the next bucket, where keys   *)
(* that collide with the slot's key go.                                    *)
(*                                                                         *)
(* A slot is named by the path of nibble indices from the root bucket to   *)
(* it; slots is the function from the paths of slots that are set or have  *)
(* a next bucket to their contents.  A slot not in its domain is all zero  *)
(* (memset to 0 by patty_dict_new, by the malloc of its bucket, or by      *)
(* patty_dict_delete).  Buckets only reachable through a cleared slot are  *)
(* dropped: nothing in dict.c can reach them again.                        *)
(***************************************************************************)
EXTENDS Integers, Sequences, SequencesExt, Functions, TLC

CONSTANTS
    Keys,     \* the keys callers store: fds or address hashes
    DelKeys,  \* the keys callers delete
    Vals,     \* the values they store
    NULL      \* the null pointer

ASSUME /\ Keys \subseteq Nat /\ DelKeys \subseteq Keys   \* uint32_t
       /\ NULL \notin Vals

\* PATTY_DICT_BUCKET_SIZE, the nibble width it implies, and the depth at
\* which patty_dict_set and patty_dict_slot_find give up
BucketSize == 16
Levels == 7

\* (key & (0x0f << 4*c)) >> 4*c
Index(key, c) == (key \div (BucketSize ^ c)) % BucketSize

Zero == [key |-> 0, value |-> NULL, set |-> FALSE, next |-> FALSE]

SlotAt(s, p) == IF p \in DOMAIN s THEN s[p] ELSE Zero

Store(s, p, r) == (p :> r) @@ s

VARIABLES
    slots,  \* the trie
    op,     \* the last call a caller made
    ret     \* what it returned

vars == <<slots, op, ret>>

(***************************************************************************)
(* The operations                                                          *)
(***************************************************************************)
\* patty_dict_slot_find from level c of the bucket at path: the path of
\* the slot holding key, or NULL
RECURSIVE FindFrom(_, _, _, _)
FindFrom(s, key, path, c) ==
    IF c = Levels THEN NULL
    ELSE LET p  == Append(path, Index(key, c))
             sl == SlotAt(s, p)
         IN CASE ~sl.set       -> NULL
              [] sl.key = key  -> p
              [] ~sl.next      -> NULL
              [] OTHER         -> FindFrom(s, key, p, c + 1)
Find(s, key) == FindFrom(s, key, <<>>, 0)

\* patty_dict_get
Get(s, key) == LET p == Find(s, key) IN IF p = NULL THEN NULL ELSE s[p].value

\* A set that never updates a key in place
SetFromNoUpdate(s, key, value, path, c) ==
    LET RECURSIVE Go(_, _, _)
        Go(t, q, l) ==
            IF l = Levels THEN [slots |-> t, ret |-> NULL]
            ELSE LET p == Append(q, Index(key, l)) sl == SlotAt(t, p)
                 IN IF ~sl.set
                    THEN [slots |-> Store(t, p, [sl EXCEPT !.key = key,
                                       !.value = value, !.set = TRUE]),
                          ret |-> value]
                    ELSE Go(Store(t, p, [sl EXCEPT !.next = TRUE]), p, l + 1)
    IN Go(s, path, c)

\* A set whose update of a key already present is lost
\* (return slot->value == value)
SetFromLostUpdate(s, key, value, path, c) ==
    LET RECURSIVE Go(_, _, _)
        Go(t, q, l) ==
            IF l = Levels THEN [slots |-> t, ret |-> NULL]
            ELSE LET p == Append(q, Index(key, l)) sl == SlotAt(t, p)
                 IN CASE ~sl.set ->
                           [slots |-> Store(t, p, [sl EXCEPT !.key = key,
                                       !.value = value, !.set = TRUE]),
                            ret |-> value]
                      [] sl.key = key -> [slots |-> t, ret |-> sl.value]
                      [] OTHER ->
                           Go(Store(t, p, [sl EXCEPT !.next = TRUE]), p, l + 1)
    IN Go(s, path, c)

\* patty_dict_set from level c: store in the first empty slot on the key's
\* path, or update the slot already holding the key; a set slot holding
\* another key leads on to its next bucket, allocated if missing.  ret is
\* the value, or NULL once Levels buckets were tried.
RECURSIVE SetFrom(_, _, _, _, _)
SetFrom(s, key, value, path, c) ==
    IF c = Levels THEN [slots |-> s, ret |-> NULL]
    ELSE LET p  == Append(path, Index(key, c))
             sl == SlotAt(s, p)
         IN CASE ~sl.set ->
                   [slots |-> Store(s, p, [sl EXCEPT !.key = key,
                                    !.value = value, !.set = TRUE]),
                    ret |-> value]
              [] sl.key = key ->
                   [slots |-> Store(s, p, [sl EXCEPT !.value = value]),
                    ret |-> value]
              [] OTHER ->
                   SetFrom(Store(s, p, [sl EXCEPT !.next = TRUE]),
                           key, value, p, c + 1)
DictSetOp(s, key, value) == SetFrom(s, key, value, <<>>, 0)

\* patty_dict_delete: memset the found slot to zero, its next pointer and
\* so every bucket below it included
DictDeleteOp(s, key) ==
    LET p == Find(s, key)
    IN IF p = NULL THEN [slots |-> s, ret |-> -1]
       ELSE [slots |-> RestrictDomain(s, LAMBDA q : ~IsPrefix(p, q)),
             ret |-> 0]

\* bucket_each_slot: the keys the callback is called with, in order; each
\* set slot, then the bucket below it, for levels 0 to 7
RECURSIVE EachBucket(_, _, _)
EachBucket(s, path, c) ==
    IF c > 7 THEN <<>>
    ELSE FlattenSeq([i \in 1..BucketSize |->
           LET p == Append(path, i - 1) sl == SlotAt(s, p)
           IN (IF sl.set THEN <<sl.key>> ELSE <<>>)
              \o (IF sl.next THEN EachBucket(s, p, c + 1) ELSE <<>>)])

\* patty_dict_each
Each(s) == EachBucket(s, <<>>, 0)

(***************************************************************************)
(* The callers                                                             *)
(***************************************************************************)
\* patty_dict_new
Init == /\ slots = << >>
        /\ op = <<"new">>
        /\ ret = 0

\* A caller stores v under k (sock_save, server_save_by_hash, ...)
DictSet(k, v) == LET r == DictSetOp(slots, k, v)
                 IN /\ slots' = r.slots
                    /\ op' = <<"set", k, v>>
                    /\ ret' = r.ret

\* A caller deletes k (sock_close, client_delete_by_sock, ...)
DictDelete(k) == LET r == DictDeleteOp(slots, k)
                 IN /\ slots' = r.slots
                    /\ op' = <<"delete", k>>
                    /\ ret' = r.ret

Next == \E k \in Keys :
          \/ \E v \in Vals : DictSet(k, v)
          \/ k \in DelKeys /\ DictDelete(k)

Spec == Init /\ [][Next]_vars

(***************************************************************************)
(* Properties                                                              *)
(***************************************************************************)
TypeOK ==
    \A p \in DOMAIN slots :
        /\ Len(p) \in 1..(Levels + 1)
        /\ slots[p].set \in BOOLEAN /\ slots[p].next \in BOOLEAN
        /\ slots[p].set => slots[p].key \in Keys /\ slots[p].value \in Vals

\* What the callers see: the value patty_dict_get returns for each key
DictMap == [k \in Keys |-> Get(slots, k)]

Abstract == INSTANCE DictSpec WITH map <- DictMap

\* The trie implements a finite map: every set and delete returns what
\* DictSpec says and changes what patty_dict_get returns for its own key
\* as DictSpec says, and for no other key, through collisions, chains of
\* buckets and deletes alike
Refines == Abstract!Spec

\* patty_dict_each (handle_socks, handle_clients, the route table walk)
\* calls its callback exactly once for every key patty_dict_get finds, and
\* for no other key
EachVisitsAll ==
    LET e == Each(slots)
    IN /\ Len(e) = Cardinality({k \in Keys : DictMap[k] # NULL})
       /\ ToSet(e) = {k \in Keys : DictMap[k] # NULL}

====
