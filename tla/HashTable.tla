----------------------------- MODULE HashTable ------------------------------
(***************************************************************************)
(* The hash table of addresses (src/hash.c): chains of items per bucket,   *)
(* keyed by the octets of an iterator's view or of a string, looked up     *)
(* whole or by the longest prefix of segments; and the handles by which    *)
(* owners remove their items.  Item and handle are freed independently.    *)
(***************************************************************************)
EXTENDS AddressIterator

CONSTANT HtConfigs
(* Records [texts : addresses, space : the tenant's space, exponent :      *)
(* bucket_exponent, ops : operations at most].                             *)

VARIABLES htcfg, ht

htvars == <<htcfg, ht>>

Key(text) ==
  LET in_space(i) ==
        IF htcfg.space = <<>> THEN i ELSE qd_iterator_annotate_space(i, htcfg.space)
  IN in_space(qd_iterator_string(text, "HASH"))

Buckets == 2 ^ htcfg.exponent
BucketOf(hash) == (hash % Buckets) + 1

qd_hash_get_bucket_iter(i) == BucketOf(qd_iterator_hash_view(i))
qd_hash_get_bucket_str(octets) == BucketOf(HashOf(octets))

qd_hash == [buckets |-> [b \in 1 .. Buckets |-> <<>>], size |-> 0, handles |-> <<>>,
            next |-> 1, ref |-> {}, ops |-> 0]

(* The first of the items that were looked for, or none.                   *)
NoItem == [id |-> 0, val |-> 0]

FirstItem(items) == IF items = <<>> THEN NoItem ELSE items[1]

qd_hash_internal_retrieve_with_hash(h, hash, i) ==
  FirstItem(SelectSeq(h.buckets[BucketOf(hash)], LAMBDA x : qd_iterator_equal(i, x.key)))

qd_hash_internal_get_item_str(h, b, octets) ==
  FirstItem(SelectSeq(h.buckets[b], LAMBDA x : x.key = octets))

(* Handles are cleared before their item is freed.                         *)
qd_hash_internal_remove_item_KeepsHandle(h, b, item) ==
  [h EXCEPT !.buckets[b] = SelectSeq(@, LAMBDA x : x.id # item.id), !.size = @ - 1,
            !.ref = {r \in @ : r.key # item.key}]

qd_hash_internal_remove_item(h, b, item) ==
  [h EXCEPT !.buckets[b] = SelectSeq(@, LAMBDA x : x.id # item.id), !.size = @ - 1,
            !.handles = IF item.handle = 0 THEN @ ELSE [@ EXCEPT ![item.handle].item = 0],
            !.ref = {r \in @ : r.key # item.key}]

qd_hash_internal_insert(h, b, key, withHandle) ==
  LET id == h.next
      n == Len(h.handles) + 1
      item == [id |-> id, key |-> key, val |-> id, handle |-> IF withHandle THEN n ELSE 0]
  IN IF qd_hash_internal_get_item_str(h, b, key).id # 0 THEN h
     ELSE [h EXCEPT !.buckets[b] = Append(@, item), !.size = @ + 1, !.next = @ + 1,
                    !.handles = IF withHandle THEN Append(@, [bucket |-> b, item |-> id, freed |-> FALSE]) ELSE @,
                    !.ref = @ \cup {[key |-> key, val |-> id]}]

qd_hash_insert(h, i, withHandle) ==
  qd_hash_internal_insert(h, qd_hash_get_bucket_iter(i), qd_iterator_copy(i), withHandle)

qd_hash_insert_str(h, octets, withHandle) ==
  qd_hash_internal_insert(h, qd_hash_get_bucket_str(octets), octets, withHandle)

qd_hash_remove(h, i) ==
  LET hash == qd_iterator_hash_view(i)
      item == qd_hash_internal_retrieve_with_hash(h, hash % Buckets, i)
  IN IF item.id = 0 THEN h ELSE qd_hash_internal_remove_item(h, BucketOf(hash), item)

qd_hash_remove_str(h, octets) ==
  LET b == qd_hash_get_bucket_str(octets)
      item == qd_hash_internal_get_item_str(h, b, octets)
  IN IF item.id = 0 THEN h ELSE qd_hash_internal_remove_item(h, b, item)

qd_hash_remove_by_handle2(h, n) ==
  LET hd == h.handles[n]
  IN IF hd.item = 0 THEN h
     ELSE qd_hash_internal_remove_item(h, hd.bucket, FirstItem(SelectSeq(h.buckets[hd.bucket], LAMBDA x : x.id = hd.item)))

qd_hash_handle_free(h, n) ==
  LET hd == h.handles[n]
      forget(x) == IF x.id = hd.item THEN [x EXCEPT !.handle = 0] ELSE x
  IN [h EXCEPT !.handles[n].freed = TRUE, !.handles[n].item = 0,
               !.buckets[hd.bucket] = [k \in DOMAIN @ |-> forget(@[k])]]

qd_hash_retrieve(h, i) == qd_hash_internal_retrieve_with_hash(h, qd_iterator_hash_view(i), i).val

qd_hash_retrieve_str(h, octets) ==
  qd_hash_internal_get_item_str(h, qd_hash_get_bucket_str(octets), octets).val

RECURSIVE SegmentsTried(_, _)
SegmentsTried(h, i) ==
  IF i.segments = <<>> THEN 0
  ELSE LET t == qd_iterator_next_segment(i)
           item == qd_hash_internal_retrieve_with_hash(h, Last(i.segments).hash, t)
       IN IF item.id # 0 THEN item.val ELSE SegmentsTried(h, qd_iterator_reset(t))

qd_hash_retrieve_prefix(h, i) == SegmentsTried(h, qd_iterator_hash_view_segments(i))

-----------------------------------------------------------------------------
HtInit == /\ htcfg \in HtConfigs
          /\ ht = qd_hash

HtDo(h) == /\ ht.ops < htcfg.ops
           /\ ht' = [h EXCEPT !.ops = ht.ops + 1]
           /\ UNCHANGED htcfg

Live == {n \in DOMAIN ht.handles : ~ht.handles[n].freed}

HtInsert(t, w) == HtDo(qd_hash_insert(ht, Key(t), w))
HtInsertStr(t, w) == HtDo(qd_hash_insert_str(ht, qd_iterator_copy(Key(t)), w))
HtRemove(t) == HtDo(qd_hash_remove(ht, Key(t)))
HtRemoveStr(t) == HtDo(qd_hash_remove_str(ht, qd_iterator_copy(Key(t))))
HtRemoveByHandle(n) == HtDo(qd_hash_remove_by_handle2(ht, n))
HtHandleFree(n) == HtDo(qd_hash_handle_free(ht, n))

HtNext == \/ \E t \in htcfg.texts, w \in BOOLEAN : HtInsert(t, w) \/ HtInsertStr(t, w)
          \/ \E t \in htcfg.texts : HtRemove(t) \/ HtRemoveStr(t)
          \/ \E n \in Live : HtRemoveByHandle(n) \/ HtHandleFree(n)

HtSpec == HtInit /\ [][HtNext]_htvars

-----------------------------------------------------------------------------
ItemOf(n) == {x \in ToSet(ht.buckets[ht.handles[n].bucket]) : x.id = ht.handles[n].item}

(* The prefixes of a view that end where a segment ends.                   *)
SegmentPrefixes(v) == {SubSeq(v, 1, k) : k \in {k \in 0 .. Len(v) : k = Len(v) \/ v[k + 1] \in Separators}}

(* After any sequence of insertions and removals through iterators,        *)
(* strings and handles: a lookup finds what was inserted last under the    *)
(* key and not removed, however it is asked; a prefix lookup finds the     *)
(* longest key that is the view up to a separator or all of it; and a      *)
(* handle refers to its own item or, once that is gone, to nothing, and no *)
(* item to a handle that has been freed.                                   *)
(* (qd_hash_internal_remove_item, qd_hash_handle_free, qd_hash_retrieve_prefix) *)
TableExact ==
  /\ ht.size = Cardinality(ht.ref)
  /\ \A t \in htcfg.texts :
       LET Found(i, v) ==
             LET vals == {r.val : r \in {r \in ht.ref : r.key = v}}
                 match == {r \in ht.ref : r.key \in SegmentPrefixes(v)}
                 best == {r \in match : \A q \in match : Len(q.key) <= Len(r.key)}
             IN /\ {qd_hash_retrieve(ht, i), qd_hash_retrieve_str(ht, v)} = IF vals = {} THEN {0} ELSE vals
                /\ {qd_hash_retrieve_prefix(ht, i)} = IF best = {} THEN {0} ELSE {r.val : r \in best}
       IN Found(Key(t), qd_iterator_copy(Key(t)))
  /\ \A n \in Live : ht.handles[n].item # 0 => \E x \in ItemOf(n) : x.handle = n
  /\ \A b \in DOMAIN ht.buckets : \A x \in ToSet(ht.buckets[b]) :
       x.handle # 0 => x.handle \in Live /\ ht.handles[x.handle].item = x.id
=============================================================================
