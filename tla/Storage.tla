------------------------------ MODULE Storage ------------------------------
(***************************************************************************)
(* The storage engine (storage.h): local and session storage, cookies,     *)
(* IndexedDB and Cache Storage as linked lists with new records in front,  *)
(* the bytes they use against a quota, and eviction from the caches.       *)
(*                                                                         *)
(* Databases, stores and caches are handed to the caller as pointers, into *)
(* an arena that frees nothing: they are numbered here, and stay usable    *)
(* after they were deleted from the lists that the quota counts.  A put    *)
(* for which the arena has no room changes nothing.                        *)
(***************************************************************************)
EXTENDS Integers, Sequences, SequencesExt, FiniteSets, Sums

CONSTANTS
  Local, Session,   (* local and session storage                           *)
  Keys, Values,     (* of pairs and records; values of cookies, bodies     *)
  Names, Domains,   (* of cookies                                          *)
  Urls,             (* of cache entries                                    *)
  Length,           (* key, value, name or url -> its length               *)
  Quotas,           (* what max_quota_bytes may be set to                  *)
  MaxItems,         (* bound: records of all kinds                         *)
  MaxMade,          (* bound: databases, stores and caches ever made       *)
  None              (* no value; the empty domain                          *)

ASSUME StorageAssumption ==
  /\ Length \in [Keys \union Values \union Names \union Urls -> Nat]
  /\ Quotas \subseteq Nat /\ Quotas # {}
  /\ None \notin Values \union Domains
  /\ Local # Session

VARIABLES
  areas,      (* area -> its pairs [key, value, size]                      *)
  cookies,    (* [key, value, size], the key a name and a domain           *)
  dbs,        (* [id, name] of the databases in the list                   *)
  stores,     (* every object store made: [db, records]                    *)
  caches,     (* [id, name] of the caches in the list                      *)
  boxes,      (* every cache made: [entries, total], entries [key, value,  *)
              (* size], the key a url and the value a body                 *)
  dbsMade,    (* next_idb_id - 1                                           *)
  quota       (* max_quota_bytes                                           *)

vars == <<areas, cookies, dbs, stores, caches, boxes, dbsMade, quota>>

----------------------------------------------------------------------------
(* The list operations that all kinds of records share.                    *)

\* The first of the records with a key, or 0.
KeyAt(list, key) == SelectInSeq(list, LAMBDA record : record.key = key)

\* Slip: what was found is not used.
PutInFront(list, record) == <<record>> \o list

\* A record that is there is overwritten where it is, a new one goes in front.
Put(list, record) ==
  LET at == KeyAt(list, record.key)
  IN IF at # 0 THEN [list EXCEPT ![at] = record] ELSE <<record>> \o list

\* The record found is unlinked.
Without(list, at) == IF at = 0 THEN list ELSE RemoveAt(list, at)

Bytes(key, value) == Length[key] + Length[value]
Sizes(list) == SumOf([i \in DOMAIN list |-> list[i].size])

\* Pairs of the two storages, entries of a cache.
Pair(key, value) == [key |-> key, value |-> value, size |-> Bytes(key, value)]
Cookie(name, domain, value) ==
  [key |-> <<name, domain>>, value |-> value, size |-> Bytes(name, value)]

----------------------------------------------------------------------------
(* The quota.                                                              *)

\* Records carry no size of their own.  The stores of a deleted database are
\* no longer counted.
Counted == {s \in DOMAIN stores : \E i \in DOMAIN dbs : dbs[i].id = stores[s].db}
RecordBytes(list) == SumOf([i \in DOMAIN list |-> Bytes(list[i].key, list[i].value)])
IndexedDBBytes ==
  SumOf([s \in DOMAIN stores |-> IF s \in Counted THEN RecordBytes(stores[s].records) ELSE 0])

\* get_quota_summary, were b the boxes: caches are counted by their totals.
UsedWith(b) ==
  Sizes(areas[Local]) + Sizes(areas[Session]) + Sizes(cookies) + IndexedDBBytes
    + SumOf([i \in DOMAIN caches |-> b[caches[i].id].total])
Used == UsedWith(boxes)
Exceeded(b) == UsedWith(b) >= quota

----------------------------------------------------------------------------
\* Bounds: what was ever made, the records of all kinds.
Made == dbsMade + Len(stores) + Len(boxes)

EntriesIn(b) == SumOf([c \in DOMAIN b |-> Len(b[c].entries)])

Items ==
  Len(areas[Local]) + Len(areas[Session]) + Len(cookies) + EntriesIn(boxes)
    + SumOf([s \in DOMAIN stores |-> Len(stores[s].records)])

Init ==
  /\ areas = [area \in {Local, Session} |-> << >>]
  /\ cookies = << >>
  /\ dbs = << >> /\ stores = << >> /\ dbsMade = 0
  /\ caches = << >> /\ boxes = << >>
  /\ quota \in Quotas

SetMaxQuota(bytes) ==
  /\ quota' = bytes
  /\ UNCHANGED <<areas, cookies, dbs, stores, caches, boxes, dbsMade>>

\* set_local_storage, set_session_storage.
SetPair(area, key, value) ==
  /\ areas' = [areas EXCEPT ![area] = Put(@, Pair(key, value))]
  /\ UNCHANGED <<cookies, dbs, stores, caches, boxes, dbsMade, quota>>

DeletePair(area, key) ==
  /\ areas' = [areas EXCEPT ![area] = Without(@, KeyAt(@, key))]
  /\ UNCHANGED <<cookies, dbs, stores, caches, boxes, dbsMade, quota>>

ClearArea(area) ==
  /\ areas' = [areas EXCEPT ![area] = << >>]
  /\ UNCHANGED <<cookies, dbs, stores, caches, boxes, dbsMade, quota>>

AddCookie(name, domain, value) ==
  /\ cookies' = Put(cookies, Cookie(name, domain, value))
  /\ UNCHANGED <<areas, dbs, stores, caches, boxes, dbsMade, quota>>

\* Without a domain the first cookie of the name goes, one per call.
DeleteCookie(name, domain) ==
  /\ cookies' = LET at == SelectInSeq(cookies, LAMBDA cookie :
                           /\ cookie.key[1] = name
                           /\ domain = None \/ cookie.key[2] = domain)
                IN Without(cookies, at)
  /\ UNCHANGED <<areas, dbs, stores, caches, boxes, dbsMade, quota>>

ClearCookies ==
  /\ cookies' = << >>
  /\ UNCHANGED <<areas, dbs, stores, caches, boxes, dbsMade, quota>>

\* Databases of one name may be made twice.
AddDatabase(name) ==
  /\ Made < MaxMade
  /\ dbsMade' = dbsMade + 1
  /\ dbs' = <<[id |-> dbsMade + 1, name |-> name]>> \o dbs
  /\ UNCHANGED <<areas, cookies, stores, caches, boxes, quota>>

AddObjectStore(db) ==
  /\ Made < MaxMade
  /\ stores' = Append(stores, [db |-> db, records |-> << >>])
  /\ UNCHANGED <<areas, cookies, dbs, caches, boxes, dbsMade, quota>>

PutRecord(store, key, value) ==
  /\ stores' = [stores EXCEPT ![store].records =
                  Put(@, [key |-> key, value |-> value])]
  /\ UNCHANGED <<areas, cookies, dbs, caches, boxes, dbsMade, quota>>

DeleteRecord(store, key) ==
  /\ stores' = [stores EXCEPT ![store].records = Without(@, KeyAt(@, key))]
  /\ UNCHANGED <<areas, cookies, dbs, caches, boxes, dbsMade, quota>>

DeleteDatabase(name) ==
  /\ dbs' = Without(dbs, SelectInSeq(dbs, LAMBDA db : db.name = name))
  /\ UNCHANGED <<areas, cookies, stores, caches, boxes, dbsMade, quota>>

AddCache(name) ==
  /\ Made < MaxMade
  /\ caches' = <<[id |-> Len(boxes) + 1, name |-> name]>> \o caches
  /\ boxes' = Append(boxes, [entries |-> << >>, total |-> 0])
  /\ UNCHANGED <<areas, cookies, dbs, stores, dbsMade, quota>>

\* The cache's total follows the entry's size: the old one out, the new one in.
PutCacheEntry(cache, url, body) ==
  /\ LET box == boxes[cache]
         at == KeyAt(box.entries, url)
         old == IF at = 0 THEN 0 ELSE box.entries[at].size
     IN boxes' = [boxes EXCEPT ![cache] =
                    [entries |-> Put(box.entries, Pair(url, body)),
                     total |-> box.total - old + Bytes(url, body)]]
  /\ UNCHANGED <<areas, cookies, dbs, stores, caches, dbsMade, quota>>

\* What is left of total when size goes.
Less(total, size) == IF total >= size THEN total - size ELSE total

DeleteCacheEntry(cache, url) ==
  /\ LET box == boxes[cache]
         at == KeyAt(box.entries, url)
     IN /\ at # 0
        /\ boxes' = [boxes EXCEPT ![cache] =
                       [entries |-> RemoveAt(box.entries, at),
                        total |-> Less(box.total, box.entries[at].size)]]
  /\ UNCHANGED <<areas, cookies, dbs, stores, caches, dbsMade, quota>>

DeleteCache(name) ==
  /\ caches' = Without(caches, SelectInSeq(caches, LAMBDA cache : cache.name = name))
  /\ UNCHANGED <<areas, cookies, dbs, stores, boxes, dbsMade, quota>>

\* The boxes b without the first entry of a cache.
DropFirst(b, cache) ==
  [b EXCEPT ![cache] = [entries |-> Tail(@.entries),
                        total |-> Less(@.total, Head(@.entries).size)]]

\* The caches of the list that have entries.
Filled(b) == {i \in DOMAIN caches : b[caches[i].id].entries # << >>}
DropNext(b) == DropFirst(b, caches[Min(Filled(b))].id)

\* Slip: the quota is looked at once, before the loop.
ShedBlind(b) == IF Filled(b) # {} THEN DropNext(b) ELSE b

\* Cache after cache in the order of the list, each from its first entry, until
\* the quota is no longer exceeded.
Shed(b) == IF Exceeded(b) /\ Filled(b) # {} THEN DropNext(b) ELSE b

AfterEviction ==
  LET after[n \in 0 .. EntriesIn(boxes)] == IF n = 0 THEN boxes ELSE Shed(after[n - 1])
  IN after[EntriesIn(boxes)]

\* evict_cache_if_over_quota.
Evict ==
  /\ Exceeded(boxes) /\ boxes' = AfterEviction
  /\ UNCHANGED <<areas, cookies, dbs, stores, caches, dbsMade, quota>>

NextPairs ==
  \E area \in {Local, Session}, key \in Keys :
    \/ \E value \in Values : SetPair(area, key, value)
    \/ DeletePair(area, key)
    \/ ClearArea(area)

NextCookies ==
  \/ \E name \in Names, domain \in Domains \union {None}, value \in Values :
       AddCookie(name, domain, value)
  \/ \E name \in Names, domain \in Domains \union {None} : DeleteCookie(name, domain)
  \/ ClearCookies

NextIndexedDB ==
  \/ \E name \in Names : AddDatabase(name) \/ DeleteDatabase(name)
  \/ \E db \in 1 .. dbsMade : AddObjectStore(db)
  \/ \E store \in DOMAIN stores, key \in Keys :
       \/ \E value \in Values : PutRecord(store, key, value)
       \/ DeleteRecord(store, key)

NextCaches ==
  \/ \E name \in Names : AddCache(name) \/ DeleteCache(name)
  \/ \E cache \in DOMAIN boxes, url \in Urls :
       \/ \E body \in Values : PutCacheEntry(cache, url, body)
       \/ DeleteCacheEntry(cache, url)
  \/ Evict
  \/ \E bytes \in Quotas : SetMaxQuota(bytes)

\* A call that changes nothing is a stuttering step.
Next ==
  /\ NextPairs \/ NextCookies \/ NextIndexedDB \/ NextCaches
  /\ vars' # vars
  /\ Items' <= MaxItems

Spec == Init /\ [][Next]_vars

----------------------------------------------------------------------------
PairsOf(keys) == [key : keys, value : Values, size : Nat]
CookieKeys == Names \X (Domains \union {None})

TypeOK ==
  /\ areas \in [{Local, Session} -> Seq(PairsOf(Keys))]
  /\ cookies \in Seq(PairsOf(CookieKeys))
  /\ dbsMade \in Nat
  /\ dbs \in Seq([id : 1 .. dbsMade, name : Names])
  /\ stores \in Seq([db : 1 .. dbsMade, records : Seq([key : Keys, value : Values])])
  /\ boxes \in Seq([entries : Seq(PairsOf(Urls)), total : Nat])
  /\ caches \in Seq([id : 1 .. Len(boxes), name : Names])
  /\ quota \in Quotas

\* What Evict returns.
Freed ==
  SumOf([c \in DOMAIN boxes |-> Sizes(boxes[c].entries)])
    - SumOf([c \in DOMAIN boxes' |-> Sizes(boxes'[c].entries)])

\* What the reading calls find in a list: for every key the first record's value.
MapOf(list, keys) ==
  [k \in keys |-> IF KeyAt(list, k) = 0 THEN None ELSE list[KeyAt(list, k)].value]

PairMaps == [area \in {Local, Session} |-> MapOf(areas[area], Keys)]
RecordMaps == [s \in DOMAIN stores |-> MapOf(stores[s].records, Keys)]
EntryMaps == [c \in DOMAIN boxes |-> MapOf(boxes[c].entries, Urls)]

Maps == INSTANCE StorageMaps WITH
  pairs <- PairMaps, jar <- MapOf(cookies, CookieKeys),
  records <- RecordMaps, counted <- Counted,
  contents <- EntryMaps, live <- {caches[i].id : i \in DOMAIN caches},
  used <- Used

\* Lists with new records in front, each record and each cache with a size kept
\* beside it, are maps: a call changes the value of its own key, a deleted key
\* never comes back with a value that an earlier put left behind, and the usage
\* that the quota is held against is at all times the bytes of the values that
\* can still be read.
StorageIsMaps == Maps!Spec

\* What a step of eviction takes: entries from the front of the caches in the
\* list, what it returns is by how much the usage falls, it ends below the quota
\* or with nothing left to evict, and without the last entry taken the quota
\* would still be exceeded.
TakesJustEnough ==
  LET lost(c) == Len(boxes[c].entries) - Len(boxes'[c].entries)
      hit == {i \in DOMAIN caches : lost(caches[i].id) > 0}
  IN /\ \A c \in DOMAIN boxes : IsSuffix(boxes'[c].entries, boxes[c].entries)
     /\ Freed = Used - Used'
     /\ Exceeded(boxes)' =>
          \A i \in DOMAIN caches : boxes'[caches[i].id].entries = << >>
     /\ hit # {} =>
          LET c == caches[CHOOSE i \in hit : \A j \in hit : j <= i].id
          IN Used' + boxes[c].entries[lost(c)].size >= quota

\* evict_cache_if_over_quota takes as little as it can.
EvictsJustEnough == [][Evict => TakesJustEnough]_vars
============================================================================
