--------------------------- MODULE StorageHistory ---------------------------
(***************************************************************************)
(* The caches of the storage engine, with a history of when each entry was *)
(* last put: the order that the policy of eviction is about.               *)
(***************************************************************************)
EXTENDS Storage

\* The order is the same whatever the lengths.
OneEach == [word \in Keys \union Values \union Names \union Urls |-> 1]

VARIABLE recent    (* cache -> its urls, the least recently put first       *)

\* The urls still in the cache, in the order they had.
Kept(cache) ==
  SelectSeq(recent[cache], LAMBDA url :
              \E i \in DOMAIN boxes'[cache].entries : boxes'[cache].entries[i].key = url)

HistoryInit == Init /\ recent = << >>

HistoryPut(cache, url, body) ==
  /\ PutCacheEntry(cache, url, body)
  /\ recent' = [recent EXCEPT ![cache] = Append(Remove(@, url), url)]

HistoryAddCache(name) ==
  /\ AddCache(name)
  /\ recent' = Append(recent, << >>)

HistoryLeave ==
  /\ \/ Evict
     \/ \E cache \in DOMAIN boxes, url \in Urls : DeleteCacheEntry(cache, url)
     \/ \E bytes \in Quotas : SetMaxQuota(bytes)
  /\ recent' = [cache \in DOMAIN recent |-> Kept(cache)]

HistoryNext ==
  /\ \/ \E cache \in DOMAIN boxes, url \in Urls, body \in Values :
          HistoryPut(cache, url, body)
     \/ \E name \in Names : HistoryAddCache(name)
     \/ HistoryLeave
  /\ Items' <= MaxItems

HistorySpec == HistoryInit /\ [][HistoryNext]_<<vars, recent>>

\* storage.h:192 calls the eviction of cache entries over quota "LRU": what a
\* cache loses should be the entries put the longest ago.  The list has new
\* entries in front and eviction takes from the front.
EvictsOldestFirst ==
  [][Evict => \A c \in DOMAIN recent : IsSuffix(recent'[c], recent[c])]_<<vars, recent>>
============================================================================
