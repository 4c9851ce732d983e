----------------------------- MODULE StorageMaps -----------------------------
(***************************************************************************)
(* What the storage engine promises: maps from keys to values, and a usage *)
(* that is the bytes of what can be read from those that are counted.      *)
(***************************************************************************)
EXTENDS Integers, Sequences, FiniteSets

CONSTANTS Local, Session, Keys, Values, Names, Domains, Urls, Length, None

VARIABLES
  pairs,      (* area -> key -> value or None                              *)
  jar,        (* name and domain of a cookie -> value or None              *)
  records,    (* store -> key -> value or None                             *)
  counted,    (* the stores of databases that were not deleted             *)
  contents,   (* cache -> url -> body or None                              *)
  live,       (* the caches that were not deleted                          *)
  used, quota

Empty(keys) == [k \in keys |-> None]

\* The bytes of what can be read from a map, those of the keys with them.
BytesOf(map) ==
  UNION {{<<k, n>> : n \in 1 .. Length[k] + Length[map[k]]} : k \in {k \in DOMAIN map : map[k] # None}}

\* Of a cookie's key the name is counted and the domain is not.
CookieBytes(map) ==
  UNION {{<<k, n>> : n \in 1 .. Length[k[1]] + Length[map[k]]} : k \in {k \in DOMAIN map : map[k] # None}}

BytesOfAll(maps, those) == UNION {{<<i, byte>> : byte \in BytesOf(maps[i])} : i \in those}

Total ==
  Cardinality(BytesOf(pairs[Local])) + Cardinality(BytesOf(pairs[Session]))
    + Cardinality(CookieBytes(jar))
    + Cardinality(BytesOfAll(records, counted)) + Cardinality(BytesOfAll(contents, live))

\* One key of a map is given a value, or none.
Assigned(map) == {[map EXCEPT ![k] = v] : k \in DOMAIN map, v \in Values \union {None}}

Init ==
  /\ pairs = [area \in {Local, Session} |-> Empty(Keys)]
  /\ jar = Empty(Names \X (Domains \union {None}))
  /\ records = << >> /\ counted = {}
  /\ contents = << >> /\ live = {}
  /\ used = 0
  /\ quota \in Nat

ChangePairs ==
  /\ \E area \in {Local, Session} : \E map \in {Empty(Keys)} \union Assigned(pairs[area]) :
       pairs' = [pairs EXCEPT ![area] = map]
  /\ UNCHANGED <<jar, records, counted, contents, live, quota>>

ChangeCookies ==
  /\ jar' \in {Empty(DOMAIN jar)} \union Assigned(jar)
  /\ UNCHANGED <<pairs, records, counted, contents, live, quota>>

ChangeIndexedDB ==
  /\ \/ /\ records' = Append(records, Empty(Keys))
        /\ counted' \in {counted, counted \union {Len(records) + 1}}
     \/ /\ \E s \in DOMAIN records : \E map \in Assigned(records[s]) :
             records' = [records EXCEPT ![s] = map]
        /\ UNCHANGED counted
     \/ counted' \subseteq counted /\ UNCHANGED records
  /\ UNCHANGED <<pairs, jar, contents, live, quota>>

ChangeCaches ==
  /\ \/ /\ contents' = Append(contents, Empty(Urls))
        /\ live' = live \union {Len(contents) + 1}
     \/ /\ \E c \in DOMAIN contents : \E map \in Assigned(contents[c]) :
             contents' = [contents EXCEPT ![c] = map]
        /\ UNCHANGED live
     \/ \E c \in live : live' = live \ {c} /\ UNCHANGED contents
  /\ UNCHANGED <<pairs, jar, records, counted, quota>>

\* With the quota used up, live caches lose some of what they hold.
Evict ==
  /\ used >= quota
  /\ DOMAIN contents' = DOMAIN contents
  /\ \A c \in DOMAIN contents, url \in Urls :
       contents'[c][url] \in {contents[c][url]} \union IF c \in live THEN {None} ELSE {}
  /\ UNCHANGED <<pairs, jar, records, counted, live, quota>>

SetQuota ==
  /\ quota' \in Nat
  /\ UNCHANGED <<pairs, jar, records, counted, contents, live>>

Next ==
  /\ \/ ChangePairs \/ ChangeCookies \/ ChangeIndexedDB \/ ChangeCaches
     \/ Evict \/ SetQuota
  /\ used' = Total'

Spec == Init /\ [][Next]_<<pairs, jar, records, counted, contents, live, used, quota>>
============================================================================
