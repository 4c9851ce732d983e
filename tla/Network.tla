------------------------------ MODULE Network ------------------------------
(***************************************************************************)
(* NetworkEngine (network.h): the requests, found by their id through      *)
(* chains.                                                                 *)
(*                                                                         *)
(* A request's texts and its status are data; of the chunks the lengths    *)
(* and times are kept.  fail_request is exported nowhere and not called.   *)
(* Splitting a block of raw headers is in RawHeaders; each header found is *)
(* added by AddHeader.  The WebSocket frames and the server-sent events    *)
(* are two lists that only grow and that no request is looked up for.      *)
(***************************************************************************)
EXTENDS Integers, Sequences, Sums

CONSTANTS
  RequestIds,     (* ids the page uses                                     *)
  MaxRequests,    (* size of requests (5000)                               *)
  MapCapacity,    (* how many chains there are (8192)                      *)
  Moments,        (* times the page passes                                 *)
  Sizes,          (* lengths of chunks and transfers                       *)
  SizeModulus,    (* transfer_size is a size_t: 2^32                       *)
  Headers,        (* names with their values                               *)
  MaxTold         (* bound on what is added to the requests, all told      *)

ASSUME NetworkAssumption ==
  /\ RequestIds \subseteq Nat
  /\ MaxRequests \in Nat
  /\ MapCapacity \in Nat \ {0}
  /\ Moments \subseteq Nat
  /\ Sizes \subseteq Nat
  /\ SizeModulus \in Nat \ {0}

VARIABLES
  requests,       (* the requests in the order they began                  *)
  requestMap,     (* chain -> positions in requests, from the chain's head *)
  asked,          (* history: the id the last call was about               *)
  told            (* history: request -> its chunks and ends, as they came *)

netVars == <<requests, requestMap, asked, told>>

Chains == 0 .. MapCapacity - 1

Chunk == [length : Sizes, time : Moments]
Report == [op : {"chunk", "end"}, size : Sizes, time : Moments]

Request == [id : RequestIds, state : {"Pending", "Finished"},
            start : Moments, end : Moments \union {0}, transfer : 0 .. SizeModulus - 1,
            chunks : Seq(Chunk), headers : [{"request", "response"} -> Seq(Headers)]]

----------------------------------------------------------------------------
NetInit ==
  /\ requests = << >>
  /\ requestMap = [c \in Chains |-> << >>]
  /\ asked \in RequestIds
  /\ told = << >>

ChainOf(id) == requestMap[id % MapCapacity]

\* Where in its chain an id is found.
Hits(id) == {n \in DOMAIN ChainOf(id) : requests[ChainOf(id)[n]].id = id}

\* get_request: the position of the first of the chain with this id, or 0.
GetRequest(id) ==
  IF Hits(id) = {} THEN 0
  ELSE ChainOf(id)[CHOOSE n \in Hits(id) : \A m \in Hits(id) : n <= m]

\* Slips: a chain that grows at its end; an end that adds to the chunks.
ChainedBehind(id) == Append(ChainOf(id), Len(requests) + 1)
EndAdds(transfer, size) == (transfer + size) % SizeModulus

\* The new request becomes the head of its chain.
Chained(id) == <<Len(requests) + 1>> \o ChainOf(id)

\* The transfer size after a chunk and after the end.
AfterChunk(transfer, length) == (transfer + length) % SizeModulus
AfterEnd(transfer, size) == size % SizeModulus

LastChunkTime(chunks) == IF chunks = << >> THEN 0 ELSE chunks[Len(chunks)].time

BeginRequest(id, now) ==
  /\ Len(requests) < MaxRequests
  /\ requests' = Append(requests,
       [id |-> id, state |-> "Pending", start |-> now, end |-> 0, transfer |-> 0,
        chunks |-> << >>, headers |-> [request |-> << >>, response |-> << >>]])
  /\ requestMap' = [requestMap EXCEPT ![id % MapCapacity] = Chained(id)]
  /\ asked' = id
  /\ told' = Append(told, << >>)

\* A full table takes no more requests: what is said of the refused one goes
\* to an older one with its id, if there is one.
BeginRefused(id) ==
  /\ Len(requests) >= MaxRequests
  /\ asked' = id
  /\ UNCHANGED <<requests, requestMap, told>>

\* A call about an id none has, or a header or a chunk that the arena has no
\* room for.
Unheard(id) ==
  /\ asked' = id
  /\ UNCHANGED <<requests, requestMap, told>>

\* How much has been added to the requests so far.
Added(rs) ==
  LET sum[k \in 0 .. Len(rs)] ==
        IF k = 0 THEN 0
        ELSE sum[k - 1] + Len(told[k]) + Len(rs[k].headers.request) + Len(rs[k].headers.response)
  IN sum[Len(rs)]

\* The newest header of a kind comes first.
AddHeader(id, kind, header) ==
  LET k == GetRequest(id) IN
  /\ k # 0 /\ Added(requests) < MaxTold
  /\ requests' = [requests EXCEPT ![k].headers[kind] = <<header>> \o @]
  /\ asked' = id
  /\ UNCHANGED <<requestMap, told>>

FinishRequest(id, size, now) ==
  LET k == GetRequest(id) IN
  /\ k # 0 /\ Added(requests) < MaxTold
  /\ requests' = [requests EXCEPT ![k].transfer = AfterEnd(@, size),
                                  ![k].end = now,
                                  ![k].state = "Finished"]
  /\ asked' = id
  /\ told' = [told EXCEPT ![k] = Append(@, [op |-> "end", size |-> size, time |-> now])]
  /\ UNCHANGED requestMap

AddDataChunk(id, length, now) ==
  LET k == GetRequest(id) IN
  /\ k # 0 /\ Added(requests) < MaxTold
  /\ requests' = [requests EXCEPT ![k].chunks = Append(@, [length |-> length, time |-> now]),
                                  ![k].transfer = AfterChunk(@, length)]
  /\ asked' = id
  /\ told' = [told EXCEPT ![k] = Append(@, [op |-> "chunk", size |-> length, time |-> now])]
  /\ UNCHANGED requestMap

NetNext ==
  \E id \in RequestIds :
    \/ \E now \in Moments : BeginRequest(id, now)
    \/ BeginRefused(id)
    \/ Unheard(id)
    \/ \E kind \in {"request", "response"}, header \in Headers : AddHeader(id, kind, header)
    \/ \E size \in Sizes, now \in Moments :
         FinishRequest(id, size, now) \/ AddDataChunk(id, size, now)

NetSpec == NetInit /\ [][NetNext]_netVars

----------------------------------------------------------------------------
NetTypeOK ==
  /\ requests \in Seq(Request) /\ Len(requests) <= MaxRequests
  /\ requestMap \in [Chains -> Seq(1 .. Len(requests))]
  /\ asked \in RequestIds
  /\ told \in Seq(Seq(Report)) /\ Len(told) = Len(requests)

Newest == INSTANCE NewestById WITH Ids <- RequestIds, records <- requests

\* An id that is begun again, after a redirect or a reload: through the
\* chains, shared by ids with the same remainder, every call reaches the
\* newest request of its id, and what was found out about earlier ones stays.
RequestsAreNewest == Newest!Spec

\* calculate_throughput_bytes_per_sec: what is divided by what, << >> for 0.
Throughput(id) ==
  LET r == requests[GetRequest(id)]
      end == IF r.end > 0 THEN r.end ELSE r.start
      until == IF LastChunkTime(r.chunks) > end THEN LastChunkTime(r.chunks) ELSE end
  IN IF GetRequest(id) = 0 \/ r.start = 0 \/ until = r.start THEN << >>
     ELSE <<r.transfer, until - r.start>>

\* A size reported at the end stands for all chunks before it.
Received(reports) ==
  LET ends == {i \in DOMAIN reports : reports[i].op = "end"}
      from == IF ends = {} THEN 1 ELSE CHOOSE i \in ends : \A l \in ends : l <= i
  IN SumOf([i \in DOMAIN reports |-> IF i < from THEN 0 ELSE reports[i].size]) % SizeModulus

\* The clock of a request did not step back.
InTime(k) ==
  \A i \in DOMAIN told[k] :
    /\ requests[k].start <= told[k][i].time
    /\ \A l \in 1 .. i : told[k][l].time <= told[k][i].time

\* The throughput shown is all that was received, counted once, over the time
\* from the start to the last report, in whichever order chunks and the end
\* come; it is 0 exactly when no time has passed or the start is not known.
ThroughputExact ==
  \A k \in DOMAIN requests :
    Newest!Newest(requests[k].id, k) /\ InTime(k) =>
      LET last == IF told[k] = << >> THEN requests[k].start
                  ELSE told[k][Len(told[k])].time
      IN Throughput(requests[k].id) =
           IF requests[k].start = 0 \/ last = requests[k].start THEN << >>
           ELSE <<Received(told[k]), last - requests[k].start>>
============================================================================
