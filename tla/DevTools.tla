------------------------------ MODULE DevTools ------------------------------
(***************************************************************************)
(* The life of the arena under brain.cpp: devtools_init resets it and      *)
(* carves the context, the fourteen engines and their buffers in a fixed   *)
(* order; after that the engines and the page (allocate_memory) take what  *)
(* is left until devtools_reset starts over.                               *)
(*                                                                         *)
(* The program is one thread and no export runs inside another, so a start *)
(* is one call; it is modelled allocation by allocation, and nothing else  *)
(* happens while it lasts.                                                 *)
(***************************************************************************)
EXTENDS Integers, Sequences

CONSTANTS
  Capacity,     (* MEMORY_CAPACITY                                         *)
  Word,         (* modulus of size_t                                       *)
  Plan,         (* what a start allocates, in order: see DevToolsPlan      *)
  PageSizes,    (* sizes the page asks allocate_memory for                 *)
  EngineSizes,  (* sizes engines ask for while they work                   *)
  Null          (* nullptr                                                 *)

\* One thing a start allocates: the context, an engine, or a buffer that the
\* constructor of the engine before it takes.
Entry(name, size) == [name |-> name, size |-> size]

\* A small plan in which objects, and buffers before the last, are refused.
TightPlan ==
  << Entry("ctx", 5), Entry("elements", 9), Entry("node_map", 90),
     Entry("console", 8), Entry("messages", 3),
     Entry("diff", 61), Entry("diff_lines", 4) >>

\* sizeof on wasm32 times the default capacities of the constructors.
DevToolsPlan ==
  << Entry("ctx", 56),
     Entry("elements", 32), Entry("node_map", 50000 * 4), Entry("mutations", 2048 * 28),
     Entry("console", 2352), Entry("messages", 50000 * 64),
     Entry("profiler", 56), Entry("events", 250000 * 80), Entry("frames", 10000 * 32),
     Entry("memory", 40), Entry("heap_nodes", 250000 * 40),
     Entry("heap_edges", 1000000 * 24), Entry("heap_map", 500000 * 4),
     Entry("network", 56), Entry("requests", 5000 * 240), Entry("request_map", 8192 * 4),
     Entry("storage", 104),
     Entry("service_worker", 12),
     Entry("security", 96),
     Entry("vfs", 16), Entry("vfs_root", 56),
     Entry("canvas", 28), Entry("draw_cmds", 520000),
     Entry("highlighter", 16), Entry("tokens", 1000000),
     Entry("diff", 16), Entry("diff_lines", 10000 * 20),
     Entry("virtual_list", 24), Entry("log_items", 4000000), Entry("filtered_indices", 400000),
     Entry("layout_tree", 16), Entry("layout_nodes", 2080000) >>

VARIABLES
  offset,      (* of global_arena                                          *)
  blocks,      (* what the arena handed out since its reset                *)
  next,        (* 0 before the first start, then the next entry of the     *)
               (* plan, Len(Plan) + 1 when devtools_init has returned      *)
  where,       (* entry of the plan -> address, Null if refused            *)
  pageBlocks,  (* blocks allocate_memory returned since the last start     *)
  records,     (* blocks the engines took since then, for records          *)
  first        (* where, as the first start left it (history)              *)

vars == <<offset, blocks, next, where, pageBlocks, records, first>>

Entries == 1 .. Len(Plan)
AllSizes == {Plan[i].size : i \in Entries} \union PageSizes \union EngineSizes

ASSUME DevToolsAssumption ==
  /\ Capacity \in Nat /\ Word \in Nat
  /\ Plan \in Seq([name : STRING, size : Nat])
  /\ AllSizes \subseteq Nat
  /\ \A size \in AllSizes : Capacity + 8 + size <= Word

Arena == INSTANCE Arena WITH Sizes <- AllSizes

Nowhere == [i \in Entries |-> Null]

Ready == next = Len(Plan) + 1
Idle == next = 0 \/ Ready

----------------------------------------------------------------------------
Init ==
  /\ Arena!Init
  /\ next = 0
  /\ where = Nowhere
  /\ pageBlocks = {}
  /\ records = {}
  /\ first = Nowhere

\* devtools_init without the reset it starts with.
InitKeepsArena ==
  /\ Idle
  /\ next' = 1
  /\ where' = Nowhere
  /\ pageBlocks' = {} /\ records' = {}
  /\ UNCHANGED <<offset, blocks, first>>

\* A devtools_reset that resets the arena and does not build the engines anew.
ResetKeepsEngines ==
  /\ Idle
  /\ Arena!Reset
  /\ IF Ready THEN UNCHANGED <<next, where>> ELSE next' = 1 /\ where' = Nowhere
  /\ pageBlocks' = {} /\ records' = {}
  /\ UNCHANGED first

\* devtools_init and devtools_reset up to the first allocation.  What the
\* page and the engines had before is lost: the start builds over it.
DevtoolsInit ==
  /\ Idle
  /\ Arena!Reset
  /\ next' = 1
  /\ where' = Nowhere
  /\ pageBlocks' = {} /\ records' = {}
  /\ UNCHANGED first

Built(at) ==
  /\ where' = [where EXCEPT ![next] = at]
  /\ next' = next + 1
  /\ first' = IF next = Len(Plan) /\ first = Nowhere THEN where' ELSE first
  /\ UNCHANGED <<pageBlocks, records>>

\* The plan is gone through to its end whatever is refused: operator
\* new(size_t, void*) is the form that gets no null check, so the constructor
\* of an object that was refused runs all the same, at address 0, and asks
\* for its buffers.  What it then stores at address 0 is not modelled.
Place ==
  /\ next \in Entries
  /\ Arena!Allocate(Plan[next].size)
  /\ Built(Arena!BlockAt(offset, Plan[next].size).at)

PlaceRefused ==
  /\ next \in Entries
  /\ Arena!AllocateFails(Plan[next].size)
  /\ Built(Null)

\* allocate_memory: also before the first start.
AllocateMemory(size) ==
  /\ Idle
  /\ Arena!Allocate(size)
  /\ pageBlocks' = pageBlocks \union {Arena!BlockAt(offset, size)}
  /\ UNCHANGED <<next, where, records, first>>

\* An engine takes memory for a record (a node, a cookie, the two line
\* tables of a diff): every export checks g_ctx first.
EngineAllocates(size) ==
  /\ Ready
  /\ Arena!Allocate(size)
  /\ records' = records \union {Arena!BlockAt(offset, size)}
  /\ UNCHANGED <<next, where, pageBlocks, first>>

Refused(size) ==
  /\ Arena!AllocateFails(size)
  /\ UNCHANGED <<next, where, pageBlocks, records, first>>

Next ==
  \/ DevtoolsInit
  \/ Place \/ PlaceRefused
  \/ \E size \in PageSizes :
       AllocateMemory(size) \/ (Idle /\ Refused(size))
  \/ \E size \in EngineSizes :
       EngineAllocates(size) \/ (Ready /\ Refused(size))

Spec == Init /\ [][Next]_vars

----------------------------------------------------------------------------
TypeOK ==
  /\ Arena!TypeOK
  /\ next \in 0 .. Len(Plan) + 1
  /\ DOMAIN where = Entries /\ DOMAIN first = Entries
  /\ \A i \in Entries : /\ where[i] = Null \/ where[i] \in 0 .. Capacity
                        /\ first[i] = Null \/ first[i] \in 0 .. Capacity
  /\ pageBlocks \subseteq Arena!Blocks /\ records \subseteq Arena!Blocks

\* devtools_reset puts everything back where it was, so an address the page
\* keeps across it (the memory views of get_cmd_queue, get_tokens and
\* get_diff_lines) still means the same buffer: whatever the engines and the
\* page did before, the n-th start lays out the arena as the first one did.
ResetRestoresLayout == Ready => where = first

\* The bytes of an entry of the plan, if it got any.
Extent(i) == [at |-> where[i], size |-> Plan[i].size]

Apart(b, c) == b.at + b.size <= c.at \/ c.at + c.size <= b.at

\* A string the page stored since the last start (dom_create_node and its like
\* are given addresses, and keep them) lies over no engine, over no buffer of
\* one and over no record an engine took since, so neither side overwrites
\* what the other one keeps.  A string from before a start has no such
\* promise: devtools_init builds over it.
PageApartFromEngines ==
  \A p \in pageBlocks :
    /\ \A i \in Entries : where[i] # Null /\ i < next => Apart(p, Extent(i))
    /\ \A r \in records : Apart(p, r)

\* "64MB Total Arena for comprehensive DevTools tracking" (brain.cpp:24):
\* the arena holds every buffer the engines are built with.
EveryBufferPlaced ==
  Ready => \A i \in Entries : where[i] # Null
============================================================================
