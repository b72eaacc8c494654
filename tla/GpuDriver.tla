----------------------------- MODULE GpuDriver ------------------------------
(***************************************************************************)
(* What a vendor driver (CUDA, HIP, Level Zero, OpenCL, Metal) holds for   *)
(* one device, as the backends of gpu/*/ use it, and the fields in which a *)
(* backend keeps track of it.  A device is a record                        *)
(*   live      the objects that exist in the driver                        *)
(*   mem       the chunks of device memory that exist in the driver        *)
(*   handles   the fields of the backend that are not null                 *)
(*   chunks    the backend's list of the block's chunks, [id, bytes]       *)
(*   current   per thread, whose context is current there (CUDA, HIP)      *)
(*   threads   how many threads a launch has                               *)
(*   sweep     its MemSweep                                                *)
(*   swept     [segment, offset] of the window the last launch went to     *)
(*   misuse    what was ever done with the driver that must not be         *)
(* A call of a backend is an operator that returns the set of its possible *)
(* outcomes [dev, ok]: the device after it, and what it returned.          *)
(***************************************************************************)
EXTENDS MemSweep, FiniteSets

CONSTANTS
  Capacity,      \* chunks the device memory has room for
  GridThreads    \* threads of a launch at the default work-group size

Threads == {"main", "worker"}

NewDevice ==
  [live |-> {}, mem |-> {}, handles |-> {}, chunks |-> <<>>,
   current |-> [t \in Threads |-> "none"], threads |-> GridThreads,
   sweep |-> Clear, swept |-> <<>>, misuse |-> {}]

Outcome(d, ok) == [dev |-> d, ok |-> ok]

Unless(fine, d, what) == IF fine THEN d ELSE [d EXCEPT !.misuse = @ \cup {what}]

\* The driver makes these objects and the backend stores their handles.
Make(d, objects) ==
  Unless(objects \cap d.live = {},
         [d EXCEPT !.live = @ \cup objects, !.handles = @ \cup objects], "lost object")

\* The backend gives back those of the objects it has a handle of.
Give(d, objects) ==
  LET had == objects \cap d.handles
  IN  Unless(had \subseteq d.live,
             [d EXCEPT !.live = @ \ had, !.handles = @ \ had], "dead object")

\* What goes in the driver with the objects it belonged to.
Gone(d, objects) == [d EXCEPT !.live = @ \ objects]

Room(d) == Capacity - Cardinality(d.mem)

\* Chunks of these sizes, as far as the memory has room for them.
AddChunks(d, sizes) ==
  LET ids == SetToSeq((1 .. Capacity) \ d.mem)
      new == [i \in 1 .. Min({Len(sizes), Len(ids)}) |-> [id |-> ids[i], bytes |-> sizes[i]]]
  IN  [d EXCEPT !.mem = @ \cup {new[i].id : i \in DOMAIN new}, !.chunks = new]

ChunkIds(d) == {d.chunks[i].id : i \in DOMAIN d.chunks}

DropFields(d) == [d EXCEPT !.chunks = <<>>, !.sweep = Clear]

FreeBlock(d) ==
  Unless(ChunkIds(d) \subseteq d.mem, DropFields([d EXCEPT !.mem = @ \ ChunkIds(d)]), "dead object")

\* Sizes of the chunks of a block no chunk of which may exceed most.
ChunkSizes(bytes, most) ==
  [k \in 1 .. CeilDiv(bytes, most) |-> Min({most, bytes - (k - 1) * most})]

\* The windows laid out over a block just allocated.
Swept(d) == [d EXCEPT !.sweep = Reset([i \in DOMAIN d.chunks |-> d.chunks[i].bytes])]

\* The kernel of a launch with these arguments stays in the block.
InBlock(d, a) ==
  a.words # 0 =>
    /\ a.segment \in DOMAIN d.chunks
    /\ d.chunks[a.segment].id \in d.mem
    /\ (a.offset + a.words) * WordBytes <= d.chunks[a.segment].bytes
    /\ a.base < a.words /\ d.threads <= a.words

\* The traffic of a launch of `loops` iterations is planned: the device with
\* the sweep moved on, and the arguments.
Plan(d, loops, traffic) ==
  LET n == NextLaunch(d.sweep, Max({loops, 1}), traffic, d.threads)
  IN  [args |-> n.args,
       dev  |-> [d EXCEPT !.sweep = n.sweep,
                          !.swept = IF n.args.words = 0 THEN <<>> ELSE <<n.args.segment, n.args.offset>>]]

\* A launch reaches the driver, which looks at these objects and the block.
Launch(d, objects, args) ==
  Unless(InBlock(d, args), Unless(objects \subseteq d.live, d, "dead object"), "outside block")

=============================================================================
