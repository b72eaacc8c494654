------------------------------ MODULE MemSweep ------------------------------
(***************************************************************************)
(* gpu::MemSweep (gpu/mem_sweep.{h,cc}): the walk of the kernel's memory   *)
(* traffic over the `-gm` block.  A sweep is a record                      *)
(*   windows   windows_, over all segments of the block                    *)
(*   window    window_, counted from 0                                     *)
(*   cursor    cursor_, a word of that window                              *)
(*   pending   pending_bytes_, traffic asked for and not delivered yet     *)
(* and the methods are operators on it.  Segments are counted from 1.      *)
(***************************************************************************)
EXTENDS Integers, Sequences, SequencesExt

CONSTANTS
  WordBytes,        \* sizeof(std::uint32_t)
  WindowMaxBytes,   \* kGpuMemSweepWindowMaxBytes
  BytesPerAccess    \* kGpuMemTrafficBytesPerAccess

CeilDiv(a, b) == (a + b - 1) \div b

At(windows, w, c) == [windows |-> windows, window |-> w, cursor |-> c, pending |-> 0]

Clear == At(<<>>, 0, 0)

SegmentWindows(segment, bytes) ==
  [k \in 1 .. CeilDiv(bytes, WindowMaxBytes) |->
     LET offset == (k - 1) * WindowMaxBytes
     IN  [segment |-> segment,
          offset  |-> offset \div WordBytes,
          words   |-> Min({bytes - offset, WindowMaxBytes}) \div WordBytes]]

Reset(segmentBytes) ==
  LET all == FlattenSeq([i \in DOMAIN segmentBytes |-> SegmentWindows(i, segmentBytes[i])])
  IN  At(FoldLeft(LAMBDA out, w : IF w.words > 0 THEN Append(out, w) ELSE out, <<>>, all), 0, 0)

Size(s)    == Len(s.windows)
Current(s) == s.windows[s.window + 1]

\* k windows on; the cursor stays only in the window it is in.
Advance(s, k) == [s EXCEPT !.window = (@ + k) % Size(s), !.cursor = IF k = 0 THEN @ ELSE 0]

\* How many windows to go on to reach one that can take a launch.
Reach(s, threads) == {k \in 0 .. Size(s) - 1 : Current(Advance(s, k)).words >= threads}

NoTraffic(loops) == [segment |-> 1, offset |-> 0, words |-> 0, base |-> 0, stride |-> Max({loops, 1})]

\* Less than one access per thread is kept, more than that is dropped.
Carried(shortfall, threads) == Min({shortfall, threads * BytesPerAccess - 1})

\* Mutation of Moved: the same window is started over.
Moved_StartsOver(s, touched) ==
  [s EXCEPT !.cursor = IF touched >= Current(s).words - @ THEN 0 ELSE @ + touched]

\* The launch that reaches the end of the window is followed by one that
\* starts afresh on the next.
Moved(s, touched) ==
  IF touched >= Current(s).words - s.cursor THEN Advance(s, 1)
  ELSE [s EXCEPT !.cursor = @ + touched]

\* A launch on the current window of s, which is large enough.
Take(s, loops, traffic, threads) ==
  LET pending   == s.pending + traffic
      perThread == (pending \div BytesPerAccess) \div threads
      stride    == CeilDiv(loops, Min({perThread, loops}))
      touched   == CeilDiv(loops, stride) * threads
      shortfall == Max({pending - touched * BytesPerAccess, 0})
      w         == Current(s)
  IN  IF perThread = 0
      THEN [args |-> NoTraffic(loops), sweep |-> [s EXCEPT !.pending = pending]]
      ELSE [args  |-> [segment |-> w.segment, offset |-> w.offset, words |-> w.words,
                       base |-> s.cursor, stride |-> stride],
            sweep |-> [Moved(s, touched) EXCEPT !.pending = Carried(shortfall, threads)]]

\* MemSweep::Next: the arguments of a launch and the sweep after it.
NextLaunch(s, loops, traffic, threads) ==
  IF s.windows = <<>> \/ threads = 0
  THEN [args |-> NoTraffic(loops), sweep |-> s]
  ELSE IF Reach(s, threads) = {}
  THEN [args |-> NoTraffic(loops), sweep |-> Advance(s, Size(s) - 1)]
  ELSE Take(Advance(s, Min(Reach(s, threads))), Max({loops, 1}), traffic, threads)

=============================================================================
