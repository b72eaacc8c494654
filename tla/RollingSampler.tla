--------------------------- MODULE RollingSampler ---------------------------
(***************************************************************************)
(* util::RollingSampler<double> (util/rolling_sampler.h): a ring of the    *)
(* last `window` samples with a running sum.                               *)
(***************************************************************************)
EXTENDS Integers, Sequences

NoSamples == [values |-> <<>>, index |-> 0, sum |-> 0]

\* InsertValue(): append until the ring is full, then replace the oldest.
Insert(s, v, window) ==
  IF Len(s.values) < window
    THEN [s EXCEPT !.values = Append(@, v), !.sum = @ + v]
    ELSE [values |-> [s.values EXCEPT ![s.index + 1] = v],
          sum    |-> s.sum - s.values[s.index + 1] + v,
          index  |-> IF s.index + 1 >= window THEN 0 ELSE s.index + 1]

\* GetMean(), mean_cached_.
Mean(s) == IF s.values = <<>> THEN 0 ELSE s.sum \div Len(s.values)

\* The sample inserted last.
Newest(s) == s.values[IF s.index = 0 THEN Len(s.values) ELSE s.index]
=============================================================================
