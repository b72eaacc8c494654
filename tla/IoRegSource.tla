---------------------------- MODULE IoRegSource -----------------------------
(***************************************************************************)
(* gpu::contention::IoRegSource (contention/ioreg_source.cc): processes    *)
(* whose GPU time grows, by the user clients of macOS.  Its state is       *)
(*   ns        last_ns_, the GPU time of each process at the last poll     *)
(*   time      last_time_                                                  *)
(*   primed    primed_                                                     *)
(*   servers   window_server_pids_                                         *)
(***************************************************************************)
EXTENDS GpuUsers

Unprimed == [ns |-> <<>>, time |-> 0, primed |-> FALSE, servers |-> {}]

\* Only WindowServer does nothing but graphics, as far as macOS tells.
Servers(w) == {p \in w.here : w.kind[p] = "graphics"}

Polled(st, current, w) == [st EXCEPT !.ns = current, !.time = w.clock, !.primed = TRUE]

\* Shares since the last poll, of processes whose GPU time did not fall.
Shares(st, current, w) ==
  IF ~st.primed \/ w.clock = st.time THEN <<>>
  ELSE [p \in {p \in DOMAIN st.ns \cap DOMAIN current : current[p] >= st.ns[p]} |->
          Share([used |-> st.ns[p], at |-> st.time], [used |-> current[p], at |-> w.clock])]

Judged(shares, servers, given) ==
  IF \E p \in DOMAIN shares \ ({Self} \cup servers) : shares[p] >= MinBusyPercent
  THEN [verdict |-> "busy", busy |-> Capped(shares)]
  ELSE [given EXCEPT !.verdict = "idle"]

\* A device without a registry id is passed over; so is one whose service is
\* not found, which is without a baseline for the next poll then.
Sample(st, w, host, given) ==
  LET current == [p \in Present(w) |-> w.used[p]]
      servers == st.servers \cup Servers(w)
      passed  == Sampled(Polled(st, <<>>, w), given, host.located)
      judged  == Sampled([Polled(st, current, w) EXCEPT !.servers = servers],
                         Judged(Shares(st, current, w), servers, given), FALSE)
  IN  IF host.located THEN {passed, judged} ELSE {passed}

=============================================================================
