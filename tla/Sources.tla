------------------------------ MODULE Sources ------------------------------
(***************************************************************************)
(* A poll of the contention monitor over one device, down to the sources   *)
(* (contention/sources.cc, Monitor::Poll): which sources a platform has,   *)
(* what each of them sees of clients that come, go and work all along, and *)
(* the observation that is merged from it.                                 *)
(***************************************************************************)
EXTENDS GpuUsers, SequencesExt

CONSTANTS
  Hosts,            \* the machines, as in GpuUsers
  Work,             \* engine time a client may use in a unit of time
  MaxGap            \* bound: units of time between two readings

\* A platform with sources (there are none on BSD); WDDM is Windows' own, Mesa
\* has no compute runtime that runs on NVIDIA's driver, and only on Linux does
\* a process have several clients that are accounted for one by one.
ASSUME HostsAssumption == \A h \in Hosts :
  /\ h.os \in {"linux", "macos", "windows"}
  /\ {h.located, h.nvml, h.kfd, h.pdh, h.wddm} \subseteq BOOLEAN
  /\ h.pidns \in BOOLEAN /\ h.ids \in BOOLEAN
  /\ h.stats \in {"ns", "cycles", "none"}
  /\ h.kinds \subseteq {"compute", "mesa", "graphics"}
  /\ h.own \in {"compute", "mesa"}
  /\ h.wddm => h.os = "windows"
  /\ h.vendor = "nvidia" => "mesa" \notin h.kinds
  /\ \A p \in Others : h.proc[p] # Self
  /\ h.os # "linux" => \A p, q \in Others : h.proc[p] = h.proc[q] => p = q

ASSUME OthersAssumption == Self \notin Others /\ IsFiniteSet(Others)

ASSUME WorkAssumption ==
  Full \in Nat \ {0} /\ Work \subseteq 0 .. Full /\ MinBusyPercent \in Nat /\ MaxGap \in Nat

\* What drivers tell of a whole device is a percentage.
ASSUME ReadingsAssumption == Readings \subseteq 0 .. 100

Nvml  == INSTANCE NvmlSource
Kfd   == INSTANCE KfdSource
Drm   == INSTANCE DrmSource
Pdh   == INSTANCE PdhSource
IoReg == INSTANCE IoRegSource

VARIABLES
  host, w,          \* the machine and the clients of its GPU
  mem,              \* what each source remembers
  step,             \* "wait" for a poll, "sample", "rescan" (DRM), "end"
  todo,             \* sources still to sample in this poll
  merged,           \* merged[i]
  scan,             \* DrmSource::Sample before it reads fresh clients again
  failed,           \* history: a call of a source failed in this poll
  around,           \* history: users seen on the device during this poll
  floor,            \* history: least work in a unit since it was last read
  asked             \* history: that floor when it was read in this poll

vars == <<host, w, mem, step, todo, merged, scan, failed, around, floor, asked>>

Everybody == Others \cup {Self}
NoScan    == [next |-> <<>>, fresh |-> {}, usage |-> <<>>]

CreatePlatformSources(h) ==
  LET If(available, source) == IF available THEN <<source>> ELSE <<>>
  IN  CASE h.os = "windows" -> If(h.nvml, "nvml") \o If(h.pdh, "pdh")
        [] h.os = "macos"   -> <<"ioreg">>
        [] h.os = "linux"   -> If(h.nvml, "nvml") \o If(h.kfd, "kfd") \o <<"drm">>

Users(x) == {p \in x.here : x.kind[p] # "graphics"}

\* The readings of p that a source holds, and the oldest of any.
Held(p) ==
  {mem.drm[k].used : k \in {k \in DOMAIN mem.drm : k[1] = p}}
    \cup {scan.next[k].used : k \in {k \in DOMAIN scan.next : k[1] = p}}
    \cup {mem.pdh[q].used : q \in {p} \cap DOMAIN mem.pdh}
    \cup {mem.ioreg.ns[q] : q \in {p} \cap DOMAIN mem.ioreg.ns}
Gap ==
  w.clock - Min({mem.drm[k].at : k \in DOMAIN mem.drm}
                  \cup {mem.pdh[p].at : p \in DOMAIN mem.pdh} \cup {w.clock, 0})

\* A source that reads a newcomer twice in its first poll sees it at once.
FirstFloor == IF host.os = "linux" /\ host.ids /\ Drm!HasNode(host) THEN Full ELSE 0

Init ==
  /\ host \in Hosts
  /\ w = [here |-> {}, kind |-> [p \in Others |-> "graphics"], client |-> [p \in Others |-> 0],
          used |-> [p \in Everybody |-> 0], clock |-> 0]
  /\ mem = [nvml |-> "unasked", kfd |-> 0, drm |-> <<>>,
            pdh |-> IF host.os = "windows" /\ host.pdh THEN Pdh!Raw(w, host) ELSE <<>>,
            ioreg |-> IoReg!Unprimed]
  /\ step = "wait" /\ todo = <<>> /\ merged = Unknown /\ scan = NoScan
  /\ failed = FALSE /\ around = {}
  /\ floor = [p \in Everybody |-> IF p = Self THEN FirstFloor ELSE 0]
  /\ asked = [p \in Everybody |-> 0]

-----------------------------------------------------------------------------
(* The clients, on a clock of their own.                                   *)

LesserWork(least, work) ==
  [p \in Everybody |-> IF p \in Present(w) THEN Min({least[p], work[p]}) ELSE 0]

\* Time passes between polls, and while DrmSource waits for a second reading.
Elapse ==
  /\ \/ step = "wait" /\ Gap < MaxGap
     \/ step = "rescan" /\ \A k \in DOMAIN scan.next : scan.next[k].at = w.clock
  /\ \E work \in [Present(w) -> Work] :
       /\ w' = [w EXCEPT !.clock = @ + 1,
                         !.used = [p \in Everybody |-> IF p \in Present(w) THEN @[p] + work[p] ELSE 0]]
       /\ floor' = LesserWork(floor, work)
       /\ asked' = IF step = "rescan" THEN LesserWork(asked, work) ELSE asked
  /\ UNCHANGED <<host, mem, step, todo, merged, scan, failed, around>>

\* A client opens the device, under a pid and fd that may have been read before.
\* Its time starts at zero, so below what was read of those or just there.  The
\* runtime is its process's, and on macOS the compositor keeps its pid.
Enter(p) ==
  /\ step # "end" /\ p \notin w.here
  /\ \E kind \in IF host.os = "macos" /\ p \in mem.ioreg.servers THEN {"graphics"} ELSE host.kinds,
        below \in IF Held(p) = {} THEN {0} ELSE {0, Full} :
       /\ \A q \in w.here : host.proc[q] = host.proc[p] => (kind = "graphics" <=> w.kind[q] = "graphics")
       /\ LET number == IF host.ids THEN CHOOSE n \in 0..2 : <<p, n>> \notin DOMAIN mem.drm \cup DOMAIN scan.next ELSE 0
          IN  w' = [w EXCEPT !.here = @ \cup {p}, !.kind[p] = kind, !.client[p] = number,
                             !.used[p] = Min(Held(p) \cup {0}) - below]
  /\ around' = around \cup (IF step = "wait" THEN {} ELSE Users(w'))
  /\ floor' = [floor EXCEPT ![p] = FirstFloor]
  /\ UNCHANGED <<host, mem, step, todo, merged, scan, failed, asked>>

Exit(p) ==
  /\ step # "end" /\ p \in w.here
  /\ ~(host.os = "macos" /\ p \in mem.ioreg.servers)
  /\ w' = [w EXCEPT !.here = @ \ {p}, !.kind[p] = "graphics", !.client[p] = 0, !.used[p] = 0]
  /\ floor' = [floor EXCEPT ![p] = 0]
  /\ asked' = [asked EXCEPT ![p] = 0]
  /\ UNCHANGED <<host, mem, step, todo, merged, scan, failed, around>>

-----------------------------------------------------------------------------
(* The poll.                                                               *)

\* Where a platform has no source that could be used, the device stays unknown.
BeginPoll ==
  /\ step = "wait" /\ w.clock > 0
  /\ todo' = CreatePlatformSources(host)
  /\ step' = IF todo' = <<>> THEN "end" ELSE "sample"
  /\ merged' = Unknown /\ failed' = FALSE /\ around' = Users(w)
  /\ UNCHANGED <<host, w, mem, scan, floor, asked>>

Turn(source) == step = "sample" /\ Head(todo) = source

\* The source's part of the poll is over.
Took(source, s) ==
  /\ mem' = [mem EXCEPT ![source] = s.state]
  /\ merged' = Merge(merged, s.seen)
  /\ failed' = (failed \/ s.failed)
  /\ todo' = Tail(todo)
  /\ step' = IF Len(todo) = 1 THEN "end" ELSE "sample"
  /\ UNCHANGED <<host, w, around>>

\* The clients were read, or could not be.
Read == asked' = floor /\ floor' = [p \in Everybody |-> IF p \in Present(w) THEN Full ELSE 0]
Lost == asked' = [p \in Everybody |-> 0] /\ floor' = asked'

SampleNvml ==
  /\ Turn("nvml")
  /\ \E s \in Nvml!Sample(mem.nvml, w, host, Given(merged)) : Took("nvml", s)
  /\ IF Len(todo) = 1 THEN Read ELSE UNCHANGED <<floor, asked>>
  /\ UNCHANGED scan

SampleKfd ==
  /\ Turn("kfd")
  /\ \E s \in Kfd!Sample(w, host, Given(merged)) : Took("kfd", s)
  /\ UNCHANGED <<scan, floor, asked>>

SamplePdh ==
  /\ Turn("pdh")
  /\ \E s \in Pdh!Sample(mem.pdh, w, host, Given(merged)) :
       /\ s.failed => Gap < MaxGap
       /\ Took("pdh", s)
       /\ IF s.failed THEN UNCHANGED <<floor, asked>> ELSE Read
  /\ UNCHANGED scan

SampleIoReg ==
  /\ Turn("ioreg")
  /\ \E s \in IoReg!Sample(mem.ioreg, w, host, Given(merged)) :
       Took("ioreg", s) /\ IF s.failed \/ ~host.located THEN Lost ELSE Read
  /\ UNCHANGED scan

\* No device is wanted, or just others: then our clients are forgotten.  What
\* has no DRM node was read by the sources before, if at all.
SkipDrm ==
  /\ Turn("drm") /\ ~Drm!Wanted(host, Given(merged))
  /\ \E last \in {<<>>} \cup (IF Gap < MaxGap THEN {mem.drm} ELSE {}) :
       Took("drm", Sampled(last, Given(merged), FALSE))
  /\ IF Drm!HasNode(host) THEN UNCHANGED <<floor, asked>> ELSE Read
  /\ UNCHANGED scan

ScanDrm ==
  /\ Turn("drm") /\ Drm!Wanted(host, Given(merged))
  /\ LET found == Drm!Scan(mem.drm, w, host)
     IN  IF found.fresh # {}
         THEN step' = "rescan" /\ scan' = found /\ UNCHANGED <<host, w, mem, todo, merged, failed, around>>
         ELSE /\ \E s \in Drm!Conclude(found, host, Given(merged)) : Took("drm", s)
              /\ UNCHANGED scan
  /\ Read

RereadDrm ==
  /\ step = "rescan" /\ \E k \in DOMAIN scan.next : scan.next[k].at < w.clock
  /\ \E s \in Drm!Conclude(Drm!Reread(scan, w, host), host, Given(merged)) : Took("drm", s)
  /\ scan' = NoScan
  /\ UNCHANGED <<floor, asked>>

\* What was polled goes to the workers (Monitor); clock and engine times are
\* counted from here on, and so are the numbers of clients: the readings of one
\* that is gone are left out, as its drm-client-id is not given again.
EndPoll ==
  LET Since(r, p) == [used |-> r.used - w.used[p], at |-> r.at - w.clock]
      Kept(p)     == (p \in Present(w) \/ ~host.ids) /\ Drm!Client(w, host, p) \in DOMAIN mem.drm
      kept        == {p \in Everybody : Kept(p)}
  IN  /\ step = "end"
      /\ step' = "wait" /\ around' = {} /\ merged' = Unknown /\ failed' = FALSE
      /\ asked' = [p \in Everybody |-> 0]
      /\ w' = [w EXCEPT !.used = [p \in Everybody |-> 0], !.client = [p \in Others |-> 0], !.clock = 0]
      /\ mem' = [mem EXCEPT !.drm = [k \in {<<p, 0>> : p \in kept} |-> Since(@[Drm!Client(w, host, k[1])], k[1])],
                            !.pdh = [p \in DOMAIN @ |-> Since(@[p], p)],
                            !.ioreg.ns = [p \in DOMAIN @ |-> @[p] - w.used[p]],
                            !.ioreg.time = IF mem.ioreg.primed THEN @ - w.clock ELSE @]
      /\ UNCHANGED <<host, todo, scan, floor>>

Next ==
  \/ Elapse \/ \E p \in Others : Enter(p) \/ Exit(p)
  \/ BeginPoll \/ SampleNvml \/ SampleKfd \/ SamplePdh \/ SampleIoReg
  \/ SkipDrm \/ ScanDrm \/ RereadDrm \/ EndPoll

Spec == Init /\ [][Next]_vars

-----------------------------------------------------------------------------
(* A device is busy or idle in what follows where a poll ended so.         *)

Ended(verdict) == step = "end" /\ merged.verdict = verdict
Percent(p)     == (100 * asked[p]) \div Full

\* A device is taken for busy just if another process with a compute runtime had
\* it open during that poll: not for our own context, whose pid may differ, nor
\* for a reading of a pid that another process has now, nor for the compositor.
BusyMeansOthers == Ended("busy") => around # {}

\* NVIDIA's device that does not run under WDDM has its users seen by NVML
\* alone: not where that is missing, cannot find the device, or takes it for
\* one that does.
Unseen ==
  host.vendor = "nvidia" /\ ~host.wddm /\ (~host.nvml \/ ~host.located \/ mem.nvml = "none")

\* A client, of a process with a compute runtime, that worked above the
\* threshold in every unit of time since the sources last read it is not
\* overlooked, and neither is one that was met just now, where the source
\* reads it twice, unless a call of a source failed or none sees the device.
\* (Of a process with several clients on Linux, see ProcessesAreSeen.)
NoUserOverlooked ==
  Ended("idle") /\ ~failed /\ ~Unseen =>
    \A p \in Users(w) : asked[p] > 0 => Percent(p) < MinBusyPercent

\* What a device was busy, where it is summed over its clients, is at least what
\* the others took, and what we took ourselves where that is in their stats,
\* and at most all of it; only a busy device is measured.
SummedUp == ~host.whole /\ ~(host.nvml /\ host.vendor = "nvidia" /\ ~host.wddm)
Counted  == {p \in Users(w) \cup {Self} : p = Self => host.os # "linux" \/ Drm!HasStats(w, host, Self)}
Demand(ps) == Min({MapThenSumSet(Percent, ps), 100})

MeasuresTheOthers ==
  step = "end" /\ merged.busy # Unmeasured =>
    /\ merged.verdict = "busy" /\ merged.busy \in 0..100
    /\ SummedUp => merged.busy >= Demand(Counted)

\* Whether a source is there for the device.  The GPU Engine counters tell of
\* any; NVML, on Windows, only if it knows that the device is not under WDDM.
Covers(source) ==
  CASE source = "nvml"  -> host.located /\ host.vendor = "nvidia"
                             /\ (host.os = "windows" => mem.nvml = "handle")
    [] source = "kfd"   -> Kfd!InTopology(host)
    [] source = "drm"   -> Drm!HasNode(host)
    [] source = "pdh"   -> TRUE
    [] source = "ioreg" -> host.located

\* A poll with no failed call tells busy or idle of a device that one of the
\* sources is there for, and leaves any other unknown.  So a device that can be
\* seen is never unknown but for a call that failed in this very poll, whatever
\* failed in an earlier one, and one that cannot is never taken for idle.
KnowsUnlessItFails ==
  step = "end" /\ ~failed =>
    (merged.verdict # "unknown" <=> \E source \in ToSet(CreatePlatformSources(host)) : Covers(source))

\* What the README and source.h say of the measurement: it counts every
\* process, loadmaster's own time included, and where a client has no usage
\* stats the whole device's busy time stands in.
MeasuresEverybody ==
  step = "end" /\ merged.busy # Unmeasured => merged.busy >= Demand({Self} \cup Users(w))

\* What the README says of the DRM source: a process counts that keeps the
\* device's engines busy for as much as the threshold, with all that it has
\* open there.
ProcessesAreSeen ==
  Ended("idle") /\ ~failed /\ ~Unseen =>
    \A q \in {host.proc[p] : p \in Users(w)} :
      MapThenSumSet(Percent, {p \in Users(w) : host.proc[p] = q}) < MinBusyPercent

=============================================================================
