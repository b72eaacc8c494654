---------------------------- MODULE MCGpuDevices ----------------------------
(***************************************************************************)
(* Numbers on both sides of every limit of the options.  A block of 16     *)
(* words is one chunk of windows of 6, 6 and 4 words, or chunks of 7, 7    *)
(* and 2 words with windows of 6, 1, 6, 1 and 2, of which the short ones   *)
(* are skipped by a launch of two threads.  The memory has room for one    *)
(* block of three chunks and one chunk more.  Two platforms expose one     *)
(* GPU, and one of them a device that is none.                             *)
(***************************************************************************)
EXTENDS GpuDevices

MCNumbers    == [f \in {"-l", "-c", "-m", "-g", "-gm"} |->
                   CASE f = "-l" -> {-1, 100, 250}
                     [] f = "-c" -> {-1, 1, 3}
                     [] f = "-g" -> {-1, 50, 101}
                     [] OTHER    -> {-1, 1}]
MCIndexLists == {<<1, 0>>, <<2>>, <<1, 1>>, <<-1>>}
MCPlatforms  == {<<>>, <<<<"no gpu">>>>, <<<<"a", "b">>, <<"b", "unknown">>, <<"unknown">>>>,
                 <<<<"no gpu", "a">>, <<"a">>>>}
MCMaxAlloc   == {0, 14}
MCTraffics   == {0, 3, 20}

=============================================================================
