------------------------- MODULE GpuDeviceContract --------------------------
(***************************************************************************)
(* What gpu::GpuDevice (gpu/device.h) promises to the worker: a device     *)
(* that failed to come up has left nothing behind, the block is there as a *)
(* whole or not at all, as the call that made it said, and nothing         *)
(* outlives the device.  Only a backend bound to a context may lose track  *)
(* of memory, while it cannot make the context current, and then until it  *)
(* goes.                                                                   *)
(***************************************************************************)
EXTENDS Naturals

CONSTANT Blocks    \* the sizes a block can have

VARIABLES
  stage,      \* "unmade", "made", "up", "unusable", "gone"
  block,      \* size of the block the worker asks for
  mayLose,    \* whether the backend is bound to a context
  objects,    \* whether anything but memory exists in the driver
  memory,     \* memory that exists for the block
  held,       \* whether the worker was told that it has its block
  lost        \* whether memory exists that the backend knows nothing of

vars == <<stage, block, mayLose, objects, memory, held, lost>>

Init ==
  /\ stage = "unmade"
  /\ block = 0 /\ mayLose = FALSE
  /\ objects = FALSE /\ memory = 0 /\ held = FALSE /\ lost = FALSE

Make ==
  /\ stage = "unmade" /\ stage' = "made"
  /\ block' \in Blocks /\ mayLose' \in BOOLEAN
  /\ UNCHANGED <<objects, memory, held, lost>>

Start ==
  /\ stage = "made" /\ stage' \in {"up", "unusable"}
  /\ objects' = (stage' = "up")
  /\ UNCHANGED <<block, mayLose, memory, held, lost>>

\* An allocation that fails leaves nothing of the block.
Allocate ==
  /\ stage = "up" /\ ~held
  /\ held' \in BOOLEAN
  /\ memory' = IF held' THEN block ELSE 0
  /\ UNCHANGED <<stage, block, mayLose, objects, lost>>

Release ==
  /\ stage = "up"
  /\ memory' = 0 /\ held' = FALSE
  /\ lost' \in {lost, lost \/ (mayLose /\ memory > 0)}
  /\ UNCHANGED <<stage, block, mayLose, objects>>

Destroy ==
  /\ stage \in {"made", "up", "unusable"} /\ stage' = "gone"
  /\ objects' = FALSE /\ memory' = 0 /\ held' = FALSE /\ lost' = FALSE
  /\ UNCHANGED <<block, mayLose>>

Next == Make \/ Start \/ Allocate \/ Release \/ Destroy

Spec == Init /\ [][Next]_vars

=============================================================================
