---------------------------- MODULE MCDeviceSafety ----------------------------
(* Two devices, each on its own: a behaviour is one of the GPU command queue *)
(* or of the touch pipeline, as focus says, and the other stays in its       *)
(* initial state.                                                            *)
EXTENDS GPUCommandQueue, TouchPipeline

VARIABLE focus

Request(q, rd, wr, g, submit, n, ok, fit) ==
  [queue |-> q, reads |-> rd, writes |-> wr, global |-> g, submit3D |-> submit,
   bytes |-> n, usable |-> ok, fits |-> fit]

(* Submissions that write resource 1, submissions that read it and so run   *)
(* beside each other, cursor updates, which conflict with everything, a     *)
(* chain that staging rejects and a response that does not fit.             *)
AllShapes ==
  {Request(Control, {}, {1}, FALSE, TRUE, 2, TRUE, TRUE),
   Request(Control, {1}, {}, FALSE, TRUE, 1, TRUE, TRUE),
   Request(Cursor, {}, {}, TRUE, FALSE, 1, TRUE, TRUE),
   Request(Control, {}, {2}, FALSE, TRUE, 1, TRUE, FALSE),
   Request(Control, {}, {}, TRUE, FALSE, 1, FALSE, TRUE)}

(* One press, two motions, a release and a cancel. *)
FewTouches ==
  {[phase |-> "down", isDown |-> TRUE, point |-> 1], [phase |-> "move", isDown |-> TRUE, point |-> 1],
   [phase |-> "move", isDown |-> TRUE, point |-> 2], [phase |-> "up", isDown |-> FALSE, point |-> 2],
   [phase |-> "cancel", isDown |-> FALSE, point |-> 1]}

MCInit ==
  /\ focus \in {"gpu", "touch"}
  /\ Init /\ TouchInit

MCNext ==
  \/ focus = "gpu" /\ Next /\ UNCHANGED <<focus, touchVars>>
  \/ focus = "touch" /\ TouchNext /\ UNCHANGED <<focus, vars>>

MCSpec == MCInit /\ [][MCNext]_<<focus, vars, touchVars>>

================================================================================
