---------------------------- MODULE FrameSource ----------------------------
(***************************************************************************)
(* What the virtual GPU promises a consumer of its display: at any moment  *)
(* there is at most one published picture; a consumer that leases it gets  *)
(* that whole picture, unaffected by anything the guest draws afterwards,  *)
(* and a consumer that then copies the leased damage into its own texture  *)
(* ends up with that whole picture, exactly as if it had copied it all.    *)
(*                                                                         *)
(* No frame slots, damage records, copy-on-write or cursor composition are *)
(* visible here; FrameSlots implements this module with all of them.       *)
(***************************************************************************)
EXTENDS Naturals

CONSTANTS Clients,      \* the consumers that lease frames
          Nothing       \* no picture, no lease, no texture

VARIABLES picture,      \* the picture a lease taken now would show, or Nothing
          leased,       \* leased[c]: the picture client c holds leased, or Nothing
          texture       \* texture[c]: the picture client c copied last, or Nothing

vars == <<picture, leased, texture>>

Init ==
  /\ picture = Nothing
  /\ leased = [c \in Clients |-> Nothing]
  /\ texture = [c \in Clients |-> Nothing]

\* The guest publishes, moves the cursor, clears the screen or resets the GPU.
Publish ==
  /\ picture' # picture
  /\ UNCHANGED <<leased, texture>>

Acquire(c) ==
  /\ leased[c] = Nothing
  /\ picture # Nothing
  /\ leased' = [leased EXCEPT ![c] = picture]
  /\ UNCHANGED <<picture, texture>>

Upload(c) ==
  /\ leased[c] # Nothing
  /\ texture' = [texture EXCEPT ![c] = leased[c]]
  /\ leased' = [leased EXCEPT ![c] = Nothing]
  /\ UNCHANGED picture

\* The client gives the lease back without copying, keeping its texture or not.
Abandon(c) ==
  /\ leased[c] # Nothing
  /\ leased' = [leased EXCEPT ![c] = Nothing]
  /\ texture' \in {texture, [texture EXCEPT ![c] = Nothing]}
  /\ UNCHANGED picture

Next == Publish \/ \E c \in Clients : Acquire(c) \/ Upload(c) \/ Abandon(c)

Spec == Init /\ [][Next]_vars
=============================================================================
