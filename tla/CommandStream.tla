---------------------------- MODULE CommandStream ----------------------------
(***************************************************************************)
(* What the command processor promises the host: the commands it is given  *)
(* form one stream, taken strictly in order and one at a time; a kernel    *)
(* runs only inside the command that launched it; a command is counted     *)
(* exactly once, after its kernel has ended.                               *)
(***************************************************************************)
EXTENDS Integers, Sequences

CONSTANTS
  Launching,    \* the commands that may run kernels
  None          \* no command

VARIABLES
  pending,      \* commands accepted and not begun, in order
  running,      \* the command being executed, or None
  kernel,       \* is a kernel running?
  retired       \* commands completed

vars == <<pending, running, kernel, retired>>

Init == pending = << >> /\ running = None /\ kernel = FALSE /\ retired = 0

Post ==
  /\ Len(pending) <= Len(pending')
  /\ SubSeq(pending', 1, Len(pending)) = pending
  /\ UNCHANGED <<running, kernel, retired>>

Begin ==
  /\ running = None /\ pending # << >>
  /\ running' = Head(pending) /\ pending' = Tail(pending)
  /\ UNCHANGED <<kernel, retired>>

KernelStart ==
  /\ running \in Launching /\ ~kernel
  /\ kernel' = TRUE
  /\ UNCHANGED <<pending, running, retired>>

KernelEnd ==
  /\ kernel
  /\ kernel' = FALSE
  /\ UNCHANGED <<pending, running, retired>>

Retire ==
  /\ running # None /\ ~kernel
  /\ running' = None /\ retired' = retired + 1
  /\ UNCHANGED <<pending, kernel>>

Next == Post \/ Begin \/ KernelStart \/ KernelEnd \/ Retire

Spec == Init /\ [][Next]_vars
=============================================================================
