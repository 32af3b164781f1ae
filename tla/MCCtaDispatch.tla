--------------------------- MODULE MCCtaDispatch ---------------------------
(***************************************************************************)
(* An instance of CtaDispatch: a grid of two clusters of two CTAs each,    *)
(* with a partial last warp and room for two CTAs on every core.           *)
(***************************************************************************)
EXTENDS CtaDispatch

ClusterKernels ==
    { [grid |-> <<2, 2, 1>>, block |-> <<3, 1, 1>>, cluster |-> <<2, 1, 1>>, lmem_size |-> 0] }
=============================================================================
