--------------------------- MODULE MCCreationFees ---------------------------
(***************************************************************************)
(* Two configs, of one partner or of two; a pool of an older version or    *)
(* one created in the run; an address that is an operator, a partner or    *)
(* both.  Fees of 0, of an amount below the minimum, which create_config   *)
(* refuses, and of two above it, one whose tenth is not whole.             *)
(***************************************************************************)
EXTENDS CreationFees

CONSTANTS p1, c1, c2, alice, bob

=============================================================================
