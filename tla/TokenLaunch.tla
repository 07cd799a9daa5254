---------------------------- MODULE TokenLaunch ----------------------------
(***************************************************************************)
(* What a launch promises, without curve, fees, vaults or clock: a token   *)
(* is sold until its goal is raised or its time is over; then the sale is  *)
(* final; then, if any quote came in, it becomes a DAMM pool, once.  Each  *)
(* one-time payment is made at most once, and not before it is due.        *)
(*                                                                         *)
(* The launch itself mints nothing after the start and burns only in the   *)
(* step that makes the DAMM pool.  What the holder of a mint authority     *)
(* mints, where a configuration leaves it to one, is outside the launch:   *)
(* supply does not count it.                                               *)
(***************************************************************************)
EXTENDS Integers

CONSTANT Parties   \* those a one-time payment may go to

VARIABLES
    goal,      \* the quote that ends the sale
    cap,       \* the quote that is to become the DAMM pool; more is surplus
    stage,     \* where the launch is
    sold,      \* base tokens sold
    raised,    \* quote the sale brought, virtual swaps included
    received,  \* the part of it that really came in
    price,     \* where the sale stands on its curve
    supply,    \* of the base token
    paid       \* the one-time payments made

launchVars == <<goal, cap, stage, sold, raised, received, price, supply, paid>>

Stage    == {"open", "ended", "migrated"}
Payments == {"surplus", "migration_fee", "leftover"} \X Parties

LaunchInit ==
    /\ stage = IF raised >= goal THEN "ended" ELSE "open"
    /\ sold = 0
    /\ raised = 0
    /\ received = 0
    /\ paid = {}

\* A buy takes tokens from the curve, and ends the sale when it meets the goal.
Buy ==
    /\ stage = "open"
    /\ sold' >= sold
    /\ received' >= received
    /\ raised' - raised >= received' - received
    /\ stage' = IF raised' >= goal THEN "ended" ELSE "open"
    /\ UNCHANGED <<goal, cap, supply, paid>>

\* The deadline passes.
Expire ==
    /\ stage = "open"
    /\ stage' = "ended"
    /\ UNCHANGED <<goal, cap, sold, raised, received, price, supply, paid>>

\* The launch becomes a DAMM pool.
Graduate ==
    /\ stage = "ended"
    /\ received > 0
    /\ stage' = "migrated"
    /\ supply' <= supply
    /\ UNCHANGED <<goal, cap, sold, raised, received, price, paid>>

\* The surplus is due when the DAMM pool's quote is there: with the end of the
\* sale if that takes the whole goal, and maybe before it if the cap is fixed
\* below.  The migration fee is due when the sale has ended, the leftover when
\* the DAMM pool exists.
Due(kind) ==
    CASE kind = "surplus"       -> received >= cap
      [] kind = "migration_fee" -> stage # "open"
      [] kind = "leftover"      -> stage = "migrated"

Pay(kind, party) ==
    /\ <<kind, party>> \notin paid
    /\ Due(kind)
    /\ paid' = paid \cup {<<kind, party>>}
    /\ UNCHANGED <<goal, cap, stage, sold, raised, received, price, supply>>

LaunchNext ==
    \/ Buy \/ Expire \/ Graduate
    \/ \E kind \in {"surplus", "migration_fee", "leftover"}, party \in Parties : Pay(kind, party)

LaunchSpec == LaunchInit /\ [][LaunchNext]_launchVars

=============================================================================
