-------------------------------- MODULE Backoff --------------------------------
(***************************************************************************)
(* reconnectDelay() of src/src/backoff.ts: an exponential ceiling under a  *)
(* cap, a uniform draw below it, and a floor under the draw.  A draw is    *)
(* the set of its outcomes.                                                *)
(***************************************************************************)
EXTENDS Naturals

CONSTANTS RECONNECT_FLOOR_MS, RECONNECT_CAP_MS

ASSUME BackoffAssumption == /\ RECONNECT_FLOOR_MS \in Nat \ {0}
                            /\ RECONNECT_CAP_MS \in Nat \ {0}

Larger(a, b) == IF a < b THEN b ELSE a

\* Math.max(0, attempt - 1)
Doublings(attempt) == IF attempt = 0 THEN 0 ELSE attempt - 1

\* Math.floor(random() * ceiling), random() in [0, 1), ceiling the smaller of the cap and
\* the doubled base.
Draws(attempt, base) ==
  {draw \in 0..(RECONNECT_CAP_MS - 1) : draw < base * 2^Doublings(attempt)}

UnflooredDelays(attempt, base) == Draws(attempt, base)
ReconnectDelays(attempt, base) ==
  {Larger(RECONNECT_FLOOR_MS, draw) : draw \in Draws(attempt, base)}
=============================================================================
