-------------------------- MODULE MCDispatchGuard --------------------------
(***************************************************************************)
(* Instances of DispatchGuard for TLC.                                     *)
(***************************************************************************)
EXTENDS DispatchGuard, TLC

CONSTANTS v1, v2, d1, x1, x2, t1, t2

\* Two vehicles that share their driver.
SharedDriver == { <<v1, d1>>, <<v2, d1>> }

OneWindow == { <<1, 3>> }

\* No two names hash to one key.
DistinctKeys == [r \in Lockable |-> r]

\* start takes the locks of reassign, and flip those of busy.
AllFootprints == AllKinds \ {"start", "flip"}

GuardSymmetry == Permutations(Txs) \union Permutations(Vehicles) \union Permutations(Dispatches)
=============================================================================
