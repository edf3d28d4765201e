------------------------------- MODULE Clock -------------------------------
(* The wall clock the caches and the rate limiters read with time.Now().     *)
(* One tick is the resolution at which their windows and lifetimes are       *)
(* compared; MaxTime bounds the run.                                         *)
EXTENDS Naturals

CONSTANT MaxTime
VARIABLE now

Times == 0..MaxTime

ClockInit == now = 0

ClockTick == now < MaxTime /\ now' = now + 1

(* the ticks of the window of length w that ends at t                        *)
WindowEnding(t, w) == {s \in Times : s <= t /\ s + w > t}
=============================================================================
