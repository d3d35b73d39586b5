------------------------------- MODULE Board -------------------------------
(***************************************************************************)
(* lib/socle_lib/board.c: the two bounded busy waits every test uses.  The *)
(* loop counter is compared with a threshold computed from the CPU clock;  *)
(* here the threshold is the constant Threshold.                           *)
(***************************************************************************)
EXTENDS Integers

CONSTANT Threshold    \* socle_get_cpu_clock() / 95 * sec, in rounds of the loop

ASSUME BoardAssumption == Threshold \in Nat

\* One evaluation of the loop of socle_wait_for_int on the flag f with counter
\* t: only the value 1 ends the wait with success, and the flag is consumed.
WaitHit(f) == f = 1

\* Mutant of WaitExpires: the limit is never reached.
WaitExpiresNever(f, t) == f # 1 /\ t > Threshold
WaitPolls(f, t) == f # 1 /\ t < Threshold
WaitExpires(f, t) == f # 1 /\ t >= Threshold

\* One round of socle_wait_by_poll: the register is read before the counter is
\* tested, so a match found in the last round is reported as a timeout.
PollHit(val, mask, exp, t) == val \cap mask = exp \cap mask /\ t < Threshold
PollAgain(val, mask, exp, t) == val \cap mask # exp \cap mask /\ t < Threshold
PollExpires(t) == t >= Threshold
=============================================================================
