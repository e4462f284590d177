---------------------------- MODULE LockedFunds ----------------------------
(***************************************************************************)
(* What a vesting account promises its issuer, whatever the holder does:   *)
(* of the coins it is worth, a part is locked, and the holder never        *)
(* parts with them.  The lock only loosens with time, except that it may   *)
(* be set anew once.                                                       *)
(***************************************************************************)
EXTENDS Integers

CONSTANT Denoms

VARIABLES
  worth,        \* coins the account owns, wherever they are
  locked,       \* coins that must stay in it
  rescheduled   \* whether the lock was set anew

vars == <<worth, locked, rescheduled>>

Holdings == [Denoms -> Nat]

Init ==
  /\ worth \in Holdings /\ locked \in Holdings
  /\ \A d \in Denoms : locked[d] <= worth[d]
  /\ rescheduled = FALSE

Receive(d) ==
  /\ worth[d] < worth'[d]
  /\ worth' = [worth EXCEPT ![d] = worth'[d]]
  /\ UNCHANGED <<locked, rescheduled>>

Spend(d) ==
  /\ worth'[d] < worth[d]
  /\ locked[d] <= worth'[d]
  /\ worth' = [worth EXCEPT ![d] = worth'[d]]
  /\ UNCHANGED <<locked, rescheduled>>

Release ==
  /\ locked' \in Holdings
  /\ \A d \in Denoms : locked'[d] <= locked[d]
  /\ UNCHANGED <<worth, rescheduled>>

Reschedule ==
  /\ ~rescheduled /\ rescheduled' = TRUE
  /\ locked' \in Holdings
  /\ UNCHANGED worth

Next == Release \/ Reschedule \/ \E d \in Denoms : Receive(d) \/ Spend(d)

Spec == Init /\ [][Next]_vars

=============================================================================
