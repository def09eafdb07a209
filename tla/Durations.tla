----------------------------- MODULE Durations ------------------------------
(* The lengths of time that src/xrc/src/lib.rs names. *)
EXTENDS Integers

ONE_HOUR_SECONDS == 60 * 60
ONE_DAY_SECONDS == 24 * ONE_HOUR_SECONDS

=============================================================================
