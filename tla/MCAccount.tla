----------------------------- MODULE MCAccount ------------------------------
(* An instance of Account: one bucket that exists and one that does not,   *)
(* and two validations at a time.                                          *)
EXTENDS Account

CONSTANTS good, bad, v1, v2

TheBuckets       == {good, bad}
TheGood          == {good}
TwoValidations   == {v1, v2}
=============================================================================
