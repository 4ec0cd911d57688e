---------------------------- MODULE MCRfReconnect ----------------------------
(* RfReconnect for TLC.  Attempts are reused once they are over, and taken *)
(* in a fixed order, so the model needs no symmetry; there must be enough  *)
(* of them for all the opens that can be late at once: with a budget of    *)
(* two, two after the first loss and two after each of two more calls that *)
(* refill the budget.                                                      *)
EXTENDS RfReconnect, TLC

CONSTANTS a1, a2, a3, a4, a5, a6

SixAttempts == {a1, a2, a3, a4, a5, a6}
==============================================================================
