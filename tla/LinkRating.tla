----------------------------- MODULE LinkRating -----------------------------
(***************************************************************************)
(* What housekeeping makes of a tick's measurements: the congestion        *)
(* controller of a link (LinkCc), and the weak-link filter over all links  *)
(* (Filter).  They share no state.                                         *)
(***************************************************************************)
EXTENDS LinkCc

CONSTANTS
  Links, LinkRates, Rtts, Latencies, MinTotal, Sustain, Interval, Window, BackoffMax, FailCap

VARIABLES hist, verdict, late, fails, tier

Filter == INSTANCE Classifier WITH Rates <- LinkRates

ASSUME FilterAssumption == Filter!ClassifierAssumption /\ Filter!FilterFacts

\* A link that has been late for the sustain time is gated as late, in that very tick,
\* and no other link is: see LateIsGated of Classifier.
LateIsGated == Filter!LateIsGated

\* The wait before a re-test doubles with every one that fails: see FailuresPriced of
\* Classifier.
FailuresPriced == Filter!FailuresPriced
=============================================================================
