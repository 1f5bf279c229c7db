----------------------------- MODULE DnsDrift -----------------------------
(***************************************************************************)
(* The drift check a reconnect leaves behind: a detached task resolves the *)
(* receiver's name and, when the pinned address is gone from the answer,   *)
(* claims the process-wide warning slot with a compare-exchange.  A task   *)
(* carries the time of the reconnect that spawned it.                      *)
(***************************************************************************)
EXTENDS Naturals, Sequences

CONSTANTS
  Tasks,
  Interval,     \* DNS_DRIFT_WARN_INTERVAL_MS
  Pinned, Addrs,  \* the address of the uplinks; all addresses
  MaxTime       \* bound on the clock

IntervalAssumption == Interval \in Nat \ {0, 1} /\ Pinned \in Addrs /\ MaxTime \in Nat

VARIABLES
  clock,
  last,      \* LAST_DNS_DRIFT_WARN_MS
  task,      \* by task: where it is, the now it carries, the last it loaded
  claims,    \* history: the stamps of claims, in order of the exchange
  warned     \* history: when warnings were printed

vars == <<clock, last, task, claims, warned>>

Idle == [at |-> "idle", now |-> 0, seen |-> 0]

\* spawn_receiver_dns_drift_check, from reconnect_uplink.
SpawnCheck(t) ==
  /\ task[t].at = "idle"
  /\ task' = [task EXCEPT ![t] = [at |-> "lookup", now |-> clock, seen |-> 0]]
  /\ UNCHANGED <<clock, last, claims, warned>>

DnsDriftDetected(fresh) == fresh # {} /\ Pinned \notin fresh

\* The lookup ends; a failed one and an empty answer tell nothing.
Resolved(t, fresh) ==
  /\ task[t].at = "lookup"
  /\ task' = [task EXCEPT ![t] = IF DnsDriftDetected(fresh) THEN [@ EXCEPT !.at = "load"] ELSE Idle]
  /\ UNCHANGED <<clock, last, claims, warned>>

Since(now, then) == IF now > then THEN now - then ELSE 0

UsedRecently(now, seen) == seen # 0 /\ Since(now, seen) < Interval

\* claim_dns_drift_warning: the load and the check,
ClaimLoad(t) ==
  /\ task[t].at = "load"
  /\ task' = [task EXCEPT ![t] =
       IF UsedRecently(task[t].now, last) THEN Idle ELSE [@ EXCEPT !.at = "swap", !.seen = last]]
  /\ UNCHANGED <<clock, last, claims, warned>>

\* What is stored whatever is there by now.
MaySwapAny(t) == TRUE
MaySwap(t) == last = task[t].seen

\* and the exchange, which may fail for no reason (weak).
ClaimSwap(t) ==
  /\ task[t].at = "swap"
  /\ \/ /\ MaySwap(t)
        /\ last' = IF task[t].now = 0 THEN 1 ELSE task[t].now
        /\ claims' = Append(claims, last')
        /\ warned' = warned \union {<<t, clock>>}
        /\ task' = [task EXCEPT ![t] = Idle]
     \/ /\ task' = [task EXCEPT ![t].at = "load"]
        /\ UNCHANGED <<last, claims, warned>>
  /\ UNCHANGED clock

Elapse ==
  /\ clock < MaxTime
  /\ clock' = clock + 1
  /\ UNCHANGED <<last, task, claims, warned>>

Init ==
  /\ clock = 0 /\ last = 0
  /\ task = [t \in Tasks |-> Idle]
  /\ claims = <<>> /\ warned = {}

Next ==
  \/ \E t \in Tasks :
       \/ SpawnCheck(t) \/ ClaimLoad(t) \/ ClaimSwap(t)
       \/ \E fresh \in SUBSET Addrs : Resolved(t, fresh)
  \/ Elapse

Spec == Init /\ [][Next]_vars

-----------------------------------------------------------------------------
\* However the tasks interleave, and in whatever order their lookups end, claims
\* are an interval apart by the time of their reconnects: no two uplinks claim the
\* same slot and no late task claims one before the last.
ClaimsSpaced ==
  \A i, j \in 1..Len(claims) : i < j => claims[j] >= claims[i] + Interval

\* That holds after every step, and "`0` means never warned, so the first drift
\* always speaks up": no task that found drift gives up before any warning was printed.
ClaimsMeant ==
  [][/\ ClaimsSpaced'
     /\ \A t \in Tasks : task[t].at \in {"load", "swap"} /\ task'[t] = Idle => warned' # {}]_vars

\* The rate the comment promises: at most one warning in any interval.
OnePerInterval ==
  \A v, w \in warned : v # w => v[2] >= w[2] + Interval \/ w[2] >= v[2] + Interval
=============================================================================
