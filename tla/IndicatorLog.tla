---------------------------- MODULE IndicatorLog ----------------------------
(***************************************************************************)
(* What the collection of custom indicators promises: for every indicator  *)
(* a log of points that is only appended to, and a chart on the platform   *)
(* that shows, at each position, the point the log has there.  The chart   *)
(* fills up in any order and may stay incomplete, but what it shows never  *)
(* changes while the session is open.  A restart abandons the session, and *)
(* with it the promise: what is still on its way may rewrite the chart.    *)
(***************************************************************************)
EXTENDS Integers, Sequences

CONSTANT Keys

VARIABLES
  log,     \* the points recorded for each indicator
  chart,   \* the points shown: a partial function from positions
  open     \* the session has not been abandoned

logVars == <<log, chart, open>>

LogInit ==
  /\ log = [k \in Keys |-> <<>>]
  /\ \A k \in Keys : DOMAIN chart[k] = {}
  /\ open = TRUE

Extend(k) == \A p \in DOMAIN log[k] :
               p \in DOMAIN log'[k] /\ log'[k][p] = log[k][p]

Show(k) ==
  /\ DOMAIN chart[k] \subseteq DOMAIN chart'[k]
  /\ \A p \in DOMAIN chart'[k] :
       \/ p \in DOMAIN chart[k] /\ chart'[k][p] = chart[k][p]
       \/ p \in DOMAIN log'[k] /\ chart'[k][p] = log'[k][p]

Collect == open /\ open' /\ \A k \in Keys : Extend(k) /\ Show(k)

Abandon == open' = FALSE

LogSpec == LogInit /\ [][Collect \/ Abandon]_logVars

=============================================================================
