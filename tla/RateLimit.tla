------------------------------ MODULE RateLimit -------------------------------
(***************************************************************************)
(* The fixed-window limiter of sqlite_rate_limit.py for one bucket and one *)
(* address. A request computes its window first and then waits for the     *)
(* write lock, so windows need not arrive in order.                        *)
(***************************************************************************)
EXTENDS Naturals

CONSTANTS
  Limit,      \* requests of a window, 5 for a login
  MaxWindow,  \* the last window of the run
  NoRow       \* rate_limits has no row

Windows == 0 .. MaxWindow

VARIABLES
  clock,     \* the window time.time() is in
  bucket,    \* the row of rate_limits
  admitted,  \* history: requests admitted for a window
  crossed    \* history: windows from one that took the row back to the newer one it replaced

limitVars == <<clock, bucket, admitted, crossed>>

Bucket == [window : Windows, count : 1 .. Limit]

ASSUME LimitAssumption ==
  /\ Limit \in Nat \ {0} /\ MaxWindow \in Nat
  /\ NoRow \notin Bucket

LimitInit ==
  /\ clock = 0
  /\ bucket = NoRow
  /\ admitted = [w \in Windows |-> 0]
  /\ crossed = {}

NextWindow ==
  /\ clock < MaxWindow
  /\ clock' = clock + 1
  /\ UNCHANGED <<bucket, admitted, crossed>>

Counted(w) == bucket # NoRow /\ bucket.window = w

\* Mutant of Admits: one more than the limit.
AdmitsOneMore(w) == Counted(w) => bucket.count <= Limit

Admits(w) == Counted(w) => bucket.count < Limit

\* The windows whose count is lost when window w takes the row back.
Crossed(w) == IF bucket # NoRow /\ w < bucket.window THEN w .. bucket.window ELSE {}

\* _consume by a request whose window is w; the row is replaced unless it is
\* of that very window, whether its window is older or newer.
Consume(w) ==
  /\ IF Admits(w)
       THEN /\ bucket' = IF Counted(w) THEN [bucket EXCEPT !.count = @ + 1]
                         ELSE [window |-> w, count |-> 1]
            /\ admitted' = [admitted EXCEPT ![w] = @ + 1]
            /\ crossed' = crossed \cup Crossed(w)
       ELSE UNCHANGED <<bucket, admitted, crossed>>
  /\ UNCHANGED clock

\* A window admits its limit, as long as no request that waited over a boundary took
\* the row back to it or to an older one from it or a newer one (_consume).
AttemptsInOrder == \A w \in Windows \ crossed : admitted[w] <= Limit

\* Every window admits its limit and no more (docs/API.md:43, of the traffic interfaces,
\* which count by the same _consume).
AttemptsWithinLimit == \A w \in Windows : admitted[w] <= Limit
=============================================================================
