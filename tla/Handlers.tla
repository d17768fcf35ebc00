------------------------------ MODULE Handlers ------------------------------
(* What the /api handlers of the dashboard answer, as far as the page can tell: *)
(* the check of the window, the query with its ten seconds, and the status     *)
(* wrap gives an error.  The type of /api/sensors/history is one the page got   *)
(* from /api/sensors/latest and is never refused.                              *)

windows == {"15 minutes", "1 hour", "6 hours", "24 hours", "7 days", "30 days"}

\* A request without a window has "" as its value.
WindowOf(v) == IF v = "" THEN "1 hour" ELSE v

\* wrap: only the errors about the window (and the sensor type) are the
\* client's; everything else is the database's.
StatusOf(err) == IF err = "window must be" THEN 400 ELSE IF err = "" THEN 200 ELSE 503

\* handleProcesses and the others that answer the latest rows; no answer of
\* PostgreSQL within the ten seconds is an error like any other.
LatestError(up) == IF up THEN "" ELSE "pgx"

\* handleCPU and the others with a history refuse the window before the query.
HistoryError(v, up) ==
  IF WindowOf(v) \notin windows THEN "window must be" ELSE LatestError(up)
=============================================================================
