---------------------------- MODULE MCRouteStream ---------------------------
EXTENDS RouteStream

(* One kind of event for each thing the handler does with one; the         *)
(* statuses are one that is passed on, one that is not, and the timeout.   *)
MCKinds == {"text", "finish", "error", "other"}
MCStatuses == {429, 499, 502, 504}
=============================================================================
