--------------------------- MODULE MCEventsQueries ---------------------------
(* Instances of EventsQueries for TLC: the third event is created after one of *)
(* two has been destroyed, and pools of one and of two queries are told apart. *)
EXTENDS EventsQueries
=============================================================================
