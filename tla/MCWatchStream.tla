---------------------------- MODULE MCWatchStream ---------------------------
(* WatchStream with a buffer of two events that overflows.                 *)
EXTENDS WatchStream
=============================================================================
