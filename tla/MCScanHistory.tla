---------------------------- MODULE MCScanHistory ----------------------------
(* Two threads, three scans and a retention of zero days: the calendar of  *)
(* two days makes rows outdated while others are written.                  *)
EXTENDS ScanHistory
=============================================================================
