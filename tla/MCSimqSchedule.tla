--------------------------- MODULE MCSimqSchedule ---------------------------
(* Small instances of SimqSchedule for TLC.  The runs check liveness, so the lanes are not      *)
(* declared symmetric.                                                                          *)
EXTENDS SimqSchedule

=============================================================================
