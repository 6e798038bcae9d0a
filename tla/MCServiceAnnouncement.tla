------------------------ MODULE MCServiceAnnouncement ------------------------
(* Small instances of ServiceAnnouncement. *)
EXTENDS ServiceAnnouncement

MCAddress == <<192, 168, 1, 10>>
=============================================================================
