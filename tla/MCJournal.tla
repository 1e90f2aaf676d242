---------------------------- MODULE MCJournal ----------------------------
(* Two keys, two payloads and sequence numbers that wrap at four. *)
EXTENDS Journal

===========================================================================
