---------------------------- MODULE MCScheduling ----------------------------
(* Small instances of Scheduling for TLC. *)
EXTENDS Scheduling

\* One slot in the morning and one in the afternoon.
Ranges1 == {<<9, 10>>, <<14, 15>>}
=============================================================================
