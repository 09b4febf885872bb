------------------------------ MODULE MCImages ------------------------------
(* The image store with two download goroutines, on its own. *)
EXTENDS Images

=============================================================================
