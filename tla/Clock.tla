--------------------------------- MODULE Clock ---------------------------------
(***************************************************************************)
(* The clock of the server's process, time.time() and datetime.now, which  *)
(* the components that watch the system read.                              *)
(***************************************************************************)
VARIABLE clock
=============================================================================
