----------------------------- MODULE MCHeaderCrc ------------------------------
(***************************************************************************)
(* HeaderCrc with the client's two threads and two headers.                *)
(***************************************************************************)
EXTENDS HeaderCrc

===============================================================================
