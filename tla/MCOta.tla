---------------------------------- MODULE MCOta ----------------------------------
(* A trial of five ticks, of which an image must survive three, and uploads of *)
(* up to two chunks.                                                           *)
EXTENDS Ota
=============================================================================
