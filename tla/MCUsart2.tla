------------------------------ MODULE MCUsart2 ------------------------------
(* A buffer of four bytes and three frames: frames that fit, that fill the   *)
(* buffer and that wrap, and text of two frames left behind a third.  DONE is *)
(* the next power of two, as 0x8000 is a bit above every index.              *)
EXTENDS Usart2
=============================================================================
