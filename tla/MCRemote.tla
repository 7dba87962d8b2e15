------------------------------ MODULE MCRemote ------------------------------
(* The codes of remote.h, of which two are pressed.                        *)
EXTENDS Remote

powr  == <<1, 0, 1, 0, 0, 0, 1, 0>>
up    == <<0, 1, 1, 0, 0, 0, 1, 0>>
log   == <<1, 1, 1, 0, 0, 0, 1, 0>>
left  == <<0, 0, 1, 0, 0, 0, 1, 0>>
stop  == <<0, 0, 0, 0, 0, 0, 1, 0>>
right == <<1, 1, 0, 0, 0, 0, 1, 0>>

MCKeys    == {powr, up, log, left, stop, right}
MCButtons == {left, up}
=============================================================================
