---------------------------- MODULE MCUncorePMU -----------------------------
(* Two sockets, the link of the second disabled; boxes that are read frozen   *)
(* (imc, xpi, m3upi) and one that is read running (cbo).                      *)
EXTENDS UncorePMU

MCBoxes == {<<1, "imc">>, <<1, "cbo">>, <<2, "xpi">>}
MCLinks == {<<1, "imc">>, <<1, "m3upi">>}
MCDisabled == {<<2, "xpi">>} \cap Boxes
=============================================================================
