--------------------------- MODULE MCBoardSession ---------------------------
(* A small instance of BoardSession: a plain command, a ping, and a payload *)
(* larger than the receive buffer whose second buffer reads "ping".         *)
EXTENDS BoardSession

MCPayloads == { <<"ping">>, <<"other", "ping">> }
=============================================================================
