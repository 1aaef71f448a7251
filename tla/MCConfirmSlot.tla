--------------------------- MODULE MCConfirmSlot ---------------------------
(* ConfirmSlot with one thread of each kind and two content ids. *)
EXTENDS ConfirmSlot
CONSTANTS alpha, beta, worker, conn, mic
MCActions    == {alpha, beta}
MCBackground == {worker}
MCChannel    == {conn}
MCAudio      == {mic}
=============================================================================
