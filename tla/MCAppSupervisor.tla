-------------------------- MODULE MCAppSupervisor --------------------------
(* AppSupervisor with two lifecycle tasks, one request and two callers: a    *)
(* spoken command starts and stops the app, a tool of the model starts it.   *)
EXTENDS AppSupervisor, TLC

CONSTANTS share_guard, router, l1, l2, generate

MCStarters == {share_guard, router}
MCStoppers == {router}
MCLives    == {l1, l2}
MCRequests == {generate}
=============================================================================
