---------------------------- MODULE MCActionGate ----------------------------
(* ActionGate with one thread of each kind and two actions, one planned and  *)
(* one of an MCP server.                                                     *)
EXTENDS ActionGate, TLC

CONSTANTS hud, standing, connector_add, mcp_delete

MCChannel    == {hud}
MCBackground == {standing}
MCActions    == {connector_add, mcp_delete}
OneAction    == {connector_add}
MCPlanned    == {connector_add}
MCMcp        == {mcp_delete}
NoMcp        == {}

Plain == [auto |-> TRUE, narrow |-> "ask", floor |-> "none"]

(* A device without a baseline; one whose file approves of a tool that must   *)
(* not be, and whose fleet wants to be asked about the other; and one whose   *)
(* fleet bars the one tool and whose narrower rule the other.                 *)
MCPlain    == {[a \in Actions |-> Plain]}
MCProfiles ==
  MCPlain \cup
    {[a \in Actions |-> IF a \in Mcp THEN [Plain EXCEPT !.floor = "ask"]
                       ELSE [Plain EXCEPT !.auto = FALSE, !.narrow = "always"]],
     [a \in Actions |-> IF a \in Mcp THEN [Plain EXCEPT !.floor = "never"]
                       ELSE [Plain EXCEPT !.narrow = "never"]]}
=============================================================================
