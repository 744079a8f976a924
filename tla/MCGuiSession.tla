---------------------------- MODULE MCGuiSession ----------------------------
(* Two ports: enough for a session with a console, and for one whose       *)
(* second port cannot be opened.                                           *)
EXTENDS GuiSession

CONSTANTS p, q

MCPorts == {p, q}
=============================================================================
