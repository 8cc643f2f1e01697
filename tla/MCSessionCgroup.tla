--------------------------- MODULE MCSessionCgroup ---------------------------
(* Instances of SessionCgroup: sessions of two runs that may collide on a    *)
(* name, with a child of each kind, with and without failing calls.          *)
EXTENDS SessionCgroup

MCFixed == {"memory"}
MCOther == {"io"}
Faults == {{}, {"io", "timeout"}}
AnyFault == {{"io", "timeout"}}

(* Everywhere but between a call that names the session directory and the    *)
(* check before it, where only the exclusive parent protects the name.       *)
Interference == {"configure", "handoff", "barrier", "kill", "wait", "list", "leaves", "ended"}
=============================================================================
