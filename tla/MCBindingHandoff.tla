---------------------------- MODULE MCBindingHandoff ----------------------------
(* Two processes of the coordinator: the one the service manager starts and  *)
(* one forked from it, before or after it receives the session.              *)
EXTENDS BindingHandoff

CONSTANTS main, child

MCProc == {main, child}
Only == {main}
=============================================================================
