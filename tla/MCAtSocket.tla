----------------------------- MODULE MCAtSocket -----------------------------
(* AtSocket with the hosts the cube talks to: the broker and the web.       *)
EXTENDS AtSocket

CONSTANTS broker, web
=============================================================================
