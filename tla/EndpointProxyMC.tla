-------------------------- MODULE EndpointProxyMC --------------------------
(* One proxy with two requests at a time, of every kind.                    *)
EXTENDS EndpointProxy
=============================================================================
