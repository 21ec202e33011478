------------------------- MODULE MCSidecarInjection -------------------------
(* Small instances of SidecarInjection for TLC.                            *)
EXTENDS SidecarInjection, TLC

CONSTANTS i1, ns1, ns2, d1

\* an instance in the other namespace
OneName == i1 :> "b"
OneNamespace == i1 :> ns2

\* one deployment of a user
OneHome == d1 :> ns1
OneKind == d1 :> "user"
=============================================================================
