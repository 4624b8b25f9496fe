--------------------------- MODULE ExtensionLoader ---------------------------
(***************************************************************************)
(* The closed-source extension library, and what InitExtensionLoader makes *)
(* of it at the start of the service: the entry points it resolves before  *)
(* it gives up.  A call through an entry point that was not resolved does  *)
(* nothing and succeeds.                                                   *)
(***************************************************************************)

CONSTANT
    Library         \* the entry points the library exports, {} without a library

\* The first three are needed in this order, the last two independently.
NeededFirst ==
    [CheckAll        |-> {},
     AwakeAnco       |-> {"CheckAll"},
     RestrictAncoApp |-> {"CheckAll", "AwakeAnco"},
     ActivateAll     |-> {"CheckAll", "AwakeAnco", "RestrictAncoApp"},
     DeactivateAll   |-> {"CheckAll", "AwakeAnco", "RestrictAncoApp"}]

ASSUME LibraryAssumption == Library \subseteq DOMAIN NeededFirst

Resolved == {f \in Library : NeededFirst[f] \subseteq Library}
=============================================================================
