------------------------------ MODULE CapsuleMC ------------------------------
(***************************************************************************)
(* A capsule with the entry at its root and a blueprint two directories    *)
(* below it, for model checking.                                           *)
(***************************************************************************)
EXTENDS CapsuleLifecycle

MCHome == [e \in {"entry", "blueprint", "blueprints", "static"} |->
             CASE e \in {"entry", "blueprints"} -> Root
               [] e = "static" -> "blueprints"
               [] e = "blueprint" -> "static"]
=============================================================================
