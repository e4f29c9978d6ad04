--------------------------- MODULE MCModelRegistry --------------------------
EXTENDS ModelRegistry

(* A built-in model, two vendors' models with one short name, and one      *)
(* whose id is its short name.                                             *)
MCModels == {"u/c", "v/a", "w/a", "b"}
MCBuiltin == {"u/c"}
MCShort == [m \in MCModels |->
              CASE m = "u/c" -> "c" [] m \in {"v/a", "w/a"} -> "a" [] m = "b" -> "b"]
=============================================================================
