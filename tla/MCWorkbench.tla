------------------------------ MODULE MCWorkbench ------------------------------
(* Two bundles in one folder, one of them in a nested folder as well.      *)
EXTENDS Workbench, TLC

CONSTANTS r1, r2, f1, f2

MCHolders == (r1 :> <<f1>>) @@ (r2 :> <<f2, f1>>)

===============================================================================
