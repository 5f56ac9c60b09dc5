------------------------------ MODULE MCOperator ------------------------------
(* The operator with small bounds, see operator.cfg and operator_recreated.cfg. *)
EXTENDS Operator
=============================================================================
