---------------------------- MODULE MCOutputPool ----------------------------
(* Three plans: two roles with a follow-up reserve, one role with a lead     *)
(* that needs half the pool, and no role at all.                             *)
EXTENDS OutputPool

MCPlan == {PlanFor(<<"coder", "tester">>, TRUE, 4, FALSE, TRUE),
           PlanFor(<<"researcher">>, FALSE, 12, FALSE, TRUE),
           PlanFor(<<>>, FALSE, 2, TRUE, FALSE)}
=============================================================================
