---------------------------- MODULE MCRehydrate ----------------------------
(* A batch of build_reports meets a row twice, with another in between, while *)
(* an explain works on that row, and the validators change their minds once   *)
(* at any await.  build differs from build_report only in what it drops.      *)
EXTENDS Rehydrate

CONSTANTS reporter, explainer, r1, r2, s1, s2, s3

MCPlan == <<s2, s1, s3>>
MCOpOf == [t \in Tasks |-> IF t = reporter THEN "build_report" ELSE "explain"]
MCRowsOf == [t \in Tasks |-> IF t = reporter THEN <<r1, r2, r1>> ELSE <<r1>>]

=============================================================================
