----------------------------- MODULE MCStepRun -----------------------------
(* Instances of StepRun for TLC.                                           *)
EXTENDS StepRun

(* One invocation brings one fact to light, or two that the checks weigh   *)
(* against each other: usable evidence beside an access block, or beside a *)
(* rejected call.  What the retries add accumulates.                       *)
MCFreshFacts ==
  {{}} \cup {{fact} : fact \in Facts}
    \cup {{"blocked", fact} :
            fact \in {"deliverable", "stored", "routing", "zero_scan",
                      "external"}}
    \cup {{"forbidden", fact} : fact \in {"deliverable", "zero_scan"}}
    \cup {{"deliverable", "role_mismatch"}}

=============================================================================
