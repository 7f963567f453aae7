----------------------------- MODULE MCPublish -----------------------------
(* Values of the constants of Publish for TLC.                             *)
EXTENDS Publish

MCDecided  == { Act("implement"), Complete, Escalate("protected_path_touched") }
MCPolicies == [ push : { "auto" }, open : { "auto", "manual" } ]
                \cup { [ push |-> "manual", open |-> "auto" ] }
=============================================================================
