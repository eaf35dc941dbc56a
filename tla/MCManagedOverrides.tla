------------------------ MODULE MCManagedOverrides ------------------------
(* Two sources of different priority that disagree about one domain.        *)
EXTENDS ManagedOverrides, TLC

CONSTANTS s1, s2, e1, e2

With(fields) == fields @@ [f \in Field |-> Unset]

MCImportable == (s1 :> {e1}) @@ (s2 :> {e2})
MCPriority   == (s1 :> 1) @@ (s2 :> 2)
MCKeyOf      == [e \in Entry |-> "ads.example"]

\* A reviewed exception, and a tracker of higher priority with an unsafe action.
MCImported ==
  (e1 :> With([category |-> "allow_exception", review |-> "approved",
               confidence |-> "high", verified |-> "true"]))
  @@ (e2 :> With([category |-> "tracker", review |-> "candidate", confidence |-> "low",
                  verified |-> "false", action |-> "forward-asis"]))

MCPatch == {With([rewrite |-> "true"])}

MCValue == {"tracker", "allow_exception", "candidate", "approved", "low", "high",
            "forward-asis", "true", "false"}
=============================================================================
