-------------------------------- MODULE MCSite -------------------------------
(* Values of the site's constants for TLC.                                  *)
EXTENDS Site, TLC

CONSTANTS s1, s2, s3, panel, tail, free, pro, index, amd64, none

Rule(signal, most, severity) ==
    [signal |-> signal, op |-> "<=", value |-> most, severity |-> severity]

Base   == {Rule("critical", 0, "fail"), Rule("high", 1, "fail")}
Strict == {Rule("critical", 0, "fail"), Rule("high", 0, "fail")}
Lax    == {Rule("critical", 0, "warn"), Rule("high", 0, "info")}
Drafts == s1 :> Strict @@ s2 :> Lax @@ s3 :> Base
Inputs == {[critical |-> 1, high |-> 1], [critical |-> 0, high |-> 1]}

Starts   == panel :> -1 @@ tail :> 0
Limits   == free :> 1 @@ pro :> 2
Platform == index :> amd64 @@ amd64 :> none

=============================================================================
