---------------------------- MODULE MCAnalyticsRead ----------------------------
(***************************************************************************)
(* AnalyticsRead for TLC: organization ids that are one segment, one of    *)
(* them a word of the cached paths, and ids that are several segments and  *)
(* end the path, with and without a handler there.                         *)
(***************************************************************************)
EXTENDS AnalyticsRead

MCOrgIds ==
    {<<"o1">>, <<"analytics">>, <<"o1", "customers", "usage?">>,
     <<"o1", "analytics", "usage?">>}
MCQueryIds == {<<"o1">>}
MCBefore == [s \in {"usage?"} |-> "usage"]

=============================================================================
