-------------------------- MODULE MCCampaignDialer --------------------------
(* The campaigns, leads and call outcomes TLC chooses from. *)
EXTENDS CampaignDialer

CONSTANTS l1, l2, a, b, p

OneLead  == {l1}
TwoLeads == {l1, l2}
OneCampaign == {a}
Both     == {a, b}
OnePhone == {p}

\* One company on the lists of two campaigns, or two leads of one campaign.
SamePhone == [l \in Leads |-> p]
Apart     == [l \in Leads |-> IF l = l1 THEN a ELSE b]
Together  == [l \in Leads |-> a]

outcome(ended, analysed) == [ended |-> ended, analysed |-> analysed]

\* A call that broke off, and whose analysis shows an opt-out.
OneOutcome  == {outcome("ERROR", "DNC")}
FewOutcomes == {outcome("PITCHED", "WARM"), outcome("RETRY", "DNC")}
AllOutcomes == FewOutcomes \cup {outcome("VM", "VM"), outcome("PITCHED", "PITCHED"),
                 outcome("NOT_INTERESTED", "NOT_INTERESTED"), outcome("RETRY", "GATEKEEPER"),
                 outcome("ERROR", "ERROR"), outcome("DNC", "DNC")}
=============================================================================
