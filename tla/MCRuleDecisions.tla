----------------------------- MODULE MCRuleDecisions -----------------------------
(***************************************************************************)
(* Domains, rules and files for checking RuleDecisions with TLC.           *)
(***************************************************************************)
EXTENDS RuleDecisions, TLC

site == <<"com", "site">>
www == <<"com", "site", "www">>
nas == <<"lan", "nas">>
router == <<"192.168.1.1">>
word == <<"si">>
lan == <<"192.168.0.0/16">>

AllLabels == {"com", "site", "www", "lan", "nas", "192.168.1.1"}
AllTargets == {site, www, nas, router}
OneAddress == {router}
Contents == (word :> {site, www}) @@ (lan :> {router})
Local == {nas, router}

Rule(action, kind, pattern) == [action |-> action, kind |-> kind, pattern |-> pattern]
ThreeParentRules ==
  {Rule("allow", "exact", www), Rule("block", "keyword", word), Rule("proxy", "suffix", site)}
FourParentRules == ThreeParentRules \cup {Rule("allow", "network", lan)}

KeywordPermission == {Rule("allow", "keyword", word)}

TwoSubscriptions == <<"urls", "adult">>
TwoCategories == ("urls" :> "malware") @@ ("adult" :> "pornography")
TwoFiles ==
  ("urls" :> {<<>>, <<LineOf("hosts", www)>>,
              <<LineOf("clash keyword", word), LineOf("ip", lan)>>})
  @@ ("adult" :> {<<LineOf("domain", site)>>, <<LineOf("clash keyword", word)>>,
                  <<LineOf("adblock", site), LineOf("adblock exception", www)>>})

ThreeSubscriptions == <<"routes", "urls", "adult">>
ThreeCategories == ("routes" :> "routing") @@ TwoCategories
ThreeFiles == ("routes" :> {<<LineOf("domain", site)>>}) @@ TwoFiles

DirectSubscriptions == <<"adult", "direct">>
DirectCategories == ("adult" :> "pornography") @@ ("direct" :> "direct")
DirectFiles ==
  ("adult" :> {<<LineOf("domain", site)>>, <<LineOf("clash exact", www)>>})
  @@ ("direct" :> {<<>>, <<LineOf("domain", site)>>})
=============================================================================
