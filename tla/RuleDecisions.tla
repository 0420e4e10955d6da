----------------------------- MODULE RuleDecisions -----------------------------
(***************************************************************************)
(* What becomes of a connection: the rules of the parents and of the       *)
(* subscriptions in the database (storage.rs, subscription_download.rs,    *)
(* crate cleanweb-subscriptions), the domain index that the DNS filter     *)
(* builds from them or loads from its cache (dns_filter.rs, crate          *)
(* cleanweb-rules), the list of rules of the kernel (mihomo.rs), and the   *)
(* diagnosis that the parents are shown (storage.rs).                      *)
(*                                                                         *)
(* A domain is a sequence of labels, the top level first; an address is a  *)
(* sequence of one label that ends no domain.                              *)
(***************************************************************************)
EXTENDS Naturals, Sequences, SequencesExt

CONSTANTS
  Labels,        \* parts of names, and addresses
  Targets,       \* domains and addresses that somebody connects to
  Addresses,     \* those of them that are addresses
  Containing,    \* [keyword, wildcard, regular expression or network -> its targets]
  LocalTargets,  \* targets that the built-in rules for local networks send direct
  ParentRules,   \* rules the parents may make
  Subscriptions, \* a sequence: subscriptions with rules in the order of their creation
  CategoryOf,    \* [subscriptions -> categories]
  Files,         \* [subscriptions -> sets of files they may be sent]
  MaxClock,      \* bound: seconds
  MaxEdits       \* bound: writes to the database

Subs == Range(Subscriptions)
Categories == {CategoryOf[s] : s \in Subs}
Security == {"fraud", "phishing", "malware"}
DomainKinds == {"exact", "suffix"}
Kinds == DomainKinds \cup {"keyword", "network"}
NameForms == {"hosts", "domain", "adblock", "adblock exception", "clash exact"}
Forms == NameForms \cup {"ip", "clash keyword"}
Names == Seq(Labels) \ {<<>>}

ASSUME TargetsAssumption == Targets \subseteq Names
ASSUME ParentRulesAssumption ==
  \A rule \in ParentRules :
    /\ rule.kind \in Kinds /\ rule.action \in {"block", "allow", "proxy", "system_route"}
    /\ rule.kind \in DomainKinds => rule.pattern \in Names
ASSUME SubscriptionsAssumption == Subscriptions \in Seq(Subs)
ASSUME FilesAssumption ==
  \A s \in Subs : \A file \in Files[s] :
    /\ DOMAIN file = 1..Len(file) /\ Len(file) \in Nat
    /\ \A i \in DOMAIN file :
         file[i].form \in Forms /\ (file[i].form \in NameForms => file[i].pattern \in Names)
ASSUME BoundsAssumption == MaxClock \in Nat /\ MaxEdits \in Nat

VARIABLES
  parent,      \* parent_rules
  imported,    \* imported_rules, by subscription
  enabled,     \* subscriptions.enabled
  categories,  \* settings: categories that are on, "strict" by its own setting too
  stamp,       \* subscriptions.last_updated_at and last_error
  clock,
  disk,        \* the directory of the cached index: its manifest and files
  build,       \* where the filter is with replacing that directory
  filter,      \* the index of the running filter, empty if none runs
  kernel,      \* the rules of the running kernel
  loaded,      \* observer: which of the two have been loaded since the last change
  unstamped,   \* observer: subscriptions whose rules are newer than the second of their stamp
  edits

db == <<parent, imported, enabled, categories, stamp>>
runtime == <<disk, build, filter, kernel>>
vars == <<db, clock, runtime, loaded, unstamped, edits>>

NoCache == [manifest |-> {}, index |-> {}]

-----------------------------------------------------------------------------
(* Importing a file (crate cleanweb-subscriptions).  A line has the form of *)
(* the list it comes from; "clash" lines name what they match and do.       *)

LineOf(form, pattern) == [form |-> form, pattern |-> pattern]

Parses(line, kind, action) == [kind |-> kind, pattern |-> line.pattern, action |-> action]

\* parse_hosts_line, parse_domain_line, parse_ip_line, parse_adblock_line,
\* parse_clash_line: kind and action that a line stands for
Parsed(line) ==
  CASE line.form \in {"hosts", "domain", "adblock"} -> Parses(line, "suffix", "block")
    [] line.form = "adblock exception"              -> Parses(line, "suffix", "allow")
    [] line.form = "ip"                             -> Parses(line, "network", "block")
    [] line.form = "clash keyword"                  -> Parses(line, "keyword", "block")
    [] line.form = "clash exact"                    -> Parses(line, "exact", "block")

\* import_text: the category of some subscriptions decides on the action.
Import(category, file) ==
  [i \in DOMAIN file |->
     LET rule == Parsed(file[i]) IN
     [kind |-> rule.kind, pattern |-> rule.pattern, category |-> category,
      action |-> CASE category = "direct" -> "allow"
                   [] category \in {"routing", "proxy"} -> "proxy"
                   [] OTHER -> rule.action]]

Imports(s) == {Import(CategoryOf[s], file) : file \in Files[s]}
AllImports == UNION {Imports(s) : s \in Subs}

-----------------------------------------------------------------------------
(* Matching.                                                               *)

\* CompiledRule::matches, and the rules of the kernel
Matches(rule, target) ==
  CASE rule.kind = "exact"   -> target \notin Addresses /\ rule.pattern = target
    [] rule.kind = "suffix"  -> target \notin Addresses /\ IsPrefix(rule.pattern, target)
    [] rule.kind = "keyword" -> target \notin Addresses /\ target \in Containing[rule.pattern]
    [] rule.kind = "network" -> target \in Addresses /\ target \in Containing[rule.pattern]

\* Where the rules of enabled subscriptions are, in the order of their creation and of
\* their lines ...
Places ==
  UNION {{i} \X DOMAIN imported[Subscriptions[i]] :
           i \in {n \in DOMAIN Subscriptions : Subscriptions[n] \in enabled}}
RuleAt(place) == imported[Subscriptions[place[1]]][place[2]]

\* ... and those in categories that are on: category_enabled
Effective == {place \in Places : RuleAt(place).category \in categories}
EffectiveRules == {RuleAt(place) : place \in Effective}

ParentsOf(actions) == {rule \in ParentRules : parent[rule] = "on" /\ rule.action \in actions}

-----------------------------------------------------------------------------
(* The domain index.                                                       *)

Entry(tier, rule) == [tier |-> tier, kind |-> rule.kind, pattern |-> rule.pattern]

\* append_parent_domain_rules
ParentTier(rule) == IF rule.action = "allow" THEN "manual_allow" ELSE "manual_block"

\* append_imported_domain_rules
ImportedTier(rule) ==
  IF rule.action = "allow" THEN "manual_allow"
  ELSE IF rule.category \in Security THEN "security_block" ELSE "block"

Index ==
  LET parents == {r \in ParentsOf({"block", "allow"}) : r.kind \in DomainKinds}
      others == {r \in EffectiveRules :
                   r.kind \in DomainKinds /\ r.action \in {"block", "allow"}}
  IN {Entry(ParentTier(r), r) : r \in parents} \cup {Entry(ImportedTier(r), r) : r \in others}

\* DomainMatcher::matches: the set of exact names, and that of the suffixes for every
\* suffix of the name
InTier(index, tier, target) ==
  \/ [tier |-> tier, kind |-> "exact", pattern |-> target] \in index
  \/ \E n \in 1..Len(target) :
       [tier |-> tier, kind |-> "suffix", pattern |-> SubSeq(target, 1, n)] \in index

\* DomainRuleIndex::decide: the first tier with the name decides.
IndexBlocks(index, target) ==
  \/ InTier(index, "security_block", target)
  \/ InTier(index, "manual_block", target)
  \/ ~InTier(index, "manual_allow", target) /\ InTier(index, "block", target)

\* domain_index_fingerprint: settings, subscriptions and parent rules, not the
\* imported rules themselves
Fingerprint ==
  [categories |-> categories, enabled |-> enabled, stamp |-> stamp,
   parent |-> [r \in {rule \in ParentRules : rule.kind \in DomainKinds} |-> parent[r]]]

\* domain_index_cache_valid: the manifest in the directory has this fingerprint.
FreshManifest == {Fingerprint}

-----------------------------------------------------------------------------
(* The rules of the kernel.                                                *)

\* Parts of the list: what build_config puts first, and the order of load_filter_rules.
EarlyPart == 0
LocalPart == 1
SecurityPart == 2
OthersPart == 5

TargetOf(action) ==
  CASE action \in {"allow", "system_route"} -> "DIRECT"
    [] action = "proxy" -> "CleanWeb"
    [] action = "block" -> "REJECT"

Line(part, place, rule) ==
  [part |-> part, place |-> place, match |-> rule, to |-> TargetOf(rule.action)]

\* append_parent_rules: the order of one action's rules changes nothing.
ParentPart(rule) ==
  CASE rule.action = "block" -> 3 [] rule.action = "allow" -> 4
    [] rule.action = "proxy" -> 6 [] rule.action = "system_route" -> 7
ParentKernelRules ==
  {Line(ParentPart(r), <<0, 0>>, r) : r \in ParentsOf({"block", "allow", "proxy", "system_route"})}

\* Mutant: all rules of the subscriptions come before those of the parents.
ImportedPartFirst(rule) == SecurityPart

\* append_imported_rules: what the DNS filter blocks is left out.  That a line is not
\* said twice changes nothing.
ImportedPart(rule) == IF rule.category \in Security THEN SecurityPart ELSE OthersPart
ImportedKernelRules ==
  {Line(ImportedPart(RuleAt(p)), p, RuleAt(p)) :
     p \in {q \in Effective : ~(RuleAt(q).action = "block" /\ RuleAt(q).kind \in DomainKinds)}}

\* load_filter_rules
FilterRules == ParentKernelRules \cup ImportedKernelRules

IsEarlyNetworkBlock(rule) == rule.match.kind = "network" /\ rule.to = "REJECT"

\* build_config: blocked networks, then the local ones, then all the others
KernelRules ==
  {[rule EXCEPT !.part = IF IsEarlyNetworkBlock(rule) THEN EarlyPart ELSE @] :
     rule \in FilterRules}
  \cup {[part |-> LocalPart, place |-> <<0, 0>>, match |-> [kind |-> "local"], to |-> "DIRECT"]}

Precedes(a, b) ==
  \/ a.part < b.part
  \/ a.part = b.part /\ a.place[1] < b.place[1]
  \/ a.part = b.part /\ a.place[1] = b.place[1] /\ a.place[2] < b.place[2]

KernelMatches(rule, target) ==
  IF rule.match.kind = "local" THEN target \in LocalTargets ELSE Matches(rule.match, target)

\* The first rule of the list that matches decides.
KernelDecides(rules, target) ==
  LET hits == {rule \in rules : KernelMatches(rule, target)}
      first == CHOOSE rule \in hits : \A other \in hits : ~Precedes(other, rule)
  IN IF hits = {} THEN "default" ELSE first.to

\* A connection by name is looked up first; what the filter blocks does not exist.
Outcome(target) ==
  IF target \notin Addresses /\ IndexBlocks(filter, target) THEN "REJECT"
  ELSE KernelDecides(kernel, target)

-----------------------------------------------------------------------------
(* diagnose_rule_match                                                     *)

\* append_parent_diagnostic_rules
ParentPriority(rule) ==
  CASE rule.action = "block" -> 20 [] rule.action = "allow" -> 30
    [] rule.action = "proxy" -> 80 [] rule.action = "system_route" -> 81

\* Mutant: a parent's permission counts less than the block of a subscription.
ImportedPriorityHigh(rule) == IF rule.action = "block" THEN 10 ELSE 70

\* imported_rule_priority
ImportedPriority(rule) ==
  IF rule.action = "block" THEN (IF rule.category \in Security THEN 10 ELSE 50)
  ELSE IF rule.action = "allow" THEN 70 ELSE 80

\* All rules that match, by priority; one priority has one action.
Diagnosis(target) ==
  LET found ==
        {[priority |-> ParentPriority(r), action |-> r.action] :
           r \in {rule \in ParentsOf({"block", "allow", "proxy", "system_route"}) :
                    Matches(rule, target)}}
        \cup {[priority |-> ImportedPriority(r), action |-> r.action] :
           r \in {rule \in EffectiveRules : Matches(rule, target)}}
      best == CHOOSE one \in found : \A other \in found : one.priority <= other.priority
  IN IF found = {} THEN "default" ELSE best.action

-----------------------------------------------------------------------------
TypeOK ==
  /\ parent \in [ParentRules -> {"absent", "off", "on"}]
  /\ imported \in [Subs -> AllImports]
  /\ \A s \in Subs : imported[s] \in Imports(s)
  /\ enabled \subseteq Subs /\ categories \subseteq Categories /\ unstamped \subseteq Subs
  /\ stamp \in [Subs -> [at : 0..MaxClock, failed : BOOLEAN]]
  /\ clock \in 0..MaxClock /\ edits \in 0..MaxEdits
  /\ build \in {"idle", "built", "removed"}
  /\ loaded \subseteq {"filter", "kernel"}

Init ==
  /\ parent = [rule \in ParentRules |-> "on"]
  /\ imported \in {imp \in [Subs -> AllImports] :
                     \A s \in Subs : imp[s] \in Imports(s)}
  /\ enabled = Subs /\ categories = Categories
  /\ stamp = [s \in Subs |-> [at |-> 0, failed |-> FALSE]]
  /\ clock = 0 /\ disk = NoCache /\ build = "idle" /\ filter = {} /\ kernel = {}
  /\ loaded = {} /\ unstamped = {} /\ edits = 0

\* A write to the database: its lock is not held by who loads them.
Edit ==
  /\ build = "idle" /\ edits < MaxEdits /\ edits' = edits + 1 /\ loaded' = {}
  /\ UNCHANGED <<clock, runtime>>

SetParentRule(rule, from, to) ==
  /\ Edit /\ parent[rule] \in from /\ parent' = [parent EXCEPT ![rule] = to]
  /\ UNCHANGED <<imported, enabled, categories, stamp, unstamped>>

CreateParentRule(rule) == SetParentRule(rule, {"absent"}, "on")
SetParentRuleEnabled(rule, on) ==
  SetParentRule(rule, {"off", "on"}, IF on THEN "on" ELSE "off")
DeleteParentRule(rule) == SetParentRule(rule, {"off", "on"}, "absent")

\* update_setting
SetCategory(category, on) ==
  /\ Edit
  /\ categories' = IF on THEN categories \cup {category} ELSE categories \ {category}
  /\ UNCHANGED <<parent, imported, enabled, stamp, unstamped>>

\* set_subscription_enabled: enabling turns its category on.
SetSubscriptionEnabled(s, on) ==
  /\ Edit
  /\ enabled' = IF on THEN enabled \cup {s} ELSE enabled \ {s}
  /\ categories' = IF on THEN categories \cup {CategoryOf[s]} ELSE categories
  /\ UNCHANGED <<parent, imported, stamp, unstamped>>

\* refresh_rules: rules are replaced in one transaction ...
StoreRules(s, file) ==
  /\ Edit /\ Import(CategoryOf[s], file) # imported[s]
  /\ imported' = [imported EXCEPT ![s] = Import(CategoryOf[s], file)]
  /\ unstamped' = unstamped \cup {s}
  /\ UNCHANGED <<parent, enabled, categories, stamp>>

Restamp(s, failed) ==
  /\ Edit
  /\ stamp' = [stamp EXCEPT ![s] = [at |-> IF failed THEN @.at ELSE clock, failed |-> failed]]
  /\ stamp' # stamp
  /\ unstamped' = IF stamp'[s].at > stamp[s].at THEN unstamped \ {s} ELSE unstamped
  /\ UNCHANGED <<parent, imported, enabled, categories>>

\* ... and the subscription is stamped in another, as it is when nothing has changed.
StampSubscription(s) == Restamp(s, FALSE)

\* record_error
RefreshFails(s) == Restamp(s, TRUE)

Tick == clock < MaxClock /\ clock' = clock + 1
        /\ UNCHANGED <<db, runtime, loaded, unstamped, edits>>

-----------------------------------------------------------------------------
(* load_or_build_domain_index, with the database locked                    *)

Starts(index) ==
  /\ filter' = index
  /\ loaded' = loaded \cup {"filter"}

LoadCachedIndex ==
  /\ build = "idle" /\ disk.manifest = FreshManifest
  /\ Starts(disk.index)
  /\ UNCHANGED <<db, clock, disk, build, kernel, unstamped, edits>>

\* rebuild_domain_index_cache: all of it in a directory of its own ...
BuildIndex ==
  /\ build = "idle" /\ disk.manifest # FreshManifest
  /\ build' = "built"
  /\ UNCHANGED <<db, clock, disk, filter, kernel, loaded, unstamped, edits>>

\* Mutant: the manifest is written into the old directory first.
RemoveOldIndexLast ==
  /\ build = "built"
  /\ build' = "removed" /\ disk' = [disk EXCEPT !.manifest = FreshManifest]
  /\ UNCHANGED <<db, clock, filter, kernel, loaded, unstamped, edits>>

\* ... which takes the place of the old one in two steps, and is loaded.
RemoveOldIndex ==
  /\ build = "built"
  /\ build' = "removed" /\ disk' = NoCache
  /\ UNCHANGED <<db, clock, filter, kernel, loaded, unstamped, edits>>

RenameIndex ==
  /\ build = "removed" /\ build' = "idle"
  /\ disk' = [manifest |-> FreshManifest, index |-> Index]
  /\ Starts(disk'.index)
  /\ UNCHANGED <<db, clock, kernel, unstamped, edits>>

\* build_config and the hot update of the kernel
LoadKernelRules ==
  /\ build = "idle" /\ kernel' = KernelRules /\ loaded' = loaded \cup {"kernel"}
  /\ UNCHANGED <<db, clock, disk, build, filter, unstamped, edits>>

\* The program dies, and what it had in memory with it.
Crash ==
  /\ build' = "idle" /\ filter' = {} /\ kernel' = {} /\ loaded' = {}
  /\ (build # "idle" \/ loaded # {})
  /\ UNCHANGED <<db, clock, disk, unstamped, edits>>

Next ==
  \/ \E rule \in ParentRules :
       \/ CreateParentRule(rule) \/ DeleteParentRule(rule)
       \/ \E on \in BOOLEAN : SetParentRuleEnabled(rule, on)
  \/ \E category \in Categories, on \in BOOLEAN : SetCategory(category, on)
  \/ \E s \in Subs :
       \/ \E on \in BOOLEAN : SetSubscriptionEnabled(s, on)
       \/ \E file \in Files[s] : StoreRules(s, file)
       \/ StampSubscription(s) \/ RefreshFails(s)
  \/ Tick \/ LoadCachedIndex \/ BuildIndex \/ RemoveOldIndex \/ RenameIndex
  \/ LoadKernelRules \/ Crash

Spec == Init /\ [][Next]_vars

-----------------------------------------------------------------------------
(* Properties.                                                             *)

InForce == loaded = {"filter", "kernel"} /\ unstamped = {}

\* The index that the filter loads, from the cache or not, is that of the rules in the
\* database, whatever was edited and wherever the program died; only rules that were
\* stored and not stamped since, or stamped within the second of the stamp before, are
\* missed.
IndexIsFresh == "filter" \in loaded /\ unstamped = {} => filter = Index

\* What the code ranks otherwise than product-spec.md, "规则优先级": names of local
\* networks, exceptions and routes that come with subscriptions, and permissions of the
\* parents by keyword or network.
RankedOtherwise(target) ==
  \/ target \in LocalTargets \ Addresses
  \/ \E r \in EffectiveRules : r.action \in {"allow", "proxy"} /\ Matches(r, target)
  \/ \E r \in ParentsOf({"allow"}) : r.kind \notin DomainKinds /\ Matches(r, target)

\* The order of product-spec.md for the rules that block or allow.
Ranked(target) ==
  {[rank |-> IF r.action = "block" THEN 2 ELSE 3, action |-> r.action] :
     r \in {rule \in ParentsOf({"block", "allow"}) : Matches(rule, target)}}
  \cup {[rank |-> IF r.category \in Security THEN 1 ELSE 4, action |-> "block"] :
     r \in {rule \in EffectiveRules : rule.action = "block" /\ Matches(rule, target)}}

\* The filter and the kernel, of which each has a part of the rules, make together the
\* decision of the highest rule: security, then the parents' blocks, their permissions,
\* and the blocks of subscriptions.
PriorityHolds ==
  InForce =>
    \A target \in Targets :
      ~RankedOtherwise(target) /\ Ranked(target) # {} =>
        LET best == CHOOSE one \in Ranked(target) :
                      \A other \in Ranked(target) : one.rank <= other.rank
        IN (Outcome(target) = "REJECT") <=> (best.action = "block")

\* What the parents are told of a target is what becomes of it.
DiagnosisIsTrue ==
  InForce =>
    \A target \in Targets :
      ~RankedOtherwise(target) => (Outcome(target) = "REJECT" <=> Diagnosis(target) = "block")

\* "过滤规则必须排在代理和内置直连规则之前，避免同一域名的 DIRECT 规则绕过拦截"
FilterBeforeDirect ==
  InForce =>
    \A target \in Targets :
      (\E r \in EffectiveRules : r.action = "block" /\ Matches(r, target))
      /\ (\A r \in ParentsOf({"allow"}) : ~Matches(r, target))
        => Outcome(target) = "REJECT"

\* "管理者手动白名单" stands above the blocks of subscriptions other than security.
PermissionIsKept ==
  InForce =>
    \A target \in Targets \ LocalTargets :
      (\E r \in ParentsOf({"allow"}) : Matches(r, target))
      /\ (\A r \in ParentsOf({"block"}) : ~Matches(r, target))
      /\ (\A r \in EffectiveRules : r.category \in Security => ~Matches(r, target))
        => Outcome(target) # "REJECT"
=============================================================================
