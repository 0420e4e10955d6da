-------------------------- MODULE RuleDecisionsProofs --------------------------
(***************************************************************************)
(* What holds of RuleDecisions for all rules, subscriptions, files and     *)
(* targets: the index is that of the rules in the database, and the filter *)
(* and the kernel decide together in the order of the priorities, which is *)
(* what the diagnosis tells.                                               *)
(***************************************************************************)
EXTENDS RuleDecisions, SequenceTheorems, WellFoundedInduction, TLAPS

-----------------------------------------------------------------------------
(* What the lists depend on.                                               *)

ParentsIn(par, actions) == {rule \in ParentRules : par[rule] = "on" /\ rule.action \in actions}

PlacesIn(imp, en, cat) ==
  {place \in UNION {{i} \X DOMAIN imp[Subscriptions[i]] :
                      i \in {n \in DOMAIN Subscriptions : Subscriptions[n] \in en}} :
     imp[Subscriptions[place[1]]][place[2]].category \in cat}

RulesIn(imp, en, cat) ==
  {imp[Subscriptions[place[1]]][place[2]] : place \in PlacesIn(imp, en, cat)}

IndexOf(par, imp, en, cat) ==
  {Entry(ParentTier(r), r) :
     r \in {rule \in ParentsIn(par, {"block", "allow"}) : rule.kind \in DomainKinds}}
  \cup {Entry(ImportedTier(r), r) :
     r \in {rule \in RulesIn(imp, en, cat) :
              rule.kind \in DomainKinds /\ rule.action \in {"block", "allow"}}}

KernelOf(par, imp, en, cat) ==
  LET parents == {Line(ParentPart(r), <<0, 0>>, r) :
                    r \in ParentsIn(par, {"block", "allow", "proxy", "system_route"})}
      others == {Line(ImportedPart(imp[Subscriptions[p[1]]][p[2]]), p,
                      imp[Subscriptions[p[1]]][p[2]]) :
                   p \in {q \in PlacesIn(imp, en, cat) :
                            ~(/\ imp[Subscriptions[q[1]]][q[2]].action = "block"
                              /\ imp[Subscriptions[q[1]]][q[2]].kind \in DomainKinds)}}
  IN  {[rule EXCEPT !.part = IF IsEarlyNetworkBlock(rule) THEN EarlyPart ELSE @] :
         rule \in parents \cup others}
      \cup {[part |-> LocalPart, place |-> <<0, 0>>, match |-> [kind |-> "local"],
             to |-> "DIRECT"]}

\* The index is made of nothing but rules and settings.
LEMMA IndexDepends ==
  /\ Index = IndexOf(parent, imported, enabled, categories)
  /\ Index' = IndexOf(parent', imported', enabled', categories')
<1>1. Index = IndexOf(parent, imported, enabled, categories)
  BY DEF Index, IndexOf, ParentsOf, ParentsIn, EffectiveRules, RulesIn, Effective, Places,
         PlacesIn, RuleAt
<1>2. Index' = IndexOf(parent', imported', enabled', categories')
  BY DEF Index, IndexOf, ParentsOf, ParentsIn, EffectiveRules, RulesIn, Effective, Places,
         PlacesIn, RuleAt
<1> QED
  BY <1>1, <1>2

\* So is the list of the kernel.
LEMMA KernelDepends ==
  /\ KernelRules = KernelOf(parent, imported, enabled, categories)
  /\ KernelRules' = KernelOf(parent', imported', enabled', categories')
<1>1. KernelRules = KernelOf(parent, imported, enabled, categories)
  BY DEF KernelRules, KernelOf, FilterRules, ParentKernelRules, ImportedKernelRules,
         ParentsOf, ParentsIn, Effective, Places, PlacesIn, RuleAt
<1>2. KernelRules' = KernelOf(parent', imported', enabled', categories')
  BY DEF KernelRules, KernelOf, FilterRules, ParentKernelRules, ImportedKernelRules,
         ParentsOf, ParentsIn, Effective, Places, PlacesIn, RuleAt
<1> QED
  BY <1>1, <1>2

-----------------------------------------------------------------------------
(* The steps.                                                              *)

\* What writes to the database.
Edits ==
  \/ \E rule \in ParentRules :
       \/ CreateParentRule(rule) \/ DeleteParentRule(rule)
       \/ \E on \in BOOLEAN : SetParentRuleEnabled(rule, on)
  \/ \E category \in Categories, on \in BOOLEAN : SetCategory(category, on)
  \/ \E s \in Subs :
       \/ \E on \in BOOLEAN : SetSubscriptionEnabled(s, on)
       \/ \E file \in Files[s] : StoreRules(s, file)
       \/ StampSubscription(s) \/ RefreshFails(s)

\* An edit that writes neither rules of a subscription nor a stamp.
PlainEdit ==
  /\ Edit /\ UNCHANGED <<imported, stamp, unstamped>>
  /\ parent' \in [ParentRules -> {"absent", "off", "on"}]
  /\ enabled' \subseteq Subs /\ categories' \subseteq Categories

\* Every edit is a plain one, or one of two of a subscription.
LEMMA EditsAre ==
  ASSUME TypeOK, Edits
  PROVE  \/ PlainEdit
         \/ \E s \in Subs : \E file \in Files[s] : StoreRules(s, file)
         \/ \E s \in Subs, failed \in BOOLEAN : Restamp(s, failed)
<1>1. ASSUME NEW rule \in ParentRules, NEW from, NEW to \in {"absent", "off", "on"},
             SetParentRule(rule, from, to)
      PROVE  PlainEdit
  BY <1>1 DEF SetParentRule, PlainEdit, TypeOK, db
<1>2. ASSUME NEW category \in Categories, NEW on \in BOOLEAN, SetCategory(category, on)
      PROVE  PlainEdit
  BY <1>2 DEF SetCategory, PlainEdit, TypeOK
<1>3. ASSUME NEW s \in Subs, NEW on \in BOOLEAN, SetSubscriptionEnabled(s, on)
      PROVE  PlainEdit
  BY <1>3 DEF SetSubscriptionEnabled, PlainEdit, TypeOK, Categories
<1> QED
  BY <1>1, <1>2, <1>3 DEF Edits, CreateParentRule, DeleteParentRule, SetParentRuleEnabled,
     StampSubscription, RefreshFails

-----------------------------------------------------------------------------
(* Types.                                                                  *)

\* The type invariant of the rules, the settings and the stamps (their tables in storage.rs).
THEOREM TypesHold == Spec => []TypeOK
<1>1. ASSUME Init PROVE TypeOK
  <2>1. 0 \in 0..MaxClock /\ 0 \in 0..MaxEdits
    BY BoundsAssumption
  <2>2. imported \in [Subs -> AllImports] /\ \A s \in Subs : imported[s] \in Imports(s)
    BY <1>1 DEF Init
  <2>3. stamp \in [Subs -> [at : 0..MaxClock, failed : BOOLEAN]]
    BY <1>1, <2>1 DEF Init
  <2> QED
    BY <1>1, <2>1, <2>2, <2>3 DEF Init, TypeOK
<1>2. ASSUME TypeOK, [Next]_vars
      PROVE  TypeOK'
  <2>1. CASE PlainEdit
    BY <1>2, <2>1, BoundsAssumption DEF PlainEdit, Edit, TypeOK, runtime
  <2>2. ASSUME NEW s \in Subs, NEW file \in Files[s], StoreRules(s, file)
        PROVE  TypeOK'
    <3> DEFINE new == Import(CategoryOf[s], file)
    <3>1. new \in Imports(s) /\ new \in AllImports
      BY DEF Imports, AllImports
    <3>2. imported' = [imported EXCEPT ![s] = new]
      BY <2>2 DEF StoreRules
    <3> HIDE DEF new
    <3>3. imported' \in [Subs -> AllImports]
      BY <1>2, <3>1, <3>2 DEF TypeOK
    <3>4. \A u \in Subs : imported'[u] \in Imports(u)
      BY <1>2, <3>1, <3>2 DEF TypeOK
    <3>5. UNCHANGED <<parent, enabled, categories, stamp, clock, build>> /\ loaded' = {}
      BY <2>2 DEF StoreRules, Edit, runtime
    <3>6. edits' \in 0..MaxEdits /\ unstamped' \subseteq Subs
      BY <1>2, <2>2, BoundsAssumption DEF StoreRules, Edit, TypeOK
    <3> QED
      BY <1>2, <3>3, <3>4, <3>5, <3>6 DEF TypeOK
  <2>3. ASSUME NEW s \in Subs, NEW failed \in BOOLEAN, Restamp(s, failed)
        PROVE  TypeOK'
    <3>1. stamp' \in [Subs -> [at : 0..MaxClock, failed : BOOLEAN]]
      BY <1>2, <2>3 DEF Restamp, TypeOK
    <3>2. edits' \in 0..MaxEdits /\ unstamped' \subseteq Subs
      BY <1>2, <2>3, BoundsAssumption DEF Restamp, Edit, TypeOK
    <3> QED
      BY <1>2, <2>3, <3>1, <3>2 DEF Restamp, Edit, TypeOK, runtime
  <2>4. CASE Edits
    BY <1>2, <2>1, <2>2, <2>3, <2>4, EditsAre
  <2>5. CASE Tick
    BY <1>2, <2>5, BoundsAssumption DEF Tick, TypeOK, db, runtime
  <2>6. CASE \/ LoadCachedIndex \/ BuildIndex \/ RemoveOldIndex \/ RenameIndex
             \/ LoadKernelRules \/ Crash \/ UNCHANGED vars
    BY <1>2, <2>6 DEF LoadCachedIndex, BuildIndex, RemoveOldIndex, RenameIndex, LoadKernelRules,
       Crash, Starts, TypeOK, db, runtime, vars
  <2> QED
    BY <1>2, <2>4, <2>5, <2>6 DEF Next, Edits
<1> QED
  BY <1>1, <1>2, PTL DEF Spec

-----------------------------------------------------------------------------
(* The index and its cache.                                                *)

\* What a manifest says, and whether an index is that of such a database: of the rules
\* that are stored now, but for subscriptions whose stamp is later by now, or tells
\* nothing of their rules.
Fingerprints ==
  [categories : SUBSET Categories, enabled : SUBSET Subs,
   stamp : [Subs -> [at : 0..MaxClock, failed : BOOLEAN]],
   parent : [{rule \in ParentRules : rule.kind \in DomainKinds} -> {"absent", "off", "on"}]]

IsOf(index, print, imp) ==
  /\ index = IndexOf(print.parent, imp, print.enabled, print.categories)
  /\ \A s \in Subs : imp[s] # imported[s] => s \in unstamped \/ print.stamp[s].at < stamp[s].at

Cached ==
  \/ disk = NoCache
  \/ \E print \in Fingerprints, imp \in [Subs -> AllImports] :
       /\ disk.manifest = {print}
       /\ IsOf(disk.index, print, imp)
       /\ \A s \in Subs : print.stamp[s].at <= stamp[s].at

StampsArePast == \A s \in Subs : stamp[s].at <= clock

KernelIsFresh == "kernel" \in loaded => kernel = KernelRules

FreshInv == StampsArePast /\ Cached /\ IndexIsFresh /\ KernelIsFresh

\* The print of the database is one a manifest may hold.
LEMMA PrintIsTyped ==
  ASSUME TypeOK
  PROVE  Fingerprint \in Fingerprints
  BY DEF TypeOK, Fingerprint, Fingerprints

\* The index only asks for parents' rules that are in the fingerprint.
LEMMA PrintDecides ==
  ASSUME NEW imp, NEW par, NEW en, NEW cat
  PROVE  IndexOf(par, imp, en, cat) =
           IndexOf([r \in {rule \in ParentRules : rule.kind \in DomainKinds} |-> par[r]],
                   imp, en, cat)
  BY DEF IndexOf, ParentsIn

\* No edit makes a cached index one that its print does not stand for.
LEMMA EditKeepsCached ==
  ASSUME TypeOK, FreshInv, Edits
  PROVE  Cached' /\ StampsArePast'
<1> USE DEF FreshInv
<1>0. /\ UNCHANGED <<disk, clock>>
      /\ \A s \in Subs : stamp'[s].at \in 0..MaxClock /\ stamp[s].at \in 0..MaxClock
      /\ clock \in 0..MaxClock
  BY EditsAre DEF PlainEdit, StoreRules, Restamp, Edit, runtime, TypeOK
<1>1. \A s \in Subs : stamp[s].at <= stamp'[s].at /\ stamp'[s].at <= clock
  BY EditsAre DEF PlainEdit, StoreRules, Restamp, TypeOK, StampsArePast
<1>2. \A s \in Subs :
        \/ imported'[s] = imported[s] /\ (s \in unstamped => s \in unstamped')
        \/ s \in unstamped'
        \/ imported'[s] = imported[s] /\ stamp[s].at < stamp'[s].at
  BY EditsAre DEF PlainEdit, StoreRules, Restamp, TypeOK
<1>3. StampsArePast'
  BY <1>0, <1>1 DEF StampsArePast
<1>4. ASSUME NEW print \in Fingerprints, NEW imp, NEW index, IsOf(index, print, imp),
             \A s \in Subs : print.stamp[s].at <= stamp[s].at
      PROVE  IsOf(index, print, imp)' /\ \A s \in Subs : print.stamp[s].at <= stamp'[s].at
  <2>1. \A s \in Subs : print.stamp[s].at \in 0..MaxClock
    BY DEF Fingerprints
  <2> QED
    BY <1>0, <1>1, <1>2, <1>4, <2>1, BoundsAssumption DEF IsOf
<1>5. CASE disk = NoCache
  BY <1>0, <1>3, <1>5 DEF Cached
<1>6. ASSUME NEW print \in Fingerprints, NEW imp \in [Subs -> AllImports],
             disk.manifest = {print}, IsOf(disk.index, print, imp),
             \A s \in Subs : print.stamp[s].at <= stamp[s].at
      PROVE  Cached'
  <2>1. IsOf(disk.index, print, imp)' /\ \A s \in Subs : print.stamp[s].at <= stamp'[s].at
    BY <1>0, <1>4, <1>6
  <2> QED
    BY <1>0, <1>6, <2>1 DEF Cached
<1> QED
  BY <1>3, <1>5, <1>6 DEF Cached

\* The print of the database is that of the index of its rules.
LEMMA IndexIsOf ==
  ASSUME TypeOK
  PROVE  /\ Fingerprint \in Fingerprints
         /\ IsOf(Index, Fingerprint, imported)
<1>1. Index = IndexOf(Fingerprint.parent, imported, Fingerprint.enabled, Fingerprint.categories)
  BY IndexDepends, PrintDecides DEF Fingerprint
<1> QED
  BY <1>1, PrintIsTyped DEF IsOf

\* A cached index with the print of the database is that of its rules, unless rules of a
\* subscription are newer than its stamp tells.
LEMMA CacheIsIndex ==
  ASSUME TypeOK, Cached, disk.manifest = FreshManifest, unstamped = {}
  PROVE  disk.index = Index
<1>1. disk # NoCache
  BY DEF NoCache, FreshManifest
<1>2. PICK print \in Fingerprints, imp \in [Subs -> AllImports] :
        /\ disk.manifest = {print}
        /\ IsOf(disk.index, print, imp)
        /\ \A s \in Subs : print.stamp[s].at <= stamp[s].at
  BY <1>1 DEF Cached
<1>3. print = Fingerprint
  BY <1>2 DEF FreshManifest
<1>4. \A s \in Subs : imp[s] = imported[s]
  <2>1. print.stamp = stamp /\ \A s \in Subs : stamp[s].at \in 0..MaxClock
    BY <1>3 DEF Fingerprint, TypeOK
  <2> QED
    BY <1>2, <2>1 DEF IsOf
<1>5. imp = imported
  BY <1>2, <1>4 DEF TypeOK
<1> QED
  BY <1>2, <1>3, <1>5, IndexIsOf DEF IsOf

\* What is loaded stays fresh as long as nobody writes to the database.
LEMMA LoadedStaysFresh ==
  ASSUME FreshInv, UNCHANGED db, UNCHANGED unstamped, UNCHANGED <<filter, kernel>>,
         loaded' \subseteq loaded
  PROVE  IndexIsFresh' /\ KernelIsFresh'
<1>1. Index' = Index /\ KernelRules' = KernelRules
  BY IndexDepends, KernelDepends DEF db
<1> QED
  BY <1>1 DEF FreshInv, IndexIsFresh, KernelIsFresh

\* A cache nobody touches stands for what it stood for.
LEMMA CacheStays ==
  ASSUME Cached, UNCHANGED <<disk, db, unstamped>>
  PROVE  Cached'
  BY DEF Cached, IsOf, db

\* The invariant that freshness rests on: what the cache stands for (load_or_build_domain_index).
THEOREM FreshInvHolds == Spec => []FreshInv
<1>1. ASSUME Init PROVE FreshInv
  BY <1>1 DEF Init, FreshInv, StampsArePast, Cached, IndexIsFresh, KernelIsFresh
<1>2. ASSUME TypeOK, FreshInv, [Next]_vars
      PROVE  FreshInv'
  <2>1. CASE Edits
    <3>1. loaded' = {}
      BY <1>2, <2>1, EditsAre DEF PlainEdit, StoreRules, Restamp, Edit
    <3> QED
      BY <1>2, <2>1, <3>1, EditKeepsCached DEF FreshInv, IndexIsFresh, KernelIsFresh
  <2>2. CASE Tick
    <3>1. StampsArePast'
      BY <1>2, <2>2 DEF Tick, StampsArePast, FreshInv, TypeOK, db
    <3> QED
      BY <1>2, <2>2, <3>1, LoadedStaysFresh, CacheStays DEF Tick, FreshInv, db, runtime
  <2>3. CASE LoadCachedIndex
    <3>1. Index' = Index /\ KernelRules' = KernelRules
      BY <2>3, IndexDepends, KernelDepends DEF LoadCachedIndex, db
    <3>2. IndexIsFresh'
      BY <1>2, <2>3, <3>1, CacheIsIndex DEF LoadCachedIndex, Starts, FreshInv, IndexIsFresh
    <3>3. KernelIsFresh'
      BY <1>2, <2>3, <3>1 DEF LoadCachedIndex, Starts, FreshInv, KernelIsFresh
    <3>4. StampsArePast' /\ Cached'
      BY <1>2, <2>3, CacheStays DEF LoadCachedIndex, FreshInv, StampsArePast, db
    <3> QED
      BY <3>2, <3>3, <3>4 DEF FreshInv
  <2>4. CASE BuildIndex
    BY <1>2, <2>4, LoadedStaysFresh, CacheStays DEF BuildIndex, FreshInv, StampsArePast, db
  <2>5. CASE RemoveOldIndex
    <3>1. StampsArePast' /\ Cached'
      BY <1>2, <2>5 DEF RemoveOldIndex, FreshInv, StampsArePast, Cached, db
    <3> QED
      BY <1>2, <2>5, <3>1, LoadedStaysFresh DEF RemoveOldIndex, FreshInv
  <2>6. CASE RenameIndex
    <3>1. Index' = Index /\ KernelRules' = KernelRules
      BY <2>6, IndexDepends, KernelDepends DEF RenameIndex, db
    <3>2. filter' = Index
      BY <2>6 DEF RenameIndex, Starts
    <3>3. Cached'
      <4>1. PICK print \in Fingerprints, imp \in [Subs -> AllImports], index \in {Index} :
              /\ print = Fingerprint /\ imp = imported /\ index = Index
              /\ IsOf(index, print, imp)
        BY <1>2, IndexIsOf DEF TypeOK
      <4>2. disk' = [manifest |-> {print}, index |-> index]
        BY <2>6, <4>1 DEF RenameIndex, FreshManifest
      <4>3. IsOf(index, print, imp)'
        BY <2>6, <4>1 DEF IsOf, RenameIndex, db
      <4>4. \A s \in Subs : print.stamp[s].at <= stamp'[s].at
        BY <1>2, <2>6, <4>1 DEF RenameIndex, db, Fingerprint, TypeOK
      <4> QED
        BY <4>2, <4>3, <4>4 DEF Cached
    <3> QED
      BY <1>2, <2>6, <3>1, <3>2, <3>3
      DEF RenameIndex, Starts, FreshInv, IndexIsFresh, KernelIsFresh, StampsArePast, db
  <2>7. CASE LoadKernelRules
    <3>1. Index' = Index /\ KernelRules' = KernelRules
      BY <2>7, IndexDepends, KernelDepends DEF LoadKernelRules, db
    <3>2. StampsArePast' /\ Cached'
      BY <1>2, <2>7, CacheStays DEF LoadKernelRules, FreshInv, StampsArePast, db
    <3> QED
      BY <1>2, <2>7, <3>1, <3>2 DEF LoadKernelRules, FreshInv, IndexIsFresh, KernelIsFresh
  <2>8. CASE Crash
    <3>1. StampsArePast' /\ Cached'
      BY <1>2, <2>8, CacheStays DEF Crash, FreshInv, StampsArePast, db
    <3> QED
      BY <2>8, <3>1 DEF Crash, FreshInv, IndexIsFresh, KernelIsFresh
  <2>9. CASE UNCHANGED vars
    BY <1>2, <2>9, LoadedStaysFresh, CacheStays DEF vars, FreshInv, StampsArePast, db, runtime
  <2> QED
    BY <1>2, <2>1, <2>2, <2>3, <2>4, <2>5, <2>6, <2>7, <2>8, <2>9 DEF Next, Edits
<1> QED
  BY <1>1, <1>2, TypesHold, PTL DEF Spec

\* The index that the filter loads, cached or rebuilt, is that of the rules in the
\* database (load_or_build_domain_index, rebuild_domain_index_cache).
THEOREM IndexStaysFresh == Spec => []IndexIsFresh
<1>1. FreshInv => IndexIsFresh
  BY DEF FreshInv
<1> QED
  BY <1>1, FreshInvHolds, PTL
-----------------------------------------------------------------------------
(* Rules and their kinds.                                                  *)

AllActions == {"block", "allow", "proxy", "system_route"}

\* What a line of a file becomes.
LEMMA ImportedIsTyped ==
  ASSUME NEW s \in Subs, NEW file \in Files[s], NEW i \in DOMAIN file,
         NEW rule, rule = Import(CategoryOf[s], file)[i]
  PROVE  /\ rule.kind \in Kinds /\ rule.action \in {"block", "allow", "proxy"}
         /\ rule.kind \in DomainKinds => rule.pattern \in Names
<1>1. /\ rule.kind = Parsed(file[i]).kind /\ rule.pattern = Parsed(file[i]).pattern
      /\ rule.action \in {"allow", "proxy", Parsed(file[i]).action}
  BY DEF Import
<1>2. file[i].form \in Forms /\ (file[i].form \in NameForms => file[i].pattern \in Names)
  BY FilesAssumption
<1>3. /\ Parsed(file[i]).kind \in Kinds /\ Parsed(file[i]).action \in {"block", "allow"}
      /\ Parsed(file[i]).pattern = file[i].pattern
      /\ Parsed(file[i]).kind \in DomainKinds => file[i].form \in NameForms
  BY <1>2 DEF Parsed, Parses, Forms, NameForms, Kinds, DomainKinds
<1> QED
  BY <1>1, <1>2, <1>3

\* A place is a pair of numbers, with a rule.
LEMMA PlacesAreTyped ==
  ASSUME TypeOK, NEW place \in Effective
  PROVE  /\ place[1] \in Nat /\ place[2] \in Nat
         /\ RuleAt(place).kind \in Kinds /\ RuleAt(place).action \in {"block", "allow", "proxy"}
         /\ RuleAt(place).kind \in DomainKinds => RuleAt(place).pattern \in Names
<1>1. PICK n \in DOMAIN Subscriptions :
        Subscriptions[n] \in enabled /\ place \in {n} \X DOMAIN imported[Subscriptions[n]]
  BY DEF Effective, Places
<1>2. /\ place[1] = n /\ place[2] \in DOMAIN imported[Subscriptions[n]]
      /\ RuleAt(place) = imported[Subscriptions[n]][place[2]]
  BY <1>1 DEF RuleAt
<1>3. Subscriptions[n] \in Subs /\ n \in Nat
  BY <1>1, SubscriptionsAssumption DEF TypeOK
<1> DEFINE s == Subscriptions[n]
<1>4. PICK file \in Files[s] : imported[s] = Import(CategoryOf[s], file)
  BY <1>3 DEF TypeOK, Imports
<1>5. DOMAIN imported[s] = DOMAIN file /\ DOMAIN file \subseteq Nat
  BY <1>3, <1>4, FilesAssumption DEF Import
<1> QED
  BY <1>2, <1>3, <1>4, <1>5, ImportedIsTyped

\* The rules there are, and that those of names have names.
LEMMA RulesAreTyped ==
  ASSUME TypeOK
  PROVE  /\ \A r \in EffectiveRules :
              /\ r.kind \in Kinds /\ r.action \in {"block", "allow", "proxy"}
              /\ r.kind \in DomainKinds => r.pattern \in Names
         /\ \A r \in ParentsOf(AllActions) :
              /\ r.kind \in Kinds /\ r.action \in AllActions
              /\ r.kind \in DomainKinds => r.pattern \in Names
  BY PlacesAreTyped, ParentRulesAssumption DEF EffectiveRules, ParentsOf, AllActions

\* A suffix of a name is found among all of them.
LEMMA SuffixIsFound ==
  ASSUME NEW pattern \in Names, NEW target \in Names
  PROVE  IsPrefix(pattern, target) <=> \E n \in 1..Len(target) : pattern = SubSeq(target, 1, n)
<1>1. SubSeq(pattern, 1, Len(pattern)) = pattern /\ Len(pattern) \in Nat /\ Len(target) \in Nat
  BY SubSeqFull DEF Names
<1>2. Len(pattern) >= 1
  BY <1>1, EmptySeq DEF Names
<1>3. ASSUME NEW n \in 1..Len(target), pattern = SubSeq(target, 1, n)
      PROVE  Len(pattern) = n
  BY <1>1, <1>3, SubSeqProperties DEF Names
<1>4. ASSUME IsPrefix(pattern, target)
      PROVE  \E n \in 1..Len(target) : pattern = SubSeq(target, 1, n)
  <2>1. Len(pattern) \in 1..Len(target) /\ pattern = SubSeq(target, 1, Len(pattern))
    BY <1>1, <1>2, <1>4 DEF IsPrefix
  <2> QED
    BY <2>1
<1>5. ASSUME NEW n \in 1..Len(target), pattern = SubSeq(target, 1, n)
      PROVE  IsPrefix(pattern, target)
  BY <1>1, <1>3, <1>5 DEF IsPrefix
<1> QED
  BY <1>4, <1>5

\* A rule of a name matches what the tiers of the index are asked for.
LEMMA NameIsFound ==
  ASSUME NEW rule, rule.kind \in DomainKinds, rule.pattern \in Names,
         NEW target \in Targets \ Addresses
  PROVE  Matches(rule, target) <=>
           \/ rule.kind = "exact" /\ rule.pattern = target
           \/ /\ rule.kind = "suffix"
              /\ \E n \in 1..Len(target) : rule.pattern = SubSeq(target, 1, n)
  BY SuffixIsFound, TargetsAssumption DEF Matches, DomainKinds

-----------------------------------------------------------------------------
(* What the filter decides.                                                *)

\* Rules of the parents, or of the subscriptions, that match.
ParentHits(actions, target) == {r \in ParentsOf(actions) : Matches(r, target)}
Hits(actions, target) == {r \in EffectiveRules : r.action \in actions /\ Matches(r, target)}

\* A tier has a name just if a rule of the tier matches it.
LEMMA TierIs ==
  ASSUME TypeOK, NEW tier, NEW target \in Targets \ Addresses
  PROVE  InTier(Index, tier, target) <=>
           \/ \E r \in ParentHits({"block", "allow"}, target) :
                r.kind \in DomainKinds /\ ParentTier(r) = tier
           \/ \E r \in Hits({"block", "allow"}, target) :
                r.kind \in DomainKinds /\ ImportedTier(r) = tier
<1> DEFINE Found(entry) ==
      /\ entry.tier = tier
      /\ \/ entry.kind = "exact" /\ entry.pattern = target
         \/ /\ entry.kind = "suffix"
            /\ \E n \in 1..Len(target) : entry.pattern = SubSeq(target, 1, n)
<1>1. \A entry \in Index :
        entry = [tier |-> entry.tier, kind |-> entry.kind, pattern |-> entry.pattern]
  BY DEF Index, Entry
<1>2. InTier(Index, tier, target) <=> \E entry \in Index : Found(entry)
  BY <1>1 DEF InTier
<1>3. (\E entry \in Index : Found(entry)) <=>
        \/ \E r \in ParentsOf({"block", "allow"}) :
             r.kind \in DomainKinds /\ Found(Entry(ParentTier(r), r))
        \/ \E r \in EffectiveRules :
             /\ r.kind \in DomainKinds /\ r.action \in {"block", "allow"}
             /\ Found(Entry(ImportedTier(r), r))
  <2> HIDE DEF Found
  <2> QED
    BY DEF Index
<1>4. ASSUME NEW r, r.kind \in DomainKinds, r.pattern \in Names, NEW mine
      PROVE  Found(Entry(mine, r)) <=> mine = tier /\ Matches(r, target)
  BY <1>4, NameIsFound DEF Entry
<1>5. /\ \A r \in EffectiveRules : r.kind \in DomainKinds => r.pattern \in Names
      /\ \A r \in ParentsOf({"block", "allow"}) : r.kind \in DomainKinds => r.pattern \in Names
  BY RulesAreTyped DEF ParentsOf, AllActions
<1> HIDE DEF Found
<1> QED
  BY <1>2, <1>3, <1>4, <1>5 DEF ParentHits, Hits

\* The tiers in the order of their rules.
LEMMA FilterBlocks ==
  ASSUME TypeOK, NEW target \in Targets \ Addresses
  PROVE  IndexBlocks(Index, target) <=>
           \/ \E r \in Hits({"block"}, target) : r.kind \in DomainKinds /\ r.category \in Security
           \/ \E r \in ParentHits({"block"}, target) : r.kind \in DomainKinds
           \/ /\ \E r \in Hits({"block"}, target) :
                   r.kind \in DomainKinds /\ r.category \notin Security
              /\ ~\E r \in ParentHits({"allow"}, target) : r.kind \in DomainKinds
              /\ ~\E r \in Hits({"allow"}, target) : r.kind \in DomainKinds
<1>1. InTier(Index, "security_block", target) <=>
        \E r \in Hits({"block"}, target) : r.kind \in DomainKinds /\ r.category \in Security
  BY TierIs DEF ParentTier, ImportedTier, Hits, ParentHits, ParentsOf
<1>2. InTier(Index, "manual_block", target) <=>
        \E r \in ParentHits({"block"}, target) : r.kind \in DomainKinds
  BY TierIs DEF ParentTier, ImportedTier, Hits, ParentHits, ParentsOf
<1>3. InTier(Index, "manual_allow", target) <=>
        \/ \E r \in ParentHits({"allow"}, target) : r.kind \in DomainKinds
        \/ \E r \in Hits({"allow"}, target) : r.kind \in DomainKinds
  BY TierIs DEF ParentTier, ImportedTier, Hits, ParentHits, ParentsOf
<1>4. InTier(Index, "block", target) <=>
        \E r \in Hits({"block"}, target) : r.kind \in DomainKinds /\ r.category \notin Security
  BY TierIs DEF ParentTier, ImportedTier, Hits, ParentHits, ParentsOf
<1> QED
  BY <1>1, <1>2, <1>3, <1>4 DEF IndexBlocks
-----------------------------------------------------------------------------
(* What the kernel decides.                                                *)

\* A set of numbers that is not empty has a least one.
LEMMA Least ==
  ASSUME NEW S \in SUBSET Nat, S # {}
  PROVE  \E m \in S : \A n \in S : m <= n
<1>1. PICK m \in S : \A n \in S : ~(<<n, m>> \in OpToRel(<, Nat))
  BY NatLessThanWellFounded, WFMin
<1>2. \A n \in S : ~(n < m)
  BY <1>1 DEF OpToRel
<1> QED
  BY <1>2

\* A list that is not empty has a first rule.
LEMMA FirstExists ==
  ASSUME NEW rules, rules # {},
         \A r \in rules : r.part \in Nat /\ r.place[1] \in Nat /\ r.place[2] \in Nat
  PROVE  \E r \in rules : \A other \in rules : ~Precedes(other, r)
<1>1. PICK a \in rules : \A r \in rules : a.part <= r.part
  <2> DEFINE parts == {r.part : r \in rules}
  <2>1. PICK m \in parts : \A n \in parts : m <= n
    <3>1. parts \in SUBSET Nat /\ parts # {}
      OBVIOUS
    <3> HIDE DEF parts
    <3> QED
      BY <3>1, Least
  <2> QED
    BY <2>1
<1> DEFINE A == {r \in rules : r.part = a.part}
<1>2. PICK b \in A : \A r \in A : b.place[1] <= r.place[1]
  <2> DEFINE subs == {r.place[1] : r \in A}
  <2>1. PICK m \in subs : \A n \in subs : m <= n
    <3>1. subs \in SUBSET Nat /\ subs # {}
      OBVIOUS
    <3> HIDE DEF subs
    <3> QED
      BY <3>1, Least
  <2> QED
    BY <2>1
<1> DEFINE B == {r \in A : r.place[1] = b.place[1]}
<1>3. PICK c \in B : \A r \in B : c.place[2] <= r.place[2]
  <2> DEFINE lines == {r.place[2] : r \in B}
  <2>1. PICK m \in lines : \A n \in lines : m <= n
    <3>1. lines \in SUBSET Nat /\ lines # {}
      BY <1>2
    <3> HIDE DEF lines
    <3> QED
      BY <3>1, Least
  <2> QED
    BY <2>1
<1> QED
  BY <1>1, <1>2, <1>3 DEF Precedes

\* A rule of the list is that for local networks, or stands for a rule of the parents or
\* of a subscription.
LocalRule == [part |-> LocalPart, place |-> <<0, 0>>, match |-> [kind |-> "local"],
              to |-> "DIRECT"]

PartOf(r, part) == IF r.kind = "network" /\ r.action = "block" THEN EarlyPart ELSE part

InKernel(r) == ~(r.action = "block" /\ r.kind \in DomainKinds)

Placed(rule) ==
  [rule EXCEPT !.part = IF IsEarlyNetworkBlock(rule) THEN EarlyPart ELSE @]

\* What a rule becomes in the list.
LEMMA LineIs ==
  ASSUME NEW part, NEW place, NEW r, r.action \in AllActions
  PROVE  LET line == Placed(Line(part, place, r)) IN
         /\ line.part = PartOf(r, part) /\ line.place = place
         /\ line.match = r /\ line.to = TargetOf(r.action)
  BY DEF Placed, Line, IsEarlyNetworkBlock, TargetOf, PartOf, AllActions

\* The list has every rule that belongs in it ...
LEMMA KernelHas ==
  ASSUME TypeOK
  PROVE  /\ LocalRule \in KernelRules
         /\ \A r \in ParentsOf(AllActions) : \E line \in KernelRules :
              /\ line.part = PartOf(r, ParentPart(r)) /\ line.place = <<0, 0>>
              /\ line.match = r /\ line.to = TargetOf(r.action)
         /\ \A p \in Effective : InKernel(RuleAt(p)) => \E line \in KernelRules :
              /\ line.part = PartOf(RuleAt(p), ImportedPart(RuleAt(p))) /\ line.place = p
              /\ line.match = RuleAt(p) /\ line.to = TargetOf(RuleAt(p).action)
<1>1. \A rule \in FilterRules : Placed(rule) \in KernelRules
  BY DEF KernelRules, Placed
<1>2. ASSUME NEW r \in ParentsOf(AllActions)
      PROVE  \E line \in KernelRules :
              /\ line.part = PartOf(r, ParentPart(r)) /\ line.place = <<0, 0>>
              /\ line.match = r /\ line.to = TargetOf(r.action)
  <2> DEFINE rule == Line(ParentPart(r), <<0, 0>>, r)
  <2>1. rule \in FilterRules
    BY DEF FilterRules, ParentKernelRules, AllActions
  <2>2. r.action \in AllActions
    BY DEF ParentsOf
  <2> QED
    BY <1>1, <2>1, <2>2, LineIs
<1>3. ASSUME NEW p \in Effective, InKernel(RuleAt(p))
      PROVE  \E line \in KernelRules :
              /\ line.part = PartOf(RuleAt(p), ImportedPart(RuleAt(p))) /\ line.place = p
              /\ line.match = RuleAt(p) /\ line.to = TargetOf(RuleAt(p).action)
  <2> DEFINE rule == Line(ImportedPart(RuleAt(p)), p, RuleAt(p))
  <2>1. rule \in FilterRules
    BY <1>3 DEF FilterRules, ImportedKernelRules, InKernel
  <2>2. RuleAt(p).action \in AllActions
    BY PlacesAreTyped DEF AllActions
  <2> QED
    BY <1>1, <2>1, <2>2, LineIs
<1> QED
  BY <1>2, <1>3 DEF KernelRules, LocalRule

\* ... and no other.
LEMMA KernelIs ==
  ASSUME TypeOK, NEW line \in KernelRules
  PROVE  \/ line = LocalRule
         \/ \E r \in ParentsOf(AllActions) :
              /\ line.part = PartOf(r, ParentPart(r)) /\ line.place = <<0, 0>>
              /\ line.match = r /\ line.to = TargetOf(r.action)
         \/ \E p \in Effective :
              /\ InKernel(RuleAt(p))
              /\ line.part = PartOf(RuleAt(p), ImportedPart(RuleAt(p))) /\ line.place = p
              /\ line.match = RuleAt(p) /\ line.to = TargetOf(RuleAt(p).action)
<1>1. CASE line = LocalRule
  BY <1>1
<1>2. ASSUME NEW rule \in FilterRules, line = Placed(rule)
      PROVE  \/ \E r \in ParentsOf(AllActions) :
                  /\ line.part = PartOf(r, ParentPart(r)) /\ line.place = <<0, 0>>
                  /\ line.match = r /\ line.to = TargetOf(r.action)
             \/ \E p \in Effective :
                  /\ InKernel(RuleAt(p))
                  /\ line.part = PartOf(RuleAt(p), ImportedPart(RuleAt(p))) /\ line.place = p
                  /\ line.match = RuleAt(p) /\ line.to = TargetOf(RuleAt(p).action)
  <2>1. CASE rule \in ParentKernelRules
    <3>1. PICK r \in ParentsOf(AllActions) : rule = Line(ParentPart(r), <<0, 0>>, r)
      BY <2>1 DEF ParentKernelRules, AllActions
    <3>2. r.action \in AllActions
      BY DEF ParentsOf
    <3> QED
      BY <1>2, <3>1, <3>2, LineIs
  <2>2. CASE rule \in ImportedKernelRules
    <3>1. PICK p \in Effective :
            InKernel(RuleAt(p)) /\ rule = Line(ImportedPart(RuleAt(p)), p, RuleAt(p))
      BY <2>2 DEF ImportedKernelRules, InKernel
    <3>2. RuleAt(p).action \in AllActions
      BY PlacesAreTyped DEF AllActions
    <3> QED
      BY <1>2, <3>1, <3>2, LineIs
  <2> QED
    BY <2>1, <2>2 DEF FilterRules
<1> QED
  BY <1>1, <1>2 DEF KernelRules, LocalRule, Placed

\* The part of a rule, and that places are numbers.
LEMMA KernelIsTyped ==
  ASSUME TypeOK, NEW line \in KernelRules
  PROVE  line.part \in 0..7 /\ line.place[1] \in Nat /\ line.place[2] \in Nat
<1>1. CASE line = LocalRule
  BY <1>1 DEF LocalRule, LocalPart
<1>2. ASSUME NEW r \in ParentsOf(AllActions), line.part = PartOf(r, ParentPart(r)),
             line.place = <<0, 0>>
      PROVE  line.part \in 0..7 /\ line.place[1] \in Nat /\ line.place[2] \in Nat
  BY <1>2, RulesAreTyped DEF PartOf, ParentPart, AllActions, EarlyPart
<1>3. ASSUME NEW p \in Effective, line.part = PartOf(RuleAt(p), ImportedPart(RuleAt(p))),
             line.place = p
      PROVE  line.part \in 0..7 /\ line.place[1] \in Nat /\ line.place[2] \in Nat
  BY <1>3, PlacesAreTyped DEF PartOf, ImportedPart, EarlyPart, SecurityPart, OthersPart
<1> QED
  BY <1>1, <1>2, <1>3, KernelIs

\* The first rule that matches decides.
LEMMA FirstDecides ==
  ASSUME TypeOK, NEW target,
         \E line \in KernelRules : KernelMatches(line, target)
  PROVE  \E line \in KernelRules :
           /\ KernelMatches(line, target)
           /\ KernelDecides(KernelRules, target) = line.to
           /\ \A other \in KernelRules :
                KernelMatches(other, target) => line.part <= other.part
<1> DEFINE hits == {rule \in KernelRules : KernelMatches(rule, target)}
<1>1. \E rule \in hits : \A other \in hits : ~Precedes(other, rule)
  <2>1. hits # {}
    OBVIOUS
  <2>2. \A r \in hits : r.part \in Nat /\ r.place[1] \in Nat /\ r.place[2] \in Nat
    BY KernelIsTyped
  <2> HIDE DEF hits
  <2> QED
    BY <2>1, <2>2, FirstExists
<1> DEFINE first == CHOOSE rule \in hits : \A other \in hits : ~Precedes(other, rule)
<1>2. first \in hits /\ \A other \in hits : ~Precedes(other, first)
  BY <1>1
<1>3. KernelDecides(KernelRules, target) = first.to
  BY <1>2 DEF KernelDecides
<1>4. \A other \in hits : ~(other.part < first.part)
  BY <1>2 DEF Precedes
<1>5. \A other \in hits : other.part \in 0..7
  BY KernelIsTyped
<1> HIDE DEF first
<1> QED
  BY <1>2, <1>3, <1>4, <1>5
-----------------------------------------------------------------------------
(* What the two decide together.                                           *)

\* The highest rule blocks: one of a security list, of the parents, or, if they do not
\* permit the target, of any list.
Blocked(target) ==
  \/ \E r \in Hits({"block"}, target) : r.category \in Security
  \/ ParentHits({"block"}, target) # {}
  \/ Hits({"block"}, target) # {} /\ ParentHits({"allow"}, target) = {}

\* What it means that a target is not among those that are ranked otherwise.
LEMMA RankedMeans ==
  ASSUME TypeOK, NEW target, ~RankedOtherwise(target)
  PROVE  /\ target \in LocalTargets => target \in Addresses
         /\ Hits({"allow", "proxy"}, target) = {}
         /\ \A r \in ParentHits({"allow"}, target) : r.kind \in DomainKinds
         /\ \A r \in EffectiveRules : Matches(r, target) => r \in Hits({"block"}, target)
  BY RulesAreTyped DEF RankedOtherwise, Hits, ParentHits

\* A rule of the list that matches says REJECT just if it blocks.
LEMMA RejectsIffBlocks ==
  ASSUME TypeOK, NEW target, NEW line \in KernelRules, KernelMatches(line, target),
         ~RankedOtherwise(target)
  PROVE  \/ /\ line.to # "REJECT" /\ line.part = 1
            /\ target \in LocalTargets
         \/ \E r \in ParentHits(AllActions, target) :
              /\ line.part = PartOf(r, ParentPart(r))
              /\ line.to = "REJECT" <=> r.action = "block"
         \/ \E r \in Hits({"block"}, target) :
              InKernel(r) /\ line.part = PartOf(r, ImportedPart(r)) /\ line.to = "REJECT"
<1>1. CASE line = LocalRule
  BY <1>1 DEF LocalRule, KernelMatches, LocalPart
<1>2. ASSUME NEW r \in ParentsOf(AllActions),
             line.part = PartOf(r, ParentPart(r)), line.match = r, line.to = TargetOf(r.action)
      PROVE  r \in ParentHits(AllActions, target) /\ (line.to = "REJECT" <=> r.action = "block")
  <2>1. r.kind \in Kinds /\ r.action \in AllActions
    BY RulesAreTyped
  <2>2. r \in ParentHits(AllActions, target)
    BY <1>2, <2>1 DEF KernelMatches, ParentHits, Kinds, DomainKinds
  <2> QED
    BY <1>2, <2>1, <2>2 DEF TargetOf, AllActions
<1>3. ASSUME NEW p \in Effective, line.match = RuleAt(p), line.to = TargetOf(RuleAt(p).action)
      PROVE  RuleAt(p) \in Hits({"block"}, target) /\ line.to = "REJECT"
  <2>1. RuleAt(p).kind \in Kinds /\ RuleAt(p) \in EffectiveRules
    BY PlacesAreTyped DEF EffectiveRules
  <2>2. RuleAt(p) \in Hits({"block"}, target)
    BY <1>3, <2>1, RankedMeans DEF KernelMatches, Kinds, DomainKinds
  <2> QED
    BY <1>3, <2>2 DEF Hits, TargetOf
<1> QED
  BY <1>1, <1>2, <1>3, KernelIs

\* Every rule that matches and is not left to the filter is in the list.
LEMMA HitsAreListed ==
  ASSUME TypeOK, NEW target
  PROVE  /\ \A r \in ParentHits(AllActions, target) : \E line \in KernelRules :
              KernelMatches(line, target) /\ line.part = PartOf(r, ParentPart(r))
         /\ \A r \in Hits({"block"}, target) : InKernel(r) => \E line \in KernelRules :
              KernelMatches(line, target) /\ line.part = PartOf(r, ImportedPart(r))
<1>1. ASSUME NEW r \in ParentHits(AllActions, target)
      PROVE  \E line \in KernelRules :
               KernelMatches(line, target) /\ line.part = PartOf(r, ParentPart(r))
  <2>1. r \in ParentsOf(AllActions) /\ Matches(r, target) /\ r.kind \in Kinds
    BY RulesAreTyped DEF ParentHits
  <2>2. PICK line \in KernelRules : line.part = PartOf(r, ParentPart(r)) /\ line.match = r
    BY <2>1, KernelHas
  <2> QED
    BY <2>1, <2>2 DEF KernelMatches, Kinds, DomainKinds
<1>2. ASSUME NEW r \in Hits({"block"}, target), InKernel(r)
      PROVE  \E line \in KernelRules :
               KernelMatches(line, target) /\ line.part = PartOf(r, ImportedPart(r))
  <2>1. Matches(r, target) /\ r.kind \in Kinds
    BY RulesAreTyped DEF Hits
  <2>2. PICK p \in Effective : r = RuleAt(p)
    BY DEF Hits, EffectiveRules
  <2>3. PICK line \in KernelRules : line.part = PartOf(r, ImportedPart(r)) /\ line.match = r
    BY <1>2, <2>2, KernelHas
  <2> QED
    BY <2>1, <2>3 DEF KernelMatches, Kinds, DomainKinds
<1> QED
  BY <1>1, <1>2

\* An address is matched by networks only.
LEMMA AddressMatches ==
  ASSUME TypeOK, NEW target \in Addresses
  PROVE  /\ \A r \in EffectiveRules : Matches(r, target) => r.kind = "network"
         /\ \A r \in ParentsOf(AllActions) : Matches(r, target) => r.kind = "network"
  BY RulesAreTyped DEF Matches, Kinds, DomainKinds

\* A name is matched by anything but networks.
LEMMA NameMatches ==
  ASSUME TypeOK, NEW target, target \notin Addresses
  PROVE  /\ \A r \in EffectiveRules : Matches(r, target) => r.kind # "network"
         /\ \A r \in ParentsOf(AllActions) : Matches(r, target) => r.kind # "network"
  BY RulesAreTyped DEF Matches

\* What no rule matches is not rejected.
LEMMA KernelDecidesDefault ==
  ASSUME NEW target, ~\E line \in KernelRules : KernelMatches(line, target)
  PROVE  KernelDecides(KernelRules, target) # "REJECT"
  BY DEF KernelDecides

\* An address is rejected by any network that is blocked.
LEMMA AddressDecided ==
  ASSUME TypeOK, NEW target \in Addresses, ~RankedOtherwise(target)
  PROVE  KernelDecides(KernelRules, target) = "REJECT" <=> Blocked(target)
<1>1. ParentHits({"allow"}, target) = {}
  BY AddressMatches, RankedMeans DEF ParentHits, DomainKinds, ParentsOf, AllActions
<1>2. Blocked(target) <=> ParentHits({"block"}, target) # {} \/ Hits({"block"}, target) # {}
  BY <1>1 DEF Blocked
<1>3. ASSUME Blocked(target)
      PROVE  KernelDecides(KernelRules, target) = "REJECT"
  <2>1. \E line \in KernelRules : KernelMatches(line, target) /\ line.part = 0
    <3>1. ASSUME NEW r \in ParentHits({"block"}, target)
          PROVE  \E line \in KernelRules : KernelMatches(line, target) /\ line.part = 0
      BY AddressMatches, HitsAreListed
      DEF ParentHits, ParentsOf, AllActions, PartOf, EarlyPart
    <3>2. ASSUME NEW r \in Hits({"block"}, target)
          PROVE  \E line \in KernelRules : KernelMatches(line, target) /\ line.part = 0
      <4>1. r.kind = "network" /\ r.action = "block"
        BY AddressMatches DEF Hits
      <4> QED
        BY <4>1, HitsAreListed DEF InKernel, DomainKinds, PartOf, EarlyPart
    <3> QED
      BY <1>2, <1>3, <3>1, <3>2
  <2>2. PICK line \in KernelRules :
          /\ KernelMatches(line, target) /\ KernelDecides(KernelRules, target) = line.to
          /\ line.part <= 0
    BY <2>1, FirstDecides
  <2>3. line.part = 0
    BY <2>2, KernelIsTyped
  <2> QED
    BY <2>2, <2>3, RejectsIffBlocks, RulesAreTyped
    DEF PartOf, ParentPart, ParentHits, AllActions, EarlyPart
<1>4. ASSUME ~Blocked(target)
      PROVE  KernelDecides(KernelRules, target) # "REJECT"
  <2>1. ASSUME NEW line \in KernelRules, KernelMatches(line, target)
        PROVE  line.to # "REJECT"
    BY <1>2, <1>4, <2>1, RejectsIffBlocks DEF ParentHits, ParentsOf
  <2> QED
    BY <2>1, FirstDecides, KernelDecidesDefault
<1> QED
  BY <1>3, <1>4

\* A name that the filter lets through is decided by the parts of the list in turn.
LEMMA NameDecided ==
  ASSUME TypeOK, NEW target, target \notin Addresses, ~RankedOtherwise(target)
  PROVE  KernelDecides(KernelRules, target) = "REJECT" <=>
           \/ \E r \in Hits({"block"}, target) : InKernel(r) /\ r.category \in Security
           \/ ParentHits({"block"}, target) # {}
           \/ /\ \E r \in Hits({"block"}, target) : InKernel(r)
              /\ ParentHits({"allow"}, target) = {}
<1> DEFINE FromSecurity == \E r \in Hits({"block"}, target) : InKernel(r) /\ r.category \in Security
           FromParents == ParentHits({"block"}, target) # {}
           Permitted == ParentHits({"allow"}, target) # {}
           FromOthers == \E r \in Hits({"block"}, target) : InKernel(r) /\ r.category \notin Security
           Has(part) == \E line \in KernelRules : KernelMatches(line, target) /\ line.part = part
<1>1. /\ FromSecurity => Has(2)
      /\ FromParents => Has(3)
      /\ Permitted => Has(4)
      /\ FromOthers => Has(5)
  BY HitsAreListed, NameMatches DEF ParentHits, Hits, ParentsOf, AllActions, PartOf,
     ParentPart, ImportedPart, SecurityPart, OthersPart
<1>2. ASSUME NEW line \in KernelRules, KernelMatches(line, target)
      PROVE  \/ line.part = 2 /\ line.to = "REJECT" /\ FromSecurity
             \/ line.part = 3 /\ line.to = "REJECT" /\ FromParents
             \/ line.part = 4 /\ line.to # "REJECT" /\ Permitted
             \/ line.part = 5 /\ line.to = "REJECT" /\ FromOthers
             \/ line.part \in {6, 7} /\ line.to # "REJECT"
  <2>1. target \notin LocalTargets
    BY RankedMeans
  <2>2. ASSUME NEW r \in ParentHits(AllActions, target), line.part = PartOf(r, ParentPart(r)),
               line.to = "REJECT" <=> r.action = "block"
        PROVE  \/ line.part = 3 /\ line.to = "REJECT" /\ FromParents
               \/ line.part = 4 /\ line.to # "REJECT" /\ Permitted
               \/ line.part \in {6, 7} /\ line.to # "REJECT"
    <3>1. r.kind # "network" /\ r.action \in AllActions
      BY NameMatches, RulesAreTyped DEF ParentHits
    <3> QED
      BY <2>2, <3>1 DEF PartOf, ParentPart, ParentHits, ParentsOf, AllActions
  <2>3. ASSUME NEW r \in Hits({"block"}, target), InKernel(r),
               line.part = PartOf(r, ImportedPart(r)), line.to = "REJECT"
        PROVE  \/ line.part = 2 /\ line.to = "REJECT" /\ FromSecurity
               \/ line.part = 5 /\ line.to = "REJECT" /\ FromOthers
    <3>1. r.kind # "network"
      BY NameMatches DEF Hits
    <3> QED
      BY <2>3, <3>1 DEF PartOf, ImportedPart, SecurityPart, OthersPart
  <2> HIDE DEF FromSecurity, FromParents, Permitted, FromOthers
  <2> QED
    BY <1>2, <2>1, <2>2, <2>3, RejectsIffBlocks
<1>3. KernelDecides(KernelRules, target) = "REJECT" <=>
        FromSecurity \/ FromParents \/ (FromOthers /\ ~Permitted)
  <2> HIDE DEF FromSecurity, FromParents, Permitted, FromOthers
  <2>1. CASE \E line \in KernelRules : KernelMatches(line, target)
    <3>1. PICK first \in KernelRules :
            /\ KernelMatches(first, target) /\ KernelDecides(KernelRules, target) = first.to
            /\ \A other \in KernelRules : KernelMatches(other, target) => first.part <= other.part
      BY <2>1, FirstDecides
    <3>2. \A part \in 2..5 : Has(part) => first.part <= part
      BY <3>1
    <3> HIDE DEF Has
    <3> QED
      BY <1>1, <1>2, <3>1, <3>2
  <2>2. CASE ~\E line \in KernelRules : KernelMatches(line, target)
    BY <1>1, <2>2, KernelDecidesDefault
  <2> QED
    BY <2>1, <2>2
<1> QED
  BY <1>3
\* A target is rejected just if its highest rule blocks it.
LEMMA OutcomeIs ==
  ASSUME TypeOK, filter = Index, kernel = KernelRules,
         NEW target \in Targets, ~RankedOtherwise(target)
  PROVE  Outcome(target) = "REJECT" <=> Blocked(target)
<1>1. CASE target \in Addresses
  BY <1>1, AddressDecided DEF Outcome
<1>2. CASE target \notin Addresses
  <2>1. Outcome(target) = "REJECT" <=>
          IndexBlocks(Index, target) \/ KernelDecides(KernelRules, target) = "REJECT"
    BY <1>2 DEF Outcome
  <2>2. (\E r \in ParentHits({"allow"}, target) : r.kind \in DomainKinds)
          <=> ParentHits({"allow"}, target) # {}
    BY RankedMeans
  <2>3. Hits({"allow"}, target) = {}
    BY RankedMeans DEF Hits
  <2>4. \A r \in Hits({"block"}, target) : InKernel(r) <=> r.kind \notin DomainKinds
    BY DEF Hits, InKernel
  <2> QED
    BY <1>2, <2>1, <2>2, <2>3, <2>4, FilterBlocks, NameDecided DEF Blocked
<1> QED
  BY <1>1, <1>2

\* The highest of the rules blocks just if the target is blocked.
LEMMA HighestIs ==
  ASSUME TypeOK, NEW target, Ranked(target) # {}
  PROVE  LET best == CHOOSE one \in Ranked(target) :
                       \A other \in Ranked(target) : one.rank <= other.rank
         IN  best.action = "block" <=> Blocked(target)
<1> DEFINE best == CHOOSE one \in Ranked(target) :
                     \A other \in Ranked(target) : one.rank <= other.rank
           Has(rank, action) == [rank |-> rank, action |-> action] \in Ranked(target)
<1>1. ASSUME NEW one \in Ranked(target)
      PROVE  \/ one = [rank |-> 1, action |-> "block"]
             \/ one = [rank |-> 2, action |-> "block"]
             \/ one = [rank |-> 3, action |-> "allow"]
             \/ one = [rank |-> 4, action |-> "block"]
  BY DEF Ranked, ParentsOf
<1>2. /\ Has(1, "block") <=> \E r \in Hits({"block"}, target) : r.category \in Security
      /\ Has(2, "block") <=> ParentHits({"block"}, target) # {}
      /\ Has(3, "allow") <=> ParentHits({"allow"}, target) # {}
      /\ Has(4, "block") <=> \E r \in Hits({"block"}, target) : r.category \notin Security
  <2>1. ASSUME NEW rank, NEW action
        PROVE  Has(rank, action) <=>
                 \/ \E r \in ParentHits({"block", "allow"}, target) :
                      rank = (IF r.action = "block" THEN 2 ELSE 3) /\ action = r.action
                 \/ \E r \in Hits({"block"}, target) :
                      rank = (IF r.category \in Security THEN 1 ELSE 4) /\ action = "block"
    BY DEF Ranked, ParentHits, Hits
  <2> HIDE DEF Has
  <2> QED
    BY <2>1 DEF ParentHits, ParentsOf
<1>3. \E one \in Ranked(target) : \A other \in Ranked(target) : one.rank <= other.rank
  <2>1. \A one \in Ranked(target) : one.rank \in 1..4
    BY <1>1
  <2> DEFINE ranks == {one.rank : one \in Ranked(target)}
  <2>2. ranks \in SUBSET Nat /\ ranks # {}
    BY <2>1
  <2>3. PICK m \in ranks : \A n \in ranks : m <= n
    <3> HIDE DEF ranks
    <3> QED
      BY <2>2, Least
  <2> QED
    BY <2>3
<1>4. best \in Ranked(target) /\ \A other \in Ranked(target) : best.rank <= other.rank
  BY <1>3
<1>5. Blocked(target) <=> \/ Has(1, "block") \/ Has(2, "block")
                          \/ Has(4, "block") /\ ~Has(3, "allow")
  BY <1>2 DEF Blocked
<1>6. best.action = "block" <=> \/ Has(1, "block") \/ Has(2, "block")
                                \/ Has(4, "block") /\ ~Has(3, "allow")
  <2> HIDE DEF best
  <2>1. (Has(1, "block") => best.rank <= 1) /\ (Has(2, "block") => best.rank <= 2)
    BY <1>4
  <2>2. Has(3, "allow") => best.rank <= 3
    BY <1>4
  <2>3. \/ Has(1, "block") /\ best.rank = 1 /\ best.action = "block"
        \/ Has(2, "block") /\ best.rank = 2 /\ best.action = "block"
        \/ Has(3, "allow") /\ best.rank = 3 /\ best.action = "allow"
        \/ Has(4, "block") /\ best.rank = 4 /\ best.action = "block"
    BY <1>1, <1>4
  <2> HIDE DEF Has
  <2> QED
    BY <2>1, <2>2, <2>3
<1> HIDE DEF best, Has
<1> QED
  BY <1>5, <1>6 DEF best

\* What the parents are told.
LEMMA DiagnosisIs ==
  ASSUME TypeOK, NEW target, ~RankedOtherwise(target)
  PROVE  Diagnosis(target) = "block" <=> Blocked(target)
<1> DEFINE found ==
        {[priority |-> ParentPriority(r), action |-> r.action] :
           r \in {rule \in ParentsOf({"block", "allow", "proxy", "system_route"}) :
                    Matches(rule, target)}}
        \cup {[priority |-> ImportedPriority(r), action |-> r.action] :
           r \in {rule \in EffectiveRules : Matches(rule, target)}}
           best == CHOOSE one \in found : \A other \in found : one.priority <= other.priority
           Has(priority, action) == [priority |-> priority, action |-> action] \in found
<1>1. ASSUME NEW one \in found
      PROVE  \/ one = [priority |-> 10, action |-> "block"]
             \/ one = [priority |-> 20, action |-> "block"]
             \/ one = [priority |-> 30, action |-> "allow"]
             \/ one = [priority |-> 50, action |-> "block"]
             \/ one = [priority |-> 80, action |-> "proxy"]
             \/ one = [priority |-> 81, action |-> "system_route"]
  <2>1. ASSUME NEW r \in EffectiveRules, Matches(r, target)
        PROVE  r.action = "block"
    BY <2>1, RankedMeans DEF Hits
  <2> QED
    BY <2>1 DEF ParentPriority, ImportedPriority, ParentsOf
<1>2. /\ Has(10, "block") <=> \E r \in Hits({"block"}, target) : r.category \in Security
      /\ Has(20, "block") <=> ParentHits({"block"}, target) # {}
      /\ Has(30, "allow") <=> ParentHits({"allow"}, target) # {}
      /\ Has(50, "block") <=> \E r \in Hits({"block"}, target) : r.category \notin Security
  <2>1. ASSUME NEW priority, NEW action
        PROVE  Has(priority, action) <=>
                 \/ \E r \in ParentHits(AllActions, target) :
                      priority = ParentPriority(r) /\ action = r.action
                 \/ \E r \in Hits({"block"}, target) :
                      priority = ImportedPriority(r) /\ action = r.action
    BY RankedMeans DEF ParentHits, Hits, AllActions
  <2>2. \A r \in Hits({"block"}, target) : r.action = "block"
    BY DEF Hits
  <2>3. \A r \in ParentHits(AllActions, target) : r.action \in AllActions
    BY DEF ParentHits, ParentsOf
  <2>4. \A action \in AllActions :
          ParentHits({action}, target) # {} <=>
            \E r \in ParentHits(AllActions, target) : r.action = action
    BY DEF ParentHits, ParentsOf
  <2> HIDE DEF Has
  <2> QED
    BY <2>1, <2>2, <2>3, <2>4 DEF ParentPriority, ImportedPriority, AllActions
<1>3. Diagnosis(target) = IF found = {} THEN "default" ELSE best.action
  BY DEF Diagnosis
<1>4. Blocked(target) <=> \/ Has(10, "block") \/ Has(20, "block")
                          \/ Has(50, "block") /\ ~Has(30, "allow")
  BY <1>2 DEF Blocked
<1> HIDE DEF found
<1>5. CASE found = {}
  BY <1>3, <1>4, <1>5
<1>6. CASE found # {}
  <2>1. \E one \in found : \A other \in found : one.priority <= other.priority
    <3> DEFINE priorities == {one.priority : one \in found}
    <3>1. priorities \in SUBSET Nat /\ priorities # {}
      BY <1>1, <1>6
    <3>2. PICK m \in priorities : \A n \in priorities : m <= n
      <4> HIDE DEF priorities
      <4> QED
        BY <3>1, Least
    <3> QED
      BY <3>2
  <2>2. best \in found /\ \A other \in found : best.priority <= other.priority
    BY <2>1
  <2> HIDE DEF best
  <2>3. /\ Has(10, "block") => best.priority <= 10
        /\ Has(20, "block") => best.priority <= 20
        /\ Has(30, "allow") => best.priority <= 30
        /\ Has(50, "block") => best.priority <= 50
    BY <2>2
  <2>4. best.action = "block" <=> \/ Has(10, "block") \/ Has(20, "block")
                                  \/ Has(50, "block") /\ ~Has(30, "allow")
    <3>1. \/ Has(10, "block") /\ best.priority = 10 /\ best.action = "block"
          \/ Has(20, "block") /\ best.priority = 20 /\ best.action = "block"
          \/ Has(30, "allow") /\ best.priority = 30 /\ best.action = "allow"
          \/ Has(50, "block") /\ best.priority = 50 /\ best.action = "block"
          \/ best.priority \in {80, 81} /\ best.action # "block"
      BY <1>1, <2>2
    <3> HIDE DEF Has
    <3> QED
      BY <2>3, <3>1
  <2> QED
    BY <1>3, <1>4, <1>6, <2>4
<1> QED
  BY <1>5, <1>6

\* When both are loaded and nothing has changed, both are those of the database.
LEMMA InForceMeans ==
  ASSUME FreshInv, InForce
  PROVE  filter = Index /\ kernel = KernelRules
  BY DEF FreshInv, InForce, IndexIsFresh, KernelIsFresh

\* The filter and the kernel make together the decision of the highest rule
\* (DomainRuleIndex::decide, load_filter_rules, build_config).
THEOREM PriorityIsKept == Spec => []PriorityHolds
<1>1. TypeOK /\ FreshInv => PriorityHolds
  BY InForceMeans, OutcomeIs, HighestIs DEF PriorityHolds
<1> QED
  BY <1>1, TypesHold, FreshInvHolds, PTL

\* What the parents are told of a target is what becomes of it (diagnose_rule_match).
THEOREM DiagnosisStaysTrue == Spec => []DiagnosisIsTrue
<1>1. TypeOK /\ FreshInv => DiagnosisIsTrue
  BY InForceMeans, OutcomeIs, DiagnosisIs DEF DiagnosisIsTrue
<1> QED
  BY <1>1, TypesHold, FreshInvHolds, PTL
=============================================================================
