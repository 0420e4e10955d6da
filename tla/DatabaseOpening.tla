-------------------------- MODULE DatabaseOpening --------------------------
(***************************************************************************)
(* How the desktop application opens its SQLite database (storage.rs,      *)
(* AppState::open_with_rule_source_dir): the tables are created, databases *)
(* of earlier versions are migrated, the bundled rule sources are seeded   *)
(* and proxy payloads are encrypted.  Almost every statement commits on    *)
(* its own, so the process may die between any two of them and the next    *)
(* start meets what they left.  An action is one statement, or one         *)
(* transaction.                                                            *)
(*                                                                         *)
(* Three text columns stand for the rest: "process" for the columns that   *)
(* migrate_access_log_string_storage moves, "domain" for the two that      *)
(* migrate_compact_access_logs moves.  One source stands for each kind the *)
(* opening treats differently.                                             *)
(***************************************************************************)
EXTENDS Naturals, FiniteSets

CONSTANTS ParentRules,   \* the rules parents wrote or may write
          Rows,          \* the access log rows of an earlier version
          MaxCrashes,    \* how often the process may die
          MaxEdits       \* how often parents change something

ASSUME OpeningAssumption ==
    /\ IsFiniteSet(ParentRules) /\ IsFiniteSet(Rows)
    /\ MaxCrashes \in Nat /\ MaxEdits \in Nat

VARIABLES pc,          \* the next statement; "closed" and "open" between openings
          parent,      \* the table parent_rules: its CHECK constraint and its rules
          parentOld,   \* the table parent_rules_old, when it exists
          shape,       \* of access_logs: "text" or "compact"
          text, ids,   \* the columns of a row that hold text, or the id of a string
          strings,     \* access_log_strings
          copy,        \* whether the table access_logs_compact exists
          listed, enabled, hashed, imported,   \* subscriptions and imported_rules
          flags,       \* the completed migrations recorded in settings
          payload,     \* how the stored proxy payload is written
          wanted,      \* ghost: the rules parents last saw and did not delete
          choice,      \* ghost: the parent's last choice for the optional source
          crashes, edits

parentVars == <<parent, parentOld>>
logVars    == <<shape, text, ids, strings, copy>>
sourceVars == <<listed, enabled, hashed, imported>>
ghosts     == <<wanted, choice>>
limits     == <<crashes, edits>>
openingVars == <<pc, parentVars, logVars, sourceVars, flags, payload, ghosts, limits>>

Columns == {"process", "domain"}
Sources == {"adblock",    \* a subscription in the adblock format
            "oldPorn",    \* default:blocklistproject:porn, replaced by
            "oisd",       \* default:oisd:nsfw
            "builtin",    \* a source with a fallback file beside the application
            "optional"}   \* a toggleable entertainment source
Defaults == {"oisd", "builtin", "optional"}
Migrations == {"adblock", "oisd", "entertainment"}
Fallback == {"line1", "line2"}          \* the rules of the fallback file, in this order
Rules == Fallback \cup {"legacy", "cached", "fetched"}
NoTable == [constraint |-> "none", rules |-> {}]

(***************************************************************************)
(* A database of some earlier version, or none: what has been migrated is  *)
(* independent of what has not, since each migration came with a release.  *)
(***************************************************************************)
Fresh ==
    /\ parent = NoTable
    /\ shape = "compact" /\ text = [r \in Rows |-> {}] /\ ids = [r \in Rows |-> {}]
    /\ strings = {}
    /\ listed = {} /\ enabled = {} /\ hashed = {}
    /\ imported = [s \in Sources |-> {}]
    /\ flags = {} /\ payload = "none" /\ wanted = {}

Earlier ==
    /\ wanted \in SUBSET ParentRules
    /\ \E constraint \in {"old", "new"} :
          parent = [constraint |-> constraint, rules |-> wanted]
    /\ \/ /\ shape = "text" /\ strings = {}
          /\ text = [r \in Rows |-> Columns] /\ ids = [r \in Rows |-> {}]
       \/ /\ shape = "compact" /\ strings = Rows \X Columns
          /\ text = [r \in Rows |-> {}] /\ ids = [r \in Rows |-> Columns]
    /\ flags \in SUBSET {"adblock", "oisd"}
    /\ hashed \in SUBSET {"adblock"}
    /\ listed = {"adblock", "builtin", "optional"}
                   \cup (IF "oisd" \in flags THEN {"oisd"} ELSE {"oldPorn"})
    /\ enabled \in {listed, listed \ {"optional"}}
    /\ imported = [s \in Sources |->
          CASE s = "adblock" -> IF "adblock" \in flags THEN {"fetched"} ELSE {"legacy"}
            [] s = "oldPorn" -> IF "oisd" \in flags THEN {} ELSE {"cached"}
            [] s = "oisd"    -> IF "oisd" \in flags THEN {"fetched"} ELSE {}
            [] OTHER         -> {}]
    /\ payload \in {"none", "plain", "cw1", "cw2"}

OpeningInit ==
    /\ Fresh \/ Earlier
    /\ pc = "closed" /\ parentOld = NoTable /\ copy = FALSE
    /\ choice = "none" /\ crashes = 0 /\ edits = 0

----------------------------------------------------------------------------
\* The database connection moves from one statement to the next.
At(statement) == pc = statement
Then(statement) == pc' = statement

\* setup: the application starts and opens the file.
Start ==
    /\ At("closed") /\ Then("createTables")
    /\ UNCHANGED <<parentVars, logVars, sourceVars, flags, payload, ghosts, limits>>

\* CREATE TABLE IF NOT EXISTS, the whole list.
CreateTables ==
    /\ At("createTables") /\ Then("checkParents")
    /\ parent' = IF parent = NoTable THEN [constraint |-> "new", rules |-> {}] ELSE parent
    /\ UNCHANGED <<parentOld, logVars, sourceVars, flags, payload, ghosts, limits>>

\* migrate_parent_rules_action_constraint returns when the table already has
\* the new constraint; otherwise four statements follow.
ParentsAreCurrent ==
    /\ At("checkParents") /\ parent.constraint = "new" /\ Then("saveStrings")
    /\ UNCHANGED <<parentVars, logVars, sourceVars, flags, payload, ghosts, limits>>

RenameParents ==
    /\ At("checkParents") /\ parent.constraint # "new" /\ Then("createParents")
    /\ parentOld' = parent /\ parent' = NoTable
    /\ UNCHANGED <<logVars, sourceVars, flags, payload, ghosts, limits>>

CreateParents ==
    /\ At("createParents") /\ Then("copyParents")
    /\ parent' = [constraint |-> "new", rules |-> {}]
    /\ UNCHANGED <<parentOld, logVars, sourceVars, flags, payload, ghosts, limits>>

\* The table is renamed back into use without its rows: for comparison.
CopyNoParents ==
    /\ At("copyParents") /\ Then("dropOldParents")
    /\ UNCHANGED <<parentVars, logVars, sourceVars, flags, payload, ghosts, limits>>

CopyParents ==
    /\ At("copyParents") /\ Then("dropOldParents")
    /\ parent' = [parent EXCEPT !.rules = @ \cup parentOld.rules]
    /\ UNCHANGED <<parentOld, logVars, sourceVars, flags, payload, ghosts, limits>>

DropOldParents ==
    /\ At("dropOldParents") /\ Then("saveStrings")
    /\ parentOld' = NoTable
    /\ UNCHANGED <<parent, logVars, sourceVars, flags, payload, ghosts, limits>>

----------------------------------------------------------------------------
\* migrate_access_log_string_storage: the text goes to access_log_strings,
\* then the row refers to it.  The columns exist only in the old shape.
Textual(column) == {r \in Rows : column \in text[r]}

\* The rows are updated before the strings are saved: for comparison.
SaveStringsTooLate ==
    /\ At("saveStrings") /\ Then("referToStrings")
    /\ text' = [r \in Rows |-> text[r] \ {"process"}]
    /\ UNCHANGED <<parentVars, shape, strings, ids, copy, sourceVars, flags, payload,
                   ghosts, limits>>

SaveStrings ==
    /\ At("saveStrings") /\ Then("referToStrings")
    /\ strings' = strings \cup (Textual("process") \X {"process"})
    /\ UNCHANGED <<parentVars, shape, text, ids, copy, sourceVars, flags, payload,
                   ghosts, limits>>

ReferToStrings ==
    /\ At("referToStrings") /\ Then("checkCompact")
    /\ ids' = [r \in Rows |-> ids[r] \cup (text[r] \cap {"process"})]
    /\ text' = [r \in Rows |-> text[r] \ {"process"}]
    /\ UNCHANGED <<parentVars, shape, strings, copy, sourceVars, flags, payload,
                   ghosts, limits>>

\* migrate_compact_access_logs returns when the table is compact.
LogsAreCompact ==
    /\ At("checkCompact") /\ shape = "compact" /\ Then("checkAdblock")
    /\ UNCHANGED <<parentVars, logVars, sourceVars, flags, payload, ghosts, limits>>

SaveDomains ==
    /\ At("checkCompact") /\ shape = "text" /\ Then("createCopy")
    /\ strings' = strings \cup (Textual("domain") \X {"domain"})
    /\ UNCHANGED <<parentVars, shape, text, ids, copy, sourceVars, flags, payload,
                   ghosts, limits>>

\* The copy is created outside the transaction; a copy that an interrupted
\* opening left is an error, and the application does not start.
CreateCopy ==
    /\ At("createCopy") /\ ~copy /\ Then("fillCopy")
    /\ copy' = TRUE
    /\ UNCHANGED <<parentVars, shape, text, ids, strings, sourceVars, flags, payload,
                   ghosts, limits>>

CopyAlreadyExists ==
    /\ At("createCopy") /\ copy /\ Then("closed")
    /\ UNCHANGED <<parentVars, logVars, sourceVars, flags, payload, ghosts, limits>>

\* One transaction: every row is inserted, the old table is dropped and the
\* copy takes its name.
FillCopy ==
    /\ At("fillCopy") /\ Then("checkAdblock")
    /\ shape' = "compact" /\ copy' = FALSE
    /\ ids' = [r \in Rows |-> ids[r] \cup {c \in {"domain"} : <<r, c>> \in strings}]
    /\ text' = [r \in Rows |-> {}]
    /\ UNCHANGED <<parentVars, strings, sourceVars, flags, payload, ghosts, limits>>

\* An insertion fails (a full disk): the transaction is rolled back, the copy
\* stays and the error ends the opening.
FillFails ==
    /\ At("fillCopy") /\ crashes < MaxCrashes /\ Then("closed")
    /\ crashes' = crashes + 1
    /\ UNCHANGED <<parentVars, logVars, sourceVars, flags, payload, ghosts, edits>>

----------------------------------------------------------------------------
\* migrate_adblock_dns_parser_v2: the rules of the legacy parser are removed,
\* the subscriptions are marked as never updated, the flag is set.  Their
\* content hash stays.
AdblockIsCurrent ==
    /\ At("checkAdblock") /\ "adblock" \in flags /\ Then("seedSources")
    /\ UNCHANGED <<parentVars, logVars, sourceVars, flags, payload, ghosts, limits>>

\* The subscriptions are marked, the rules forgotten: for comparison.
MarkLegacyOnly ==
    /\ At("checkAdblock") /\ "adblock" \notin flags /\ Then("flagAdblock")
    /\ UNCHANGED <<parentVars, logVars, sourceVars, flags, payload, ghosts, limits>>

DeleteLegacyRules ==
    /\ At("checkAdblock") /\ "adblock" \notin flags /\ Then("flagAdblock")
    /\ imported' = [imported EXCEPT !["adblock"] = {}]
    /\ UNCHANGED <<parentVars, logVars, listed, enabled, hashed, flags, payload,
                   ghosts, limits>>

FlagAdblock ==
    /\ At("flagAdblock") /\ Then("seedSources")
    /\ flags' = flags \cup {"adblock"}
    /\ UNCHANGED <<parentVars, logVars, sourceVars, payload, ghosts, limits>>

\* The entries of earlier versions are removed before their rules are copied:
\* for comparison.
SeedAfterDeleting ==
    /\ At("seedSources") /\ Then("checkPornography")
    /\ listed' = (listed \cup Defaults) \ {"oldPorn"}
    /\ enabled' = (enabled \cup (Defaults \ (listed \cup {"optional"}))) \ {"oldPorn"}
    /\ imported' = [imported EXCEPT !["oldPorn"] = {}]
    /\ UNCHANGED <<parentVars, logVars, hashed, flags, payload, ghosts, limits>>

\* seed_default_rule_subscriptions: INSERT OR IGNORE for every default source,
\* enabled_by_default; then their metadata is brought up to date.
SeedSources ==
    /\ At("seedSources") /\ Then("checkPornography")
    /\ listed' = listed \cup Defaults
    /\ enabled' = enabled \cup (Defaults \ (listed \cup {"optional"}))
    /\ UNCHANGED <<parentVars, logVars, hashed, imported, flags, payload, ghosts, limits>>

\* migrate_pornography_sources_to_oisd: the old rules serve the new source until
\* it is first refreshed.
PornographyIsCurrent ==
    /\ At("checkPornography") /\ "oisd" \in flags /\ Then("enableFixed")
    /\ UNCHANGED <<parentVars, logVars, sourceVars, flags, payload, ghosts, limits>>

CopyPornography ==
    /\ At("checkPornography") /\ "oisd" \notin flags /\ Then("flagPornography")
    /\ imported' = [imported EXCEPT !["oisd"] = IF @ = {} THEN imported["oldPorn"] ELSE @]
    /\ UNCHANGED <<parentVars, logVars, listed, enabled, hashed, flags, payload,
                   ghosts, limits>>

FlagPornography ==
    /\ At("flagPornography") /\ Then("enableFixed")
    /\ flags' = flags \cup {"oisd"}
    /\ UNCHANGED <<parentVars, logVars, sourceVars, payload, ghosts, limits>>

\* Default sources that parents may not switch are switched on again.
EnableFixed ==
    /\ At("enableFixed") /\ Then("deleteOldSources")
    /\ enabled' = enabled \cup (listed \cap {"oisd", "builtin"})
    /\ UNCHANGED <<parentVars, logVars, listed, hashed, imported, flags, payload,
                   ghosts, limits>>

\* DELETE FROM subscriptions: the rules go with it (ON DELETE CASCADE).
DeleteOldSources ==
    /\ At("deleteOldSources") /\ Then("checkFallback")
    /\ listed' = listed \ {"oldPorn"} /\ enabled' = enabled \ {"oldPorn"}
    /\ imported' = [imported EXCEPT !["oldPorn"] = {}]
    /\ UNCHANGED <<parentVars, logVars, hashed, flags, payload, ghosts, limits>>

\* seed_configured_rule_cache: a source that has no rule gets those of its
\* fallback file, one statement each.
HasRules ==
    /\ At("checkFallback") /\ imported["builtin"] # {} /\ Then("checkEntertainment")
    /\ UNCHANGED <<parentVars, logVars, sourceVars, flags, payload, ghosts, limits>>

InsertFallback(line) ==
    /\ imported' = [imported EXCEPT !["builtin"] = @ \cup {line}]
    /\ UNCHANGED <<parentVars, logVars, listed, enabled, hashed, flags, payload,
                   ghosts, limits>>

InsertFirst ==
    /\ At("checkFallback") /\ imported["builtin"] = {} /\ Then("insertSecond")
    /\ InsertFallback("line1")

InsertSecond == At("insertSecond") /\ Then("checkEntertainment") /\ InsertFallback("line2")

\* enable_entertainment_sources_by_default_v2.
EntertainmentIsCurrent ==
    /\ At("checkEntertainment") /\ "entertainment" \in flags /\ Then("payloads")
    /\ UNCHANGED <<parentVars, logVars, sourceVars, flags, payload, ghosts, limits>>

\* The flag is not looked at: for comparison.
EnableEntertainmentAlways ==
    /\ At("checkEntertainment") /\ Then("flagEntertainment")
    /\ enabled' = enabled \cup {"optional"}
    /\ UNCHANGED <<parentVars, logVars, listed, hashed, imported, flags, payload,
                   ghosts, limits>>

EnableEntertainment ==
    /\ At("checkEntertainment") /\ "entertainment" \notin flags /\ Then("flagEntertainment")
    /\ enabled' = enabled \cup {"optional"}
    /\ UNCHANGED <<parentVars, logVars, listed, hashed, imported, flags, payload,
                   ghosts, limits>>

FlagEntertainment ==
    /\ At("flagEntertainment") /\ Then("payloads")
    /\ flags' = flags \cup {"entertainment"}
    /\ UNCHANGED <<parentVars, logVars, sourceVars, payload, ghosts, limits>>

----------------------------------------------------------------------------
\* encrypt_existing_proxy_payloads, one transaction.  Payloads of the first
\* envelope stay readable with the key of the keychain.
EncryptPayloads ==
    /\ At("payloads") /\ Then("open")
    /\ payload' = IF payload = "plain" THEN "cw2" ELSE payload
    /\ UNCHANGED <<parentVars, logVars, sourceVars, flags, ghosts, limits>>

\* The keychain gives no key: the opening ends with the error.
NoKey ==
    /\ At("payloads") /\ payload = "plain" /\ crashes < MaxCrashes /\ Then("closed")
    /\ crashes' = crashes + 1
    /\ UNCHANGED <<parentVars, logVars, sourceVars, flags, payload, ghosts, edits>>

----------------------------------------------------------------------------
\* The process dies, or ends, between two statements.
Crash ==
    /\ ~At("closed") /\ crashes < MaxCrashes /\ Then("closed")
    /\ crashes' = crashes + 1
    /\ UNCHANGED <<parentVars, logVars, sourceVars, flags, payload, ghosts, edits>>

Close ==
    /\ At("open") /\ Then("closed")
    /\ UNCHANGED <<parentVars, logVars, sourceVars, flags, payload, ghosts, limits>>

\* What the open application does to these tables, one statement each.
Edit ==
    /\ At("open") /\ edits < MaxEdits
    /\ edits' = edits + 1
    /\ UNCHANGED <<pc, parentOld, logVars, listed, flags, crashes>>

CreateParentRule(r) ==
    /\ Edit /\ r \notin parent.rules
    /\ parent' = [parent EXCEPT !.rules = @ \cup {r}] /\ wanted' = wanted \cup {r}
    /\ UNCHANGED <<enabled, hashed, imported, payload, choice>>

DeleteParentRule(r) ==
    /\ Edit /\ r \in parent.rules
    /\ parent' = [parent EXCEPT !.rules = @ \ {r}] /\ wanted' = wanted \ {r}
    /\ UNCHANGED <<enabled, hashed, imported, payload, choice>>

SwitchOptional ==
    /\ Edit
    /\ choice' = IF "optional" \in enabled THEN "off" ELSE "on"
    /\ enabled' = IF choice' = "on" THEN enabled \cup {"optional"} ELSE enabled \ {"optional"}
    /\ UNCHANGED <<parent, hashed, imported, payload, wanted>>

\* A refresh replaces the rules in a transaction unless the content is the one
\* it stored last (SubscriptionRefresh has the whole story).
Refresh(s) ==
    /\ Edit /\ s \in listed
    /\ hashed' = hashed \cup {s}
    /\ imported' = IF s \in hashed THEN imported ELSE [imported EXCEPT ![s] = {"fetched"}]
    /\ UNCHANGED <<parent, enabled, payload, ghosts>>

OpenParents ==
    \/ CreateTables \/ ParentsAreCurrent \/ RenameParents \/ CreateParents
    \/ CopyParents \/ DropOldParents

OpenLogs ==
    \/ SaveStrings \/ ReferToStrings \/ LogsAreCompact \/ SaveDomains
    \/ CreateCopy \/ CopyAlreadyExists \/ FillCopy \/ FillFails

OpenSources ==
    \/ AdblockIsCurrent \/ DeleteLegacyRules \/ FlagAdblock \/ SeedSources
    \/ PornographyIsCurrent \/ CopyPornography \/ FlagPornography \/ EnableFixed
    \/ DeleteOldSources \/ HasRules \/ InsertFirst \/ InsertSecond
    \/ EntertainmentIsCurrent \/ EnableEntertainment \/ FlagEntertainment

Use ==
    \/ \E r \in ParentRules : CreateParentRule(r) \/ DeleteParentRule(r)
    \/ SwitchOptional
    \/ \E s \in Sources \ {"oldPorn"} : Refresh(s)

OpeningNext ==
    \/ Start \/ OpenParents \/ OpenLogs \/ OpenSources
    \/ EncryptPayloads \/ NoKey \/ Use \/ Close \/ Crash

OpeningSpec == OpeningInit /\ [][OpeningNext]_openingVars

----------------------------------------------------------------------------
Statements ==
    {"createTables", "checkParents", "createParents", "copyParents", "dropOldParents",
     "saveStrings", "referToStrings", "checkCompact", "createCopy", "fillCopy",
     "checkAdblock", "flagAdblock", "seedSources", "checkPornography", "flagPornography",
     "enableFixed", "deleteOldSources", "checkFallback", "insertSecond",
     "checkEntertainment", "flagEntertainment", "payloads"}

ParentTable == [constraint : {"none", "old", "new"}, rules : SUBSET ParentRules]

\* Every variable keeps its type; rules without their table exist nowhere.
OpeningTypeOK ==
    /\ pc \in Statements \cup {"closed", "open"}
    /\ parent \in ParentTable /\ parentOld \in ParentTable
    /\ shape \in {"text", "compact"} /\ copy \in BOOLEAN
    /\ text \in [Rows -> SUBSET Columns] /\ ids \in [Rows -> SUBSET Columns]
    /\ strings \subseteq Rows \X Columns
    /\ listed \subseteq Sources /\ enabled \subseteq listed /\ hashed \subseteq listed
    /\ imported \in [Sources -> SUBSET Rules]
    /\ \A s \in Sources \ listed : imported[s] = {}
    /\ flags \subseteq Migrations /\ payload \in {"none", "plain", "cw1", "cw2"}
    /\ wanted \subseteq ParentRules /\ choice \in {"none", "on", "off"}
    /\ crashes \in 0..MaxCrashes /\ edits \in 0..MaxEdits

(***************************************************************************)
(* Wherever the process died, every rule that parents wrote and did not    *)
(* delete is in one of the two tables of the file.  That it is in the one  *)
(* the application reads is not claimed: after a crash between renaming    *)
(* and creating the table the next opening makes an empty one and never    *)
(* looks at the renamed table again.                                       *)
(***************************************************************************)
ParentRulesOnDisk == wanted \subseteq parent.rules \cup parentOld.rules

(***************************************************************************)
(* Wherever the process died, the text of every column of every row can    *)
(* still be read: from the column, or through the row's reference to a     *)
(* string that exists.                                                     *)
(***************************************************************************)
RowsReadable ==
    shape = "text" \/ strings # {} =>
        \A r \in Rows, c \in Columns :
            c \in text[r] \/ (c \in ids[r] /\ <<r, c>> \in strings)

(***************************************************************************)
(* Replacing the pornography source never leaves the category without      *)
(* rules: once one of the two sources has some, no step of an opening, a   *)
(* crash or a refresh takes the last of them ("Keep the previous Block     *)
(* List Project rules as a temporary last-known-good cache").              *)
(***************************************************************************)
HasPornographyRules == imported["oldPorn"] \cup imported["oisd"] # {}
PornographyStaysCovered == [][HasPornographyRules => HasPornographyRules']_openingVars

\* An opening that completes, after any number that did not, has completed
\* every migration, whichever of them the earlier ones had finished.
OpenIsMigrated ==
    At("open") =>
        /\ parent.constraint = "new"
        /\ shape = "compact" /\ \A r \in Rows : text[r] = {}
        /\ "legacy" \notin imported["adblock"] /\ "oldPorn" \notin listed
        /\ flags = Migrations /\ payload # "plain"

\* A downloaded rule list is never mixed with the lines of the fallback file,
\* whenever seeding was interrupted and the source refreshed.
FallbackNotMixed == "fetched" \in imported["builtin"] => imported["builtin"] = {"fetched"}

\* What parents chose for an optional source is what the application shows
\* after it was closed, died or was opened any number of times.
ChoiceIsKept ==
    choice # "none" => (choice = "on" <=> "optional" \in enabled)
============================================================================
