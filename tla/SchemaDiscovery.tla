--------------------------- MODULE SchemaDiscovery ---------------------------
(***************************************************************************)
(* Schemas the model proposes and users approve: discovery of a schema     *)
(* (pipeline/discovery/auto_discovery.py), extraction along it             *)
(* (dynamic_extractor.py) within the token budget the runner makes for it, *)
(* the pending store, the approve endpoint (api/routes/chat.py) and the    *)
(* schema cache.                                                           *)
(*                                                                         *)
(* discover and extract call the model on the event loop itself: nothing   *)
(* else runs between their first step and their last. A schema is the set  *)
(* of its metadata fields and of its tables; the order in which tables are *)
(* asked for does not matter.                                              *)
(***************************************************************************)
EXTENDS Naturals, FiniteSets

CONSTANTS
  Tenants,
  Keys,        \* fingerprint keys: institution and document type label
  Fields, Tables,
  Ids,         \* pending ids (UUIDs)
  Limit,       \* vlm_max_tokens_per_job
  MaxCost,     \* bound on the tokens of one call
  Expiry,      \* _EXPIRY_HOURS, in ticks
  NoEntry

ASSUME BudgetAssumption == Limit \in Nat /\ MaxCost \in Nat \ {0}
ASSUME ExpiryAssumption == Expiry \in Nat \ {0}

VARIABLES
  action,    \* budget_exceeded_action
  used,      \* total_consumed of the budget of the discovery in progress
  run,       \* the discovery in progress, or the last one
  cache,     \* SchemaCache._store: tenant -> key -> entry
  pending,   \* PendingSchemaStore._store: id -> entry
  issued,    \* ids given out
  spent,     \* history: ids that were approved
  granted    \* history: what the tenant last approved for a key and still stands

runVars   == <<action, used, run>>
storeVars == <<cache, pending, issued, spent, granted>>
vars      == <<runVars, storeVars>>

Schemas == [fields: SUBSET Fields, tables: SUBSET Tables]
Entries == [schema: Schemas, approved: BOOLEAN]
PendingEntries == [schema: Schemas, key: Keys, tenant: Tenants, age: 0..Expiry]
Empty == [fields |-> {}, tables |-> {}]
NoSchemas == [k \in Keys |-> NoEntry]

ASSUME NoEntryAssumption ==
  NoEntry \notin Schemas /\ NoEntry \notin Entries /\ NoEntry \notin PendingEntries

(* "asking": discover; "fields" and "tables": extract; "done": returned, and *)
(* what has been found, and what abstained on, is final; "raised": an answer *)
(* of another shape than the prompt asks for ended it. *)
Runs ==
  [pc: {"idle", "asking", "fields", "tables", "done", "raised"}, tenant: Tenants, schema: Schemas,
   found: SUBSET Fields, missing: SUBSET Fields,
   read: SUBSET Tables, unread: SUBSET Tables]
Run(p, t, s, f, m, r, u) ==
  [pc |-> p, tenant |-> t, schema |-> s, found |-> f, missing |-> m,
   read |-> r, unread |-> u]

StoresInit ==
  /\ cache = [t \in Tenants |-> NoSchemas]
  /\ pending = [i \in Ids |-> NoEntry]
  /\ issued = {} /\ spent = {}
  /\ granted = [t \in Tenants |-> NoSchemas]

Init ==
  /\ action \in {"skip", "flag", "proceed"}
  /\ used = 0
  /\ \E t \in Tenants : run = Run("idle", t, Empty, {}, {}, {}, {})
  /\ StoresInit

------------------------------------------------------------------------------
(* TokenBudget.can_proceed and record_usage. *)
CanProceed == action = "skip" => used <= Limit
Pay == \E c \in 1..MaxCost : used' = used + c
Free == UNCHANGED used

LoopIsFree == run.pc \in {"idle", "done", "raised"}

(* The router, for a section, or the self-healing retry starts a discovery,  *)
(* each with a TokenBudget of its own. *)
Start(t) ==
  /\ LoopIsFree
  /\ used' = 0
  /\ run' = Run("asking", t, Empty, {}, {}, {}, {})
  /\ UNCHANGED <<action, storeVars>>

(* discover without a schema: the breaker is open or the budget used up and  *)
(* nothing is asked, or the answer has no label, no institution or no        *)
(* definition (_parse_schema_response). *)
DiscoverAbstains ==
  /\ run.pc = "asking"
  /\ Free \/ (CanProceed /\ Pay)
  /\ run' = Run("done", run.tenant, Empty, {}, {}, {}, {})
  /\ UNCHANGED <<action, storeVars>>

(* SchemaCache.store. *)
Store(t, k, s, a) ==
  cache' = [cache EXCEPT ![t] = [@ EXCEPT ![k] = [schema |-> s, approved |-> a]]]

StoreDiscoveredKeepingFlag(t, k, s) ==  \* a mutant of StoreDiscovered
  Store(t, k, s, cache[t][k] # NoEntry /\ cache[t][k].approved)
StoreDiscovered(t, k, s) == Store(t, k, s, FALSE)

(* discover, with a schema: stored in the cache over whatever was there. *)
Discover ==
  /\ run.pc = "asking"
  /\ CanProceed
  /\ Pay
  /\ \E k \in Keys, s \in Schemas \ {Empty} :
       /\ StoreDiscovered(run.tenant, k, s)
       /\ run' = Run("fields", run.tenant, s, {}, {}, {}, {})
  /\ UNCHANGED <<action, pending, issued, spent, granted>>

(* A call that is made and raises: the client does, or the answer holds null *)
(* where a list is expected (metadata_fields, the rows or headers of a       *)
(* table), which the parsing iterates over. What is cached stays cached. *)
Raises ==
  /\ \/ run.pc = "asking"
     \/ run.pc = "fields" /\ run.schema.fields # {}
     \/ run.pc = "tables" /\ run.schema.tables \ (run.read \cup run.unread) # {}
  /\ CanProceed
  /\ Free \/ Pay
  /\ run' = Run("raised", run.tenant, run.schema, run.found, run.missing, run.read, run.unread)
  /\ UNCHANGED <<action, storeVars>>

FieldsAnsweredSilently ==  \* a mutant of FieldsAnswered
  IF CanProceed
    THEN Pay /\ (\E f \in SUBSET run.schema.fields :
           run' = Run("tables", run.tenant, run.schema, f, run.schema.fields \ f, {}, {}))
    ELSE run' = Run("tables", run.tenant, run.schema, {}, {}, {}, {}) /\ Free

(* _extract_fields: one call for all fields. One the model does not answer,  *)
(* and one whose value the token stream does not hold, is abstained on. *)
FieldsAnswered ==
  IF CanProceed
    THEN Pay /\ (\E f \in SUBSET run.schema.fields :
           run' = Run("tables", run.tenant, run.schema, f, run.schema.fields \ f, {}, {}))
    ELSE /\ run' = Run("tables", run.tenant, run.schema, {}, run.schema.fields, {}, {})
         /\ Free

ExtractFields ==
  /\ run.pc = "fields"
  /\ IF run.schema.fields = {}
       THEN run' = Run("tables", run.tenant, run.schema, {}, {}, {}, {}) /\ Free
       ELSE FieldsAnswered
  /\ UNCHANGED <<action, storeVars>>

Reads(r, u) ==
  run' = Run("tables", run.tenant, run.schema, run.found, run.missing, r, u)

ExtractTableUnbudgeted(b) ==  \* a mutant of ExtractTable
  /\ run.pc = "tables"
  /\ b \in run.schema.tables \ (run.read \cup run.unread)
  /\ Pay
  /\ Reads(run.read \cup {b}, run.unread) \/ Reads(run.read, run.unread \cup {b})
  /\ UNCHANGED <<action, storeVars>>

(* _extract_tables: one call per table, as long as the budget lasts. *)
ExtractTable(b) ==
  /\ run.pc = "tables"
  /\ b \in run.schema.tables \ (run.read \cup run.unread)
  /\ IF CanProceed
       THEN Pay /\ (Reads(run.read \cup {b}, run.unread) \/ Reads(run.read, run.unread \cup {b}))
       ELSE Reads(run.read, run.unread \cup {b}) /\ Free
  /\ UNCHANGED <<action, storeVars>>

Finish ==
  /\ run.pc = "tables"
  /\ run.schema.tables \subseteq run.read \cup run.unread
  /\ run' = Run("done", run.tenant, run.schema, run.found, run.missing, run.read, run.unread)
  /\ UNCHANGED <<action, storeVars>> /\ Free

------------------------------------------------------------------------------
(* store_pending: by the escalation of the runner, whose schema defines      *)
(* nothing, and by reextract_table, whose schema defines tables only. *)
StorePending(t, i) ==
  /\ LoopIsFree
  /\ i \notin issued
  /\ issued' = issued \cup {i}
  /\ \E k \in Keys, b \in SUBSET Tables :
       pending' = [pending EXCEPT ![i] =
                     [schema |-> [fields |-> {}, tables |-> b], key |-> k,
                      tenant |-> t, age |-> 0]]
  /\ UNCHANGED <<runVars, cache, spent, granted>>

(* reextract_table whose extraction fails answers with an id all the same. *)
ReextractFails(i) ==
  /\ LoopIsFree
  /\ i \notin issued
  /\ issued' = issued \cup {i}
  /\ UNCHANGED <<runVars, cache, pending, spent, granted>>

(* get_pending: no entry of another tenant, none that is 24 hours old. *)
Pending(t, i) ==
  pending[i] # NoEntry /\ pending[i].tenant = t /\ pending[i].age < Expiry

ApproveAndKeep(t, i) ==  \* a mutant of Approve
  /\ LoopIsFree
  /\ Pending(t, i)
  /\ Store(t, pending[i].key, pending[i].schema, TRUE)
  /\ granted' = [granted EXCEPT ![t] = [@ EXCEPT ![pending[i].key] = pending[i].schema]]
  /\ spent' = spent \cup {i}
  /\ UNCHANGED <<runVars, pending, issued>>

(* approve_schema: get_pending, store and discard, without a suspension. *)
Approve(t, i) ==
  /\ LoopIsFree
  /\ Pending(t, i)
  /\ Store(t, pending[i].key, pending[i].schema, TRUE)
  /\ pending' = [pending EXCEPT ![i] = NoEntry]
  /\ granted' = [granted EXCEPT ![t] = [@ EXCEPT ![pending[i].key] = pending[i].schema]]
  /\ spent' = spent \cup {i}
  /\ UNCHANGED <<runVars, issued>>

(* invalidate_cached_schema. *)
Invalidate(t, k) ==
  /\ LoopIsFree
  /\ cache[t][k] # NoEntry
  /\ cache' = [cache EXCEPT ![t] = [@ EXCEPT ![k] = NoEntry]]
  /\ granted' = [granted EXCEPT ![t] = [@ EXCEPT ![k] = NoEntry]]
  /\ UNCHANGED <<runVars, pending, issued, spent>>

Older(e) ==
  [schema |-> e.schema, key |-> e.key, tenant |-> e.tenant,
   age |-> IF e.age < Expiry THEN e.age + 1 ELSE e.age]

Tick ==
  /\ LoopIsFree
  /\ \E i \in Ids : pending[i] # NoEntry /\ pending[i].age < Expiry
  /\ pending' = [i \in Ids |-> IF pending[i] = NoEntry THEN NoEntry ELSE Older(pending[i])]
  /\ UNCHANGED <<runVars, cache, issued, spent, granted>>

(* Both stores are dictionaries in memory. *)
Restart ==
  /\ cache' = [t \in Tenants |-> NoSchemas]
  /\ pending' = [i \in Ids |-> NoEntry]
  /\ granted' = [t \in Tenants |-> NoSchemas]
  /\ run' = Run("idle", run.tenant, Empty, {}, {}, {}, {})
  /\ UNCHANGED <<action, issued, spent>> /\ Free

Extraction ==
  \/ DiscoverAbstains \/ Discover \/ Raises \/ ExtractFields
  \/ (\E b \in Tables : ExtractTable(b)) \/ Finish

Requests ==
  \/ \E t \in Tenants : Start(t)
  \/ \E t \in Tenants, i \in Ids : StorePending(t, i) \/ Approve(t, i)
  \/ \E i \in Ids : ReextractFails(i)
  \/ \E t \in Tenants, k \in Keys : Invalidate(t, k)

Next == Extraction \/ Requests \/ Tick \/ Restart

Spec == Init /\ [][Next]_vars

------------------------------------------------------------------------------
TypeOK ==
  /\ action \in {"skip", "flag", "proceed"}
  /\ used \in Nat
  /\ run \in Runs
  /\ cache \in [Tenants -> [Keys -> Entries \cup {NoEntry}]]
  /\ pending \in [Ids -> PendingEntries \cup {NoEntry}]
  /\ issued \subseteq Ids
  /\ spent \subseteq Ids
  /\ granted \in [Tenants -> [Keys -> Schemas \cup {NoEntry}]]

(* SchemaCache.lookup: only approved entries are returned. *)
Lookup(t, k) ==
  IF cache[t][k] # NoEntry /\ cache[t][k].approved THEN cache[t][k].schema ELSE NoEntry

(* What lookup returns is the schema the tenant itself approved last for    *)
(* that fingerprint: never one the model proposed since, one another tenant *)
(* approved, or one that was invalidated. *)
LookupIsGranted ==
  \A t \in Tenants, k \in Keys : Lookup(t, k) # NoEntry => Lookup(t, k) = granted[t][k]

(* An id is approved once: a second click, or a request sent again, finds   *)
(* nothing to approve. *)
ApprovedOnce == \A i \in spent : pending[i] = NoEntry

(* What the schema defines is answered for, field by field and table by     *)
(* table: extracted or abstained on, however early the budget ran out. *)
EveryDefinitionAnswered ==
  run.pc = "done" =>
    /\ run.found \cup run.missing = run.schema.fields
    /\ run.found \cap run.missing = {}
    /\ run.read \cup run.unread = run.schema.tables
    /\ run.read \cap run.unread = {}

(* Under "skip" one discovery with its extraction, or the retry, ends at    *)
(* most one call beyond its own budget, however many tables the model       *)
(* proposed. It is no bound for a job, as token_budget.py calls it: every   *)
(* section, every section's fallback and the retry have a budget each.      *)
OneCallOver == action = "skip" => used <= Limit + MaxCost
=============================================================================
