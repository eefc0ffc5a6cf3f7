------------------------ MODULE SchemaDiscoveryProofs ------------------------
(* Theorems about SchemaDiscovery, for any tenants, keys, definitions, ids,  *)
(* budget, caps and expiry.                                                 *)
EXTENDS SchemaDiscovery, TLAPS

LEMMA InitTypes == Init => TypeOK
<1> SUFFICES ASSUME Init PROVE TypeOK
  OBVIOUS
<1>1. run \in Runs
  BY DEF Init, Runs, Run, Schemas, Empty
<1> QED
  BY <1>1 DEF Init, StoresInit, TypeOK, NoSchemas

(* The steps of an extraction keep the types. *)
LEMMA ExtractionTypes ==
  ASSUME TypeOK, Extraction PROVE TypeOK'
<1> USE BudgetAssumption DEF TypeOK, Runs, Run
<1>1. CASE DiscoverAbstains
  BY <1>1 DEF DiscoverAbstains, Pay, Free, storeVars, Schemas, Empty
<1>2. CASE Discover
  <2>1. PICK k \in Keys, s \in Schemas :
          /\ StoreDiscovered(run.tenant, k, s)
          /\ run' = Run("fields", run.tenant, s, {}, {}, {}, {})
    BY <1>2 DEF Discover
  <2>2. run' \in Runs
    BY <2>1
  <2>3. cache' \in [Tenants -> [Keys -> Entries \cup {NoEntry}]]
    BY <2>1 DEF StoreDiscovered, Store, Entries
  <2> QED
    BY <1>2, <2>2, <2>3 DEF Discover, Pay
<1>3. CASE ExtractFields
  <2>1. run.schema.fields \subseteq Fields
    BY DEF Schemas
  <2> QED
    BY <1>3, <2>1 DEF ExtractFields, FieldsAnswered, Pay, Free, storeVars
<1>4. ASSUME NEW b \in Tables, ExtractTable(b) PROVE TypeOK'
  BY <1>4 DEF ExtractTable, Reads, Pay, Free, storeVars
<1>5. CASE Finish
  BY <1>5 DEF Finish, Free, storeVars
<1>6. CASE Raises
  BY <1>6 DEF Raises, Pay, Free, storeVars
<1> QED
  BY <1>1, <1>2, <1>3, <1>4, <1>5, <1>6 DEF Extraction

(* So do the requests, the clock and a restart. *)
LEMMA RequestTypes ==
  ASSUME TypeOK, Requests \/ Tick \/ Restart PROVE TypeOK'
<1> USE BudgetAssumption, ExpiryAssumption DEF TypeOK
<1>1. ASSUME NEW t \in Tenants, Start(t) PROVE TypeOK'
  BY <1>1 DEF Start, storeVars, Runs, Run, Schemas, Empty
<1>2. ASSUME NEW t \in Tenants, NEW i \in Ids, StorePending(t, i) PROVE TypeOK'
  <2>1. PICK k \in Keys, b \in SUBSET Tables :
          pending' = [pending EXCEPT ![i] =
                        [schema |-> [fields |-> {}, tables |-> b], key |-> k,
                         tenant |-> t, age |-> 0]]
    BY <1>2 DEF StorePending
  <2>2. pending' \in [Ids -> PendingEntries \cup {NoEntry}]
    BY <2>1 DEF PendingEntries, Schemas
  <2> QED
    BY <1>2, <2>2 DEF StorePending, runVars
<1>3. ASSUME NEW t \in Tenants, NEW i \in Ids, Approve(t, i) PROVE TypeOK'
  <2>1. pending[i] \in PendingEntries
    BY <1>3 DEF Approve, Pending
  <2>2. /\ pending[i].key \in Keys
        /\ pending[i].schema \in Schemas
    BY <2>1 DEF PendingEntries
  <2>3. cache' \in [Tenants -> [Keys -> Entries \cup {NoEntry}]]
    BY <1>3, <2>2 DEF Approve, Store, Entries
  <2>4. granted' \in [Tenants -> [Keys -> Schemas \cup {NoEntry}]]
    BY <1>3, <2>2 DEF Approve
  <2> QED
    BY <1>3, <2>3, <2>4 DEF Approve, runVars
<1>4. ASSUME NEW i \in Ids, ReextractFails(i) PROVE TypeOK'
  BY <1>4 DEF ReextractFails, runVars
<1>5. ASSUME NEW t \in Tenants, NEW k \in Keys, Invalidate(t, k) PROVE TypeOK'
  BY <1>5 DEF Invalidate, runVars
<1>6. CASE Tick
  <2>1. ASSUME NEW i \in Ids, pending[i] # NoEntry PROVE Older(pending[i]) \in PendingEntries
    BY <2>1 DEF Older, PendingEntries
  <2> QED
    BY <1>6, <2>1 DEF Tick, runVars
<1>7. CASE Restart
  BY <1>7 DEF Restart, Free, NoSchemas, Runs, Run, Schemas, Empty
<1> QED
  BY <1>1, <1>2, <1>3, <1>4, <1>5, <1>6, <1>7 DEF Requests

LEMMA TypeStep == TypeOK /\ [Next]_vars => TypeOK'
<1>1. ASSUME TypeOK, UNCHANGED vars PROVE TypeOK'
  BY <1>1 DEF TypeOK, vars, runVars, storeVars
<1> QED
  BY <1>1, ExtractionTypes, RequestTypes DEF Next

(* The run, the budget and both stores keep their types. *)
THEOREM TypeCorrect == Spec => []TypeOK
BY InitTypes, TypeStep, PTL DEF Spec

(* An approved entry is the schema granted last for its key, and stays so   *)
(* over everything discovery stores. *)
LEMMA GrantedStep ==
  TypeOK /\ LookupIsGranted /\ [Next]_vars => LookupIsGranted'
<1> SUFFICES ASSUME TypeOK, LookupIsGranted, [Next]_vars PROVE LookupIsGranted'
  OBVIOUS
<1> USE DEF LookupIsGranted, Lookup
<1>1. CASE UNCHANGED <<cache, granted>>
  BY <1>1
<1>2. CASE Discover
  <2>1. PICK k \in Keys, s \in Schemas : StoreDiscovered(run.tenant, k, s)
    BY <1>2 DEF Discover
  <2>2. granted' = granted
    BY <1>2 DEF Discover
  <2> QED
    BY <2>1, <2>2 DEF StoreDiscovered, Store, TypeOK
<1>3. ASSUME NEW t \in Tenants, NEW i \in Ids, Approve(t, i) PROVE LookupIsGranted'
  <2>1. pending[i].key \in Keys
    BY <1>3 DEF Approve, Pending, TypeOK, PendingEntries
  <2> QED
    BY <1>3, <2>1 DEF Approve, Store, TypeOK
<1>4. ASSUME NEW t \in Tenants, NEW k \in Keys, Invalidate(t, k) PROVE LookupIsGranted'
  BY <1>4 DEF Invalidate, TypeOK
<1>5. CASE Restart
  BY <1>5 DEF Restart, NoSchemas
<1>6. Extraction => Discover \/ UNCHANGED <<cache, granted>>
  BY DEF Extraction, DiscoverAbstains, Raises, ExtractFields, ExtractTable, Finish, storeVars
<1>7. ASSUME NEW t \in Tenants, Start(t) PROVE UNCHANGED <<cache, granted>>
  BY <1>7 DEF Start, storeVars
<1>8. ASSUME NEW t \in Tenants, NEW i \in Ids, StorePending(t, i)
      PROVE  UNCHANGED <<cache, granted>>
  BY <1>8 DEF StorePending
<1>9. Tick => UNCHANGED <<cache, granted>>
  BY DEF Tick
<1>10. ASSUME NEW i \in Ids, ReextractFails(i) PROVE UNCHANGED <<cache, granted>>
  BY <1>10 DEF ReextractFails
<1> QED
  BY <1>1, <1>2, <1>3, <1>4, <1>5, <1>6, <1>7, <1>8, <1>9, <1>10
  DEF Next, Requests, vars, storeVars

(* lookup only returns what the tenant itself approved last, whatever       *)
(* discovery has stored since. *)
THEOREM ServedSchemasAreGranted == Spec => []LookupIsGranted
<1>1. Init => LookupIsGranted
  BY DEF Init, StoresInit, NoSchemas, LookupIsGranted, Lookup
<1> QED
  BY <1>1, TypeCorrect, GrantedStep, PTL DEF Spec

(* An id is only ever stored once: what is pending or spent has been given   *)
(* out. *)
IdsInv ==
  /\ ApprovedOnce
  /\ spent \subseteq issued
  /\ \A i \in Ids : pending[i] # NoEntry => i \in issued

LEMMA IdsStep ==
  TypeOK /\ IdsInv /\ [Next]_vars => IdsInv'
<1> SUFFICES ASSUME TypeOK, IdsInv, [Next]_vars PROVE IdsInv'
  OBVIOUS
<1> USE DEF IdsInv, ApprovedOnce, TypeOK
<1>1. CASE UNCHANGED <<pending, issued, spent>>
  BY <1>1
<1>2. ASSUME NEW t \in Tenants, NEW i \in Ids, StorePending(t, i) PROVE IdsInv'
  BY <1>2 DEF StorePending
<1>3. ASSUME NEW i \in Ids, ReextractFails(i) PROVE IdsInv'
  BY <1>3 DEF ReextractFails
<1>4. ASSUME NEW t \in Tenants, NEW i \in Ids, Approve(t, i) PROVE IdsInv'
  BY <1>4 DEF Approve, Pending
<1>5. CASE Tick
  BY <1>5 DEF Tick
<1>6. CASE Restart
  BY <1>6 DEF Restart
<1>7. Extraction => UNCHANGED <<pending, issued, spent>>
  BY DEF Extraction, DiscoverAbstains, Discover, Raises, ExtractFields, ExtractTable, Finish,
         storeVars
<1>8. ASSUME NEW t \in Tenants, Start(t) PROVE UNCHANGED <<pending, issued, spent>>
  BY <1>8 DEF Start, storeVars
<1>9. ASSUME NEW t \in Tenants, NEW k \in Keys, Invalidate(t, k)
      PROVE  UNCHANGED <<pending, issued, spent>>
  BY <1>9 DEF Invalidate
<1> QED
  BY <1>1, <1>2, <1>3, <1>4, <1>5, <1>6, <1>7, <1>8, <1>9
  DEF Next, Requests, vars, storeVars

(* No pending id is ever approved twice. *)
THEOREM IdsAreSpentOnce == Spec => []ApprovedOnce
<1>1. Init => IdsInv
  BY DEF Init, StoresInit, IdsInv, ApprovedOnce
<1>2. IdsInv => ApprovedOnce
  BY DEF IdsInv
<1> QED
  BY <1>1, <1>2, TypeCorrect, IdsStep, PTL DEF Spec

(* How far an extraction has got with its schema. *)
AnsweredInv ==
  /\ run.pc = "tables" =>
       /\ run.found \cup run.missing = run.schema.fields
       /\ run.found \cap run.missing = {}
       /\ run.read \cup run.unread \subseteq run.schema.tables
       /\ run.read \cap run.unread = {}
  /\ EveryDefinitionAnswered

LEMMA AnsweredStep ==
  TypeOK /\ AnsweredInv /\ [Next]_vars => AnsweredInv'
<1> SUFFICES ASSUME TypeOK, AnsweredInv, [Next]_vars PROVE AnsweredInv'
  OBVIOUS
<1> USE DEF AnsweredInv, EveryDefinitionAnswered
<1>1. CASE UNCHANGED run
  BY <1>1
<1>2. CASE DiscoverAbstains
  BY <1>2 DEF DiscoverAbstains, Run, Empty
<1>3. CASE Discover
  BY <1>3 DEF Discover, Run
<1>4. CASE ExtractFields
  BY <1>4 DEF ExtractFields, FieldsAnswered, Run
<1>5. ASSUME NEW b \in Tables, ExtractTable(b) PROVE AnsweredInv'
  BY <1>5 DEF ExtractTable, Reads, Run
<1>6. CASE Finish
  BY <1>6 DEF Finish, Run
<1>7. ASSUME NEW t \in Tenants, Start(t) PROVE AnsweredInv'
  BY <1>7 DEF Start, Run
<1>8. CASE Restart
  BY <1>8 DEF Restart, Run
<1>9. ASSUME NEW t \in Tenants, NEW i \in Ids, StorePending(t, i) \/ Approve(t, i)
      PROVE  UNCHANGED run
  BY <1>9 DEF StorePending, Approve, runVars
<1>10. ASSUME NEW i \in Ids, ReextractFails(i) PROVE UNCHANGED run
  BY <1>10 DEF ReextractFails, runVars
<1>11. ASSUME NEW t \in Tenants, NEW k \in Keys, Invalidate(t, k) PROVE UNCHANGED run
  BY <1>11 DEF Invalidate, runVars
<1>12. Tick => UNCHANGED run
  BY DEF Tick, runVars
<1>13. CASE Raises
  BY <1>13 DEF Raises, Run
<1> QED
  BY <1>1, <1>2, <1>3, <1>4, <1>5, <1>6, <1>7, <1>8, <1>9, <1>10, <1>11, <1>12, <1>13
  DEF Next, Extraction, Requests, vars, runVars

(* Each field and table of a discovered schema ends as extracted or as an   *)
(* abstention, never as both or neither. *)
THEOREM DefinitionsAreAnswered == Spec => []EveryDefinitionAnswered
<1>1. Init => AnsweredInv
  BY DEF Init, Run, AnsweredInv, EveryDefinitionAnswered
<1>2. AnsweredInv => EveryDefinitionAnswered
  BY DEF AnsweredInv
<1> QED
  BY <1>1, <1>2, TypeCorrect, AnsweredStep, PTL DEF Spec

LEMMA BudgetStep ==
  TypeOK /\ OneCallOver /\ [Next]_vars => OneCallOver'
<1> SUFFICES ASSUME TypeOK, OneCallOver, [Next]_vars PROVE OneCallOver'
  OBVIOUS
<1> USE BudgetAssumption DEF OneCallOver, TypeOK
<1>1. CASE UNCHANGED <<action, used>>
  BY <1>1
<1>2. ASSUME CanProceed, Pay, UNCHANGED action PROVE OneCallOver'
  BY <1>2 DEF CanProceed, Pay
<1>3. ASSUME NEW t \in Tenants, Start(t) PROVE OneCallOver'
  BY <1>3 DEF Start
<1>4. DiscoverAbstains \/ Discover \/ Raises \/ ExtractFields
        => UNCHANGED action /\ ((CanProceed /\ Pay) \/ UNCHANGED used)
  BY DEF DiscoverAbstains, Discover, Raises, ExtractFields, FieldsAnswered, Free
<1>5. ASSUME NEW b \in Tables, ExtractTable(b)
      PROVE  UNCHANGED action /\ ((CanProceed /\ Pay) \/ UNCHANGED used)
  BY <1>5 DEF ExtractTable, Free
<1>6. Finish \/ Tick \/ Restart => UNCHANGED <<action, used>>
  BY DEF Finish, Tick, Restart, Free, runVars
<1>7. ASSUME NEW t \in Tenants, NEW i \in Ids,
             StorePending(t, i) \/ Approve(t, i)
      PROVE  UNCHANGED <<action, used>>
  BY <1>7 DEF StorePending, Approve, runVars
<1>8. ASSUME NEW i \in Ids, ReextractFails(i) PROVE UNCHANGED <<action, used>>
  BY <1>8 DEF ReextractFails, runVars
<1>9. ASSUME NEW t \in Tenants, NEW k \in Keys, Invalidate(t, k)
      PROVE  UNCHANGED <<action, used>>
  BY <1>9 DEF Invalidate, runVars
<1> QED
  BY <1>1, <1>2, <1>3, <1>4, <1>5, <1>6, <1>7, <1>8, <1>9
  DEF Next, Extraction, Requests, vars, runVars

(* With the action "skip" one discovery with its extraction overruns its own *)
(* budget by one call at most, however many fields and tables the model      *)
(* proposes. *)
THEOREM BudgetHolds == Spec => []OneCallOver
<1>1. Init => OneCallOver
  BY BudgetAssumption DEF Init, OneCallOver
<1> QED
  BY <1>1, TypeCorrect, BudgetStep, PTL DEF Spec
=============================================================================
