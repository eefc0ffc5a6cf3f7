-------------------------- MODULE TemplateLearning --------------------------
(***************************************************************************)
(* The template tier: routing a document (pipeline/schemas/router.py), the *)
(* learn lock, the Postgres template store, and the corrections that       *)
(* quarantine a template (api/routes/feedback.py).                         *)
(*                                                                         *)
(* A document is one routing call.  Discovery, extraction and synthesis    *)
(* never suspend, so they belong to the step that misses under the lock;   *)
(* the store's queries do suspend, and other documents and corrections     *)
(* run between them.  A template is known by its maker (the document it    *)
(* was learned from, or Seed) and by what it reads of each layout: how     *)
(* many fields and tables, 0 when it abstains.  Tenants without VLM take   *)
(* the synchronous route, which never looks at the store.                  *)
(***************************************************************************)
EXTENDS Naturals, Sequences

CONSTANTS
  Docs, Tenants, Layouts,
  Keys,          \* the fingerprint keys of the theme
  Scores,        \* how much a template may read of a layout
  TenantOf, LayoutOf,
  Themed,        \* the layouts in which detect_theme finds the theme
  BuiltIn,       \* what the built-in extractor makes of a document
  Global, Seed, SeedKey, SeedScore,   \* tenant '*' and SEED_TEMPLATES
  NoTemplate,
  MaxCorrections,  \* bound: corrections each tenant submits
  MaxErrors        \* bound: store queries, or VLM calls, that raise

Makers    == Docs \union {Seed}
Templates == [maker : Makers, version : Nat \ {0},
              score : [Layouts -> Scores]]
NoDraft   == [key |-> SeedKey, maker |-> Seed, version |-> 1, score |-> SeedScore]

ASSUME LearningAssumption ==
  /\ TenantOf \in [Docs -> Tenants] /\ LayoutOf \in [Docs -> Layouts]
  /\ Themed \subseteq Layouts
  /\ BuiltIn \in [Docs -> {"unknown", "empty", "partial"}]
  /\ Global \notin Tenants /\ Seed \notin Docs /\ SeedKey \in Keys
  /\ 0 \in Scores /\ Scores \subseteq Nat /\ SeedScore \in [Layouts -> Scores]
  /\ MaxCorrections \in Nat /\ MaxErrors \in Nat

VARIABLES
  store,         \* table schema_templates
  quarantined,   \* table template_quarantine
  lock,          \* per tenant and layout: holder first, then the waiters
  pc,            \* where the document's routing is
  draft,         \* the template being saved, and its key
  asked,         \* the document has been through VLM discovery
  result,        \* what the routing returned
  served,        \* <<key, maker>> of the template that served it
  corrected,     \* history: <<tenant, maker>> of templates found wrong
  corrections, errors

docVars  == <<pc, draft, asked, result, served>>
userVars == <<corrected, corrections>>
vars     == <<store, quarantined, lock, docVars, userVars, errors>>

TypeOK ==
  /\ store \in [Tenants \union {Global} -> [Keys -> Templates \union {NoTemplate}]]
  /\ quarantined \subseteq Tenants \X Keys
  /\ lock \in [Tenants -> [Layouts -> Seq(Docs)]]
  /\ pc \in [Docs -> {"new", "locking", "saving", "writing", "done"}]
  /\ draft \in [Docs -> [key : Keys, maker : Makers,
                        version : Nat \ {0}, score : [Layouts -> Scores]]]
  /\ asked \in [Docs -> BOOLEAN]
  /\ result \in [Docs -> {"none", "template", "discovered", "unknown", "builtin", "failed"}]
  /\ served \in [Docs -> Keys \X Makers]
  /\ corrected \subseteq Tenants \X Makers
  /\ corrections \in [Tenants -> 0 .. MaxCorrections] /\ errors \in 0 .. MaxErrors

Init ==
  /\ store = [t \in Tenants \union {Global} |-> [k \in Keys |->
       IF t = Global /\ k = SeedKey
       THEN [maker |-> Seed, version |-> 1, score |-> SeedScore] ELSE NoTemplate]]
  /\ quarantined = {}
  /\ lock = [t \in Tenants |-> [l \in Layouts |-> <<>>]]
  /\ pc = [d \in Docs |-> "new"]
  /\ draft = [d \in Docs |-> NoDraft]
  /\ asked = [d \in Docs |-> FALSE]
  /\ result = [d \in Docs |-> "none"]
  /\ served = [d \in Docs |-> <<SeedKey, Seed>>]
  /\ corrected = {} /\ corrections = [t \in Tenants |-> 0] /\ errors = 0
-----------------------------------------------------------------------------
\* Mutant: the query forgets the quarantine.
VisibleThroughQuarantine(t) ==
  {r \in {t, Global} \X Keys : store[r[1]][r[2]] # NoTemplate}
\* find_in_theme: <<owner, key>> of every row of the tenant and of '*', minus
\* the keys the tenant has quarantined.
Visible(t) ==
  {r \in {t, Global} \X Keys :
     store[r[1]][r[2]] # NoTemplate /\ <<t, r[2]>> \notin quarantined}

\* _try_theme_templates: the rows that extract cleanly; of those one that
\* extracts the most wins, and among equals the query's order decides.
Score(r, l) == store[r[1]][r[2]].score[l]
Clean(d) ==
  {r \in Visible(TenantOf[d]) : LayoutOf[d] \in Themed /\ Score(r, LayoutOf[d]) > 0}
Hits(d) ==
  {r \in Clean(d) : \A s \in Clean(d) : Score(s, LayoutOf[d]) =< Score(r, LayoutOf[d])}

\* The escalation to discovery: any unknown schema, or a themed document of
\* which the built-in extractor made nothing.
Discovers(d) ==
  \/ BuiltIn[d] = "unknown"
  \/ BuiltIn[d] = "empty" /\ LayoutOf[d] \in Themed

Fallback(d) == IF BuiltIn[d] = "unknown" THEN "unknown" ELSE "builtin"

Finish(d, value) ==
  /\ pc' = [pc EXCEPT ![d] = "done"]
  /\ result' = [result EXCEPT ![d] = value]

ServeBy(d, r) ==
  /\ Finish(d, "template")
  /\ served' = [served EXCEPT ![d] = <<r[2], store[r[1]][r[2]].maker>>]
  /\ UNCHANGED <<draft, asked>>

\* asyncio.Lock: a FIFO per key; the lock is given up on every way out of guard.
Queue(d)   == lock[TenantOf[d]][LayoutOf[d]]
Holds(d)   == Queue(d) # <<>> /\ Head(Queue(d)) = d
Acquire(d) == lock' = [lock EXCEPT ![TenantOf[d]][LayoutOf[d]] = Append(@, d)]
Release(d) == lock' = [lock EXCEPT ![TenantOf[d]][LayoutOf[d]] = Tail(@)]

Raise == errors < MaxErrors /\ errors' = errors + 1
-----------------------------------------------------------------------------
\* route_and_extract_async up to the learn lock.
Route(d) ==
  /\ pc[d] = "new"
  /\ \/ \E r \in Hits(d) : ServeBy(d, r) /\ UNCHANGED lock
     \/ /\ Clean(d) = {} /\ Discovers(d)
        /\ pc' = [pc EXCEPT ![d] = "locking"] /\ Acquire(d)
        /\ UNCHANGED <<draft, asked, result, served>>
     \/ /\ Clean(d) = {} /\ ~Discovers(d) /\ Finish(d, Fallback(d))
        /\ UNCHANGED <<lock, draft, asked, served>>
  /\ UNCHANGED <<store, quarantined, userVars, errors>>

\* The first query raises: the pipeline run fails.
RouteRaises(d) ==
  /\ pc[d] = "new" /\ LayoutOf[d] \in Themed
  /\ Raise /\ Finish(d, "failed")
  /\ UNCHANGED <<store, quarantined, lock, draft, asked, served, userVars>>

\* _locked_discover, the double check finds a template.
RecheckHits(d) ==
  /\ pc[d] = "locking" /\ Holds(d)
  /\ \E r \in Hits(d) : ServeBy(d, r)
  /\ Release(d)
  /\ UNCHANGED <<store, quarantined, userVars, errors>>

\* Mutant: no second look at the store under the lock.
DiscoverUnchecked(d) ==
  /\ pc[d] = "locking" /\ Holds(d)
  /\ asked' = [asked EXCEPT ![d] = TRUE]
  /\ \E k \in Keys, sc \in [Layouts -> Scores] :
          /\ LayoutOf[d] \in Themed
          /\ draft' = [draft EXCEPT ![d] =
               [key |-> k, maker |-> d, version |-> 1, score |-> sc]]
          /\ pc' = [pc EXCEPT ![d] = "saving"]
  /\ UNCHANGED <<store, quarantined, lock, result, served, userVars, errors>>

\* _discover_and_learn up to its first await: discovery abstains (breaker
\* open, budget spent, unreadable answer), or extracts and synthesises nothing
\* to save, or drafts a template under whatever key the VLM's labels give.
Discover(d) ==
  /\ pc[d] = "locking" /\ Holds(d) /\ Clean(d) = {}
  /\ asked' = [asked EXCEPT ![d] = TRUE]
  /\ \/ \E value \in {Fallback(d), "discovered"} :
          Finish(d, value) /\ Release(d) /\ UNCHANGED draft
     \/ \E k \in Keys, sc \in [Layouts -> Scores] :
          /\ LayoutOf[d] \in Themed
          /\ draft' = [draft EXCEPT ![d] =
               [key |-> k, maker |-> d, version |-> 1, score |-> sc]]
          /\ pc' = [pc EXCEPT ![d] = "saving"]
          /\ UNCHANGED <<lock, result>>
  /\ UNCHANGED <<store, quarantined, served, userVars, errors>>

\* The second query, or the VLM client, raises inside the guard.
DiscoverRaises(d) ==
  /\ pc[d] = "locking" /\ Holds(d)
  /\ Raise /\ Finish(d, "failed") /\ Release(d)
  /\ UNCHANGED <<store, quarantined, draft, asked, served, userVars>>

\* save: read the version to overwrite.
SaveReads(d) ==
  LET old == store[TenantOf[d]][draft[d].key] IN
  /\ pc[d] = "saving"
  /\ draft' = [draft EXCEPT ![d].version = IF old = NoTemplate THEN @ ELSE old.version + 1]
  /\ pc' = [pc EXCEPT ![d] = "writing"]
  /\ UNCHANGED <<store, quarantined, lock, asked, result, served, userVars, errors>>

\* save: upsert, lift the quarantine, commit; then the extraction is returned,
\* and just so when the commit took effect and its answer was lost.
SaveCommits(d) ==
  LET t == TenantOf[d]
      k == draft[d].key IN
  /\ pc[d] = "writing"
  /\ store' = [store EXCEPT ![t][k] =
       [maker |-> d, version |-> draft[d].version, score |-> draft[d].score]]
  /\ quarantined' = quarantined \ {<<t, k>>}
  /\ Finish(d, "discovered") /\ Release(d)
  /\ UNCHANGED errors \/ Raise
  /\ UNCHANGED <<draft, asked, served, userVars>>

\* Mutant: the error path keeps the lock.
SaveRaisesHolding(d) ==
  /\ pc[d] \in {"saving", "writing"}
  /\ Raise /\ Finish(d, "discovered") /\ UNCHANGED lock
  /\ UNCHANGED <<store, quarantined, draft, asked, served, userVars>>

\* save raises and nothing is stored: learning is best effort, the extraction is returned all the same.
SaveRaises(d) ==
  /\ pc[d] \in {"saving", "writing"}
  /\ Raise /\ Finish(d, "discovered") /\ Release(d)
  /\ UNCHANGED <<store, quarantined, draft, asked, served, userVars>>

\* Mutant: the quarantine is not per tenant.
CorrectForAll(d) ==
  /\ result[d] = "template" /\ corrections[TenantOf[d]] < MaxCorrections
  /\ quarantined' = quarantined \union (Tenants \X {served[d][1]})
  /\ corrected' = corrected \union {<<TenantOf[d], served[d][2]>>}
  /\ corrections' = [corrections EXCEPT ![TenantOf[d]] = @ + 1]
  /\ UNCHANGED <<store, lock, docVars, errors>>

\* submit_correction of a job a template extracted.  Any other correction only
\* adds a feedback row, and so does one whose quarantine fails.
Correct(d) ==
  /\ result[d] = "template" /\ corrections[TenantOf[d]] < MaxCorrections
  /\ quarantined' = quarantined \union {<<TenantOf[d], served[d][1]>>}
  /\ corrected' = corrected \union {<<TenantOf[d], served[d][2]>>}
  /\ corrections' = [corrections EXCEPT ![TenantOf[d]] = @ + 1]
  /\ UNCHANGED <<store, lock, docVars, errors>>
-----------------------------------------------------------------------------
RunStep(d) ==
  \/ RecheckHits(d) \/ Discover(d) \/ DiscoverRaises(d)
  \/ SaveReads(d) \/ SaveCommits(d) \/ SaveRaises(d)

Next == \E d \in Docs : Route(d) \/ RouteRaises(d) \/ RunStep(d) \/ Correct(d)

\* The event loop runs every task that is ready.
Fairness == \A d \in Docs : WF_vars(RunStep(d))

Spec == Init /\ [][Next]_vars /\ Fairness
-----------------------------------------------------------------------------
\* A batch of documents of one themed layout pays for one discovery: nobody
\* asks the VLM while another document of the tenant and layout is saving what
\* it learned, nor while what one of them learned is on offer and reads the
\* layout.  Only a failed or fruitless learning, a correction or an overwritten
\* key makes a second discovery (the promise of learn_lock.py).
SameBatch(d, e) == TenantOf[d] = TenantOf[e] /\ LayoutOf[d] = LayoutOf[e]
Learnt(d, e) ==
  \/ pc[e] \in {"saving", "writing"}
  \/ \E k \in Keys :
       LET row == store[TenantOf[d]][k] IN
       /\ row # NoTemplate /\ row.maker = e /\ row.score[LayoutOf[d]] > 0
       /\ <<TenantOf[d], k>> \notin quarantined

OneDiscoveryPerBatch ==
  [][\A d, e \in Docs :
       /\ asked'[d] /\ ~asked[d] /\ LayoutOf[d] \in Themed
       /\ d # e /\ SameBatch(d, e)
       => ~Learnt(d, e)]_vars

\* Once a tenant has corrected a job, the template that extracted it serves
\* none of that tenant's later documents, whatever is learned meanwhile under
\* the same key: here for the templates the tenant learned itself.
Served(d) == result'[d] = "template" /\ result[d] # "template"

CorrectedLearnedStaysGone ==
  [][\A d \in Docs : Served(d) /\ served'[d][2] # Seed
       => <<TenantOf[d], served'[d][2]>> \notin corrected]_vars

\* What one tenant's documents and corrections do never changes which
\* templates another tenant is offered, nor what they read.
Offer(t) == {<<r, store[r[1]][r[2]]>> : r \in Visible(t)}

TenantsAreIsolated ==
  [][\A t \in Tenants :
       (\A d \in Docs : TenantOf[d] = t => UNCHANGED pc[d]) /\ UNCHANGED corrections[t]
         => UNCHANGED Offer(t)]_vars

\* No document is left waiting for a learn lock: again and again nobody is
\* under way, however each holder left (learn_lock.py, guard).
EveryRunEnds == []<>(\A d \in Docs : pc[d] \notin {"locking", "saving", "writing"})
=============================================================================
