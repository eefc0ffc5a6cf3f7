----------------------- MODULE TemplateLearningProofs -----------------------
(***************************************************************************)
(* Theorems about TemplateLearning, for any documents, tenants, layouts,   *)
(* keys and scores.                                                        *)
(***************************************************************************)
EXTENDS TemplateLearning, TLAPS

-----------------------------------------------------------------------------
(***************************************************************************)
(* The learn lock.                                                         *)
(***************************************************************************)

\* Whoever learns holds the lock of its tenant and layout.
LockTypeOK ==
  /\ lock \in [Tenants -> [Layouts -> Seq(Docs)]]
  /\ pc \in [Docs -> {"new", "locking", "saving", "writing", "done"}]
  /\ asked \in [Docs -> BOOLEAN]
LearnerHolds == \A d \in Docs : pc[d] \in {"saving", "writing"} => Holds(d)

LockInv == LockTypeOK /\ LearnerHolds

\* Joining a queue does not take the lock from whoever has it.
LEMMA AcquireKeepsHolders ==
  ASSUME LockTypeOK, NEW d \in Docs, NEW e \in Docs, Acquire(d), Holds(e)
  PROVE  Holds(e)'
<1> DEFINE t == TenantOf[e]
           l == LayoutOf[e]
<1>1. t \in Tenants /\ l \in Layouts /\ TenantOf[d] \in Tenants /\ LayoutOf[d] \in Layouts
  BY LearningAssumption
<1>2. lock[t][l] \in Seq(Docs) /\ lock[t][l] # <<>> /\ Head(lock[t][l]) = e
  BY <1>1 DEF LockTypeOK, Holds, Queue
<1>3. lock'[t][l] = lock[t][l] \/ lock'[t][l] = Append(lock[t][l], d)
  BY <1>1 DEF Acquire, LockTypeOK
<1>4. Append(lock[t][l], d) # <<>> /\ Head(Append(lock[t][l], d)) = e
  BY <1>2
<1> QED
  BY <1>2, <1>3, <1>4 DEF Holds, Queue

\* Giving the lock up takes it from nobody else.
LEMMA ReleaseKeepsOthers ==
  ASSUME LockTypeOK, NEW d \in Docs, NEW e \in Docs, e # d, Holds(d), Holds(e), Release(d)
  PROVE  Holds(e)'
<1>1. /\ TenantOf[e] \in Tenants /\ LayoutOf[e] \in Layouts
      /\ TenantOf[d] \in Tenants /\ LayoutOf[d] \in Layouts
  BY LearningAssumption
<1>2. TenantOf[d] # TenantOf[e] \/ LayoutOf[d] # LayoutOf[e]
  BY DEF Holds, Queue
<1>3. lock'[TenantOf[e]][LayoutOf[e]] = lock[TenantOf[e]][LayoutOf[e]]
  BY <1>1, <1>2 DEF Release, LockTypeOK
<1> QED
  BY <1>3 DEF Holds, Queue

\* The queues keep their types.
LEMMA QueueTypes ==
  ASSUME LockTypeOK, NEW d \in Docs, Acquire(d) \/ (Holds(d) /\ Release(d)) \/ UNCHANGED lock
  PROVE  lock' \in [Tenants -> [Layouts -> Seq(Docs)]]
<1> DEFINE t == TenantOf[d]
           l == LayoutOf[d]
<1>1. t \in Tenants /\ l \in Layouts
  BY LearningAssumption
<1>2. lock[t][l] \in Seq(Docs)
  BY <1>1 DEF LockTypeOK
<1>3. Append(lock[t][l], d) \in Seq(Docs)
  BY <1>2
<1>4. CASE Acquire(d)
  BY <1>1, <1>3, <1>4 DEF Acquire, LockTypeOK
<1>5. CASE Holds(d) /\ Release(d)
  <2>1. Tail(lock[t][l]) \in Seq(Docs)
    BY <1>2, <1>5 DEF Holds, Queue
  <2> QED
    BY <1>1, <2>1, <1>5 DEF Release, LockTypeOK
<1> QED
  BY <1>4, <1>5 DEF LockTypeOK

\* One step of one document.
LEMMA LockStep ==
  ASSUME LockInv, NEW d \in Docs,
         Route(d) \/ RouteRaises(d) \/ RunStep(d) \/ Correct(d)
  PROVE  LockInv'
<1> USE DEF LockInv
<1>1. /\ Acquire(d) \/ (Holds(d) /\ Release(d)) \/ UNCHANGED lock
      /\ pc' \in [Docs -> {"new", "locking", "saving", "writing", "done"}]
      /\ asked' \in [Docs -> BOOLEAN]
      /\ \A e \in Docs \ {d} : pc'[e] = pc[e]
      /\ pc'[d] \in {"saving", "writing"} => Holds(d) /\ UNCHANGED lock
  <2>1. CASE Route(d)
    BY <2>1 DEF Route, ServeBy, Finish, LockTypeOK
  <2>2. CASE RouteRaises(d)
    BY <2>2 DEF RouteRaises, Finish, LockTypeOK
  <2>3. CASE RecheckHits(d)
    BY <2>3 DEF RecheckHits, ServeBy, Finish, LockTypeOK
  <2>4. CASE Discover(d)
    BY <2>4 DEF Discover, Finish, LockTypeOK
  <2>5. CASE DiscoverRaises(d)
    BY <2>5 DEF DiscoverRaises, Finish, LockTypeOK
  <2>6. CASE SaveReads(d)
    BY <2>6 DEF SaveReads, LearnerHolds, LockTypeOK
  <2>7. CASE SaveCommits(d)
    BY <2>7 DEF SaveCommits, Finish, LearnerHolds, LockTypeOK
  <2>8. CASE SaveRaises(d)
    BY <2>8 DEF SaveRaises, Finish, LearnerHolds, LockTypeOK
  <2>9. CASE Correct(d)
    BY <2>9 DEF Correct, docVars, LearnerHolds, LockTypeOK
  <2> QED
    BY <2>1, <2>2, <2>3, <2>4, <2>5, <2>6, <2>7, <2>8, <2>9 DEF RunStep
<1>2. LockTypeOK'
  BY <1>1, QueueTypes DEF LockTypeOK
<1>3. ASSUME NEW e \in Docs, pc'[e] \in {"saving", "writing"}
      PROVE  Holds(e)'
  <2>1. CASE e = d
    BY <2>1, <1>1, <1>3 DEF Holds, Queue
  <2>2. CASE e # d
    <3>1. Holds(e)
      BY <2>2, <1>1, <1>3 DEF LearnerHolds
    <3>2. CASE UNCHANGED lock
      BY <3>1, <3>2 DEF Holds, Queue
    <3>3. CASE Acquire(d)
      BY <3>1, <3>3, AcquireKeepsHolders
    <3>4. CASE Holds(d) /\ Release(d)
      BY <2>2, <3>1, <3>4, ReleaseKeepsOthers
    <3> QED
      BY <1>1, <3>2, <3>3, <3>4
  <2> QED
    BY <2>1, <2>2
<1> QED
  BY <1>2, <1>3 DEF LearnerHolds

\* Learners hold their lock throughout.
LEMMA LockInvariance == Spec => []LockInv
<1>1. Init => LockInv
  BY LearningAssumption DEF Init, LockInv, LockTypeOK, LearnerHolds
<1>2. LockInv /\ [Next]_vars => LockInv'
  <2> SUFFICES ASSUME LockInv, [Next]_vars PROVE LockInv'
    OBVIOUS
  <2>1. CASE Next
    BY <2>1, LockStep DEF Next
  <2>2. CASE UNCHANGED vars
    BY <2>2 DEF vars, docVars, LockInv, LockTypeOK, LearnerHolds, Holds, Queue
  <2> QED
    BY <2>1, <2>2
<1> QED
  BY <1>1, <1>2, PTL DEF Spec

\* Documents of one batch pay for one discovery (router.py, _locked_discover):
\* whatever number of them arrive together, and whatever the VLM answers.
THEOREM DiscoveriesAreShared == Spec => OneDiscoveryPerBatch
<1>1. ASSUME LockInv, [Next]_vars, NEW d \in Docs, NEW e \in Docs,
             asked'[d], ~asked[d], LayoutOf[d] \in Themed, d # e, SameBatch(d, e)
      PROVE  ~Learnt(d, e)
  <2>1. PICK c \in Docs : Route(c) \/ RouteRaises(c) \/ RunStep(c) \/ Correct(c)
    <3>1. ~UNCHANGED vars
      BY <1>1 DEF vars, docVars
    <3> QED
      BY <1>1, <3>1 DEF Next
  <2>2. Discover(c) /\ c = d
    BY <1>1, <2>1 DEF LockInv, LockTypeOK, RunStep, Route, RouteRaises, RecheckHits,
       ServeBy, Finish, Discover, DiscoverRaises, SaveReads, SaveCommits, SaveRaises,
       Correct, docVars
  <2>3. Holds(d) /\ Clean(d) = {}
    BY <2>2 DEF Discover
  <2>4. pc[e] \notin {"saving", "writing"}
    BY <2>3, <1>1 DEF LockInv, LearnerHolds, Holds, Queue, SameBatch
  <2>5. ASSUME NEW k \in Keys, store[TenantOf[d]][k] # NoTemplate,
               store[TenantOf[d]][k].score[LayoutOf[d]] > 0,
               <<TenantOf[d], k>> \notin quarantined
        PROVE  FALSE
    <3>1. <<TenantOf[d], k>> \in Clean(d)
      BY <1>1, <2>5 DEF Clean, Visible, Score
    <3> QED
      BY <3>1, <2>3
  <2> QED
    BY <2>4, <2>5 DEF Learnt
<1>2. LockInv /\ [Next]_vars => [\A d, e \in Docs :
        /\ asked'[d] /\ ~asked[d] /\ LayoutOf[d] \in Themed
        /\ d # e /\ SameBatch(d, e)
        => ~Learnt(d, e)]_vars
  BY <1>1
<1> QED
  BY <1>2, LockInvariance, PTL DEF Spec, OneDiscoveryPerBatch

-----------------------------------------------------------------------------
(***************************************************************************)
(* Types, and what a step leaves alone.                                    *)
(***************************************************************************)

\* A row of the store, when there is one, is a template.
LEMMA RowType ==
  ASSUME TypeOK, NEW t \in Tenants \union {Global}, NEW k \in Keys,
         store[t][k] # NoTemplate
  PROVE  store[t][k] \in Templates
BY DEF TypeOK

\* Every step of a document keeps the types.
LEMMA TypeStep ==
  ASSUME TypeOK, LearnerHolds, NEW d \in Docs,
         Route(d) \/ RouteRaises(d) \/ RunStep(d) \/ Correct(d)
  PROVE  TypeOK'
<1>1. LockTypeOK
  BY DEF TypeOK, LockTypeOK
<1>2. TenantOf[d] \in Tenants /\ LayoutOf[d] \in Layouts /\ Seed \in Makers /\ d \in Makers
  BY LearningAssumption DEF Makers
<1>3. ASSUME Acquire(d) \/ (Holds(d) /\ Release(d)) \/ UNCHANGED lock
      PROVE  lock' \in [Tenants -> [Layouts -> Seq(Docs)]]
  BY <1>1, <1>3, QueueTypes
<1>13. ASSUME Raise PROVE errors' \in 0 .. MaxErrors
  BY <1>13, LearningAssumption DEF Raise, TypeOK
<1>4. ASSUME NEW r \in Hits(d), ServeBy(d, r)
      PROVE  /\ pc' \in [Docs -> {"new", "locking", "saving", "writing", "done"}]
             /\ result' \in [Docs -> {"none", "template", "discovered", "unknown", "builtin", "failed"}]
             /\ served' \in [Docs -> Keys \X Makers]
             /\ UNCHANGED <<draft, asked>>
  <2>1. r[1] \in Tenants \union {Global} /\ r[2] \in Keys /\ store[r[1]][r[2]] # NoTemplate
    BY <1>2 DEF Hits, Clean, Visible
  <2>2. store[r[1]][r[2]].maker \in Makers
    BY <2>1, RowType DEF Templates
  <2>3. served' \in [Docs -> Keys \X Makers]
    BY <1>4, <2>1, <2>2 DEF ServeBy, TypeOK
  <2> QED
    BY <1>4, <2>3 DEF ServeBy, Finish, TypeOK
<1>5. CASE Route(d)
  <2>1. lock' \in [Tenants -> [Layouts -> Seq(Docs)]]
    BY <1>3, <1>5 DEF Route
  <2>2. CASE \E r \in Hits(d) : ServeBy(d, r) /\ UNCHANGED lock
    BY <1>4, <1>5, <2>1, <2>2 DEF Route, TypeOK, userVars
  <2>3. CASE ~\E r \in Hits(d) : ServeBy(d, r) /\ UNCHANGED lock
    BY <1>5, <2>1, <2>3 DEF Route, Finish, Fallback, TypeOK, userVars
  <2> QED
    BY <2>2, <2>3
<1>6. CASE RouteRaises(d)
  BY <1>6, <1>13 DEF RouteRaises, Finish, TypeOK, userVars
<1>7. CASE RecheckHits(d)
  <2>1. lock' \in [Tenants -> [Layouts -> Seq(Docs)]]
    BY <1>3, <1>7 DEF RecheckHits
  <2> QED
    BY <1>4, <1>7, <2>1 DEF RecheckHits, TypeOK, userVars
<1>8. CASE Discover(d)
  <2>1. lock' \in [Tenants -> [Layouts -> Seq(Docs)]]
    BY <1>3, <1>8 DEF Discover
  <2>2. CASE \E k \in Keys, sc \in [Layouts -> Scores] :
               /\ draft' = [draft EXCEPT ![d] =
                    [key |-> k, maker |-> d, version |-> 1, score |-> sc]]
               /\ pc' = [pc EXCEPT ![d] = "saving"]
               /\ UNCHANGED result
    <3>1. PICK k \in Keys, sc \in [Layouts -> Scores] :
               /\ draft' = [draft EXCEPT ![d] =
                    [key |-> k, maker |-> d, version |-> 1, score |-> sc]]
               /\ pc' = [pc EXCEPT ![d] = "saving"]
               /\ UNCHANGED result
      BY <2>2
    <3>2. [key |-> k, maker |-> d, version |-> 1, score |-> sc] \in
            [key : Keys, maker : Makers, version : Nat \ {0}, score : [Layouts -> Scores]]
      BY <1>2, <3>1
    <3>3. draft' \in [Docs -> [key : Keys, maker : Makers, version : Nat \ {0},
                               score : [Layouts -> Scores]]]
      BY <3>1, <3>2 DEF TypeOK
    <3> QED
      BY <1>8, <2>1, <3>1, <3>3 DEF Discover, TypeOK, userVars
  <2>3. CASE \E value \in {Fallback(d), "discovered"} : Finish(d, value) /\ UNCHANGED draft
    BY <1>8, <2>1, <2>3 DEF Discover, Finish, Fallback, TypeOK, userVars
  <2> QED
    BY <1>8, <2>2, <2>3 DEF Discover
<1>9. CASE DiscoverRaises(d)
  <2>1. lock' \in [Tenants -> [Layouts -> Seq(Docs)]]
    BY <1>3, <1>9 DEF DiscoverRaises
  <2> QED
    BY <1>9, <2>1, <1>13 DEF DiscoverRaises, Finish, TypeOK, userVars
<1>10. CASE SaveReads(d)
  <2> DEFINE old == store[TenantOf[d]][draft[d].key]
  <2>1. draft[d] \in [key : Keys, maker : Makers, version : Nat \ {0}, score : [Layouts -> Scores]]
    BY DEF TypeOK
  <2>2. old # NoTemplate => old.version + 1 \in Nat \ {0}
    BY <1>2, <2>1, RowType DEF Templates
  <2>3. PICK v \in Nat \ {0} : draft' = [draft EXCEPT ![d].version = v]
    BY <1>10, <2>1, <2>2 DEF SaveReads
  <2>4. draft' \in [Docs -> [key : Keys, maker : Makers, version : Nat \ {0},
                             score : [Layouts -> Scores]]]
    BY <2>3 DEF TypeOK
  <2> QED
    BY <1>10, <2>4 DEF SaveReads, TypeOK, userVars
<1>11. ASSUME SaveCommits(d) \/ SaveRaises(d)
       PROVE  TypeOK'
  <2>1. Holds(d)
    BY <1>11 DEF SaveCommits, SaveRaises, LearnerHolds
  <2>2. lock' \in [Tenants -> [Layouts -> Seq(Docs)]]
    BY <1>3, <1>11, <2>1 DEF SaveCommits, SaveRaises
  <2>3. CASE SaveCommits(d)
    <3> DEFINE row == [maker |-> d, version |-> draft[d].version, score |-> draft[d].score]
    <3>1. draft[d] \in [key : Keys, maker : Makers, version : Nat \ {0}, score : [Layouts -> Scores]]
      BY DEF TypeOK
    <3>2. row \in Templates
      BY <1>2, <3>1 DEF Templates
    <3>3. store' \in [Tenants \union {Global} -> [Keys -> Templates \union {NoTemplate}]]
      BY <1>2, <2>3, <3>1, <3>2 DEF SaveCommits, TypeOK
    <3>4. errors' \in 0 .. MaxErrors
      BY <2>3, <1>13 DEF SaveCommits, TypeOK
    <3> QED
      BY <2>2, <2>3, <3>3, <3>4 DEF SaveCommits, Finish, TypeOK, userVars
  <2>4. CASE SaveRaises(d)
    BY <2>2, <2>4, <1>13 DEF SaveRaises, Finish, TypeOK, userVars
  <2> QED
    BY <1>11, <2>3, <2>4
<1>12. CASE Correct(d)
  <2>1. served[d] \in Keys \X Makers
    BY DEF TypeOK
  <2>2. corrections' \in [Tenants -> 0 .. MaxCorrections]
    BY <1>2, <1>12, LearningAssumption DEF Correct, TypeOK
  <2> QED
    BY <1>2, <1>12, <2>1, <2>2 DEF Correct, TypeOK, docVars
<1> QED
  BY <1>5, <1>6, <1>7, <1>8, <1>9, <1>10, <1>11, <1>12 DEF RunStep

-----------------------------------------------------------------------------
(***************************************************************************)
(* Where a learned template can be, and what a correction does to it.      *)
(***************************************************************************)

\* Only seeds are global.
GlobalIsSeeded ==
  \A k \in Keys : store[Global][k] # NoTemplate => store[Global][k].maker = Seed

\* A stored template was learned by a finished document, under the key it drafted.
StoredIsDone ==
  \A t \in Tenants, k \in Keys : store[t][k] # NoTemplate =>
    /\ store[t][k].maker \in Docs
    /\ pc[store[t][k].maker] = "done" /\ draft[store[t][k].maker].key = k

\* So was a template that has served.
ServedIsDone ==
  \A d \in Docs : served[d][2] # Seed =>
    pc[served[d][2]] = "done" /\ draft[served[d][2]].key = served[d][1]

\* A corrected template the tenant learned itself is quarantined wherever it is.
CorrectedIsShadowed ==
  \A t \in Tenants, m \in Docs : <<t, m>> \in corrected =>
    /\ pc[m] = "done"
    /\ \A k \in Keys : store[t][k] # NoTemplate /\ store[t][k].maker = m
                         => <<t, k>> \in quarantined

LearningInv ==
  TypeOK /\ LearnerHolds /\ GlobalIsSeeded /\ StoredIsDone /\ ServedIsDone /\ CorrectedIsShadowed

\* A template on offer to a tenant was learned by one of its own documents, or seeded.
LEMMA HitIsOwnOrSeed ==
  ASSUME LearningInv, NEW d \in Docs, NEW r \in Hits(d)
  PROVE  LET m == store[r[1]][r[2]].maker IN
         /\ r[2] \in Keys /\ m \in Makers
         /\ m # Seed => /\ r[1] = TenantOf[d] /\ m \in Docs
                        /\ pc[m] = "done" /\ draft[m].key = r[2]
                        /\ <<TenantOf[d], m>> \notin corrected
<1>1. /\ r \in {TenantOf[d], Global} \X Keys
      /\ store[r[1]][r[2]] # NoTemplate /\ <<TenantOf[d], r[2]>> \notin quarantined
  BY DEF Hits, Clean, Visible
<1>2. TenantOf[d] \in Tenants
  BY LearningAssumption
<1>3. CASE r[1] = Global
  BY <1>1, <1>3 DEF LearningInv, GlobalIsSeeded, Makers
<1>4. CASE r[1] = TenantOf[d]
  BY <1>1, <1>2, <1>4 DEF LearningInv, StoredIsDone, CorrectedIsShadowed, Makers
<1> QED
  BY <1>1, <1>3, <1>4

\* What every step of a document keeps: finished documents, and all the rest
\* of the state unless the step serves, saves or corrects.
LEMMA DoneStays ==
  ASSUME TypeOK, NEW d \in Docs,
         Route(d) \/ RouteRaises(d) \/ RunStep(d) \/ Correct(d),
         NEW m \in Docs, pc[m] = "done"
  PROVE  pc'[m] = "done" /\ draft'[m] = draft[m]
BY DEF TypeOK, RunStep, Route, RouteRaises, RecheckHits, ServeBy, Finish, Discover,
   DiscoverRaises, SaveReads, SaveCommits, SaveRaises, Correct, docVars

\* The steps that only move a document, and those that serve it.
LEMMA ServingStep ==
  ASSUME LearningInv, NEW d \in Docs,
         Route(d) \/ RouteRaises(d) \/ RunStep(d) \/ Correct(d)
  PROVE  ServedIsDone'
<1>1. UNCHANGED served \/ \E r \in Hits(d) : ServeBy(d, r)
  BY DEF RunStep, Route, RouteRaises, RecheckHits, Discover,
     DiscoverRaises, SaveReads, SaveCommits, SaveRaises, Correct, docVars
<1>2. ASSUME NEW e \in Docs, served'[e][2] # Seed
      PROVE  pc'[served'[e][2]] = "done" /\ draft'[served'[e][2]].key = served'[e][1]
  <2>1. CASE served'[e] = served[e]
    <3>1. served[e][2] \in Docs
      BY <1>2, <2>1 DEF LearningInv, TypeOK, Makers
    <3>2. pc[served[e][2]] = "done" /\ draft[served[e][2]].key = served[e][1]
      BY <1>2, <2>1 DEF LearningInv, ServedIsDone
    <3> QED
      BY <2>1, <3>1, <3>2, DoneStays DEF LearningInv
  <2>2. CASE served'[e] # served[e]
    <3>1. PICK r \in Hits(d) : ServeBy(d, r)
      BY <1>1, <2>2
    <3>2. served'[e] = <<r[2], store[r[1]][r[2]].maker>>
      BY <2>2, <3>1 DEF ServeBy, LearningInv, TypeOK
    <3> DEFINE m == store[r[1]][r[2]].maker
    <3>3. served'[e][1] = r[2] /\ served'[e][2] = m
      BY <3>2
    <3>4. m # Seed
      BY <1>2, <3>3
    <3>5. /\ r[2] \in Keys /\ m \in Makers
          /\ m # Seed => /\ r[1] = TenantOf[d] /\ m \in Docs
                         /\ pc[m] = "done" /\ draft[m].key = r[2]
                         /\ <<TenantOf[d], m>> \notin corrected
      BY HitIsOwnOrSeed
    <3> QED
      BY <3>3, <3>4, <3>5, DoneStays DEF LearningInv
  <2> QED
    BY <2>1, <2>2
<1> QED
  BY <1>2 DEF ServedIsDone

\* Only SaveCommits writes the store, and never a global row.
LEMMA StoreStep ==
  ASSUME LearningInv, NEW d \in Docs,
         Route(d) \/ RouteRaises(d) \/ RunStep(d) \/ Correct(d)
  PROVE  GlobalIsSeeded' /\ StoredIsDone'
<1>1. CASE SaveCommits(d)
  <2> DEFINE u == TenantOf[d]
             q == draft[d].key
  <2>1. u \in Tenants /\ u # Global /\ q \in Keys
    BY LearningAssumption DEF LearningInv, TypeOK
  <2>2. store'[Global] = store[Global]
    BY <1>1, <2>1 DEF SaveCommits, LearningInv, TypeOK
  <2>3. ASSUME NEW t \in Tenants, NEW k \in Keys, store'[t][k] # NoTemplate
        PROVE  /\ store'[t][k].maker \in Docs
               /\ pc'[store'[t][k].maker] = "done" /\ draft'[store'[t][k].maker].key = k
    <3>1. CASE t = u /\ k = q
      <4>1. store'[t][k].maker = d
        BY <1>1, <2>1, <3>1 DEF SaveCommits, LearningInv, TypeOK
      <4> QED
        BY <1>1, <3>1, <4>1 DEF SaveCommits, Finish, LearningInv, TypeOK
    <3>2. CASE ~(t = u /\ k = q)
      <4>1. store'[t][k] = store[t][k]
        BY <1>1, <2>1, <3>2 DEF SaveCommits, LearningInv, TypeOK
      <4> QED
        BY <2>3, <4>1, DoneStays DEF LearningInv, StoredIsDone
    <3> QED
      BY <3>1, <3>2
  <2> QED
    BY <2>2, <2>3 DEF GlobalIsSeeded, StoredIsDone, LearningInv
<1>2. CASE UNCHANGED store
  BY <1>2, DoneStays DEF GlobalIsSeeded, StoredIsDone, LearningInv
<1> QED
  BY <1>1, <1>2 DEF RunStep, Route, RouteRaises, RecheckHits, Discover,
     DiscoverRaises, SaveReads, SaveRaises, Correct

\* A save under a new key, or of another maker, keeps corrected templates shadowed.
LEMMA CorrectionStep ==
  ASSUME LearningInv, NEW d \in Docs,
         Route(d) \/ RouteRaises(d) \/ RunStep(d) \/ Correct(d)
  PROVE  CorrectedIsShadowed'
<1> SUFFICES ASSUME NEW t \in Tenants, NEW m \in Docs, <<t, m>> \in corrected'
             PROVE  /\ pc'[m] = "done"
                    /\ \A k \in Keys : store'[t][k] # NoTemplate /\ store'[t][k].maker = m
                                         => <<t, k>> \in quarantined'
  BY DEF CorrectedIsShadowed
<1>1. CASE SaveCommits(d)
  <2>1. pc[m] = "done" /\ m # d
    BY <1>1 DEF SaveCommits, userVars, LearningInv, CorrectedIsShadowed
  <2>2. ASSUME NEW k \in Keys, store'[t][k] # NoTemplate, store'[t][k].maker = m
        PROVE  <<t, k>> \in quarantined'
    <3>1. TenantOf[d] \in Tenants /\ draft[d].key \in Keys
      BY LearningAssumption DEF LearningInv, TypeOK
    <3>2. ~(t = TenantOf[d] /\ k = draft[d].key)
      BY <1>1, <2>1, <2>2, <3>1 DEF SaveCommits, LearningInv, TypeOK
    <3>3. store'[t][k] = store[t][k]
      BY <1>1, <3>1, <3>2 DEF SaveCommits, LearningInv, TypeOK
    <3>4. <<t, k>> \in quarantined
      BY <1>1, <2>2, <3>3 DEF SaveCommits, userVars, LearningInv, CorrectedIsShadowed
    <3> QED
      BY <1>1, <3>2, <3>4 DEF SaveCommits
  <2> QED
    BY <2>1, <2>2, DoneStays DEF LearningInv
<1>2. CASE Correct(d)
  <2>1. CASE <<t, m>> \in corrected
    BY <1>2, <2>1 DEF Correct, docVars, LearningInv, CorrectedIsShadowed
  <2>2. CASE <<t, m>> \notin corrected
    <3>1. t = TenantOf[d] /\ m = served[d][2]
      BY <1>2, <2>2 DEF Correct
    <3>2. m # Seed
      BY LearningAssumption
    <3>3. pc[m] = "done" /\ draft[m].key = served[d][1]
      BY <3>1, <3>2 DEF LearningInv, ServedIsDone
    <3>4. ASSUME NEW k \in Keys, store[t][k] # NoTemplate, store[t][k].maker = m
          PROVE  k = served[d][1]
      BY <3>3, <3>4 DEF LearningInv, StoredIsDone
    <3> QED
      BY <1>2, <3>1, <3>3, <3>4 DEF Correct, docVars
  <2> QED
    BY <2>1, <2>2
<1>3. CASE UNCHANGED <<store, quarantined, corrected>>
  BY <1>3, DoneStays DEF LearningInv, CorrectedIsShadowed
<1> QED
  BY <1>1, <1>2, <1>3 DEF RunStep, Route, RouteRaises, RecheckHits, Discover,
     DiscoverRaises, SaveReads, SaveRaises, userVars

\* The inductive invariant holds throughout.
LEMMA LearningInvariance == Spec => []LearningInv
<1>1. Init => LearningInv
  <2> SUFFICES ASSUME Init PROVE LearningInv
    OBVIOUS
  <2>1. TypeOK /\ LearnerHolds
    <3>1. [maker |-> Seed, version |-> 1, score |-> SeedScore] \in Templates
      BY LearningAssumption DEF Templates, Makers
    <3>2. store \in [Tenants \union {Global} -> [Keys -> Templates \union {NoTemplate}]]
      BY <3>1 DEF Init
    <3>3. draft \in [Docs -> [key : Keys, maker : Makers, version : Nat \ {0},
                              score : [Layouts -> Scores]]]
      BY LearningAssumption DEF Init, NoDraft, Makers
    <3>4. served \in [Docs -> Keys \X Makers]
      BY LearningAssumption DEF Init, Makers
    <3> QED
      BY <3>2, <3>3, <3>4, LearningAssumption DEF Init, TypeOK, LearnerHolds
  <2>2. GlobalIsSeeded /\ StoredIsDone
    BY LearningAssumption DEF Init, GlobalIsSeeded, StoredIsDone
  <2>3. ServedIsDone /\ CorrectedIsShadowed
    BY DEF Init, ServedIsDone, CorrectedIsShadowed
  <2> QED
    BY <2>1, <2>2, <2>3 DEF LearningInv
<1>2. LearningInv /\ [Next]_vars => LearningInv'
  <2> SUFFICES ASSUME LearningInv, [Next]_vars PROVE LearningInv'
    OBVIOUS
  <2>1. CASE Next
    <3>1. PICK d \in Docs : Route(d) \/ RouteRaises(d) \/ RunStep(d) \/ Correct(d)
      BY <2>1 DEF Next
    <3>2. LockInv
      BY DEF LearningInv, TypeOK, LockInv, LockTypeOK
    <3>3. TypeOK'
      BY <3>1, TypeStep DEF LearningInv
    <3>4. LearnerHolds'
      BY <3>1, <3>2, LockStep DEF LockInv
    <3> QED
      BY <3>1, <3>3, <3>4, StoreStep, ServingStep, CorrectionStep DEF LearningInv
  <2>2. CASE UNCHANGED vars
    BY <2>2 DEF vars, docVars, userVars, LearningInv, TypeOK, LearnerHolds, Holds, Queue,
       GlobalIsSeeded, StoredIsDone, ServedIsDone, CorrectedIsShadowed
  <2> QED
    BY <2>1, <2>2
<1> QED
  BY <1>1, <1>2, PTL DEF Spec

\* The store, the queues and the documents keep their types.
THEOREM TemplatesTyped == Spec => []TypeOK
<1>1. LearningInv => TypeOK
  BY DEF LearningInv
<1> QED
  BY <1>1, LearningInvariance, PTL

\* A template that a tenant learned and corrected serves none of its later
\* documents, whatever is saved under the key in the meantime (feedback.py,
\* pg_template_store.py).
THEOREM CorrectionsHold == Spec => CorrectedLearnedStaysGone
<1>1. ASSUME LearningInv, [Next]_vars, NEW d \in Docs, Served(d), served'[d][2] # Seed
      PROVE  <<TenantOf[d], served'[d][2]>> \notin corrected
  <2>1. PICK c \in Docs : Route(c) \/ RouteRaises(c) \/ RunStep(c) \/ Correct(c)
    <3>1. ~UNCHANGED vars
      BY <1>1 DEF vars, docVars, Served
    <3> QED
      BY <1>1, <3>1 DEF Next
  <2>2. c = d /\ \E r \in Hits(d) : ServeBy(d, r)
    BY <1>1, <2>1 DEF Served, LearningInv, TypeOK, RunStep, Route, RouteRaises, RecheckHits,
       ServeBy, Finish, Fallback, Discover, DiscoverRaises, SaveReads, SaveCommits,
       SaveRaises, Correct, docVars
  <2>3. PICK r \in Hits(d) : ServeBy(d, r)
    BY <2>2
  <2> DEFINE m == store[r[1]][r[2]].maker
  <2>4. served'[d] = <<r[2], m>>
    BY <1>1, <2>3 DEF ServeBy, LearningInv, TypeOK
  <2>5. served'[d][2] = m
    BY <2>4
  <2>6. m # Seed => <<TenantOf[d], m>> \notin corrected
    BY <1>1, HitIsOwnOrSeed
  <2> QED
    BY <1>1, <2>5, <2>6
<1>2. LearningInv /\ [Next]_vars => [\A d \in Docs : Served(d) /\ served'[d][2] # Seed
        => <<TenantOf[d], served'[d][2]>> \notin corrected]_vars
  BY <1>1
<1> QED
  BY <1>2, LearningInvariance, PTL DEF Spec, CorrectedLearnedStaysGone

\* What a tenant is offered depends on nothing other tenants do: neither what
\* they learn nor what they correct.
THEOREM TenantsDoNotInterfere == Spec => TenantsAreIsolated
<1>1. ASSUME LearningInv, [Next]_vars, NEW t \in Tenants,
             \A d \in Docs : TenantOf[d] = t => UNCHANGED pc[d], UNCHANGED corrections[t]
      PROVE  UNCHANGED Offer(t)
  <2> DEFINE SameRows == /\ store'[t] = store[t] /\ store'[Global] = store[Global]
                         /\ \A k \in Keys : <<t, k>> \in quarantined' <=> <<t, k>> \in quarantined
  <2>1. SameRows
    <3>1. CASE UNCHANGED <<store, quarantined>>
      BY <3>1
    <3>2. ASSUME NEW d \in Docs, SaveCommits(d)
          PROVE  SameRows
      <4>1. TenantOf[d] # t
        BY <1>1, <3>2 DEF SaveCommits, Finish, LearningInv, TypeOK
      <4>2. TenantOf[d] \in Tenants /\ TenantOf[d] # Global
        BY LearningAssumption
      <4> QED
        BY <3>2, <4>1, <4>2 DEF SaveCommits, LearningInv, TypeOK
    <3>3. ASSUME NEW d \in Docs, Correct(d)
          PROVE  SameRows
      <4>1. TenantOf[d] # t
        BY <1>1, <3>3 DEF Correct, LearningInv, TypeOK
      <4> QED
        BY <3>3, <4>1 DEF Correct
    <3> QED
      BY <1>1, <3>1, <3>2, <3>3 DEF Next, vars, RunStep, Route, RouteRaises, RecheckHits,
         Discover, DiscoverRaises, SaveReads, SaveRaises
  <2>2. Visible(t)' = Visible(t)
    BY <2>1 DEF Visible
  <2>3. \A r \in Visible(t) : store'[r[1]][r[2]] = store[r[1]][r[2]]
    BY <2>1 DEF Visible
  <2> QED
    BY <2>2, <2>3 DEF Offer
<1>2. LearningInv /\ [Next]_vars => [\A t \in Tenants :
       (\A d \in Docs : TenantOf[d] = t => UNCHANGED pc[d]) /\ UNCHANGED corrections[t]
         => UNCHANGED Offer(t)]_vars
  BY <1>1
<1> QED
  BY <1>2, LearningInvariance, PTL DEF Spec, TenantsAreIsolated
=============================================================================
