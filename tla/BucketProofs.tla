---------------------------- MODULE BucketProofs ----------------------------
(***************************************************************************)
(* For every set of subresources and all bounds: the types of module       *)
(* Bucket, that a bucket is never orphaned, and that late initialisation   *)
(* never changes a setting the user has given.                             *)
(***************************************************************************)
EXTENDS Bucket, TLAPS

\* A copy with the stored version agrees with the stored object, and late
\* initialisation has filled only what was open when the copy was read.
Observing == {"head", "late", "look", "save"}

Copies ==
    /\ obj.rv >= 1 /\ cache.rv <= obj.rv /\ cr.rv <= obj.rv
    /\ cache.rv = obj.rv => cache.spec = obj.spec /\ cache.del = obj.del
    /\ pc # "idle" /\ cr.rv = obj.rv => cr.del = obj.del
    /\ pc \in Observing /\ cr.rv = obj.rv => current = obj.spec

OnlyOpen ==
    pc \in Observing => \A f \in Fields :
        cr.spec[f] # current[f] => current[f] = "none" \/ (f \in Subs /\ Clients[f].fills = "full")

\* Every copy that a reconcile of a removed object may start from is marked as
\* deleted, so that it cannot create the bucket again.
Deletion ==
    /\ ~obj.up => cache.del /\ ~bucket.exists /\ (pc # "idle" => cr.del)
    /\ cache.del => obj.del
    /\ pc # "idle" /\ cr.del => cache.del
    /\ pc \in {"unfinalize", "delete"} => cr.del
    /\ pc = "create" => ~cr.del
    /\ pc = "unfinalize" => ~bucket.exists

Inv == TypeOK /\ Copies /\ OnlyOpen /\ Deletion

-----------------------------------------------------------------------------
(* Types.                                                                  *)

\* The settings of a new bucket, and what a reconcile leaves behind.
LEMMA DefaultType == Default \in Specs /\ NoObject \in Object
<1>1. Default \in Specs
  BY DEF Default, Specs, Values
<1> QED
  BY <1>1 DEF NoObject, Object, Readiness, Outcomes

\* A write of the conditions (Status().Update) keeps the types.
LEMMA FinishType ==
  ASSUME TypeOK, NEW ready \in Readiness, NEW synced \in Outcomes, Finish(ready, synced)
  PROVE  /\ obj' \in Object /\ cr' \in Object /\ current' \in Specs
         /\ pc' \in Steps /\ left' \subseteq Subs
<1>1. obj.rv + 1 \in Nat
  BY DEF TypeOK, Object
<1>2. obj' \in Object
  <2>1. [obj EXCEPT !.ready = ready, !.synced = synced, !.rv = @ + 1] \in Object
    BY <1>1, Zenon DEF TypeOK, Object
  <2> QED
    BY <2>1 DEF Finish, TypeOK
<1> QED
  BY <1>2, DefaultType DEF Finish, Stop, Steps
\* The part of TypeOK a reconcile changes together.
ObjectsOK == obj \in Object /\ cr \in Object /\ current \in Specs
StepsOK == pc \in Steps /\ left \subseteq Subs

\* Goto keeps the types.
LEMMA GotoType ==
  ASSUME TypeOK, NEW step \in Steps, NEW subs \in SUBSET Subs, Goto(step, subs)
  PROVE  cr' \in Object /\ current' \in Specs /\ StepsOK'
BY DEF Goto, TypeOK, StepsOK

\* The condition that a failed reconcile reports is one.
LEMMA ReadyType == TypeOK => Ready \in Readiness
<1> SUFFICES ASSUME TypeOK PROVE Ready \in Readiness
  OBVIOUS
<1>1. cr.ready \in Readiness
  BY DEF TypeOK, Object
<1> QED
  BY <1>1 DEF Ready, Readiness

\* An error keeps the types.
LEMMA FailsType ==
  ASSUME TypeOK, Fails
  PROVE  ObjectsOK' /\ StepsOK'
<1>1. Ready \in Readiness /\ "error" \in Outcomes
  BY ReadyType DEF Outcomes
<1> QED
  BY <1>1, FinishType DEF Fails, ObjectsOK, StepsOK

\* The loop of Update keeps the types.
LEMMA NextClientType ==
  ASSUME TypeOK, NEW s \in Subs, NextClient(s)
  PROVE  ObjectsOK' /\ StepsOK'
<1>1. CASE left = {s}
  <2>1. cr.ready \in Readiness /\ "success" \in Outcomes
    BY DEF TypeOK, Object, Outcomes
  <2> QED
    BY <1>1, <2>1, FinishType DEF NextClient, ObjectsOK, StepsOK
<1>2. CASE left # {s}
  <2>1. "compare" \in Steps /\ left \ {s} \in SUBSET Subs
    BY DEF TypeOK, Steps
  <2>2. Goto("compare", left \ {s}) /\ obj' = obj
    BY <1>2 DEF NextClient
  <2> QED
    BY <2>1, <2>2, GotoType DEF ObjectsOK, TypeOK
<1> QED
  BY <1>1, <1>2

\* A changed setting is again a configuration.
LEMMA ExceptSpec ==
  ASSUME NEW spec \in Specs, NEW f \in Fields, NEW v \in Values
  PROVE  [spec EXCEPT ![f] = v] \in Specs
BY DEF Specs

\* The bucket keeps its type when one setting changes.
LEMMA ExceptBucket ==
  ASSUME TypeOK, NEW f \in Fields, NEW v \in Values
  PROVE  [bucket EXCEPT !.cfg[f] = v] \in [exists : BOOLEAN, cfg : Specs]
<1>1. [bucket.cfg EXCEPT ![f] = v] \in Specs
  BY ExceptSpec DEF TypeOK
<1>2. [bucket EXCEPT !.cfg[f] = v] = [bucket EXCEPT !.cfg = [bucket.cfg EXCEPT ![f] = v]]
  BY DEF TypeOK
<1> QED
  BY <1>1, <1>2, Zenon DEF TypeOK

\* So do the objects that the save and the removal of the finalizer write.
LEMMA WritesType == TypeOK => Filled \in Object /\ Released \in Object
<1> SUFFICES ASSUME TypeOK PROVE Filled \in Object /\ Released \in Object
  OBVIOUS
<1>1. obj.rv + 1 \in Nat /\ cr.spec \in Specs
  BY DEF TypeOK, Object
<1>2. Filled \in Object
  BY <1>1, Zenon DEF TypeOK, Object, Filled
<1>3. Released \in Object
  BY <1>1, Zenon DEF TypeOK, Object, Released
<1> QED
  BY <1>2, <1>3

\* Late initialisation yields a setting.
LEMMA LateInitializeType ==
  ASSUME NEW s, NEW own \in Values, NEW external \in Values
  PROVE  LateInitialize(s, own, external) \in Values
BY DEF LateInitialize, Values

\* Every step keeps the types of the object, the copies and the position.
LEMMA ReconcileType == TypeOK /\ Reconcile => ObjectsOK' /\ StepsOK'
<1> SUFFICES ASSUME TypeOK, Reconcile PROVE ObjectsOK' /\ StepsOK'
  OBVIOUS
<1>0. /\ obj \in Object /\ cache \in Object /\ cr \in Object /\ current \in Specs
      /\ left \subseteq Subs /\ {} \in SUBSET Subs /\ Subs \in SUBSET Subs
      /\ bucket.cfg \in Specs
  BY DEF TypeOK
<1>1. CASE Start
  <2>1. cache.spec \in Specs
    BY <1>0 DEF Object
  <2> QED
    BY <1>0, <1>1, <2>1 DEF Start, ObjectsOK, StepsOK, Steps
<1>2. CASE HeadBucket
  <2>1. obj' = obj
    BY <1>2 DEF HeadBucket
  <2>2. Goto("late", Subs) \/ Goto("unfinalize", {}) \/ Goto("create", {})
    BY <1>2 DEF HeadBucket
  <2> QED
    BY <1>0, <2>1, <2>2, GotoType DEF ObjectsOK, Steps
<1>3. CASE BucketGone
  BY <1>3, FailsType DEF BucketGone
<1>4. CASE ObserveLate
  <2>1. PICK s \in Subs : cr' = [cr EXCEPT !.spec[s] = LateInitialize(s, @, bucket.cfg[s])]
    BY <1>4 DEF ObserveLate
  <2>2. LateInitialize(s, cr.spec[s], bucket.cfg[s]) \in Values
    <3>1. cr.spec \in Specs /\ s \in Fields
      BY <1>0 DEF Object, Fields
    <3>2. cr.spec[s] \in Values /\ bucket.cfg[s] \in Values
      BY <1>0, <3>1 DEF Specs
    <3> QED
      BY <3>2, LateInitializeType
  <2>3. [cr.spec EXCEPT ![s] = LateInitialize(s, cr.spec[s], bucket.cfg[s])] \in Specs
    BY <1>0, <2>2, ExceptSpec DEF Object, Fields
  <2>4. cr' = [cr EXCEPT !.spec = [cr.spec EXCEPT ![s] = LateInitialize(s, cr.spec[s], bucket.cfg[s])]]
    BY <1>0, <2>1, Zenon DEF Object
  <2>5. cr' \in Object
    BY <1>0, <2>3, <2>4, Zenon DEF Object
  <2> QED
    BY <1>0, <1>4, <2>5 DEF ObserveLate, ObjectsOK, StepsOK, Steps
<1>5. CASE ObserveStatus
  <2>1. obj' = obj
    BY <1>5 DEF ObserveStatus
  <2>2. PICK s \in Subs : \/ Goto(IF left = {s} THEN "save" ELSE "late", left \ {s})
                          \/ Goto("delete", {}) \/ Goto("compare", Subs)
    BY <1>5 DEF ObserveStatus
  <2>3. (IF left = {s} THEN "save" ELSE "late") \in Steps /\ left \ {s} \in SUBSET Subs
    BY <1>0 DEF Steps
  <2> QED
    BY <1>0, <2>1, <2>2, <2>3, GotoType DEF ObjectsOK, Steps
<1>6. CASE SaveLateInitialized
  <2>1. CASE Goto("acl", {}) /\ obj' = obj
    BY <1>0, <2>1, GotoType DEF ObjectsOK, Steps
  <2>2. CASE obj' = Filled /\ cr' = obj' /\ pc' = "acl" /\ UNCHANGED <<current, left>>
    BY <1>0, <2>2, WritesType DEF ObjectsOK, StepsOK, Steps
  <2>3. CASE Fails
    BY <2>3, FailsType
  <2> QED
    BY <1>6, <2>1, <2>2, <2>3 DEF SaveLateInitialized
<1>7. CASE UpdateBucketACL
  <2>1. CASE Goto("delete", {}) /\ obj' = obj
    BY <1>0, <2>1, GotoType DEF ObjectsOK, Steps
  <2>2. CASE Finish("available", "success")
    BY <2>2, FinishType DEF ObjectsOK, StepsOK, Readiness, Outcomes
  <2> QED
    BY <1>7, <2>1, <2>2 DEF UpdateBucketACL
<1>8. CASE Create
  BY <1>8, ReadyType, FinishType, FailsType DEF Create, ObjectsOK, StepsOK, Outcomes
<1>9. CASE UpdateObserve
  <2>1. PICK s \in Subs : \/ Goto("put", left) /\ obj' = obj
                          \/ Goto("remove", left) /\ obj' = obj
                          \/ NextClient(s)
    BY <1>9 DEF UpdateObserve
  <2> QED
    BY <1>0, <2>1, GotoType, NextClientType DEF ObjectsOK, Steps
<1>10. CASE CreateOrUpdate
  BY <1>10, NextClientType, FailsType DEF CreateOrUpdate
<1>11. CASE DeleteSubresource
  BY <1>11, NextClientType DEF DeleteSubresource
<1>12. CASE Delete
  BY <1>12, ReadyType, FinishType DEF Delete, ObjectsOK, StepsOK, Outcomes
<1>13. CASE RemoveFinalizer
  BY <1>0, <1>13, WritesType, DefaultType DEF RemoveFinalizer, Stop, ObjectsOK, StepsOK, Steps
<1> QED
  BY <1>1, <1>2, <1>3, <1>4, <1>5, <1>6, <1>7, <1>8, <1>9, <1>10, <1>11, <1>12, <1>13
     DEF Reconcile
BucketOK == bucket \in [exists : BOOLEAN, cfg : Specs]
BoundsOK == edits \in 0..MaxEdits /\ outside \in 0..MaxOutside /\ faults \in 0..MaxFaults
RestOK == cache \in Object /\ touched \in BOOLEAN /\ BoundsOK

\* What the calls make of the bucket is a bucket.
LEMMA CallsType ==
  ASSUME TypeOK
  PROVE  /\ {NewBucket, NoBucket, WithACL} \subseteq [exists : BOOLEAN, cfg : Specs]
         /\ \A s \in Subs : {With(s), Without(s)} \subseteq [exists : BOOLEAN, cfg : Specs]
<1>0. /\ BucketOK /\ cr.spec \in Specs /\ "ACL" \in Fields /\ Subs \subseteq Fields
      /\ \A f \in Fields : cr.spec[f] \in Values
      /\ "none" \in Values
  BY DEF TypeOK, BucketOK, Object, Fields, Specs, Values
<1>1. NoBucket \in [exists : BOOLEAN, cfg : Specs]
  BY DefaultType, Zenon DEF NoBucket
<1>2. NewBucket \in [exists : BOOLEAN, cfg : Specs]
  <2>1. [Default EXCEPT !["ACL"] = cr.spec["ACL"]] \in Specs
    BY <1>0, DefaultType, ExceptSpec
  <2> QED
    BY <2>1, Zenon DEF NewBucket
<1>3. WithACL \in [exists : BOOLEAN, cfg : Specs]
  BY <1>0, ExceptBucket DEF WithACL
<1>4. \A s \in Subs : {With(s), Without(s)} \subseteq [exists : BOOLEAN, cfg : Specs]
  BY <1>0, ExceptBucket DEF With, Without, BucketOK
<1> QED
  BY <1>1, <1>2, <1>3, <1>4

\* Only CreateBucket makes a bucket, and only DeleteBucket removes it.
LEMMA CallsExist ==
  ASSUME TypeOK
  PROVE  /\ NewBucket.exists /\ ~NoBucket.exists /\ WithACL.exists = bucket.exists
         /\ \A s \in Subs : With(s).exists = bucket.exists /\ Without(s).exists = bucket.exists
<1>1. NewBucket.exists /\ ~NoBucket.exists
  BY DEF NewBucket, NoBucket
<1>2. \A f, v : [bucket EXCEPT !.cfg[f] = v].exists = bucket.exists
  BY Zenon DEF TypeOK
<1> QED
  BY <1>1, <1>2 DEF WithACL, With, Without

\* A reconcile keeps the type of the bucket.
LEMMA ReconcileBucketType == TypeOK /\ Reconcile => BucketOK'
<1> SUFFICES ASSUME TypeOK, Reconcile PROVE BucketOK'
  OBVIOUS
<1>1. CASE bucket' = bucket
  BY <1>1 DEF TypeOK, BucketOK
<1>2. CASE UpdateBucketACL \/ CreateOrUpdate \/ DeleteSubresource \/ Create \/ Delete
  BY <1>1, <1>2, CallsType
     DEF UpdateBucketACL, CreateOrUpdate, DeleteSubresource, Create, Delete, BucketOK
<1>3. CASE Start \/ HeadBucket \/ BucketGone \/ ObserveLate \/ ObserveStatus
            \/ SaveLateInitialized \/ UpdateObserve \/ RemoveFinalizer
  BY <1>1, <1>3 DEF Start, HeadBucket, BucketGone, ObserveLate, ObserveStatus,
     SaveLateInitialized, UpdateObserve, RemoveFinalizer
<1> QED
  BY <1>2, <1>3 DEF Reconcile

\* A reconcile leaves the cache and the bounds alone.
LEMMA ReconcileRest == Reconcile => UNCHANGED <<cache, bounds>> /\ touched' \in {touched, FALSE}
BY DEF Reconcile, Start, HeadBucket, BucketGone, ObserveLate, ObserveStatus,
   SaveLateInitialized, UpdateBucketACL, Create, UpdateObserve, CreateOrUpdate,
   DeleteSubresource, Delete, RemoveFinalizer

\* Every step keeps the types.
LEMMA TypeStep == TypeOK /\ [Next]_vars => TypeOK'
<1> SUFFICES ASSUME TypeOK, [Next]_vars PROVE TypeOK'
  OBVIOUS
<1> USE BucketBounds
<1>a. ObjectsOK /\ StepsOK /\ BucketOK /\ RestOK
  BY DEF TypeOK, ObjectsOK, StepsOK, BucketOK, RestOK, BoundsOK
<1>b. SUFFICES ObjectsOK' /\ StepsOK' /\ BucketOK' /\ RestOK'
  BY DEF TypeOK, ObjectsOK, StepsOK, BucketOK, RestOK, BoundsOK
<1>c. obj.rv + 1 \in Nat
  BY DEF TypeOK, Object
<1>1. CASE Reconcile
  <2>1. RestOK'
    BY <1>a, <1>1, ReconcileRest DEF RestOK, BoundsOK, bounds
  <2> QED
    BY <1>1, <2>1, ReconcileType, ReconcileBucketType
<1>2. CASE CallFails
  <2>1. RestOK' /\ BucketOK'
    BY <1>a, <1>2 DEF CallFails, RestOK, BoundsOK, BucketOK
  <2> QED
    BY <1>2, <2>1, FailsType DEF CallFails
<1>3. CASE CacheSync
  BY <1>a, <1>3 DEF CacheSync, RestOK, BoundsOK, BucketOK, ObjectsOK, StepsOK, local, bounds
<1>4. CASE DeleteObject
  <2>1. [obj EXCEPT !.del = TRUE, !.rv = @ + 1] \in Object
    BY <1>a, <1>c, Zenon DEF ObjectsOK, Object
  <2> QED
    BY <1>a, <1>4, <2>1
       DEF DeleteObject, RestOK, BoundsOK, BucketOK, ObjectsOK, StepsOK, local, bounds
<1>5. CASE OutsideDelete
  <2>1. BucketOK'
    BY <1>5, CallsType DEF OutsideDelete, BucketOK
  <2> QED
    BY <1>a, <1>5, <2>1
       DEF OutsideDelete, RestOK, BoundsOK, ObjectsOK, StepsOK, local
<1>6. CASE Crash
  BY <1>a, <1>6, DefaultType
     DEF Crash, Stop, RestOK, BoundsOK, BucketOK, ObjectsOK, StepsOK, Steps
<1>7. ASSUME NEW f \in Fields, NEW v \in Values, Edit(f, v) PROVE ObjectsOK' /\ StepsOK' /\ BucketOK' /\ RestOK'
  <2>1. [obj.spec EXCEPT ![f] = v] \in Specs
    BY <1>a, ExceptSpec DEF ObjectsOK, Object
  <2>2. obj' = [obj EXCEPT !.spec = [obj.spec EXCEPT ![f] = v], !.rv = obj.rv + 1]
    BY <1>a, <1>7, Zenon DEF Edit, ObjectsOK, Object
  <2>3. obj' \in Object
    BY <1>a, <1>c, <2>1, <2>2, Zenon DEF ObjectsOK, Object
  <2> QED
    BY <1>a, <1>7, <2>3 DEF Edit, RestOK, BoundsOK, BucketOK, ObjectsOK, StepsOK, local
<1>8. ASSUME NEW s \in Subs, NEW v \in Values, Outside(s, v) PROVE ObjectsOK' /\ StepsOK' /\ BucketOK' /\ RestOK'
  <2>1. BucketOK'
    BY <1>8, ExceptBucket DEF Outside, BucketOK, Fields
  <2> QED
    BY <1>a, <1>8, <2>1 DEF Outside, RestOK, BoundsOK, ObjectsOK, StepsOK, local
<1>9. CASE AnswerLost
  <2>1. RestOK'
    BY <1>a, <1>9 DEF AnswerLost, RestOK, BoundsOK
  <2>2. BucketOK'
    BY <1>9, CallsType DEF AnswerLost, BucketOK
  <2> QED
    BY <1>9, <2>1, <2>2, FailsType DEF AnswerLost
<1>10. CASE WriteAnswerLost
  <2>1. RestOK' /\ BucketOK'
    BY <1>a, <1>10 DEF WriteAnswerLost, RestOK, BoundsOK, BucketOK
  <2>2. obj' \in Object
    BY <1>10, WritesType DEF WriteAnswerLost
  <2> QED
    BY <1>10, <2>1, <2>2, DefaultType DEF WriteAnswerLost, Stop, ObjectsOK, StepsOK, Steps
<1>11. CASE UNCHANGED vars
  BY <1>a, <1>11
     DEF vars, local, bounds, RestOK, BoundsOK, BucketOK, ObjectsOK, StepsOK
<1> QED
  BY <1>1, <1>2, <1>3, <1>4, <1>5, <1>6, <1>7, <1>8, <1>9, <1>10, <1>11 DEF Next
-----------------------------------------------------------------------------
(* Copies and deletion.                                                    *)

Others == Copies /\ OnlyOpen /\ Deletion

\* What the end of a reconcile may do to the object: nothing, or a write that
\* leaves everything but the conditions alone.
StatusWrite ==
    /\ obj'.spec = obj.spec /\ obj'.up = obj.up /\ obj'.del = obj.del
    /\ obj' = obj \/ obj'.rv = obj.rv + 1

\* The end of a reconcile writes conditions and drops the copy.
LEMMA FinishEffect ==
  ASSUME TypeOK, NEW ready, NEW synced, Finish(ready, synced)
  PROVE  StatusWrite /\ Stop
<1>1. [obj EXCEPT !.ready = ready, !.synced = synced, !.rv = @ + 1].rv = obj.rv + 1
  BY Zenon DEF TypeOK, Object
<1>2. LET o == [obj EXCEPT !.ready = ready, !.synced = synced, !.rv = @ + 1]
      IN o.spec = obj.spec /\ o.up = obj.up /\ o.del = obj.del
  BY Zenon DEF TypeOK, Object
<1> QED
  BY <1>1, <1>2 DEF Finish, StatusWrite

\* A reconcile that ends keeps the invariant, unless it leaves a bucket to an
\* object that is gone.
LEMMA EndKeeps ==
  ASSUME TypeOK, Others, StatusWrite, Stop, cache' = cache,
         bucket'.exists => bucket.exists \/ obj.up
  PROVE  Others'
<1>1. cr'.rv = 0 /\ pc' = "idle"
  BY DEF Stop, NoObject
<1>2. obj.rv \in Nat /\ cache.rv \in Nat
  BY DEF TypeOK, Object
<1>3. Copies'
  BY <1>1, <1>2 DEF Others, Copies, StatusWrite, Observing
<1>4. OnlyOpen'
  BY <1>1 DEF OnlyOpen, Observing
<1>5. Deletion'
  BY <1>1 DEF Others, Deletion, StatusWrite
<1> QED
  BY <1>3, <1>4, <1>5 DEF Others

\* A reconcile that goes on keeps the invariant.
LEMMA GotoKeeps ==
  ASSUME TypeOK, Others, pc # "idle", NEW step, NEW subs, Goto(step, subs),
         obj' = obj, cache' = cache, bucket'.exists = bucket.exists,
         step \in Observing => pc \in Observing,
         step \in {"unfinalize", "delete"} => cr.del,
         step = "create" => ~cr.del,
         step = "unfinalize" => ~bucket.exists
  PROVE  Others'
<1>1. pc' = step /\ cr' = cr /\ current' = current
  BY DEF Goto
<1>2. Copies'
  BY <1>1 DEF Others, Copies
<1>3. OnlyOpen'
  BY <1>1 DEF Others, OnlyOpen
<1>4. Deletion'
  BY <1>1 DEF Others, Deletion
<1> QED
  BY <1>2, <1>3, <1>4 DEF Others

\* One round of the loop of Update keeps the invariant.
LEMMA NextClientKeeps ==
  ASSUME TypeOK, Others, pc # "idle", NEW s, NextClient(s), cache' = cache,
         bucket'.exists = bucket.exists
  PROVE  Others'
<1>1. CASE Finish(cr.ready, "success")
  BY <1>1, FinishEffect, EndKeeps
<1>2. CASE Goto("compare", left \ {s}) /\ obj' = obj
  BY <1>2, GotoKeeps DEF Observing
<1> QED
  BY <1>1, <1>2 DEF NextClient

\* A write to the stored object makes the copies old.
LEMMA WriteKeeps ==
  ASSUME TypeOK, Others, obj'.rv = obj.rv + 1, obj'.up = obj.up, obj.del => obj'.del,
         UNCHANGED <<cache, local, bucket>>
  PROVE  Others'
<1>1. obj.rv \in Nat /\ cache.rv \in Nat /\ cr.rv \in Nat
  BY DEF TypeOK, Object
<1>2. Copies'
  BY <1>1 DEF Others, Copies, local
<1>3. OnlyOpen'
  BY DEF Others, OnlyOpen, local
<1>4. Deletion'
  BY DEF Others, Deletion, local
<1> QED
  BY <1>2, <1>3, <1>4 DEF Others

\* Changes of the bucket by others keep the invariant.
LEMMA OutsideKeeps ==
  ASSUME TypeOK, Others, bucket'.exists => bucket.exists, UNCHANGED <<obj, cache, local>>
  PROVE  Others'
<1>1. Copies' /\ OnlyOpen'
  BY DEF Others, Copies, OnlyOpen, local
<1>2. Deletion'
  BY DEF Others, Deletion, local
<1> QED
  BY <1>1, <1>2 DEF Others
\* Late initialisation changes only open settings, unless its client fills up.
LEMMA LateInitializeOpen ==
  ASSUME NEW s, NEW own, NEW external, LateInitialize(s, own, external) # own
  PROVE  own = "none" \/ Clients[s].fills = "full"
BY DEF LateInitialize

\* What the writes of the object change.
LEMMA WritesEffect ==
  ASSUME TypeOK
  PROVE  /\ Filled.rv = obj.rv + 1 /\ Filled.up = obj.up /\ Filled.del = obj.del
         /\ Filled.spec = cr.spec
         /\ Released.rv = obj.rv + 1 /\ Released.del = obj.del /\ Released.spec = obj.spec
BY Zenon DEF TypeOK, Object, Filled, Released

\* The removal of the finalizer keeps the invariant.
LEMMA ReleasedKeeps ==
  ASSUME TypeOK, Others, pc = "unfinalize", Current, obj' = Released, Stop,
         cache' = cache, bucket' = bucket
  PROVE  Others'
<1>1. obj'.rv = obj.rv + 1 /\ obj'.del = obj.del
  BY WritesEffect
<1>2. pc' = "idle" /\ cr'.rv = 0 /\ obj.rv \in Nat /\ cache.rv \in Nat
  BY DEF Stop, NoObject, TypeOK, Object
<1>3. Copies' /\ OnlyOpen'
  BY <1>1, <1>2 DEF Others, Copies, OnlyOpen, Observing
<1>4. Deletion'
  BY <1>1, <1>2 DEF Others, Deletion
<1> QED
  BY <1>3, <1>4 DEF Others

\* Every step of a reconcile keeps the invariant.
LEMMA ReconcileKeeps == TypeOK /\ Others /\ Reconcile => Others'
<1> SUFFICES ASSUME TypeOK, Others, Reconcile PROVE Others'
  OBVIOUS
<1>0. obj.rv \in Nat /\ cache.rv \in Nat /\ cr.rv \in Nat
  BY DEF TypeOK, Object
<1>1. CASE Start
  <2>1. pc' = "head" /\ cr' = cache /\ current' = cache.spec
        /\ UNCHANGED <<obj, cache, bucket>> /\ cache.up
    BY <1>1 DEF Start
  <2>2. Copies' /\ OnlyOpen'
    BY <2>1 DEF Others, Copies, OnlyOpen
  <2>3. Deletion'
    BY <2>1 DEF Others, Deletion
  <2> QED
    BY <2>2, <2>3 DEF Others
<1>2. CASE HeadBucket
  BY <1>2, GotoKeeps DEF HeadBucket, Observing
<1>3. CASE BucketGone
  BY <1>3, FinishEffect, EndKeeps DEF BucketGone, Fails
<1>4. CASE ObserveLate
  <2>1. PICK s \in Subs : cr' = [cr EXCEPT !.spec[s] = LateInitialize(s, @, bucket.cfg[s])]
    BY <1>4 DEF ObserveLate
  <2>2. /\ pc = "late" /\ pc' = "look" /\ current' = current
        /\ UNCHANGED <<obj, cache, bucket>>
    BY <1>4 DEF ObserveLate
  <2>3. cr'.rv = cr.rv /\ cr'.del = cr.del
    BY <2>1, Zenon DEF TypeOK, Object
  <2>4. /\ \A f \in Fields \ {s} : cr'.spec[f] = cr.spec[f]
        /\ cr'.spec[s] = LateInitialize(s, cr.spec[s], bucket.cfg[s])
    <3>1. cr.spec \in Specs /\ s \in Fields
      BY DEF TypeOK, Object, Fields
    <3>2. cr'.spec = [cr.spec EXCEPT ![s] = LateInitialize(s, cr.spec[s], bucket.cfg[s])]
      BY <2>1, Zenon DEF TypeOK, Object
    <3> QED
      BY <3>1, <3>2 DEF Specs
  <2>5. OnlyOpen'
    BY <2>2, <2>4, LateInitializeOpen DEF Others, OnlyOpen, Observing
  <2>6. Copies'
    BY <2>2, <2>3 DEF Others, Copies, Observing
  <2>7. Deletion'
    BY <2>2, <2>3 DEF Others, Deletion
  <2> QED
    BY <2>5, <2>6, <2>7 DEF Others
<1>5. CASE ObserveStatus
  BY <1>5, GotoKeeps DEF ObserveStatus, Observing
<1>6. CASE SaveLateInitialized
  <2>0. pc = "save" /\ cache' = cache /\ bucket' = bucket
    BY <1>6 DEF SaveLateInitialized
  <2>1. CASE Goto("acl", {}) /\ obj' = obj
    BY <2>0, <2>1, GotoKeeps DEF Observing
  <2>2. CASE Current /\ obj' = Filled /\ cr' = obj' /\ pc' = "acl"
    <3>1. /\ obj'.rv = obj.rv + 1 /\ obj'.up = obj.up /\ obj'.del = obj.del
          /\ cr'.rv = obj.rv + 1 /\ cr'.del = obj.del
      BY <2>2, WritesEffect
    <3>2. cr.del = obj.del
      BY <2>0, <2>2 DEF Others, Copies, Current
    <3>3. Copies' /\ OnlyOpen'
      BY <1>0, <2>0, <2>2, <3>1 DEF Others, Copies, OnlyOpen, Observing
    <3>4. Deletion'
      BY <2>0, <2>2, <3>1, <3>2 DEF Others, Deletion
    <3> QED
      BY <3>3, <3>4 DEF Others
  <2>3. CASE Fails
    BY <2>0, <2>3, FinishEffect, EndKeeps DEF Fails
  <2> QED
    BY <1>6, <2>1, <2>2, <2>3 DEF SaveLateInitialized
<1>7. CASE UpdateBucketACL
  <2>1. bucket'.exists = bucket.exists /\ cache' = cache /\ pc = "acl"
    BY <1>7, CallsExist DEF UpdateBucketACL
  <2>2. CASE cr.del /\ Goto("delete", {}) /\ obj' = obj
    BY <2>1, <2>2, GotoKeeps DEF Observing
  <2>3. CASE Finish("available", "success")
    BY <2>1, <2>3, FinishEffect, EndKeeps
  <2> QED
    BY <1>7, <2>2, <2>3 DEF UpdateBucketACL
<1>8. CASE Create
  <2>1. obj.up /\ cache' = cache
    BY <1>8 DEF Create, Others, Deletion
  <2> QED
    BY <1>8, <2>1, FinishEffect, EndKeeps DEF Create, Fails
<1>9. CASE UpdateObserve
  <2>0. pc = "compare" /\ cache' = cache /\ bucket' = bucket
    BY <1>9 DEF UpdateObserve
  <2>1. PICK s \in Subs : \/ Goto("put", left) /\ obj' = obj
                          \/ Goto("remove", left) /\ obj' = obj
                          \/ NextClient(s)
    BY <1>9 DEF UpdateObserve
  <2> QED
    BY <2>0, <2>1, GotoKeeps, NextClientKeeps DEF Observing
<1>10. CASE CreateOrUpdate
  <2>0. pc = "put" /\ cache' = cache
    BY <1>10 DEF CreateOrUpdate
  <2>1. PICK s \in Subs : bucket' = With(s) /\ (NextClient(s) \/ Fails)
    BY <1>10 DEF CreateOrUpdate
  <2>2. bucket'.exists = bucket.exists
    BY <2>1, CallsExist
  <2> QED
    BY <2>0, <2>1, <2>2, NextClientKeeps, FinishEffect, EndKeeps DEF Fails
<1>11. CASE DeleteSubresource
  <2>0. pc = "remove" /\ cache' = cache
    BY <1>11 DEF DeleteSubresource
  <2>1. PICK s \in Subs : bucket' = Without(s) /\ NextClient(s)
    BY <1>11 DEF DeleteSubresource
  <2>2. bucket'.exists = bucket.exists
    BY <2>1, CallsExist
  <2> QED
    BY <2>0, <2>1, <2>2, NextClientKeeps
<1>12. CASE Delete
  <2>1. ~bucket'.exists /\ cache' = cache
    BY <1>12, CallsExist DEF Delete
  <2> QED
    BY <1>12, <2>1, FinishEffect, EndKeeps DEF Delete
<1>13. CASE RemoveFinalizer
  <2>1. CASE obj' = obj
    BY <1>13, <2>1, EndKeeps DEF RemoveFinalizer, StatusWrite
  <2>2. CASE Current /\ obj' = Released
    BY <1>13, <2>2, ReleasedKeeps DEF RemoveFinalizer
  <2> QED
    BY <1>13, <2>1, <2>2 DEF RemoveFinalizer
<1> QED
  BY <1>1, <1>2, <1>3, <1>4, <1>5, <1>6, <1>7, <1>8, <1>9, <1>10, <1>11, <1>12, <1>13
     DEF Reconcile
\* Every step keeps the invariant.
LEMMA Step == Inv /\ [Next]_vars => Inv'
<1> SUFFICES ASSUME TypeOK, Others, [Next]_vars PROVE Others'
  BY TypeStep DEF Inv, Others
<1>0. obj.rv \in Nat
  BY DEF TypeOK, Object
<1>1. CASE Reconcile
  BY <1>1, ReconcileKeeps
<1>2. CASE CallFails
  BY <1>2, FinishEffect, EndKeeps DEF CallFails, Fails
<1>3. CASE CacheSync
  <2>1. cache' = obj /\ UNCHANGED <<obj, cr, current, pc, bucket>>
    BY <1>3 DEF CacheSync, local
  <2>2. Copies' /\ OnlyOpen'
    BY <1>0, <2>1 DEF Others, Copies, OnlyOpen
  <2>3. Deletion'
    BY <2>1 DEF Others, Deletion
  <2> QED
    BY <2>2, <2>3 DEF Others
<1>4. CASE DeleteObject
  <2>1. obj'.rv = obj.rv + 1 /\ obj'.up = obj.up /\ obj'.del
    BY <1>4, Zenon DEF DeleteObject, TypeOK, Object
  <2> QED
    BY <1>4, <2>1, WriteKeeps DEF DeleteObject
<1>5. CASE OutsideDelete
  BY <1>5, CallsExist, OutsideKeeps DEF OutsideDelete
<1>6. CASE Crash
  <2>1. cr'.rv = 0 /\ pc' = "idle" /\ cache' = obj /\ UNCHANGED <<obj, bucket>>
    BY <1>6 DEF Crash, Stop, NoObject
  <2>2. Copies' /\ OnlyOpen'
    BY <1>0, <2>1 DEF Others, Copies, OnlyOpen, Observing
  <2>3. Deletion'
    BY <2>1 DEF Others, Deletion
  <2> QED
    BY <2>2, <2>3 DEF Others
<1>7. ASSUME NEW f \in Fields, NEW v \in Values, Edit(f, v) PROVE Others'
  <2>1. obj'.rv = obj.rv + 1 /\ obj'.up = obj.up /\ obj'.del = obj.del
    BY <1>7, Zenon DEF Edit, TypeOK, Object
  <2> QED
    BY <1>7, <2>1, WriteKeeps DEF Edit
<1>8. ASSUME NEW s \in Subs, NEW v \in Values, Outside(s, v) PROVE Others'
  <2>1. bucket'.exists = bucket.exists
    BY <1>8, Zenon DEF Outside, TypeOK
  <2> QED
    BY <1>8, <2>1, OutsideKeeps DEF Outside
<1>9. CASE AnswerLost
  <2>1. bucket'.exists => bucket.exists \/ obj.up
    BY <1>9, CallsExist DEF AnswerLost, Others, Deletion
  <2> QED
    BY <1>9, <2>1, FinishEffect, EndKeeps DEF AnswerLost, Fails
<1>10. CASE WriteAnswerLost
  <2>1. CASE pc = "unfinalize" /\ obj' = Released
    BY <1>10, <2>1, ReleasedKeeps DEF WriteAnswerLost
  <2>2. CASE pc = "save" /\ obj' = Filled
    <3>1. obj'.rv = obj.rv + 1 /\ obj'.up = obj.up /\ obj'.del = obj.del
      BY <2>2, WritesEffect
    <3>2. cr'.rv = 0 /\ pc' = "idle" /\ UNCHANGED <<cache, bucket>> /\ cache.rv \in Nat
      BY <1>10 DEF WriteAnswerLost, Stop, NoObject, TypeOK, Object
    <3>3. Copies' /\ OnlyOpen'
      BY <1>0, <3>1, <3>2 DEF Others, Copies, OnlyOpen, Observing
    <3>4. Deletion'
      BY <3>1, <3>2 DEF Others, Deletion
    <3> QED
      BY <3>3, <3>4 DEF Others
  <2> QED
    BY <1>10, <2>1, <2>2 DEF WriteAnswerLost
<1>11. CASE UNCHANGED vars
  BY <1>11 DEF vars, local, Others, Copies, OnlyOpen, Deletion
<1> QED
  BY <1>1, <1>2, <1>3, <1>4, <1>5, <1>6, <1>7, <1>8, <1>9, <1>10, <1>11 DEF Next

\* The invariant holds at the start.
LEMMA InitInv == Init => Inv
<1> SUFFICES ASSUME Init PROVE Inv
  OBVIOUS
<1>1. PICK spec \in Specs : obj = [up |-> TRUE, rv |-> 1, del |-> FALSE, spec |-> spec,
                                   ready |-> "none", synced |-> "none"]
  BY DEF Init
<1>2. obj \in Object
  BY <1>1 DEF Object, Readiness, Outcomes
<1>3. bucket \in [exists : BOOLEAN, cfg : Specs]
  BY DefaultType DEF Init
<1>4. TypeOK
  <2>1. cache = obj /\ cr = NoObject /\ current = Default /\ left = {} /\ touched = FALSE
    BY DEF Init
  <2>2. pc \in Steps
    BY DEF Init, Steps
  <2>3. edits \in 0..MaxEdits /\ outside \in 0..MaxOutside /\ faults \in 0..MaxFaults
    BY BucketBounds DEF Init
  <2> QED
    BY <1>2, <1>3, <2>1, <2>2, <2>3, DefaultType, Zenon DEF TypeOK
<1>5. Copies /\ OnlyOpen /\ Deletion
  BY <1>1 DEF Init, NoObject, Copies, OnlyOpen, Deletion, Observing
<1> QED
  BY <1>4, <1>5 DEF Inv

\* The invariant holds in every reachable state.
THEOREM BucketInvariance == Spec => []Inv
BY InitInv, Step, PTL DEF Spec

\* Every variable of the bucket controller keeps its type.
THEOREM BucketTypes == Spec => []TypeOK
<1>1. Inv => TypeOK
  BY DEF Inv
<1> QED
  BY <1>1, BucketInvariance, PTL

\* A bucket never outlives its object, and is never created again for it.
THEOREM NothingOrphaned == Spec => []NoOrphan
<1>1. Inv => NoOrphan
  BY DEF Inv, Deletion, NoOrphan
<1> QED
  BY <1>1, BucketInvariance, PTL

\* Unless a client fills up incomplete settings, as that of notifications
\* does, late initialisation and its save never change what the user has given.
THEOREM UserAlwaysWins ==
  ASSUME \A s \in Subs : Clients[s].fills # "full"
  PROVE  Spec => UserWins
<1>1. Inv /\ [Next]_vars =>
         [\A f \in Fields : obj.spec[f] # "none" /\ obj'.spec[f] # obj.spec[f] => edits' # edits]_vars
  <2> SUFFICES ASSUME Inv, Next, NEW f \in Fields, obj.spec[f] # "none",
                      obj'.spec[f] # obj.spec[f]
               PROVE  edits' # edits
    OBVIOUS
  <2>0. TypeOK
    BY DEF Inv
  <2>1. CASE SaveLateInitialized \/ WriteAnswerLost
    <3>1. CASE Current /\ pc = "save" /\ obj' = Filled
      <4>1. obj'.spec = cr.spec
        BY <2>0, <3>1, WritesEffect
      <4>2. current = obj.spec
        BY <3>1 DEF Inv, Copies, Current, Observing
      <4>3. cr.spec[f] # current[f] => current[f] = "none"
        BY <3>1 DEF Inv, OnlyOpen, Observing
      <4> QED
        BY <4>1, <4>2, <4>3
    <3>2. CASE obj' = obj
      BY <3>2
    <3>3. CASE Fails
      BY <2>0, <3>3, FinishEffect DEF Fails, StatusWrite
    <3>4. CASE obj' = Released
      BY <2>0, <3>4, WritesEffect
    <3> QED
      BY <2>1, <3>1, <3>2, <3>3, <3>4 DEF SaveLateInitialized, WriteAnswerLost
  <2>2. CASE \E g \in Fields, v \in Values : Edit(g, v)
    BY <2>0, <2>2 DEF Edit, TypeOK
  <2>3. CASE obj' = obj \/ StatusWrite
    BY <2>3 DEF StatusWrite
  <2>4. CASE Start \/ HeadBucket \/ ObserveLate \/ ObserveStatus \/ CacheSync \/ Crash
             \/ OutsideDelete \/ \E s \in Subs, v \in Values : Outside(s, v)
    BY <2>3, <2>4 DEF Start, HeadBucket, ObserveLate, ObserveStatus, CacheSync, Crash,
       OutsideDelete, Outside
  <2>5. CASE BucketGone \/ CallFails \/ AnswerLost \/ Create \/ Delete \/ UpdateBucketACL
    BY <2>0, <2>3, <2>5, FinishEffect
       DEF BucketGone, CallFails, AnswerLost, Fails, Create, Delete, UpdateBucketACL
  <2>6. CASE UpdateObserve \/ CreateOrUpdate \/ DeleteSubresource
    <3>1. PICK s \in Subs : NextClient(s) \/ obj' = obj \/ Fails
      BY <2>6 DEF UpdateObserve, CreateOrUpdate, DeleteSubresource
    <3> QED
      BY <2>0, <2>3, <3>1, FinishEffect DEF NextClient, Fails
  <2>7. CASE RemoveFinalizer \/ DeleteObject
    <3>1. obj'.spec = obj.spec
      BY <2>0, <2>7, WritesEffect, Zenon DEF RemoveFinalizer, DeleteObject, TypeOK, Object
    <3> QED
      BY <3>1
  <2> QED
    BY <2>1, <2>2, <2>4, <2>5, <2>6, <2>7 DEF Next, Reconcile
<1> QED
  BY <1>1, BucketInvariance, PTL DEF Spec, UserWins
=============================================================================
