-------------------------- MODULE LifecycleProofs --------------------------
(***************************************************************************)
(* Proofs about Lifecycle, for any set of kinds and any bounds: the type   *)
(* invariant, NoLeak, and that protected kinds keep the promises of module *)
(* Ownership.                                                              *)
(***************************************************************************)
EXTENDS Lifecycle, TLAPS

\* The reconcile works with a copy of the object it has not yet given up.
Mid == pc \notin {"idle", "persist", "status", "failed"}

\* A copy never runs ahead of the stored object, and one with the same version
\* agrees with it on everything the reconciler decides by.
Versions ==
    /\ cache.rv <= obj.rv
    /\ cache.rv = obj.rv => cache = obj
    /\ Mid => cr.rv <= obj.rv
    /\ Mid /\ cr.rv = obj.rv =>
          /\ cr.up = obj.up /\ cr.fin = obj.fin
          /\ cr.del = obj.del /\ cr.name = obj.name

\* Deletion is for good, and an object is there while it has a finalizer.
Deletion ==
    /\ obj.up = ~(obj.del /\ ~obj.fin)
    /\ cache.up = ~(cache.del /\ ~cache.fin)
    /\ cache.del => obj.del
    /\ Mid => cr.up /\ (cr.del => cache.del) /\ ~(cr.del /\ ~cr.fin)
    /\ retired => cache.del /\ (Mid => cr.del) /\ pc # "persist"

\* A copy with a finalizer and no deletion vouches for the object.
Held ==
    /\ cache.fin /\ ~cache.del => obj.up /\ obj.fin
    /\ Mid /\ cr.fin /\ ~cr.del => obj.up /\ obj.fin
    /\ pc = "persist" => obj.up /\ obj.fin

\* What each point of a reconcile knows.
Position ==
    /\ pc \in {"delete", "destroy", "unfinalize"} => cr.del
    /\ pc \in {"finalize", "early", "create", "save", "update"} => ~cr.del
    /\ pc \in {"early", "create", "save", "update"} => cr.fin
    /\ pc = "persist" => kind.naming = "assigned" /\ made \in Ids
    /\ \/ pc \in {"unfinalize", "early", "create"}
       \/ pc = "finalize" /\ ~obs.exists
       => (kind.late # "retry" => ~Exists(cr.name))
    /\ \/ kind.tagger /\ pc \in {"observe", "finalize", "early", "create"}
       \/ kind.early /\ pc = "create"
       => cr.name = obj.name
    /\ pc \in {"update", "delete", "destroy"} \/ (pc = "finalize" /\ obs.exists)
       \/ (pc = "save" /\ obs.exists) => cr.name \in Ids

\* A given name never changes.
GivenNames ==
    kind.naming = "given" =>
        /\ lost = {}
        /\ obj.name \in {0, 1} /\ (cache.name = 0 \/ (cache.name = 1 /\ obj.name = 1))
        /\ Mid => cr.name = 0 \/ (cr.name = 1 /\ obj.name = 1)
        /\ Mid /\ pc # "name" => cr.name = 1

\* Identifiers are handed out in order; some kinds have one resource at most.
Identifiers ==
    /\ \A i \in Ids : Live(i) => i <= used
    /\ kind.naming = "given" => \A i \in Ids : Live(i) => i = 1
    /\ kind.reuse \in {"reject", "adopt"} => \A i, j \in Ids : Live(i) /\ Live(j) => i = j

\* While a name is being saved no other resource is owned.
Saving ==
    Protected /\ pc = "persist" =>
        \A id \in Ids : Live(id) => id = made \/ id \in lost

Inv == TypeOK /\ Versions /\ Deletion /\ Held /\ Position /\ GivenNames /\ Identifiers
       /\ Saving /\ NoLeak

-----------------------------------------------------------------------------
(* The API server.                                                         *)

\* A write stores the object it is given, with the old version only if it
\* changes nothing.
LEMMA StoredFacts ==
    ASSUME obj \in Object, NEW new \in Object
    PROVE  /\ Stored(new) \in Object
           /\ Stored(new).up = ~(new.del /\ ~new.fin)
           /\ Stored(new).fin = new.fin /\ Stored(new).del = new.del
           /\ Stored(new).name = new.name
           /\ Stored(new).rv \in {obj.rv, obj.rv + 1}
           /\ Stored(new).rv = obj.rv => Stored(new) = obj
<1> DEFINE v == [new EXCEPT !.rv = obj.rv, !.up = ~(new.del /\ ~new.fin)]
           w == [v EXCEPT !.rv = obj.rv + 1]
<1>0. obj.rv \in Nat /\ obj.rv + 1 \in Nat /\ obj.rv + 1 # obj.rv
  BY DEF Object
<1>1. v \in Object /\ w \in Object /\ w.rv = obj.rv + 1
  BY <1>0, Zenon DEF Object
<1>2. /\ v.up = ~(new.del /\ ~new.fin) /\ v.fin = new.fin /\ v.del = new.del
      /\ v.name = new.name
      /\ w.up = v.up /\ w.fin = v.fin /\ w.del = v.del /\ w.name = v.name
  BY DEF Object
<1>3. Stored(new) = IF v = obj THEN obj ELSE w
  BY DEF Stored
<1>4. CASE v = obj
  BY <1>1, <1>2, <1>3, <1>4, Zenon
<1>5. CASE v # obj
  <2> HIDE DEF v, w
  <2> QED BY <1>0, <1>1, <1>2, <1>3, <1>5
<1> QED BY <1>4, <1>5

\* kube.Update stores the caller's copy, kube.Status().Update the stored object.
LEMMA WrittenFacts ==
    ASSUME obj \in Object, NEW c \in Object
    PROVE  /\ Written(c) \in Object
           /\ Written(c).up = ~(c.del /\ ~c.fin)
           /\ Written(c).fin = c.fin /\ Written(c).del = c.del
           /\ Written(c).name = c.name
           /\ Written(c).rv \in {obj.rv, obj.rv + 1}
           /\ Written(c).rv = obj.rv => Written(c) = obj
<1> DEFINE d == [c EXCEPT !.st = obj.st, !.sync = obj.sync]
<1>1. d \in Object /\ d.del = c.del /\ d.fin = c.fin /\ d.name = c.name
  BY Zenon DEF Object
<1>2. Written(c) = Stored(d)
  BY DEF Written
<1> HIDE DEF d
<1> QED BY <1>1, <1>2, StoredFacts

\* kube.Status().Update leaves everything but the status as it was stored.
LEMMA StatusWrittenFacts ==
    ASSUME obj \in Object, NEW c \in Object, obj.up = ~(obj.del /\ ~obj.fin)
    PROVE  /\ StatusWritten(c) \in Object
           /\ StatusWritten(c).up = obj.up
           /\ StatusWritten(c).fin = obj.fin /\ StatusWritten(c).del = obj.del
           /\ StatusWritten(c).name = obj.name
           /\ StatusWritten(c).rv \in {obj.rv, obj.rv + 1}
           /\ StatusWritten(c).rv = obj.rv => StatusWritten(c) = obj
<1> DEFINE d == [obj EXCEPT !.st = c.st, !.sync = c.sync]
<1>1. d \in Object /\ d.del = obj.del /\ d.fin = obj.fin /\ d.name = obj.name
  BY Zenon DEF Object
<1>2. StatusWritten(c) = Stored(d)
  BY DEF StatusWritten
<1> HIDE DEF d
<1> QED BY <1>1, <1>2, StoredFacts

-----------------------------------------------------------------------------
(* Types.                                                                  *)

\* The reconciler's changes of its copy keep it an object.
LEMMA CopyFacts ==
    ASSUME NEW c \in Object
    PROVE  /\ [c EXCEPT !.name = 1] \in Object /\ [c EXCEPT !.tags = TRUE] \in Object
           /\ [c EXCEPT !.late = TRUE] \in Object /\ [c EXCEPT !.fin = TRUE] \in Object
           /\ [c EXCEPT !.fin = FALSE] \in Object
           /\ [c EXCEPT !.st = "creating"] \in Object
           /\ \A n \in Names : [c EXCEPT !.name = n] \in Object
           /\ \A s \in Synced : [c EXCEPT !.sync = s] \in Object
<1>1. 1 \in Names
  BY BoundsAssumption DEF Names
<1>2. "creating" \in Status
  BY DEF Status
<1> QED BY <1>1, <1>2, Zenon DEF Object

\* They leave its other fields alone.
LEMMA FieldsKept ==
    ASSUME NEW c \in Object
    PROVE  /\ \A n : LET d == [c EXCEPT !.name = n] IN
                 d.name = n /\ d.up = c.up /\ d.fin = c.fin /\ d.del = c.del
           /\ LET d == [c EXCEPT !.tags = TRUE] IN
                 d.name = c.name /\ d.up = c.up /\ d.fin = c.fin /\ d.del = c.del
           /\ LET d == [c EXCEPT !.late = TRUE] IN
                 d.name = c.name /\ d.up = c.up /\ d.fin = c.fin /\ d.del = c.del
           /\ \A b : LET d == [c EXCEPT !.fin = b] IN
                 d.name = c.name /\ d.up = c.up /\ d.fin = b /\ d.del = c.del
<1>1. \A n : LET d == [c EXCEPT !.name = n] IN
        d.name = n /\ d.up = c.up /\ d.fin = c.fin /\ d.del = c.del
  BY DEF Object
<1>2. LET d == [c EXCEPT !.tags = TRUE] IN
        d.name = c.name /\ d.up = c.up /\ d.fin = c.fin /\ d.del = c.del
  BY DEF Object
<1>3. LET d == [c EXCEPT !.late = TRUE] IN
        d.name = c.name /\ d.up = c.up /\ d.fin = c.fin /\ d.del = c.del
  BY DEF Object
<1>4. \A b : LET d == [c EXCEPT !.fin = b] IN
        d.name = c.name /\ d.up = c.up /\ d.fin = b /\ d.del = c.del
  BY DEF Object
<1> QED BY <1>1, <1>2, <1>3, <1>4

\* A new object and an empty observation have their types.
LEMMA FreshFacts == Fresh \in Object /\ Nothing \in Observation
<1>1. 0 \in Names /\ {} \in Specs /\ 1 \in Nat
  BY BoundsAssumption DEF Names, Specs
<1>2. "" \in Status /\ "" \in Synced
  BY DEF Status, Synced
<1> QED BY <1>1, <1>2, Zenon DEF Object, Fresh, Observation, Nothing

\* So has a resource that does not exist.
LEMMA AbsentFacts == Absent \in Resource
<1>1. {} \in Specs /\ 0 \in Nat /\ "absent" \in States
  BY DEF Specs, States
<1> QED BY <1>1, Zenon DEF Resource, Absent

\* What Observe reads off a live resource.
LEMMA SeenFacts ==
    ASSUME TypeOK, Exists(cr.name), NEW c \in Object, NEW b \in BOOLEAN
    PROVE  /\ Seen(c) \in Object /\ [Seen(c) EXCEPT !.late = b] \in Object
           /\ Found(b) \in Observation
<1>1. aws[cr.name] \in Resource /\ cr.name \in Ids
  BY DEF TypeOK, Exists
<1>2. aws[cr.name].state \in Status
  BY <1>1, Zenon DEF Exists, Live, Resource, States, Status
<1>3. Seen(c) \in Object
  BY <1>2, Zenon DEF Seen, Object
<1>4. [Seen(c) EXCEPT !.late = b] \in Object
  BY <1>3, Zenon DEF Object
<1>5. Found(b) \in Observation
  BY Zenon DEF Found, UpToDate, Observation
<1> QED BY <1>3, <1>4, <1>5

\* What the calls make of the resources at AWS.
LEMMA AwsFacts ==
    ASSUME TypeOK, NEW id \in Ids
    PROVE  /\ New(id) \in [Ids -> Resource] /\ Removed(id) \in [Ids -> Resource]
           /\ [aws EXCEPT ![id] = Absent] \in [Ids -> Resource]
           /\ cr.name = id => /\ \A ps \in SUBSET Parts : Modified(ps) \in [Ids -> Resource]
                             /\ Disabled \in [Ids -> Resource]
<1>1. aws \in [Ids -> Resource] /\ aws[id] \in Resource /\ cr \in Object
  BY DEF TypeOK
<1>2. cr.spec \in Specs /\ cr.rv \in Nat /\ cr.spec \cap kind.sent \in Specs
  BY <1>1 DEF Object, Specs
<1>3. {"creating", "available", "modifying", "deleting"} \subseteq States
  BY DEF States
<1>4. [state |-> IF kind.async THEN "creating" ELSE "available",
       spec |-> cr.spec \cap kind.sent, ref |-> cr.rv] \in Resource
  BY <1>2, <1>3 DEF Resource
<1>5. [aws[id] EXCEPT !.state = "deleting"] \in Resource
  BY <1>1, <1>3, Zenon DEF Resource
<1>6. ASSUME cr.name = id, NEW ps \in SUBSET Parts PROVE Modified(ps) \in [Ids -> Resource]
  <2>1. Applied(ps) \in Specs
    BY <1>1, <1>2, <1>6 DEF Applied, Specs, Resource
  <2>2. ASSUME NEW new \in States
        PROVE  [aws EXCEPT ![id].spec = Applied(ps), ![id].state = new] \in [Ids -> Resource]
    BY <1>1, <2>1, Zenon DEF Resource
  <2>3. aws[id].state \in States /\ "modifying" \in States
    BY <1>1, <1>3 DEF Resource
  <2>4. \E new \in States :
           Modified(ps) = [aws EXCEPT ![id].spec = Applied(ps), ![id].state = new]
    <3>1. CASE kind.busy # "never"
               /\ ("value" \in Applied(ps)) # ("value" \in aws[id].spec)
      BY <1>6, <2>3, <3>1, Zenon DEF Modified
    <3>2. CASE ~(kind.busy # "never"
                 /\ ("value" \in Applied(ps)) # ("value" \in aws[id].spec))
      BY <1>1, <1>6, <2>3, <3>2 DEF Modified, Resource
    <3> QED BY <3>1, <3>2
  <2> QED BY <2>2, <2>4
<1>9. cr.name = id => Disabled \in [Ids -> Resource]
  <2>1. aws[id].spec \ {"value"} \in Specs
    BY <1>1 DEF Resource, Specs
  <2> QED BY <1>1, <2>1, Zenon DEF Disabled, Resource
<1> HIDE DEF Resource
<1>7. New(id) \in [Ids -> Resource]
  BY <1>1, <1>4 DEF New
<1>8. Removed(id) \in [Ids -> Resource] /\ [aws EXCEPT ![id] = Absent] \in [Ids -> Resource]
  BY <1>1, <1>5, AbsentFacts DEF Removed
<1> QED BY <1>6, <1>7, <1>8, <1>9

\* What a write by the reconciler comes to: either the error is on its way to
\* the status and its copy is as before, or the copy is the stored object.
Wrote(c, next) ==
    /\ obj' \in Object /\ cr' \in Object /\ faults' \in 0..MaxFaults
    /\ obj' = obj \/ obj'.rv = obj.rv + 1
    /\ obj' # obj => /\ Current /\ obj'.up = ~(c.del /\ ~c.fin) /\ obj'.fin = c.fin
                     /\ obj'.del = c.del /\ obj'.name = c.name
    /\ \/ pc' = "failed" /\ cr' = cr
       \/ /\ pc' = next /\ Current /\ cr' = obj' /\ cr'.up = ~(c.del /\ ~c.fin)
          /\ cr'.fin = c.fin /\ cr'.del = c.del /\ cr'.name = c.name

\* kube.Update by the reconciler, with its conflicts and its failures.
LEMMA WriteFacts ==
    ASSUME TypeOK, NEW c \in Object, NEW next,
           Write(Written(c), next)
    PROVE  Wrote(c, next)
<1> DEFINE w == Written(c)
<1>1. /\ obj \in Object /\ cr \in Object /\ faults \in 0..MaxFaults /\ MaxFaults \in Nat
  BY BoundsAssumption DEF TypeOK
<1>2. /\ w \in Object /\ w.up = ~(c.del /\ ~c.fin) /\ w.fin = c.fin /\ w.del = c.del
      /\ w.name = c.name /\ w.rv \in {obj.rv, obj.rv + 1} /\ (w.rv = obj.rv => w = obj)
  BY <1>1, WrittenFacts
<1>3. Write(w, next)
  OBVIOUS
<1> HIDE DEF w
<1> QED BY <1>1, <1>2, <1>3 DEF Write, FailedCall, Fault, Wrote

\* kube.Status().Update by the reconciler, with its conflicts and its failures.
LEMMA StatusWriteFacts ==
    ASSUME TypeOK, Deletion, NEW c \in Object, NEW next,
           Write(StatusWritten(c), next)
    PROVE  Wrote(obj, next)
<1> DEFINE w == StatusWritten(c)
<1>1. /\ obj \in Object /\ cr \in Object /\ faults \in 0..MaxFaults /\ MaxFaults \in Nat
      /\ obj.up = ~(obj.del /\ ~obj.fin)
  BY BoundsAssumption DEF TypeOK, Deletion
<1>2. /\ w \in Object /\ w.up = obj.up /\ w.fin = obj.fin /\ w.del = obj.del
      /\ w.name = obj.name /\ w.rv \in {obj.rv, obj.rv + 1} /\ (w.rv = obj.rv => w = obj)
  BY <1>1, StatusWrittenFacts
<1>3. Write(w, next)
  OBVIOUS
<1> HIDE DEF w
<1> QED BY <1>1, <1>2, <1>3 DEF Write, FailedCall, Fault, Wrote

\* The types of the fields that decisions are made by.
LEMMA FieldFacts ==
    ASSUME TypeOK
    PROVE  /\ obj.rv \in Nat /\ obj.name \in Names
           /\ obj.up \in BOOLEAN /\ obj.fin \in BOOLEAN /\ obj.del \in BOOLEAN
           /\ cache.rv \in Nat /\ cache.name \in Names
           /\ cache.up \in BOOLEAN /\ cache.fin \in BOOLEAN /\ cache.del \in BOOLEAN
           /\ cr.rv \in Nat /\ cr.name \in Names
           /\ cr.up \in BOOLEAN /\ cr.fin \in BOOLEAN /\ cr.del \in BOOLEAN
BY DEF TypeOK, Object

-----------------------------------------------------------------------------
(* Every step keeps the invariant.                                         *)

\* A new object that nothing has been created for satisfies the invariant.
LEMMA InitInv == Init => Inv
<1> SUFFICES ASSUME Init PROVE Inv
  OBVIOUS
<1>1. TypeOK
  <2>1. obj \in Object /\ cache \in Object /\ cr \in Object /\ obs \in Observation
    <3>1. \A w \in First : [Fresh EXCEPT !.spec = w] \in Object
      BY FreshFacts, WishesAssumption, Zenon DEF Object
    <3> QED BY <3>1, FreshFacts DEF Init
  <2>2. aws \in [Ids -> Resource]
    BY AbsentFacts DEF Init
  <2>3. 0 \in Names /\ 0 \in 0..Retries /\ 0 \in 0..MaxIds /\ 0 \in 0..MaxFaults
        /\ 0 \in 0..MaxEdits /\ 0 \in 0..MaxOutside
    BY BoundsAssumption DEF Names
  <2> QED BY <2>1, <2>2, <2>3, Zenon DEF Init, TypeOK, Steps
<1>2. \A id \in Ids : ~Live(id)
  BY DEF Init, Live, Absent
<1>3. obj.name = 0 /\ obj.rv = 1 /\ ~obj.fin /\ ~obj.del /\ obj.up /\ cache = obj /\ ~Mid
  BY DEF Init, Fresh, Mid
<1>4. pc = "idle" /\ retired = FALSE /\ lost = {}
  BY DEF Init
<1>5. Versions
  <2>1. cache.rv <= obj.rv
    BY <1>3
  <2> QED BY <1>3, <2>1, Zenon DEF Versions
<1>8. Deletion
  BY <1>1, <1>3, <1>4, FieldFacts, Zenon DEF Deletion
<1>9. Held
  BY <1>3, <1>4 DEF Held
<1>6. Position /\ GivenNames
  BY <1>3, <1>4 DEF Position, GivenNames
<1>7. Identifiers /\ Saving /\ NoLeak
  BY <1>2 DEF Identifiers, Saving, NoLeak
<1> QED BY <1>1, <1>5, <1>6, <1>7, <1>8, <1>9 DEF Inv

\* A reconcile that moves on, or stops, with the copy it has keeps what is known
\* of the object, its copies and the resources.
LEMMA MovedInv ==
    ASSUME Inv, TypeOK', Position', Mid, pc # "name", pc' # "persist",
           UNCHANGED <<kind, obj, cache, made, aws, used, lost, retired>>,
           Mid' => /\ pc' # "name" /\ cr'.rv = cr.rv /\ cr'.up = cr.up
                   /\ cr'.fin = cr.fin /\ cr'.del = cr.del /\ cr'.name = cr.name
    PROVE  Inv'
<1>1. Versions'
  BY DEF Inv, Versions
<1>2. Deletion'
  BY DEF Inv, Deletion
<1>3. Held'
  BY DEF Inv, Held
<1>4. GivenNames'
  BY DEF Inv, GivenNames
<1>5. Identifiers'
  BY DEF Inv, Identifiers, Live
<1>6. Saving' /\ NoLeak'
  BY DEF Inv, Saving, NoLeak, Protected, Tracked, Live, Mid
<1> QED BY <1>1, <1>2, <1>3, <1>4, <1>5, <1>6 DEF Inv

\* A reconcile starts from what the cache knows.
LEMMA StartInv == ASSUME Inv, Start PROVE Inv'
<1>1. /\ pc = "idle" /\ pc' = "name" /\ cr' = cache /\ cache.up
      /\ UNCHANGED <<world, obj, cache, obs, made, tries, aws, used, lost, retired, faults>>
  BY DEF Start
<1>2. TypeOK'
  BY <1>1 DEF Inv, TypeOK, Steps, world
<1>3. Versions'
  BY <1>1 DEF Inv, Versions
<1>4. Deletion'
  BY <1>1, FieldFacts DEF Inv, Deletion
<1>5. Held'
  BY <1>1 DEF Inv, Held
<1>6. Position'
  BY <1>1 DEF Position
<1>7. GivenNames'
  BY <1>1 DEF Inv, GivenNames, world
<1>8. Identifiers'
  BY <1>1 DEF Inv, Identifiers, Live, world
<1>9. Saving' /\ NoLeak'
  BY <1>1 DEF Inv, Saving, NoLeak, Protected, Tracked, Live, world
<1> QED BY <1>2, <1>3, <1>4, <1>5, <1>6, <1>7, <1>8, <1>9 DEF Inv

\* A reconcile that gives up its copy, having written the object's spec,
\* annotations or status at most, keeps the invariant.
LEMMA EndInv ==
    ASSUME Inv, TypeOK', pc # "persist", pc' \in {"idle", "failed"},
           UNCHANGED <<kind, cache, aws, used, lost, retired>>,
           obj'.rv \in {obj.rv, obj.rv + 1}, obj'.rv = obj.rv => obj' = obj,
           obj'.del = obj.del, obj'.fin = obj.fin, obj'.name = obj.name, obj'.up = obj.up
    PROVE  Inv'
<1>1. ~Mid' /\ pc' # "persist"
  BY DEF Mid
<1>2. Versions'
  BY <1>1, FieldFacts DEF Inv, Versions
<1>3. Deletion'
  BY <1>1 DEF Inv, Deletion
<1>4. Held'
  BY <1>1 DEF Inv, Held
<1>5. Position'
  BY DEF Position
<1>6. GivenNames'
  BY <1>1 DEF Inv, GivenNames
<1>7. Identifiers'
  BY DEF Inv, Identifiers, Live
<1>8. Saving' /\ NoLeak'
  BY <1>1 DEF Inv, Saving, NoLeak, Protected, Tracked, Live
<1> QED BY <1>2, <1>3, <1>4, <1>5, <1>6, <1>7, <1>8 DEF Inv

\* Steps that only move the reconciler on.
LEMMA ReadingInv ==
    ASSUME Inv,
           \/ Start \/ ObserveAbsent \/ Observe \/ ObserveFails \/ CreateSkipped
           \/ CreateRefused \/ CreateFails \/ UpdateSkipped \/ DeleteSkipped
    PROVE  Inv'
<1>1. CASE ObserveAbsent
  <2>1. /\ pc = "observe" /\ ~Exists(cr.name) /\ obs' = Nothing /\ pc' = AfterObserve(FALSE)
        /\ UNCHANGED <<world, obj, cache, cr, made, tries, aws, used, lost, retired, faults>>
    BY <1>1 DEF ObserveAbsent
  <2>2. pc' = (IF cr.del THEN "unfinalize" ELSE "finalize") /\ ~obs'.exists
    BY <2>1 DEF AfterObserve, Nothing
  <2>3. TypeOK'
    BY <2>1, <2>2, FreshFacts, Zenon DEF Inv, TypeOK, Steps, world
  <2>4. Position'
    BY <2>1, <2>2, Zenon DEF Inv, Position, Exists, Live, world
  <2> QED BY <2>1, <2>2, <2>3, <2>4, MovedInv, Zenon DEF Mid, world
<1>2. CASE Observe
  <2>1. /\ pc = "observe" /\ Exists(cr.name)
        /\ UNCHANGED <<world, obj, cache, made, tries, aws, used, lost, retired, faults>>
    BY <1>2 DEF Observe
  <2>2. /\ pc' = (IF cr.del THEN "delete" ELSE "finalize") /\ obs'.exists
        /\ cr'.rv = cr.rv /\ cr'.up = cr.up /\ cr'.fin = cr.fin /\ cr'.del = cr.del
        /\ cr'.name = cr.name
    BY <1>2 DEF Observe, AfterObserve, Seen, Found, Inv, TypeOK, Object
  <2>3. TypeOK'
    BY <1>2, <2>1, <2>2, SeenFacts, Zenon DEF Observe, Inv, TypeOK, Steps, world
  <2>4. Position'
    BY <2>1, <2>2 DEF Inv, Position, Exists, Live, world
  <2> QED BY <2>1, <2>2, <2>3, <2>4, MovedInv DEF Mid, world
<1>3. CASE ObserveFails \/ CreateSkipped \/ CreateRefused \/ CreateFails
  <2>1. /\ pc \in {"observe", "create"} /\ pc' \in {"status", "failed"}
        /\ UNCHANGED <<world, obj, cache, cr, obs, made, tries, aws, used, lost, retired>>
        /\ faults' = faults \/ Fault
    BY <1>3 DEF ObserveFails, CreateSkipped, CreateRefused, CreateFails, Creates, FailedCall
  <2>2. TypeOK'
    BY <2>1, BoundsAssumption DEF Inv, TypeOK, Steps, world, Fault
  <2>3. Position'
    BY <2>1 DEF Inv, Position
  <2> QED BY <2>1, <2>2, <2>3, MovedInv DEF Mid, world
<1>4. CASE UpdateSkipped \/ DeleteSkipped
  <2>1. /\ pc \in {"update", "delete"} /\ pc' = "status"
        /\ UNCHANGED <<world, obj, cache, cr, obs, made, tries, aws, used, lost, retired, faults>>
    BY <1>4 DEF UpdateSkipped, DeleteSkipped
  <2>2. TypeOK'
    BY <2>1 DEF Inv, TypeOK, Steps, world
  <2>3. Position'
    BY <2>1 DEF Inv, Position
  <2> QED BY <2>1, <2>2, <2>3, MovedInv DEF Mid, world
<1> QED BY <1>1, <1>2, <1>3, <1>4, StartInv

\* The given name is saved before anything else.
LEMMA NameInv == ASSUME Inv, NameAsExternalName PROVE Inv'
<1>1. CASE kind.naming = "given" /\ cr.name = 0
  <2> DEFINE c == [cr EXCEPT !.name = 1]
  <2>1. /\ c \in Object /\ c.name = 1 /\ c.up = cr.up /\ c.fin = cr.fin /\ c.del = cr.del
    BY CopyFacts, FieldsKept, ZenonT(30) DEF Inv, TypeOK
  <2>2. Wrote(c, "tag")
    BY <1>1, <2>1, WriteFacts, Zenon DEF Inv, NameAsExternalName
  <2> HIDE DEF c
  <2> QED BY <1>1, <2>1, <2>2, FieldFacts
      DEF Inv, Versions, Deletion, Held, Position, GivenNames, Identifiers, Saving,
          NoLeak, Mid, Exists, Live, Protected, Tracked, world, NameAsExternalName, Wrote,
          Current, TypeOK, Steps
<1>2. CASE ~(kind.naming = "given" /\ cr.name = 0)
  BY <1>2, FieldFacts
  DEF Inv, Versions, Deletion, Held, Position, GivenNames, Identifiers, Saving, NoLeak,
      Mid, Exists, Live, Protected, Tracked, world, NameAsExternalName, TypeOK, Steps
<1> QED BY <1>1, <1>2

\* A tagger that gets through has the stored object in its hands.
LEMMA InitializeInv == ASSUME Inv, Initialize PROVE Inv'
<1>1. CASE kind.tagger
  <2> DEFINE c == [cr EXCEPT !.tags = TRUE]
  <2>1. /\ c \in Object /\ c.name = cr.name /\ c.up = cr.up /\ c.fin = cr.fin
        /\ c.del = cr.del
    BY CopyFacts, FieldsKept, Zenon DEF Inv, TypeOK
  <2>2. Wrote(c, "observe")
    BY <1>1, <2>1, WriteFacts, Zenon DEF Inv, Initialize
  <2> HIDE DEF c
  <2> QED BY <1>1, <2>1, <2>2, FieldFacts
      DEF Inv, Versions, Deletion, Held, Position, GivenNames, Identifiers, Saving,
          NoLeak, Mid, Exists, Live, Protected, Tracked, world, Initialize, Wrote, Current,
          TypeOK, Steps
<1>2. CASE ~kind.tagger
  BY <1>2
  DEF Inv, Versions, Deletion, Held, Position, GivenNames, Identifiers, Saving, NoLeak,
      Mid, Exists, Live, Protected, Tracked, world, Initialize, TypeOK, Steps
<1> QED BY <1>1, <1>2

\* The finalizer is stored before the reconcile goes on to Create.
LEMMA AddFinalizerInv == ASSUME Inv, AddFinalizer PROVE Inv'
<1>1. CASE ~cr.fin
  <2> DEFINE c == [cr EXCEPT !.fin = TRUE]
  <2>1. /\ c \in Object /\ c.name = cr.name /\ c.up = cr.up /\ c.fin = TRUE
        /\ c.del = cr.del
    BY CopyFacts, FieldsKept, ZenonT(30) DEF Inv, TypeOK
  <2>2. Wrote(c, AfterFinalizer)
    BY <1>1, <2>1, WriteFacts, Zenon DEF Inv, AddFinalizer
  <2> HIDE DEF c
  <2> QED BY <1>1, <2>1, <2>2, FieldFacts
      DEF Inv, Versions, Deletion, Held, Position, GivenNames, Identifiers, Saving,
          NoLeak, Mid, Exists, Live, Protected, Tracked, world, AddFinalizer, Wrote,
          Current, AfterFinalizer, TypeOK, Steps
<1>2. CASE cr.fin
  <2>1. TypeOK'
    BY <1>2 DEF Inv, AddFinalizer, AfterFinalizer, TypeOK, Steps, world
  <2>2. Position'
    BY <1>2 DEF Inv, AddFinalizer, AfterFinalizer, TypeOK, Steps, world, Position, Exists, Live
  <2>3. /\ pc = "finalize" /\ pc' \notin {"persist", "name"}
        /\ UNCHANGED <<world, obj, cache, cr, obs, made, tries, aws, used, lost, retired>>
    BY <1>2 DEF AddFinalizer, AfterFinalizer
  <2> QED BY <2>1, <2>2, <2>3, MovedInv DEF Mid, world
<1> QED BY <1>1, <1>2

\* Saving the whole object keeps its deletion mark, finalizer and name.
LEMMA SaveInv == ASSUME Inv, Save PROVE Inv'
<1> DEFINE next == IF obs.exists /\ ~obs.upToDate THEN "update" ELSE "status"
<1>1. Wrote(cr, next)
  BY WriteFacts, Zenon DEF Inv, TypeOK, Save
<1>2. /\ pc = "save" /\ UNCHANGED <<world, cache, obs, made, tries, aws, used, lost, retired>>
      /\ Mid /\ pc' \in {"update", "status", "failed"} /\ (Mid' => pc' = "update")
  BY <1>1 DEF Save, Wrote, Mid
<1>3. /\ obj' = obj \/ (Current /\ obj'.rv = obj.rv + 1)
      /\ obj'.del = obj.del /\ obj'.fin = obj.fin /\ obj'.name = obj.name /\ obj'.up = obj.up
  BY <1>1, <1>2, FieldFacts DEF Wrote, Inv, Versions, Deletion, Current
<1>4. /\ pc' = "update" => /\ cr' = obj' /\ obs.exists
                           /\ cr'.fin = cr.fin /\ cr'.del = cr.del /\ cr'.name = cr.name
  BY <1>1 DEF Wrote
<1>5. TypeOK'
  BY <1>1, <1>2 DEF Wrote, Inv, TypeOK, Steps, world
<1>6. Versions'
  BY <1>2, <1>3, <1>4, <1>5, FieldFacts DEF Inv, Versions, TypeOK, Object
<1>7. Deletion'
  BY <1>2, <1>3, <1>4, FieldFacts DEF Inv, Deletion, Position
<1>8. Held'
  BY <1>2, <1>3, <1>4 DEF Inv, Held
<1>9. Position'
  BY <1>2, <1>3, <1>4 DEF Inv, Position, Exists, Live, world
<1>10. GivenNames'
  BY <1>2, <1>3, <1>4 DEF Inv, GivenNames, world
<1>11. Identifiers'
  BY <1>2 DEF Inv, Identifiers, Live, world
<1>12. Saving' /\ NoLeak'
  BY <1>2, <1>3 DEF Inv, Saving, NoLeak, Protected, Tracked, Live, world
<1> QED BY <1>5, <1>6, <1>7, <1>8, <1>9, <1>10, <1>11, <1>12 DEF Inv

\* Saving the Creating condition shows that the copy is the stored object.
LEMMA CreateStatusInv == ASSUME Inv, CreateStatus PROVE Inv'
<1>1. [cr EXCEPT !.st = "creating"] \in Object
  BY CopyFacts, Zenon DEF Inv, TypeOK
<1>2. Wrote(obj, "create")
  BY <1>1, StatusWriteFacts, Zenon DEF Inv, CreateStatus
<1> QED BY <1>2, FieldFacts
    DEF Inv, Versions, Deletion, Held, Position, GivenNames, Identifiers, Saving,
        NoLeak, Mid, Exists, Live, Protected, Tracked, world, CreateStatus, Wrote, Current,
        TypeOK, Steps

\* kube.Update inside Observe, with its single and its repeated call.
LEMMA LateInitInv == ASSUME Inv, ObserveLateInit \/ ObserveRetry PROVE Inv'
<1> DEFINE c == [cr EXCEPT !.late = TRUE]
           w == Written(c)
<1>1. /\ c \in Object /\ c.name = cr.name /\ c.up = cr.up /\ c.fin = cr.fin
      /\ c.del = cr.del
  BY CopyFacts, FieldsKept, Zenon DEF Inv, TypeOK
<1>2. /\ w \in Object /\ w.up = ~(c.del /\ ~c.fin) /\ w.fin = c.fin /\ w.del = c.del
      /\ w.name = c.name /\ w.rv \in {obj.rv, obj.rv + 1} /\ (w.rv = obj.rv => w = obj)
  BY <1>1, WrittenFacts, Zenon DEF Inv, TypeOK
<1>3. Exists(cr.name)
  BY Zenon DEF ObserveLateInit, ObserveRetry
<1>4. Seen(w) \in Object /\ Found(FALSE) \in Observation /\ Nothing \in Observation
  BY <1>2, <1>3, SeenFacts, FreshFacts, Zenon DEF Inv
<1>5. /\ Seen(w).up = w.up /\ Seen(w).fin = w.fin /\ Seen(w).del = w.del
      /\ Seen(w).name = w.name /\ Seen(w).rv = w.rv
  BY <1>2, Zenon DEF Seen, Object
<1>6. Found(FALSE).exists /\ ~Nothing.exists
  BY DEF Found, Nothing
<1>7. CASE ObserveLateInit
  <2>1. pc = "observe" /\ UNCHANGED <<world, cache, made, tries, aws, used, lost, retired>>
    BY <1>7 DEF ObserveLateInit
  <2>2. CASE /\ Current /\ obj' = w /\ cr' = Seen(w) /\ obs' = Found(FALSE)
             /\ pc' = AfterObserve(TRUE) /\ UNCHANGED faults
    <3> HIDE DEF c, w
    <3>1. TypeOK'
      BY <1>2, <1>4, <2>1, <2>2, Zenon DEF Inv, TypeOK, Steps, AfterObserve, world
    <3>2. pc' \in {"delete", "finalize"} /\ (pc' = "delete" <=> cr.del)
      BY <2>2, FieldFacts DEF AfterObserve, Inv
    <3>3. Versions'
      <4>1. /\ cr'.rv = obj'.rv /\ cr'.up = obj'.up /\ cr'.fin = obj'.fin
            /\ cr'.del = obj'.del /\ cr'.name = obj'.name
        BY <1>5, <2>2
      <4>2. obj'.rv \in Nat /\ cache.rv <= obj'.rv /\ (cache.rv = obj'.rv => cache = obj')
        BY <1>2, <2>2, FieldFacts DEF Inv, Versions
      <4> QED BY <2>1, <4>1, <4>2 DEF Versions
    <3>6. Deletion'
      BY <1>1, <1>2, <1>5, <2>1, <2>2, <3>2, FieldFacts, Zenon
      DEF Inv, Versions, Deletion, Mid, Current, world
    <3>7. Held'
      BY <1>1, <1>2, <1>5, <2>1, <2>2, <3>2, FieldFacts, Zenon
      DEF Inv, Versions, Deletion, Held, Mid, Current, world
    <3>8. cr'.name = cr.name /\ cr'.del = cr.del /\ obj'.name = cr.name /\ obs'.exists
      BY <1>1, <1>2, <1>5, <1>6, <2>2, Zenon
    <3>9. Position'
      BY <1>3, <2>1, <3>2, <3>8, FieldFacts DEF Inv, Position, Exists, Live, world
    <3>4. GivenNames'
      BY <2>1, <2>2, <3>2, <3>8, FieldFacts, Zenon
      DEF Inv, Versions, GivenNames, Mid, Current, world
    <3>5. Identifiers' /\ Saving' /\ NoLeak'
      BY <1>1, <1>2, <2>1, <2>2, <3>2, FieldFacts, ZenonT(30)
      DEF Inv, Versions, Deletion, Identifiers, Saving, NoLeak, Protected, Tracked, Mid, Live,
          Current, world
    <3> QED BY <3>1, <3>3, <3>4, <3>5, <3>6, <3>7, <3>9 DEF Inv
  <2>3. CASE /\ pc' = "failed" /\ (faults' = faults \/ Fault) /\ UNCHANGED <<cr, obs>>
             /\ obj' \in (IF Current THEN {obj, w} ELSE {obj})
    <3> HIDE DEF c, w
    <3>1. TypeOK'
      BY <1>2, <2>1, <2>3, BoundsAssumption DEF Inv, TypeOK, Steps, Fault, world
    <3>2. /\ obj'.rv \in {obj.rv, obj.rv + 1} /\ (obj'.rv = obj.rv => obj' = obj)
          /\ obj'.del = obj.del /\ obj'.fin = obj.fin /\ obj'.name = obj.name
          /\ obj'.up = obj.up
      BY <1>1, <1>2, <2>1, <2>3, FieldFacts DEF Inv, Versions, Deletion, Mid, Current
    <3>3. ~Mid' /\ pc' = "failed"
      BY <2>3 DEF Mid
    <3> QED BY <2>1, <3>1, <3>2, <3>3, EndInv DEF world
  <2> QED BY <1>7, <2>2, <2>3, Zenon DEF ObserveLateInit, FailedCall
<1>8. CASE ObserveRetry
  <2>1. Current /\ obj' = w /\ cr' = w /\ obs' = Nothing /\ pc' = AfterObserve(FALSE) /\ Fault
    BY <1>8 DEF ObserveRetry
  <2>2. /\ pc = "observe" /\ kind.late = "retry"
        /\ UNCHANGED <<world, cache, made, tries, aws, used, lost, retired>>
    BY <1>8 DEF ObserveRetry
  <2> HIDE DEF c, w
  <2>3. TypeOK'
    BY <1>2, <1>4, <2>1, <2>2, BoundsAssumption
    DEF Inv, TypeOK, Steps, AfterObserve, Fault, world
  <2> USE DEF Inv, Versions, Deletion, Held, Position, GivenNames, Identifiers, Saving, NoLeak,
            Mid, Exists, Live, Protected, Tracked, world, Fault
  <2> QED BY <1>1, <1>2, <1>6, <2>1, <2>2, <2>3, FieldFacts DEF Current, AfterObserve
<1> QED BY <1>7, <1>8

\* The last write of an object: the resource it names is gone.
LEMMA RemoveFinalizerInv == ASSUME Inv, RemoveFinalizer PROVE Inv'
<1> DEFINE c == [cr EXCEPT !.fin = FALSE]
           w == Written(c)
<1>1. /\ c \in Object /\ c.name = cr.name /\ c.up = cr.up /\ c.fin = FALSE
      /\ c.del = cr.del
  BY CopyFacts, FieldsKept, Zenon DEF Inv, TypeOK
<1>2. /\ w \in Object /\ w.up = ~(c.del /\ ~c.fin) /\ w.fin = c.fin /\ w.del = c.del
      /\ w.name = c.name /\ w.rv \in {obj.rv, obj.rv + 1} /\ (w.rv = obj.rv => w = obj)
  BY <1>1, WrittenFacts, Zenon DEF Inv, TypeOK
<1>3. /\ pc = "unfinalize" /\ UNCHANGED <<world, cache, aws, used, lost, retired>>
      /\ \/ Current /\ obj' = w /\ Return /\ UNCHANGED faults
         \/ obj' = obj /\ pc' = "failed" /\ UNCHANGED <<cr, obs, made, tries, faults>>
         \/ /\ FailedCall /\ obj' \in (IF Current THEN {obj, w} ELSE {obj})
            /\ UNCHANGED <<cr, obs, made, tries>>
  BY DEF RemoveFinalizer
<1> HIDE DEF c, w
<1>4. TypeOK'
  BY <1>2, <1>3, BoundsAssumption, FreshFacts
  DEF Inv, TypeOK, Steps, FailedCall, Fault, world, Return, Names
<1>5. /\ pc' \in {"idle", "failed"}
      /\ obj' = obj \/ (Current /\ obj' = w)
  <2>1. CASE Return
    BY <1>3, <2>1 DEF Return, FailedCall
  <2>2. CASE ~Return
    BY <1>3, <2>2 DEF FailedCall
  <2> QED BY <2>1, <2>2
<1>6. cr.del /\ (kind.late # "retry" => ~Exists(cr.name))
  BY <1>3 DEF Inv, Position
<1>7. CASE obj' = obj
  <2> USE DEF Inv, Versions, Deletion, Held, Position, GivenNames, Identifiers, Saving,
              NoLeak, Mid, Exists, Live, Protected, Tracked, world
  <2> QED BY <1>3, <1>4, <1>5, <1>7, ZenonT(30)
<1>8. CASE Current /\ obj' = w
  <2>1. cr.name = obj.name /\ (cr.del => cache.del)
    BY <1>3, <1>8 DEF Inv, Versions, Deletion, Mid, Current
  <2>2. NoLeak' /\ Saving'
    BY <1>3, <1>5, <1>6, <2>1
    DEF Inv, NoLeak, Saving, Protected, ProtectedKind, Tracked, Exists, Live, world
  <2>3. Versions'
    BY <1>2, <1>3, <1>5, <1>8, FieldFacts DEF Inv, Versions, Mid, world
  <2>4. Deletion' /\ Held'
    BY <1>1, <1>2, <1>3, <1>5, <1>6, <1>8, <2>1, FieldFacts, Zenon
    DEF Inv, Deletion, Held, Mid, world
  <2>5. Position'
    BY <1>3, <1>5 DEF Position
  <2>6. GivenNames'
    BY <1>1, <1>2, <1>3, <1>5, <1>8, <2>1 DEF Inv, GivenNames, Mid, world
  <2>7. Identifiers'
    BY <1>3 DEF Inv, Identifiers, Live, world
  <2> QED BY <1>4, <2>2, <2>3, <2>4, <2>5, <2>6, <2>7 DEF Inv
<1> QED BY <1>5, <1>7, <1>8

\* The status update that ends a reconcile.
LEMMA UpdateStatusInv == ASSUME Inv, UpdateStatus PROVE Inv'
<1> DEFINE c == [cr EXCEPT !.sync = IF pc = "status" THEN "success" ELSE "error"]
           w == StatusWritten(c)
<1>1. c \in Object
  BY CopyFacts, Zenon DEF Inv, TypeOK, Synced
<1>2. /\ w \in Object /\ w.up = obj.up /\ w.fin = obj.fin /\ w.del = obj.del
      /\ w.name = obj.name /\ w.rv \in {obj.rv, obj.rv + 1} /\ (w.rv = obj.rv => w = obj)
  BY <1>1, StatusWrittenFacts DEF Inv, TypeOK, Deletion
<1>3. /\ pc \in {"status", "failed"} /\ Return
      /\ obj' \in {obj, w} /\ (faults' = faults \/ Fault)
      /\ UNCHANGED <<world, cache, aws, used, lost, retired>>
  BY DEF UpdateStatus
<1> HIDE DEF c, w
<1>4. TypeOK'
  BY <1>2, <1>3, BoundsAssumption, FreshFacts
  DEF Inv, TypeOK, Steps, Fault, world, Return, Names
<1>5. pc' = "idle" /\ pc # "persist"
  BY <1>3 DEF Return
<1>6. /\ obj'.rv \in {obj.rv, obj.rv + 1} /\ (obj'.rv = obj.rv => obj' = obj)
      /\ obj'.del = obj.del /\ obj'.fin = obj.fin /\ obj'.name = obj.name
      /\ obj'.up = obj.up
  BY <1>2, <1>3
<1> QED BY <1>3, <1>4, <1>5, <1>6, EndInv DEF world

-----------------------------------------------------------------------------
(* Steps at AWS.                                                           *)

\* Steps that make no resource: whatever else they do at AWS, the reconcile
\* they are part of is over or was never involved.
LEMMA ShrinkInv ==
    ASSUME Inv, TypeOK', \A id \in Ids : Live(id)' => Live(id),
           UNCHANGED <<kind, obj, cache, cr, obs, made, used, lost>>,
           pc = "persist" => pc' = pc,
           \/ pc' = pc /\ retired' = retired
           \/ pc' \in {"status", "failed"} /\ retired' = retired
           \/ pc' \in {"status", "failed"} /\ cache.del
           \/ pc = "delete" /\ pc' = "destroy" /\ retired' = retired
    PROVE  Inv'
<1>1. \A n : Exists(n)' => Exists(n)
  BY DEF Exists
<1>9. Versions'
  BY DEF Inv, Versions, Mid
<1>10. Deletion'
  BY DEF Inv, Deletion, Mid
<1>2. Held'
  BY DEF Inv, Held, Mid
<1>3. Position'
  BY <1>1 DEF Inv, Position
<1>4. GivenNames'
  BY DEF Inv, GivenNames, Mid
<1>5. Identifiers'
  BY DEF Inv, Identifiers
<1>6. Protected' = Protected /\ (pc' = "persist" <=> pc = "persist" /\ pc' = pc)
  BY DEF Protected
<1>7. Saving'
  BY <1>6 DEF Inv, Saving
<1>8. NoLeak'
  BY <1>6 DEF Inv, NoLeak, Tracked
<1> QED BY <1>2, <1>3, <1>4, <1>5, <1>7, <1>8, <1>9, <1>10 DEF Inv

\* What Update, Delete and AWS itself do to a resource never brings one to life.
LEMMA ShrinkFacts ==
    ASSUME TypeOK, NEW id \in Ids
    PROVE  /\ \A i \in Ids : Removed(id)[i].state \notin {"absent", "deleted"} => Live(i)
           /\ \A i \in Ids : [aws EXCEPT ![id] = Absent][i].state \notin {"absent", "deleted"}
                 => Live(i)
           /\ cr.name = id /\ Live(id) => \A i \in Ids :
                /\ \A ps : Modified(ps)[i].state \notin {"absent", "deleted"} => Live(i)
                /\ Disabled[i].state \notin {"absent", "deleted"} => Live(i)
<1>1. aws \in [Ids -> Resource] /\ aws[id] \in Resource /\ Absent.state = "absent"
  BY DEF TypeOK, Absent
<1>2. [aws[id] EXCEPT !.state = "deleting"].state = "deleting"
  BY <1>1 DEF Resource
<1>3. \A i \in Ids : Removed(id)[i].state \notin {"absent", "deleted"} => Live(i)
  BY <1>1, <1>2 DEF Removed, Live
<1>4. cr.name = id /\ Live(id) => \A i \in Ids :
        /\ \A ps : Modified(ps)[i].state \notin {"absent", "deleted"} => Live(i)
        /\ Disabled[i].state \notin {"absent", "deleted"} => Live(i)
  <2> SUFFICES ASSUME cr.name = id, Live(id), NEW i \in Ids, NEW ps,
                      \/ Modified(ps)[i].state \notin {"absent", "deleted"}
                      \/ Disabled[i].state \notin {"absent", "deleted"}
               PROVE  Live(i)
    OBVIOUS
  <2>1. CASE i # id
    BY <1>1, <2>1 DEF Modified, Disabled, Live
  <2> QED BY <2>1
<1>5. \A i \in Ids : [aws EXCEPT ![id] = Absent][i].state \notin {"absent", "deleted"} => Live(i)
  BY <1>1 DEF Live
<1> QED BY <1>3, <1>4, <1>5

\* The steps that modify a resource, or disable it before its deletion.
Modifies == Update \/ UpdateBeforeDelete \/ DisableBeforeDelete

\* They work on a resource that exists, and bring none to life.
LEMMA ModifyFacts ==
    ASSUME Inv, Modifies
    PROVE  aws' \in [Ids -> Resource] /\ \A i \in Ids : Live(i)' => Live(i)
<1>1. cr.name \in Ids
  BY DEF Inv, Position, Modifies, Update, UpdateBeforeDelete, DisableBeforeDelete, Deletes
<1>2. \/ aws' = aws
      \/ Live(cr.name) /\ \E ps \in SUBSET Parts : aws' = Modified(ps)
      \/ Live(cr.name) /\ aws' = Disabled
  <2>1. CASE Update \/ UpdateBeforeDelete
    BY <2>1, Zenon DEF Update, UpdateBeforeDelete, Modifications, Modifiable
  <2>2. CASE DisableBeforeDelete
    BY <2>2, Zenon DEF DisableBeforeDelete
  <2> QED BY <2>1, <2>2 DEF Modifies
<1>3. CASE aws' = aws
  BY <1>3 DEF Inv, TypeOK, Live
<1>4. ASSUME NEW ps \in SUBSET Parts, Live(cr.name), aws' = Modified(ps)
      PROVE  aws' \in [Ids -> Resource] /\ \A i \in Ids : Live(i)' => Live(i)
  BY <1>1, <1>4, AwsFacts, ShrinkFacts, Zenon DEF Inv, Live
<1>5. CASE Live(cr.name) /\ aws' = Disabled
  BY <1>1, <1>5, AwsFacts, ShrinkFacts, Zenon DEF Inv, Live
<1> QED BY <1>2, <1>3, <1>4, <1>5

\* The update call changes what exists, and only that.
LEMMA UpdateInv == ASSUME Inv, Modifies PROVE Inv'
<1>3. aws' \in [Ids -> Resource] /\ \A i \in Ids : Live(i)' => Live(i)
  BY ModifyFacts
<1>4. UNCHANGED <<world, obj, cache, cr, obs, made, tries, used, lost, retired>>
  BY DEF Modifies, Update, UpdateBeforeDelete, DisableBeforeDelete
<1>5. /\ pc # "persist"
      /\ \/ pc' \in {"status", "failed"}
         \/ pc = "delete" /\ pc' = "destroy"
  BY DEF Modifies, Update, UpdateBeforeDelete, DisableBeforeDelete, Deletes, FailedCall
<1>6. faults' = faults \/ Fault
  BY DEF Modifies, Update, UpdateBeforeDelete, DisableBeforeDelete, FailedCall
<1>7. TypeOK'
  BY <1>3, <1>4, <1>5, <1>6, BoundsAssumption DEF Inv, TypeOK, Steps, world, Fault
<1> QED BY <1>3, <1>4, <1>5, <1>7, ShrinkInv DEF world

\* The delete call is made for an object the user has deleted.
LEMMA DeleteInv == ASSUME Inv, Delete PROVE Inv'
<1> DEFINE id == cr.name
<1>1. id \in Ids /\ cache.del
  BY DEF Inv, Position, Deletion, Mid, Delete, Deletes
<1>2. aws' = aws \/ aws' = Removed(id)
  BY DEF Delete
<1>3. aws' \in [Ids -> Resource] /\ \A i \in Ids : Live(i)' => Live(i)
  BY <1>1, <1>2, AwsFacts, ShrinkFacts DEF Inv, TypeOK, Live
<1>4. /\ UNCHANGED <<world, obj, cache, cr, obs, made, tries, used, lost>> /\ retired' = TRUE
      /\ pc # "persist" /\ pc' \in {"status", "failed"} /\ (faults' = faults \/ Fault)
  BY DEF Delete, Deletes, FailedCall
<1>5. TypeOK'
  BY <1>3, <1>4, BoundsAssumption DEF Inv, TypeOK, Steps, world, Fault
<1> QED BY <1>1, <1>3, <1>4, <1>5, ShrinkInv, Zenon DEF world

\* What AWS and others do to resources shrinks what is live.
LEMMA OutsideInv ==
    ASSUME Inv, NEW id \in Ids, AwsProgress(id) \/ OutsideDelete(id)
    PROVE  Inv'
<1> DEFINE r == aws[id]
<1>1. r \in Resource /\ aws \in [Ids -> Resource] /\ Absent \in Resource
  BY AbsentFacts DEF Inv, TypeOK
<1>2. /\ [r EXCEPT !.state = "available"] \in Resource
      /\ [r EXCEPT !.state = "deleted"] \in Resource
  BY <1>1, Zenon DEF Resource, States
<1>3. /\ aws' \in [Ids -> Resource] /\ Live(id)
      /\ \A i \in Ids : i # id => aws'[i] = aws[i]
  BY <1>1, <1>2 DEF AwsProgress, OutsideDelete, Live
<1>4. \A i \in Ids : Live(i)' => Live(i)
  BY <1>3 DEF Live
<1>5. /\ UNCHANGED <<kind, obj, cache, cr, pc, obs, made, tries, used, lost, retired,
                     faults, edits>>
      /\ outside' \in 0..MaxOutside
  BY BoundsAssumption DEF AwsProgress, OutsideDelete, world, Inv, TypeOK
<1>6. TypeOK'
  BY <1>3, <1>5 DEF Inv, TypeOK
<1> QED BY <1>4, <1>5, <1>6, ShrinkInv

\* When the create call is issued the object is held by a finalizer, and a
\* protected kind owns nothing that AWS would not recognise.
LEMMA CreateFacts ==
    ASSUME Inv, Creates
    PROVE  /\ obj.up /\ obj.fin /\ cr.fin /\ ~cr.del /\ ~retired
           /\ kind.naming = "given" => obj.name = 1 /\ cr.name = 1
           /\ Protected /\ Clash = {} => \A id \in Ids : Live(id) => id \in lost
<1>1. pc = "create" /\ Mid /\ cr.fin /\ ~cr.del
  BY DEF Inv, Position, Creates, Mid
<1>2. obj.up /\ obj.fin /\ ~retired
  BY <1>1, FieldFacts DEF Inv, Held, Deletion, TypeOK
<1>3. kind.naming = "given" => obj.name = 1 /\ cr.name = 1
  BY <1>1, FieldFacts DEF Inv, GivenNames
<1>4. ASSUME Protected, Clash = {}, NEW id \in Ids, Live(id), id \notin lost
      PROVE  FALSE
  <2>1. obj.name = id
    BY <1>1, <1>4 DEF Inv, NoLeak, Tracked
  <2>2. ~Exists(cr.name)
    BY <1>1, <1>4 DEF Inv, Position, Protected, ProtectedKind
  <2>3. kind.reuse \notin {"reject", "adopt"}
    BY <1>4 DEF Clash
  <2>4. kind.tagger \/ kind.early
    BY <1>4, <2>3 DEF Protected, ProtectedKind
  <2>5. cr.name = obj.name
    BY <1>1, <2>4 DEF Inv, Position
  <2> QED BY <1>4, <2>1, <2>2, <2>5 DEF Exists
<1> QED BY <1>1, <1>2, <1>3, <1>4

\* What the create call changes at AWS, with or without an answer.
LEMMA NewFacts ==
    ASSUME Inv, Creates, Clash = {}, NextId \in Ids, aws' = New(NextId), kind' = kind,
           used' = IF NextId > used THEN NextId ELSE used
    PROVE  /\ aws' \in [Ids -> Resource] /\ used' \in 0..MaxIds
           /\ \A id \in Ids : Live(id)' => id = NextId \/ Live(id)
           /\ Identifiers'
<1>1. aws' \in [Ids -> Resource] /\ aws \in [Ids -> Resource] /\ used \in 0..MaxIds
  BY AwsFacts DEF Inv, TypeOK
<1>2. used' \in 0..MaxIds /\ NextId <= used' /\ used <= used' /\ NextId \in Nat
  BY <1>1, BoundsAssumption DEF Ids
<1>3. \A id \in Ids : Live(id)' => id = NextId \/ Live(id)
  BY <1>1 DEF New, Live
<1>4. \A i \in Ids : Live(i)' => i <= used'
  BY <1>1, <1>2, <1>3 DEF Inv, Identifiers, Ids
<1>5. kind.naming = "given" => \A i \in Ids : Live(i)' => i = 1
  BY <1>3 DEF Inv, Identifiers, NextId
<1>6. kind.reuse \in {"reject", "adopt"} => \A i, j \in Ids : Live(i)' /\ Live(j)' => i = j
  <2>1. kind.reuse \in {"reject", "adopt"} => \A i \in Ids : ~Live(i)
    BY DEF Clash
  <2> QED BY <1>3, <2>1
<1> QED BY <1>1, <1>2, <1>3, <1>4, <1>5, <1>6 DEF Identifiers

\* The create call makes the only resource a protected kind owns.
LEMMA CreateInv == ASSUME Inv, Create PROVE Inv'
<1>1. /\ Creates /\ Clash = {} /\ NextId \in Ids /\ aws' = New(NextId) /\ made' = NextId
      /\ tries' = Retries /\ used' = (IF NextId > used THEN NextId ELSE used)
      /\ pc' = AfterCreate
      /\ UNCHANGED <<world, obj, cache, cr, obs, lost, retired, faults>>
  BY DEF Create
<1>2. /\ aws' \in [Ids -> Resource] /\ used' \in 0..MaxIds
      /\ \A id \in Ids : Live(id)' => id = NextId \/ Live(id)
      /\ Identifiers'
  BY <1>1, NewFacts DEF world
<1>3. /\ pc = "create" /\ pc' \in {"persist", "save", "status"}
      /\ pc' = "persist" <=> kind.naming # "given"
      /\ kind.naming \in {"given", "assigned"}
  BY <1>1, KindsAssumption DEF AfterCreate, Creates, Inv, TypeOK, KindType
<1>4. TypeOK'
  BY <1>1, <1>2, <1>3, BoundsAssumption DEF Inv, TypeOK, Steps, world, Names, Ids
<1>5. Versions' /\ Deletion' /\ Held'
  BY <1>1, <1>3, CreateFacts, Zenon DEF Inv, Versions, Deletion, Held, Mid
<1>9. 1 \in Ids
  BY BoundsAssumption DEF Ids
<1>6. Position'
  BY <1>1, <1>3, <1>9, CreateFacts DEF Position, world
<1>10. GivenNames'
  BY <1>1, <1>3, CreateFacts DEF Inv, GivenNames, Mid, world
<1>7. Saving'
  BY <1>1, <1>2, CreateFacts DEF Saving, Protected, world
<1>8. NoLeak'
  BY <1>1, <1>2, <1>3, CreateFacts DEF NoLeak, Protected, Tracked, NextId, world
<1> QED BY <1>2, <1>4, <1>5, <1>6, <1>7, <1>8, <1>10 DEF Inv

\* A lost answer leaves a resource with a given name, or a lost one.
LEMMA CreateAnswerLostInv == ASSUME Inv, CreateAnswerLost PROVE Inv'
<1>1. /\ Creates /\ Clash = {} /\ NextId \in Ids /\ aws' = New(NextId)
      /\ used' = (IF NextId > used THEN NextId ELSE used)
      /\ lost' = (IF kind.naming = "assigned" THEN lost \union {NextId} ELSE lost)
      /\ pc' = "failed" /\ Fault
      /\ UNCHANGED <<world, obj, cache, cr, obs, made, tries, retired>>
  BY DEF CreateAnswerLost, FailedCall
<1>2. /\ aws' \in [Ids -> Resource] /\ used' \in 0..MaxIds
      /\ \A id \in Ids : Live(id)' => id = NextId \/ Live(id)
      /\ Identifiers'
  BY <1>1, NewFacts DEF world
<1>3. kind.naming \in {"given", "assigned"} /\ pc = "create"
  BY <1>1, KindsAssumption DEF Creates, Inv, TypeOK, KindType
<1>4. TypeOK'
  BY <1>1, <1>2, BoundsAssumption DEF Inv, TypeOK, Steps, world, Fault
<1>5. Versions' /\ Deletion' /\ Held'
  BY <1>1, CreateFacts, Zenon DEF Inv, Versions, Deletion, Held, Mid
<1>6. Position' /\ GivenNames' /\ Saving'
  BY <1>1 DEF Inv, Position, GivenNames, Saving, Mid, world
<1>7. NoLeak'
  BY <1>1, <1>2, <1>3, CreateFacts DEF NoLeak, Protected, Tracked, NextId, world
<1> QED BY <1>2, <1>4, <1>5, <1>6, <1>7 DEF Inv

\* An adopted resource is the only one there is.
LEMMA CreateAdoptsInv == ASSUME Inv, CreateAdopts PROVE Inv'
<1>1. PICK i \in Clash : made' = i /\ lost' = lost \ {i}
  BY DEF CreateAdopts
<1>2. /\ Creates /\ kind.reuse = "adopt" /\ tries' = Retries /\ pc' = AfterCreate
      /\ UNCHANGED <<world, obj, cache, cr, obs, aws, used, retired, faults>>
  BY DEF CreateAdopts
<1>3. i \in Ids /\ Live(i) /\ \A j \in Ids : Live(j) => j = i
  BY <1>2 DEF Clash, Inv, Identifiers
<1>4. /\ pc = "create" /\ pc' \in {"persist", "save", "status"}
      /\ pc' = "persist" <=> kind.naming # "given"
      /\ kind.naming \in {"given", "assigned"}
  BY <1>2, KindsAssumption DEF AfterCreate, Creates, Inv, TypeOK, KindType
<1>5. TypeOK'
  BY <1>1, <1>2, <1>3, <1>4, BoundsAssumption DEF Inv, TypeOK, Steps, world, Names, Ids
<1>6. Versions' /\ Deletion' /\ Held'
  BY <1>2, <1>4, CreateFacts, Zenon DEF Inv, Versions, Deletion, Held, Mid
<1>10. 1 \in Ids
  BY BoundsAssumption DEF Ids
<1>7. Position'
  BY <1>1, <1>2, <1>3, <1>4, <1>10, CreateFacts DEF Position, world
<1>11. GivenNames'
  BY <1>1, <1>2, <1>4, CreateFacts DEF Inv, GivenNames, Mid, world
<1>8. Identifiers'
  BY <1>2, ZenonT(30) DEF Inv, Identifiers, Live, world
<1>9. Saving' /\ NoLeak'
  BY <1>1, <1>2, <1>3, <1>4, CreateFacts, Zenon
  DEF Inv, Identifiers, Saving, NoLeak, Protected, Tracked, Live, world
<1> QED BY <1>5, <1>6, <1>7, <1>8, <1>9, <1>11 DEF Inv

\* Saving the assigned name: the object is read again, and a copy that can be
\* written is the stored object.
LEMMA SaveNameInv == ASSUME Inv, SaveName PROVE Inv'
<1> DEFINE c == [cache EXCEPT !.name = made]
           w == Written(c)
           fresh == cache.up /\ obj.up /\ cache.rv = obj.rv
<1>0. cache \in Object /\ made \in Names
  BY DEF Inv, TypeOK
<1>1. /\ c \in Object /\ c.name = made /\ c.up = cache.up /\ c.fin = cache.fin
      /\ c.del = cache.del
  <2>1. c \in Object
    BY <1>0, CopyFacts, Zenon
  <2>2. c.name = made /\ c.up = cache.up /\ c.fin = cache.fin /\ c.del = cache.del
    BY <1>0, FieldsKept, Zenon
  <2> QED BY <2>1, <2>2
<1>2. /\ w \in Object /\ w.up = ~(c.del /\ ~c.fin) /\ w.fin = c.fin /\ w.del = c.del
      /\ w.name = c.name /\ w.rv \in {obj.rv, obj.rv + 1} /\ (w.rv = obj.rv => w = obj)
  BY <1>1, WrittenFacts, Zenon DEF Inv, TypeOK
<1>3. /\ pc = "persist" /\ UNCHANGED <<world, cache, obs, made, aws, used, retired>>
      /\ obj' = obj \/ (fresh /\ obj' = w)
      /\ cr' \in {c, obj'}
      /\ \/ pc' = "status" /\ obj' = w /\ fresh /\ lost' = lost /\ tries' = tries
         \/ pc' = "persist" /\ lost' = lost /\ tries > 1 /\ tries' = tries - 1
         \/ /\ pc' = "failed" /\ tries' = tries
            /\ lost' = IF obj'.name = made THEN lost ELSE lost \union {made}
      /\ faults' = faults \/ Fault
  BY FieldFacts DEF SaveName, Exhausted, Inv, TypeOK
<1>4. /\ obj.up /\ obj.fin /\ kind.naming = "assigned" /\ made \in Ids /\ ~retired
  BY <1>3 DEF Inv, Held, Position, Deletion, TypeOK
<1> HIDE DEF c, w
<1>13. tries' \in 0..Retries /\ faults' \in 0..MaxFaults
  BY <1>3, BoundsAssumption DEF Inv, TypeOK, Fault
<1>14. lost' \subseteq Ids /\ pc' \in Steps /\ obj' \in Object /\ cr' \in Object
  BY <1>1, <1>2, <1>3, <1>4 DEF Inv, TypeOK, Steps
<1>5. TypeOK'
  BY <1>3, <1>13, <1>14 DEF Inv, TypeOK, world
<1>6. fresh => cache = obj
  BY DEF Inv, Versions
<1>7. obj'.up /\ obj'.fin /\ obj'.del = obj.del
  BY <1>1, <1>2, <1>3, <1>4, <1>6, FieldFacts DEF Inv, Deletion
<1>15. /\ obj'.rv \in {obj.rv, obj.rv + 1} /\ (obj'.rv = obj.rv => obj' = obj)
       /\ ~Mid' /\ cache' = cache
  BY <1>2, <1>3 DEF Mid
<1>16. cache.rv <= obj'.rv /\ (cache.rv = obj'.rv => cache = obj')
  BY <1>15, FieldFacts DEF Inv, Versions
<1>8. Versions'
  BY <1>15, <1>16 DEF Versions
<1>9. Deletion' /\ Held'
  BY <1>3, <1>4, <1>5, <1>7, FieldFacts, ZenonT(30) DEF Inv, Deletion, Held, Mid
<1>10. Position' /\ GivenNames' /\ Identifiers'
  BY <1>3, <1>4, ZenonT(30) DEF Inv, Position, GivenNames, Identifiers, Live, world
<1>11. Saving'
  BY <1>3 DEF Inv, Saving, Protected, Live, world
<1>12. NoLeak'
  <2> SUFFICES ASSUME Protected, NEW id \in Ids, Live(id)
               PROVE  Tracked(id)' \/ id \in lost'
    BY <1>3 DEF NoLeak, Protected, Live, world
  <2>1. id = made \/ id \in lost
    BY <1>3 DEF Inv, Saving
  <2>2. id \in lost => id \in lost'
    BY <1>3
  <2>3. id = made => Tracked(id)' \/ id \in lost'
    BY <1>1, <1>2, <1>3, <1>7 DEF Tracked
  <2> QED BY <2>1, <2>2, <2>3
<1> QED BY <1>5, <1>8, <1>9, <1>10, <1>11, <1>12 DEF Inv

\* A crash forgets at most the name that was about to be saved.
LEMMA CrashInv == ASSUME Inv, Crash PROVE Inv'
<1>1. /\ pc # "idle" /\ Fault /\ Return
      /\ lost' = (IF pc = "persist" /\ obj.name # made THEN lost \union {made} ELSE lost)
      /\ UNCHANGED <<world, obj, cache, aws, used, retired>>
  BY DEF Crash
<1>6. /\ lost' \subseteq Ids /\ faults' \in 0..MaxFaults /\ pc' = "idle"
  BY <1>1, BoundsAssumption DEF Inv, Position, TypeOK, Fault, Return
<1>7. 0 \in Names /\ 0 \in 0..Retries
  BY BoundsAssumption DEF Names
<1>8. cr' \in Object /\ obs' \in Observation /\ made' \in Names /\ tries' \in 0..Retries
  BY <1>1, <1>7, FreshFacts DEF Return
<1>2. TypeOK'
  BY <1>1, <1>6, <1>8 DEF Inv, TypeOK, Steps, world
<1>3. Versions' /\ Deletion' /\ Held'
  BY <1>1, ZenonT(30) DEF Inv, Versions, Deletion, Held, Mid, Return
<1>4. Position' /\ GivenNames' /\ Identifiers' /\ Saving'
  BY <1>1, ZenonT(30) DEF Inv, Position, GivenNames, Identifiers, Saving, Live, Mid, Return, world
<1>5. NoLeak'
  BY <1>1 DEF Inv, NoLeak, Held, Protected, Tracked, Live, world
<1> QED BY <1>2, <1>3, <1>4, <1>5 DEF Inv

\* An up-to-date cache vouches for itself.
LEMMA CacheSyncInv == ASSUME Inv, CacheSync PROVE Inv'
<1>1. /\ cache' = obj
      /\ UNCHANGED <<kind, edits, outside, obj, cr, pc, obs, made, tries, aws, used, lost,
                     retired, faults>>
  BY DEF CacheSync, world
<1>2. TypeOK'
  BY <1>1 DEF Inv, TypeOK
<1>3. Versions'
  BY <1>1, FieldFacts DEF Inv, Versions, Mid
<1>4. Deletion'
  BY <1>1 DEF Inv, Deletion, Mid
<1>5. Held'
  BY <1>1, FieldFacts DEF Inv, Held, Deletion, Mid
<1>6. Position'
  BY <1>1 DEF Inv, Position, Exists, Live
<1>7. GivenNames'
  BY <1>1 DEF Inv, GivenNames, Mid
<1>8. Identifiers' /\ Saving' /\ NoLeak'
  BY <1>1 DEF Inv, Identifiers, Saving, NoLeak, Protected, Tracked, Live
<1> QED BY <1>2, <1>3, <1>4, <1>5, <1>6, <1>7, <1>8 DEF Inv

\* The user's writes always make a new version.
LEMMA UserInv == ASSUME Inv, EditSpec \/ DeleteObject PROVE Inv'
<1>0. obj \in Object /\ obj.rv \in Nat /\ obj.rv + 1 \in Nat /\ obj.fin \in BOOLEAN
  BY FieldFacts DEF Inv, TypeOK
<1>1. /\ obj.up /\ obj'.rv = obj.rv + 1 /\ obj'.fin = obj.fin /\ obj'.name = obj.name
      /\ \/ obj'.del = obj.del /\ obj'.up = obj.up
         \/ ~obj.del /\ obj'.del = TRUE /\ obj'.up = obj.fin
  BY <1>0, Zenon DEF EditSpec, DeleteObject, Object
<1>2. UNCHANGED <<kind, outside, cache, cr, pc, obs, made, tries, aws, used, lost, retired,
                  faults>>
  BY DEF EditSpec, DeleteObject, world
<1>3. TypeOK'
  <2>2. obj' \in Object
    BY <1>0, WishesAssumption, Zenon DEF EditSpec, DeleteObject, Object
  <2>3. edits' \in 0..MaxEdits
    <3>1. edits' = edits \/ (edits < MaxEdits /\ edits' = edits + 1)
      BY Zenon DEF EditSpec, DeleteObject, world
    <3>2. edits \in 0..MaxEdits
      BY DEF Inv, TypeOK
    <3> QED BY <3>1, <3>2, BoundsAssumption
  <2> QED BY <1>2, <2>2, <2>3 DEF Inv, TypeOK
<1>8. \A n \in Nat : n <= obj.rv => n < obj'.rv /\ n <= obj'.rv /\ n # obj'.rv
  BY <1>0, <1>1
<1>4. Versions'
  BY <1>2, <1>8, FieldFacts DEF Inv, Versions, Mid
<1>5. Deletion' /\ Held'
  BY <1>1, <1>2, FieldFacts, ZenonT(30) DEF Inv, Deletion, Held, Mid
<1>9. Position'
  BY <1>1, <1>2 DEF Inv, Position, Exists, Live
<1>10. GivenNames'
  BY <1>1, <1>2 DEF Inv, GivenNames, Mid
<1>6. Identifiers' /\ Saving'
  BY <1>2 DEF Inv, Identifiers, Saving, Protected, Live
<1>7. NoLeak'
  BY <1>1, <1>2, FieldFacts, Zenon DEF Inv, NoLeak, Protected, Tracked, Live
<1> QED BY <1>3, <1>4, <1>5, <1>6, <1>7, <1>9, <1>10 DEF Inv

\* The invariant is inductive.
LEMMA NextInv == ASSUME Inv, [Next]_vars PROVE Inv'
<1>1. CASE Start \/ ObserveAbsent \/ Observe \/ ObserveFails \/ CreateSkipped
           \/ CreateRefused \/ CreateFails \/ UpdateSkipped \/ DeleteSkipped
  BY <1>1, ReadingInv
<1>2. CASE NameAsExternalName \/ Initialize \/ AddFinalizer \/ CreateStatus \/ Save
  BY <1>2, NameInv, InitializeInv, AddFinalizerInv, CreateStatusInv, SaveInv
<1>3. CASE ObserveLateInit \/ ObserveRetry
  BY <1>3, LateInitInv
<1>4. CASE Create \/ CreateAnswerLost \/ CreateAdopts
  BY <1>4, CreateInv, CreateAnswerLostInv, CreateAdoptsInv
<1>5. CASE SaveName \/ RemoveFinalizer \/ UpdateStatus
  BY <1>5, SaveNameInv, RemoveFinalizerInv, UpdateStatusInv
<1>6. CASE Modifies \/ Delete
  BY <1>6, UpdateInv, DeleteInv
<1>7. CASE Crash \/ CacheSync \/ EditSpec \/ DeleteObject
  BY <1>7, CrashInv, CacheSyncInv, UserInv
<1>8. CASE \E id \in Ids : AwsProgress(id) \/ OutsideDelete(id)
  BY <1>8, OutsideInv
<1>9. CASE UNCHANGED vars
  <2>1. UNCHANGED <<kind, obj, cache, cr, pc, obs, made, tries, aws, used, lost, retired,
                    faults, edits, outside>>
    BY <1>9 DEF vars
  <2>2. TypeOK'
    BY <2>1 DEF Inv, TypeOK
  <2>3. \A id \in Ids : Live(id)' => Live(id)
    BY <2>1 DEF Live
  <2> QED BY <2>1, <2>2, <2>3, ShrinkInv
<1> QED BY <1>1, <1>2, <1>3, <1>4, <1>5, <1>6, <1>7, <1>8, <1>9 DEF Next, Reconcile, Gone, Modifies

\* Every reachable state of the lifecycle satisfies the inductive invariant.
THEOREM Invariance == Spec => []Inv
<1>1. Init => Inv
  BY InitInv
<1>2. Inv /\ [Next]_vars => Inv'
  BY NextInv
<1> QED BY <1>1, <1>2, PTL DEF Spec

\* The object, its copies and the resources at AWS always have their types.
THEOREM TypeCorrect == Spec => []TypeOK
<1>1. Inv => TypeOK
  BY DEF Inv
<1> QED BY <1>1, Invariance, PTL

\* No protected kind orphans a resource at AWS, however the user, the watch,
\* AWS, the failures and the crashes interleave with its reconciles.
THEOREM NothingLeaks == Spec => []NoLeak
<1>1. Inv => NoLeak
  BY DEF Inv
<1> QED BY <1>1, Invariance, PTL

-----------------------------------------------------------------------------
(* Steps that make no resource, and what they do to the object.            *)

\* Update, Delete, AWS and somebody else bring no resource to life.
LEMMA OthersMakeNone ==
    ASSUME Inv, \/ Modifies \/ Delete
                \/ \E id \in Ids : AwsProgress(id) \/ OutsideDelete(id)
    PROVE  \A id \in Ids : Live(id)' => Live(id)
<1>1. CASE Modifies
  BY <1>1, ModifyFacts
<1>2. CASE Delete
  <2>1. cr.name \in Ids /\ (aws' = aws \/ aws' = Removed(cr.name))
    BY <1>2, Zenon DEF Inv, Position, Delete, Deletes
  <2> QED BY <2>1, ShrinkFacts, ZenonT(30) DEF Inv, Live
<1>3. ASSUME NEW id \in Ids, AwsProgress(id) \/ OutsideDelete(id)
      PROVE  \A i \in Ids : Live(i)' => Live(i)
  BY <1>3 DEF AwsProgress, OutsideDelete, Live, Inv, TypeOK
<1> QED BY <1>1, <1>2, <1>3

\* Only a create call can bring a resource to life.
LEMMA OnlyCreateMakes ==
    ASSUME Inv, [Next]_vars, ~Create, ~CreateAnswerLost
    PROVE  \A id \in Ids : Live(id)' => Live(id)
<1>1. CASE aws' = aws
  BY <1>1 DEF Live
<1>2. CASE \/ Modifies \/ Delete
           \/ \E id \in Ids : AwsProgress(id) \/ OutsideDelete(id)
  BY <1>2, OthersMakeNone
<1>3. CASE Start \/ ObserveAbsent \/ Observe \/ ObserveFails \/ CreateSkipped
           \/ CreateRefused \/ CreateFails \/ UpdateSkipped \/ DeleteSkipped
  BY <1>1, <1>3, Zenon DEF Start, ObserveAbsent, Observe, ObserveFails, CreateSkipped,
                    CreateRefused, CreateFails, UpdateSkipped, DeleteSkipped
<1>4. CASE NameAsExternalName \/ Initialize \/ AddFinalizer \/ CreateStatus \/ Save
           \/ ObserveLateInit \/ ObserveRetry
  BY <1>1, <1>4, Zenon DEF NameAsExternalName, Initialize, AddFinalizer, CreateStatus, Save,
                    ObserveLateInit, ObserveRetry
<1>5. CASE CreateAdopts \/ SaveName \/ RemoveFinalizer \/ UpdateStatus
  BY <1>1, <1>5 DEF CreateAdopts, SaveName, RemoveFinalizer, UpdateStatus
<1>6. CASE Crash \/ CacheSync \/ EditSpec \/ DeleteObject \/ UNCHANGED vars
  BY <1>1, <1>6 DEF Crash, CacheSync, EditSpec, DeleteObject, vars
<1> QED BY <1>2, <1>3, <1>4, <1>5, <1>6 DEF Next, Reconcile, Gone, Modifies

\* Once the controller has called Delete, no resource is made for the object
\* again, whatever stale copy a later reconcile starts from.
THEOREM NothingResurrects == Spec => NoResurrection
<1>1. ASSUME Inv, [Next]_vars
      PROVE  [retired => \A id \in Ids : Live(id)' => Live(id)]_vars
  <2>1. CASE Create \/ CreateAnswerLost
    BY <1>1, <2>1, CreateFacts, Zenon DEF Create, CreateAnswerLost
  <2> QED BY <1>1, <2>1, OnlyCreateMakes
<1>2. Inv /\ [Next]_vars => [retired => \A id \in Ids : Live(id)' => Live(id)]_vars
  BY <1>1
<1> QED BY <1>2, Invariance, PTL DEF Spec, NoResurrection

-----------------------------------------------------------------------------
(* Refinement.                                                             *)

\* The object owns one resource at most: the one it names or is about to name.
LEMMA OneOwned ==
    ASSUME Inv, Protected
    PROVE  /\ \A i, j \in Owned : i = j
           /\ pc = "persist" => Owned \subseteq {made}
           /\ pc # "persist" => \A i \in Owned : obj.up /\ obj.fin /\ obj.name = i
BY DEF Inv, Saving, NoLeak, Tracked, Owned

\* A step that only shrinks what is owned is a stutter or a Release.
LEMMA ReleaseStep ==
    ASSUME Inv, Protected, Owned' \subseteq Owned,
           obj'.del = obj.del, obj'.up = obj.up, retired' = retired
    PROVE  [Own!Next]_Own!vars
<1>1. Owned' = Owned \/ Owned' = {}
  BY OneOwned
<1> QED BY <1>1 DEF Own!Next, Own!Release, Own!vars

\* A copy that passes the version check stores the deletion mark it was read
\* with; unless it drops the finalizer of an object being deleted, the object
\* stays.
LEMMA KeptObject ==
    ASSUME Inv, Mid, NEW c \in Object, c.del = cr.del, c.fin = cr.fin \/ ~cr.del,
           obj' = obj \/ (Current /\ obj' = Written(c))
    PROVE  obj'.del = obj.del /\ obj'.up = obj.up
<1>1. CASE obj' = obj
  BY <1>1
<1>2. CASE Current /\ obj' = Written(c)
  <2>1. obj'.up = ~(c.del /\ ~c.fin) /\ obj'.del = c.del
    BY <1>2, WrittenFacts DEF Inv, TypeOK
  <2>2. cr.del = obj.del /\ cr.fin = obj.fin
    BY <1>2 DEF Inv, Versions, Current
  <2> QED BY <2>1, <2>2, FieldFacts DEF Inv, Deletion
<1> QED BY <1>1, <1>2

\* The reconciler's writes, but for the removal of the finalizer, neither mark
\* an object as deleted nor make it go.
LEMMA WritesKeepObject ==
    ASSUME Inv,
           \/ NameAsExternalName \/ Initialize \/ AddFinalizer \/ Save
           \/ ObserveLateInit \/ ObserveRetry
           \/ CreateStatus \/ UpdateStatus \/ SaveName
    PROVE  obj'.del = obj.del /\ obj'.up = obj.up
<1>0. cr \in Object /\ obj \in Object /\ cache \in Object /\ made \in Names
  BY DEF Inv, TypeOK
<1>1. CASE NameAsExternalName
  <2> DEFINE c == [cr EXCEPT !.name = 1]
  <2>1. c \in Object /\ c.del = cr.del /\ c.fin = cr.fin
    BY <1>0, CopyFacts, FieldsKept, ZenonT(30)
  <2>2. Mid /\ (obj' = obj \/ (Current /\ obj' = Written(c)))
    BY <1>1 DEF NameAsExternalName, Write, Mid
  <2> HIDE DEF c
  <2> QED BY <2>1, <2>2, KeptObject
<1>2. CASE Initialize
  <2> DEFINE c == [cr EXCEPT !.tags = TRUE]
  <2>1. c \in Object /\ c.del = cr.del /\ c.fin = cr.fin
    BY <1>0, CopyFacts, FieldsKept, Zenon
  <2>2. Mid /\ (obj' = obj \/ (Current /\ obj' = Written(c)))
    BY <1>2 DEF Initialize, Write, Mid
  <2> HIDE DEF c
  <2> QED BY <2>1, <2>2, KeptObject
<1>3. CASE AddFinalizer
  <2> DEFINE c == [cr EXCEPT !.fin = TRUE]
  <2>1. c \in Object /\ c.del = cr.del
    BY <1>0, CopyFacts, FieldsKept, ZenonT(30)
  <2>2. Mid /\ ~cr.del /\ (obj' = obj \/ (Current /\ obj' = Written(c)))
    BY <1>3 DEF AddFinalizer, Write, Mid, Inv, Position
  <2> HIDE DEF c
  <2> QED BY <2>1, <2>2, KeptObject
<1>4. CASE Save
  BY <1>0, <1>4, KeptObject DEF Save, Write, Mid
<1>5. CASE ObserveLateInit \/ ObserveRetry
  <2> DEFINE c == [cr EXCEPT !.late = TRUE]
  <2>1. c \in Object /\ c.del = cr.del /\ c.fin = cr.fin
    BY <1>0, CopyFacts, FieldsKept, Zenon
  <2>2. Mid /\ (obj' = obj \/ (Current /\ obj' = Written(c)))
    BY <1>5, Zenon DEF ObserveLateInit, ObserveRetry, Mid
  <2> HIDE DEF c
  <2> QED BY <2>1, <2>2, KeptObject
<1>6. CASE CreateStatus
  <2>1. [cr EXCEPT !.st = "creating"] \in Object
    BY <1>0, CopyFacts, Zenon
  <2>2. obj' = obj \/ obj' = StatusWritten([cr EXCEPT !.st = "creating"])
    BY <1>6 DEF CreateStatus, Write
  <2> QED BY <1>0, <2>1, <2>2, StatusWrittenFacts DEF Inv, Deletion
<1>7. CASE UpdateStatus
  <2> DEFINE c == [cr EXCEPT !.sync = IF pc = "status" THEN "success" ELSE "error"]
  <2>1. c \in Object
    BY <1>0, CopyFacts, Zenon DEF Synced
  <2>2. obj' = obj \/ obj' = StatusWritten(c)
    BY <1>7 DEF UpdateStatus
  <2> HIDE DEF c
  <2> QED BY <1>0, <2>1, <2>2, StatusWrittenFacts DEF Inv, Deletion
<1>8. CASE SaveName
  <2> DEFINE c == [cache EXCEPT !.name = made]
  <2>1. c \in Object /\ c.del = cache.del /\ c.fin = cache.fin
    BY <1>0, CopyFacts, FieldsKept, ZenonT(30)
  <2>2. obj' = obj \/ (cache.rv = obj.rv /\ obj' = Written(c))
    BY <1>8 DEF SaveName
  <2>3. cache.rv = obj.rv => cache = obj
    BY DEF Inv, Versions
  <2> HIDE DEF c
  <2> QED BY <1>0, <2>1, <2>2, <2>3, WrittenFacts DEF Inv, Deletion
<1> QED BY <1>1, <1>2, <1>3, <1>4, <1>5, <1>6, <1>7, <1>8

\* Steps that leave AWS alone and lose no name are stutters.
LEMMA QuietStep ==
    ASSUME aws' = aws, lost' = lost, retired' = retired, obj'.del = obj.del, obj'.up = obj.up
    PROVE  UNCHANGED Own!vars
BY DEF Own!vars, Owned, Live

\* Create acquires a resource, or adopts the one there is; an answer that is
\* lost acquires nothing.
LEMMA AcquireStep ==
    ASSUME Inv, Protected, Create \/ CreateAnswerLost \/ CreateAdopts
    PROVE  [Own!Next]_Own!vars
<1>1. Creates /\ obj' = obj /\ retired' = retired /\ kind' = kind
  BY DEF Create, CreateAnswerLost, CreateAdopts, world
<1>2. obj.up /\ ~retired
  BY <1>1, CreateFacts
<1>3. Owned = {} /\ (\E id \in Ids : Owned' \subseteq {id}) => [Own!Next]_Own!vars
  <2> SUFFICES ASSUME Owned = {}, NEW id \in Ids, Owned' \subseteq {id}
               PROVE  [Own!Next]_Own!vars
    OBVIOUS
  <2>1. Owned' = {} \/ Owned' = {id}
    OBVIOUS
  <2> QED BY <1>1, <1>2, <2>1 DEF Own!Next, Own!Acquire, Own!vars
<1>4. CASE Create \/ CreateAnswerLost
  <2>1. /\ Clash = {} /\ NextId \in Ids /\ aws' = New(NextId) /\ lost \subseteq lost'
        /\ used' = IF NextId > used THEN NextId ELSE used
    BY <1>4 DEF Create, CreateAnswerLost
  <2>2. \A id \in Ids : Live(id)' => id = NextId \/ Live(id)
    BY <1>1, <2>1, NewFacts
  <2>3. \A id \in Ids : Live(id) => id \in lost
    BY <1>1, <2>1, CreateFacts
  <2>4. Owned = {} /\ Owned' \subseteq {NextId}
    BY <2>1, <2>2, <2>3 DEF Owned
  <2> QED BY <1>3, <2>1, <2>4
<1>5. CASE CreateAdopts
  <2>1. PICK i \in Clash : lost' = lost \ {i}
    BY <1>5 DEF CreateAdopts
  <2>2. kind.reuse = "adopt" /\ aws' = aws
    BY <1>5 DEF CreateAdopts
  <2>3. i \in Ids /\ Live(i) /\ \A j \in Ids : Live(j) => j = i
    BY <2>2 DEF Clash, Inv, Identifiers
  <2>4. Owned' \subseteq {i} /\ (Owned = {} \/ Owned = {i}) /\ i \in Owned'
    BY <2>1, <2>2, <2>3 DEF Owned, Live
  <2>5. CASE Owned = {}
    BY <1>3, <2>3, <2>4, <2>5
  <2>6. CASE Owned = {i}
    <3>1. Owned' = Owned
      BY <2>4, <2>6
    <3> QED BY <1>1, <3>1 DEF Own!vars
  <2> QED BY <2>4, <2>5, <2>6
<1> QED BY <1>4, <1>5

\* Every step of a protected kind is a step of Ownership.
LEMMA OwnershipStep == ASSUME Inv, Protected, [Next]_vars PROVE [Own!Next]_Own!vars
<1>1. CASE Start \/ ObserveAbsent \/ Observe \/ ObserveFails \/ CreateSkipped
           \/ CreateRefused \/ CreateFails \/ UpdateSkipped \/ DeleteSkipped
           \/ CacheSync \/ EditSpec \/ UNCHANGED vars
  <2>1. aws' = aws /\ lost' = lost /\ retired' = retired
    BY <1>1, Zenon DEF Start, ObserveAbsent, Observe, ObserveFails, CreateSkipped, CreateRefused,
                CreateFails, UpdateSkipped, DeleteSkipped, CacheSync, EditSpec, vars
  <2>2. obj'.del = obj.del /\ obj'.up = obj.up
    BY <1>1, Zenon DEF Start, ObserveAbsent, Observe, ObserveFails, CreateSkipped, CreateRefused,
                CreateFails, UpdateSkipped, DeleteSkipped, CacheSync, EditSpec, vars, Inv,
                TypeOK, Object
  <2> QED BY <2>1, <2>2, QuietStep
<1>2. CASE NameAsExternalName \/ Initialize \/ AddFinalizer \/ CreateStatus \/ Save
           \/ ObserveLateInit \/ ObserveRetry \/ UpdateStatus
  <2>1. aws' = aws /\ lost' = lost /\ retired' = retired
    BY <1>2, Zenon DEF NameAsExternalName, Initialize, AddFinalizer, CreateStatus, Save,
                ObserveLateInit, ObserveRetry, UpdateStatus
  <2> QED BY <1>2, <2>1, WritesKeepObject, QuietStep
<1>3. CASE Create \/ CreateAnswerLost \/ CreateAdopts
  BY <1>3, AcquireStep
<1>4. CASE SaveName \/ Crash
  <2>1. aws' = aws /\ retired' = retired /\ lost \subseteq lost'
    BY <1>4 DEF SaveName, Crash
  <2>2. obj'.del = obj.del /\ obj'.up = obj.up
    BY <1>4, WritesKeepObject DEF Crash
  <2>3. Owned' \subseteq Owned
    BY <2>1 DEF Owned, Live
  <2> QED BY <2>1, <2>2, <2>3, ReleaseStep
<1>5. CASE \/ Modifies
           \/ \E id \in Ids : AwsProgress(id) \/ OutsideDelete(id)
  <2>1. obj' = obj /\ lost' = lost /\ retired' = retired
    BY <1>5 DEF Modifies, Update, UpdateBeforeDelete, DisableBeforeDelete, AwsProgress,
                OutsideDelete
  <2>2. Owned' \subseteq Owned
    BY <1>5, <2>1, OthersMakeNone DEF Owned
  <2> QED BY <2>1, <2>2, ReleaseStep
<1>6. CASE Delete
  <2>1. obj' = obj /\ lost' = lost /\ retired' = TRUE
    BY <1>6 DEF Delete
  <2>2. obj.del
    BY <1>6, Zenon DEF Delete, Deletes, Inv, Position, Deletion, Mid
  <2>3. Owned' \subseteq Owned
    BY <1>6, <2>1, OthersMakeNone DEF Owned
  <2>4. Owned' = Owned \/ Owned' = {}
    BY <2>3, OneOwned
  <2> QED BY <2>1, <2>2, <2>4, FieldFacts, Zenon DEF Own!Next, Own!End, Own!vars, Inv
<1>7. CASE RemoveFinalizer
  <2> DEFINE c == [cr EXCEPT !.fin = FALSE]
  <2>1. /\ pc = "unfinalize" /\ aws' = aws /\ lost' = lost /\ retired' = retired
        /\ obj' = obj \/ (Current /\ obj' = Written(c))
    BY <1>7 DEF RemoveFinalizer
  <2>2. CASE obj' = obj
    BY <2>1, <2>2, QuietStep
  <2>3. CASE Current /\ obj' = Written(c)
    <3>1. c \in Object /\ c.del = cr.del /\ c.fin = FALSE
      BY CopyFacts, FieldsKept, ZenonT(30) DEF Inv, TypeOK
    <3>2. cr.del /\ cr.del = obj.del /\ cr.name = obj.name /\ ~Exists(cr.name)
      BY <2>1, <2>3
      DEF Inv, Position, Versions, Mid, Current, Protected, ProtectedKind
    <3> HIDE DEF c
    <3>3. ~obj'.up /\ obj'.del /\ obj.del
      BY <2>3, <3>1, <3>2, WrittenFacts, Zenon DEF Inv, TypeOK
    <3>4. Owned = {} /\ Owned' = Owned
      BY <2>1, <3>2, OneOwned DEF Owned, Live, Exists
    <3>5. obj'.del = obj.del
      BY <2>3, <3>1, <3>2, WrittenFacts, Zenon DEF Inv, TypeOK
    <3> QED BY <2>1, <3>3, <3>4, <3>5 DEF Own!Next, Own!Finish, Own!vars
  <2> QED BY <2>1, <2>2, <2>3
<1>8. CASE DeleteObject
  <2>1. /\ ~obj.del /\ obj'.del = TRUE /\ obj'.up = obj.fin /\ obj.up
        /\ aws' = aws /\ lost' = lost /\ retired' = retired
    BY <1>8 DEF DeleteObject, Inv, TypeOK, Object
  <2>2. Owned' = Owned
    BY <2>1 DEF Owned, Live
  <2>3. ~obj.fin => Owned = {}
    BY OneOwned DEF Inv, Held
  <2> QED BY <2>1, <2>2, <2>3, FieldFacts, Zenon DEF Own!Next, Own!Ask, Own!vars, Inv
<1> QED BY <1>1, <1>2, <1>3, <1>4, <1>5, <1>6, <1>7, <1>8 DEF Next, Reconcile, Gone, Modifies

\* A provider whose kinds are all protected keeps the promises of Ownership:
\* the lifecycle of their controllers refines it.
THEOREM Refinement ==
    ASSUME \A k \in AllKinds : ProtectedKind(k)
    PROVE  Spec => OwnershipKept
<1>1. Init => Own!Init
  <2> SUFFICES ASSUME Init PROVE Own!Init
    OBVIOUS
  <2>1. Owned = {}
    BY DEF Init, Owned, Live, Absent
  <2>2. obj.del = FALSE /\ obj.up = TRUE /\ retired = FALSE
    BY DEF Init, Fresh
  <2> QED BY <2>1, <2>2 DEF Own!Init
<1>2. Inv => Protected
  BY DEF Inv, TypeOK, Protected
<1>3. Inv /\ [Next]_vars => [Own!Next]_Own!vars
  BY <1>2, OwnershipStep
<1> QED BY <1>1, <1>3, Invariance, PTL DEF Spec, OwnershipKept, Own!Spec
=============================================================================
