----------------------------- MODULE Lifecycle -----------------------------
(***************************************************************************)
(* One managed resource, from the moment a user creates the Kubernetes     *)
(* object to the moment the object is gone, for any kind of module Kinds.  *)
(*                                                                         *)
(* Four parties take steps: the user edits and deletes the object; the API *)
(* server's watch updates the informer cache the reconciler reads from;    *)
(* AWS finishes what it was asked to do (and somebody else may delete the  *)
(* resource there); and the managed reconciler runs a reconcile, one API   *)
(* call per step, with the kind's callbacks.  Any call may fail, with or   *)
(* without having taken effect, and the provider process may crash between *)
(* any two steps.                                                          *)
(*                                                                         *)
(* The reconciler loop and the API server are external code (crossplane-   *)
(* runtime, Kubernetes); they are modelled from how the controllers use    *)
(* them.  The callbacks are the controllers of this repository.            *)
(***************************************************************************)
EXTENDS Kinds, Naturals

CONSTANTS
    AllKinds,     \* the kinds to consider, a subset of KindType
    First,        \* bound: the desired states of a new object, a subset of Specs
    Wishes,       \* bound: the desired states an edit chooses from, likewise
    MaxIds,       \* bound: identifiers AWS hands out, a quota
    MaxFaults,    \* bound: failed calls and crashes
    MaxEdits,     \* bound: edits of the desired state by the user
    MaxOutside,   \* bound: deletions behind the provider's back
    Retries       \* attempts at saving an assigned name (retry.DefaultRetry)

ASSUME KindsAssumption == AllKinds \subseteq KindType
ASSUME WishesAssumption == First \subseteq Specs /\ Wishes \subseteq Specs
ASSUME BoundsAssumption ==
    /\ MaxIds \in Nat \ {0} /\ Retries \in Nat \ {0}
    /\ MaxFaults \in Nat /\ MaxEdits \in Nat /\ MaxOutside \in Nat

VARIABLES
    kind,     \* the kind of the managed resource; never changes
    obj,      \* the object stored in the API server
    cache,    \* the object in the informer cache: a past version of obj
    cr,       \* the reconciler's in-memory copy
    pc,       \* the next call of the reconcile in progress, or "idle"
    obs,      \* what Observe returned
    made,     \* the identifier Create returned, 0 for none
    tries,    \* attempts left at saving that identifier
    aws,      \* what exists at AWS, by identifier
    used,     \* identifiers AWS has handed out so far
    lost,     \* history: identifiers whose Create answer or save was lost
    retired,  \* history: a Delete call has been issued
    faults, edits, outside   \* how much of each bound is used

vars == <<kind, obj, cache, cr, pc, obs, made, tries, aws, used, lost, retired,
          faults, edits, outside>>
world == <<kind, edits, outside>>

Ids == 1..MaxIds
Names == 0..MaxIds          \* 0 is the empty external name
Synced == {"", "error", "success"}
Status == {"", "creating", "available", "modifying", "deleting"}
States == {"absent", "creating", "available", "modifying", "deleting", "deleted"}
Object == [up : BOOLEAN, rv : Nat, fin : BOOLEAN, del : BOOLEAN, name : Names,
           spec : Specs, tags : BOOLEAN, late : BOOLEAN,
           st : Status, sync : Synced]
Resource == [state : States, spec : Specs, ref : Nat]
Observation == [exists : BOOLEAN, upToDate : BOOLEAN, late : BOOLEAN]
Steps == {"idle", "name", "tag", "observe", "finalize", "early", "create", "persist",
          "save", "update", "delete", "destroy", "unfinalize", "status", "failed"}

Nothing == [exists |-> FALSE, upToDate |-> FALSE, late |-> FALSE]
Absent == [state |-> "absent", spec |-> {}, ref |-> 0]
Live(id) == aws[id].state \notin {"absent", "deleted"}

\* Mutants: a resource being deleted counts as gone; a tombstone as existing.
ExistsUntilDeleting(id) == id \in Ids /\ Live(id) /\ aws[id].state # "deleting"

\* What Observe takes for an existing resource.
Exists(id) == id \in Ids /\ Live(id)

TypeOK ==
    /\ kind \in AllKinds /\ obj \in Object /\ cache \in Object /\ cr \in Object
    /\ pc \in Steps /\ obs \in Observation
    /\ made \in Names /\ tries \in 0..Retries
    /\ aws \in [Ids -> Resource] /\ used \in 0..MaxIds
    /\ lost \subseteq Ids /\ retired \in BOOLEAN
    /\ faults \in 0..MaxFaults /\ edits \in 0..MaxEdits /\ outside \in 0..MaxOutside

\* A new object, and the reconciler's copy while it has none.
Fresh == [up |-> TRUE, rv |-> 1, fin |-> FALSE, del |-> FALSE, name |-> 0,
          spec |-> {}, tags |-> FALSE, late |-> FALSE, st |-> "", sync |-> ""]

\* The user has created the object, with any desired state; nothing exists at
\* AWS.
Init ==
    /\ kind \in AllKinds
    /\ obj \in {[Fresh EXCEPT !.spec = s] : s \in First} /\ cache = obj /\ cr = Fresh
    /\ pc = "idle" /\ obs = Nothing
    /\ made = 0 /\ tries = 0
    /\ aws = [i \in Ids |-> Absent] /\ used = 0
    /\ lost = {} /\ retired = FALSE
    /\ faults = 0 /\ edits = 0 /\ outside = 0

-----------------------------------------------------------------------------
(* The API server: optimistic concurrency on the resource version.         *)

\* The stored object after a write: a write that changes nothing keeps the
\* version, and an object being deleted goes when its last finalizer goes.
Stored(new) ==
    LET v == [new EXCEPT !.rv = obj.rv, !.up = ~(new.del /\ ~new.fin)]
    IN  IF v = obj THEN obj ELSE [v EXCEPT !.rv = obj.rv + 1]

Current == obj.up /\ cr.rv = obj.rv

\* kube.Update stores everything but the status, which it reads back;
\* kube.Status().Update stores the status only.
Written(c) == Stored([c EXCEPT !.st = obj.st, !.sync = obj.sync])
StatusWritten(c) == Stored([obj EXCEPT !.st = c.st, !.sync = c.sync])

Fault == faults < MaxFaults /\ faults' = faults + 1

\* Any call may fail; an error ends the reconcile.
FailedCall == Fault /\ pc' = "failed"

\* A write of the object: it succeeds and the reconcile goes on, or it is
\* refused as a conflict, or it fails with or without having been stored.
Write(stored, next) ==
    \/ /\ Current /\ obj' = stored /\ cr' = stored /\ pc' = next
       /\ UNCHANGED faults
    \/ /\ ~Current /\ pc' = "failed" /\ UNCHANGED <<obj, cr, faults>>
    \/ /\ FailedCall /\ obj' \in (IF Current THEN {obj, stored} ELSE {obj})
       /\ UNCHANGED cr

-----------------------------------------------------------------------------
(* The reconciler and the callbacks of the kind.                           *)

\* A reconcile starts from the informer cache.
Start ==
    /\ pc = "idle" /\ cache.up
    /\ cr' = cache /\ pc' = "name"
    /\ UNCHANGED <<world, obj, cache, obs, made, tries, aws, used, lost, retired, faults>>

\* NewNameAsExternalName: a kind with a given name saves it when it is empty.
NameAsExternalName ==
    /\ pc = "name"
    /\ IF kind.naming = "given" /\ cr.name = 0
       THEN Write(Written([cr EXCEPT !.name = 1]), "tag")
       ELSE pc' = "tag" /\ UNCHANGED <<obj, cr, faults>>
    /\ UNCHANGED <<world, cache, obs, made, tries, aws, used, lost, retired>>

\* Mutant: the tagger does not write the object.
InitializeInMemory ==
    /\ pc = "tag" /\ pc' = "observe"
    /\ UNCHANGED <<world, obj, cache, cr, obs, made, tries, aws, used, lost, retired, faults>>

\* tagger.Initialize: adds the tags and calls kube.Update, changed or not.
Initialize ==
    /\ pc = "tag"
    /\ IF kind.tagger THEN Write(Written([cr EXCEPT !.tags = TRUE]), "observe")
                      ELSE pc' = "observe" /\ UNCHANGED <<obj, cr, faults>>
    /\ UNCHANGED <<world, cache, obs, made, tries, aws, used, lost, retired>>

\* Mutant: an object being deleted whose resource is gone is set up again.
AfterObserveRecreates(exists) == IF cr.del /\ exists THEN "delete" ELSE "finalize"

\* Where the reconciler goes after Observe.
AfterObserve(exists) ==
    CASE cr.del /\ exists -> "delete"
      [] cr.del /\ ~exists -> "unfinalize"
      [] OTHER -> "finalize"

\* Observe of a resource that is not there: the status is left as it was.
ObserveAbsent ==
    /\ pc = "observe" /\ ~Exists(cr.name)
    /\ obs' = Nothing /\ pc' = AfterObserve(FALSE)
    /\ UNCHANGED <<world, obj, cache, cr, made, tries, aws, used, lost, retired, faults>>

\* Mutant: Observe takes every existing resource for up to date.
FoundUpToDate(late) == [exists |-> TRUE, upToDate |-> TRUE, late |-> late]

\* Observe compares the parts its kind watches, a list of tags as a whole.
UpToDate == aws[cr.name].spec \cap kind.watched = cr.spec \cap kind.watched
Found(late) == [exists |-> TRUE, upToDate |-> UpToDate, late |-> late]
Seen(c) == [c EXCEPT !.st = aws[cr.name].state]

\* Observe of an existing resource with nothing to save inside Observe.
Observe ==
    /\ pc = "observe" /\ Exists(cr.name)
    /\ cr.late \/ kind.late \in {"flag", "none"}
    /\ obs' = Found(kind.late = "flag" /\ ~cr.late)
    /\ cr' = [Seen(cr) EXCEPT !.late = @ \/ kind.late = "flag"]
    /\ pc' = AfterObserve(TRUE)
    /\ UNCHANGED <<world, obj, cache, made, tries, aws, used, lost, retired, faults>>

\* Observe that saves late-initialised fields with kube.Update first.
ObserveLateInit ==
    LET stored == Written([cr EXCEPT !.late = TRUE])
    IN  /\ pc = "observe" /\ Exists(cr.name)
        /\ ~cr.late /\ kind.late \in {"observe", "retry"}
        /\ \/ /\ Current /\ obj' = stored /\ cr' = Seen(stored)
              /\ obs' = Found(FALSE)
              /\ pc' = AfterObserve(TRUE) /\ UNCHANGED faults
           \/ /\ ~Current /\ pc' = "failed" /\ UNCHANGED <<obj, cr, obs, faults>>
           \/ /\ FailedCall
              /\ obj' \in (IF Current THEN {obj, stored} ELSE {obj})
              /\ UNCHANGED <<cr, obs>>
        /\ UNCHANGED <<world, cache, made, tries, aws, used, lost, retired>>

\* A failed kube.Update is called again and the outcome of the second call is
\* returned with an empty observation: when the second call succeeds, Observe
\* says "does not exist" without an error.
ObserveRetry ==
    LET stored == Written([cr EXCEPT !.late = TRUE])
    IN  /\ pc = "observe" /\ Exists(cr.name)
        /\ ~cr.late /\ kind.late = "retry"
        /\ Current /\ Fault
        /\ obj' = stored /\ cr' = stored
        /\ obs' = Nothing /\ pc' = AfterObserve(FALSE)
        /\ UNCHANGED <<world, cache, made, tries, aws, used, lost, retired>>

\* Connect or the describe call fails.
ObserveFails ==
    /\ pc = "observe" /\ FailedCall
    /\ UNCHANGED <<world, obj, cache, cr, obs, made, tries, aws, used, lost, retired>>

\* AddFinalizer writes only when the finalizer is missing.
AfterFinalizer ==
    CASE ~obs.exists -> IF kind.early THEN "early" ELSE "create"
      [] obs.exists /\ obs.late -> "save"
      [] OTHER -> IF obs.upToDate THEN "status" ELSE "update"

AddFinalizer ==
    /\ pc = "finalize"
    /\ IF cr.fin THEN pc' = AfterFinalizer /\ UNCHANGED <<obj, cr, faults>>
                 ELSE Write(Written([cr EXCEPT !.fin = TRUE]), AfterFinalizer)
    /\ UNCHANGED <<world, cache, obs, made, tries, aws, used, lost, retired>>

\* Create saves the Creating condition before it calls AWS.
CreateStatus ==
    /\ pc = "early" /\ Write(StatusWritten([cr EXCEPT !.st = "creating"]), "create")
    /\ UNCHANGED <<world, cache, obs, made, tries, aws, used, lost, retired>>

\* The resources a Create call of this object would collide with.
Clash == {i \in Ids : Live(i) /\ CASE kind.reuse = "new" -> FALSE
                                   [] kind.reuse = "version" -> aws[i].ref = cr.rv
                                   [] OTHER -> TRUE}

\* A new resource has what the create call carries; Update brings the rest.
New(id) == [aws EXCEPT ![id] = [state |-> IF kind.async THEN "creating" ELSE "available",
                                spec |-> cr.spec \cap kind.sent, ref |-> cr.rv]]
NextId == IF kind.naming = "given" THEN 1 ELSE used + 1
AfterCreate == IF kind.naming = "assigned" THEN "persist"
               ELSE IF kind.resave THEN "save" ELSE "status"

\* Create returns at once when the saved status says "creating".
CreateSkipped ==
    /\ pc = "create" /\ kind.skip /\ cr.st = "creating"
    /\ pc' = "status"
    /\ UNCHANGED <<world, obj, cache, cr, obs, made, tries, aws, used, lost, retired, faults>>

Creates == pc = "create" /\ ~(kind.skip /\ cr.st = "creating")

\* The AWS create call makes a resource and returns its identifier.
Create ==
    /\ Creates /\ Clash = {} /\ NextId \in Ids
    /\ aws' = New(NextId) /\ made' = NextId /\ tries' = Retries
    /\ used' = IF NextId > used THEN NextId ELSE used
    /\ pc' = AfterCreate
    /\ UNCHANGED <<world, obj, cache, cr, obs, lost, retired, faults>>

\* The call made a resource but its answer never arrived.
CreateAnswerLost ==
    /\ Creates /\ Clash = {} /\ NextId \in Ids
    /\ aws' = New(NextId)
    /\ used' = IF NextId > used THEN NextId ELSE used
    /\ lost' = IF kind.naming = "assigned" THEN lost \union {NextId} ELSE lost
    /\ FailedCall
    /\ UNCHANGED <<world, obj, cache, cr, obs, made, tries, retired>>

\* AWS answers a repeated create call with the existing resource ...
CreateAdopts ==
    /\ Creates /\ kind.reuse = "adopt"
    /\ \E i \in Clash : made' = i /\ lost' = lost \ {i}
    /\ tries' = Retries /\ pc' = AfterCreate
    /\ UNCHANGED <<world, obj, cache, cr, obs, aws, used, retired, faults>>

\* ... or refuses it, as it does when the quota of the account is used up.
CreateRefused ==
    /\ Creates
    /\ \/ Clash # {} /\ kind.reuse # "adopt"
       \/ Clash = {} /\ NextId \notin Ids
    /\ pc' = "failed"
    /\ UNCHANGED <<world, obj, cache, cr, obs, made, tries, aws, used, lost, retired, faults>>

CreateFails ==
    /\ Creates /\ FailedCall
    /\ UNCHANGED <<world, obj, cache, cr, obs, made, tries, aws, used, lost, retired>>

\* Mutant: saving the name is retried for ever.
NeverExhausted == FALSE

Exhausted == tries <= 1

\* The reconciler saves the assigned name: it reads the object again, from the
\* cache, and retries while the API server reports errors.
SaveName ==
    LET c == [cache EXCEPT !.name = made]
        fresh == cache.up /\ obj.up /\ cache.rv = obj.rv
        GiveUp == lost' = IF obj'.name = made THEN lost ELSE lost \union {made}
        Again == ~Exhausted /\ tries' = tries - 1 /\ pc' = "persist" /\ UNCHANGED lost
        Stop == pc' = "failed" /\ UNCHANGED tries /\ GiveUp
    IN  /\ pc = "persist"
        /\ \/ /\ fresh /\ obj' = Written(c) /\ cr' = obj' /\ pc' = "status"
              /\ UNCHANGED <<tries, lost, faults>>
           \/ /\ ~fresh /\ cr' = c /\ UNCHANGED <<obj, faults>>
              /\ IF Exhausted THEN Stop ELSE Again
           \/ /\ Fault /\ cr' = c
              /\ obj' \in (IF fresh THEN {obj, Written(c)} ELSE {obj})
              /\ Again \/ Stop
        /\ UNCHANGED <<world, cache, obs, made, aws, used, retired>>

\* kube.Update of the whole object: the reconciler saves late-initialised
\* fields, or Create ends with an update of its own.
Save ==
    /\ pc = "save"
    /\ Write(Written(cr), IF obs.exists /\ ~obs.upToDate THEN "update" ELSE "status")
    /\ UNCHANGED <<world, cache, obs, made, tries, aws, used, lost, retired>>

\* Mutant: Update also waits for an available resource.
BusyAlways == kind.busy # "never"

\* Update waits for a resource that is busy.
Busy == \/ kind.busy = "modifying" /\ cr.st \in {"creating", "modifying"}
        \/ kind.busy = "unavailable" /\ cr.st # "available"

UpdateSkipped ==
    /\ pc = "update" /\ Busy /\ pc' = "status"
    /\ UNCHANGED <<world, obj, cache, cr, obs, made, tries, aws, used, lost, retired, faults>>

\* AWS takes a modification of a resource that exists and is not busy.
Modifiable == Live(cr.name) /\ (kind.busy # "never" => aws[cr.name].state = "available")

\* What the calls for some parts of the desired state make of the resource's:
\* they set, or add, what the object asks for, and take off the rest only
\* where the kind has a call for that.
Applied(parts) ==
    (aws[cr.name].spec \ ((parts \cap kind.drops) \ cr.spec))
        \union (parts \cap kind.puts \cap cr.spec)
Modified(parts) ==
    LET spec == Applied(parts)
    IN  [aws EXCEPT ![cr.name].spec = spec,
                    ![cr.name].state = IF kind.busy # "never"
                                          /\ ("value" \in spec) # ("value" \in aws[cr.name].spec)
                                       THEN "modifying" ELSE @]

\* Update makes a call or more for each part.  When one fails, some parts may
\* have been applied and others not.
Modifications == IF Modifiable THEN {Modified(parts) : parts \in SUBSET Parts} ELSE {aws}

\* Mutant: Update deletes the resource so that it is created anew.
UpdateReplaces ==
    /\ pc = "update" /\ ~Busy
    /\ aws' = [aws EXCEPT ![cr.name] = Absent] /\ retired' = TRUE /\ pc' = "status"
    /\ UNCHANGED <<world, obj, cache, cr, obs, made, tries, used, lost, faults>>

\* A resource that cannot be modified is an error, but for the kinds that take
\* AWS being busy, or no resource to describe, for none; a failed call is one,
\* but for the kind that forgets the errors of all calls but the last.
Update ==
    /\ pc = "update" /\ ~Busy
    /\ \/ Modifiable /\ aws' = Modified(Parts) /\ pc' = "status" /\ UNCHANGED faults
       \/ /\ ~Modifiable
          /\ pc' = IF IF Live(cr.name) THEN kind.inUse ELSE kind.quiet = "gone"
                   THEN "status" ELSE "failed"
          /\ UNCHANGED <<aws, faults>>
       \/ FailedCall /\ aws' \in Modifications
       \/ kind.quiet = "last" /\ Fault /\ pc' = "status" /\ aws' \in Modifications
    /\ UNCHANGED <<world, obj, cache, cr, obs, made, tries, used, lost, retired>>

\* Mutant: Delete returns early without looking at the status.
DeleteAlwaysSkipped ==
    /\ pc = "delete" /\ kind.skipDel /\ pc' = "status"
    /\ UNCHANGED <<world, obj, cache, cr, obs, made, tries, aws, used, lost, retired, faults>>

\* Delete does not repeat a deletion that status says is under way.
DeleteSkipped ==
    /\ pc = "delete" /\ kind.skipDel /\ cr.st = "deleting" /\ pc' = "status"
    /\ UNCHANGED <<world, obj, cache, cr, obs, made, tries, aws, used, lost, retired, faults>>

Deletes == pc = "delete" /\ ~(kind.skipDel /\ cr.st = "deleting")

\* Delete of some kinds calls Update first, as a best effort: only a missing
\* resource ends it.
UpdateBeforeDelete ==
    /\ Deletes /\ kind.preDel = "update"
    /\ \/ Busy /\ pc' = "destroy" /\ UNCHANGED <<aws, faults>>
       \/ ~Busy /\ ~Live(cr.name) /\ pc' = "status" /\ UNCHANGED <<aws, faults>>
       \/ /\ ~Busy /\ Live(cr.name) /\ pc' = "destroy" /\ UNCHANGED faults
          /\ aws' = IF Modifiable THEN Modified(Parts) ELSE aws
       \/ ~Busy /\ Fault /\ pc' = "destroy" /\ aws' \in Modifications
    /\ UNCHANGED <<world, obj, cache, cr, obs, made, tries, used, lost, retired>>

\* Delete of an authority describes it and disables it when it is active: the
\* status is its "value".  An authority that is not there ends it.
Disabled == [aws EXCEPT ![cr.name].spec = @ \ {"value"}]

DisableBeforeDelete ==
    /\ Deletes /\ kind.preDel = "disable"
    /\ \/ /\ Live(cr.name) /\ aws' = Disabled /\ pc' = "destroy" /\ UNCHANGED faults
       \/ ~Live(cr.name) /\ pc' = "status" /\ UNCHANGED <<aws, faults>>
       \/ FailedCall /\ aws' \in (IF Live(cr.name) THEN {aws, Disabled} ELSE {aws})
    /\ UNCHANGED <<world, obj, cache, cr, obs, made, tries, used, lost, retired>>

Removed(id) == [aws EXCEPT ![id] = IF kind.async /\ Live(id)
                                   THEN [@ EXCEPT !.state = "deleting"] ELSE Absent]

\* The AWS delete call, which is refused for a resource AWS is busy with; most
\* kinds do not take a missing resource for an error.
Delete ==
    /\ (Deletes /\ kind.preDel = "none") \/ pc = "destroy"
    /\ \/ aws' = Removed(cr.name) /\ pc' = "status" /\ UNCHANGED faults
       \/ /\ aws[cr.name].state \notin {"available", "deleting"}
          /\ pc' = "failed" /\ UNCHANGED <<aws, faults>>
       \/ FailedCall /\ aws' \in {aws, Removed(cr.name)}
    /\ retired' = TRUE
    /\ UNCHANGED <<world, obj, cache, cr, obs, made, tries, used, lost>>

\* The reconcile is over and its memory is gone.
Return == pc' = "idle" /\ cr' = Fresh /\ obs' = Nothing /\ made' = 0 /\ tries' = 0

\* RemoveFinalizer ends a reconcile; its failure is saved in the status.
RemoveFinalizer ==
    LET stored == Written([cr EXCEPT !.fin = FALSE])
    IN  /\ pc = "unfinalize"
        /\ \/ Current /\ obj' = stored /\ Return /\ UNCHANGED faults
           \/ /\ ~Current /\ pc' = "failed"
              /\ UNCHANGED <<obj, cr, obs, made, tries, faults>>
           \/ /\ FailedCall /\ obj' \in (IF Current THEN {obj, stored} ELSE {obj})
              /\ UNCHANGED <<cr, obs, made, tries>>
        /\ UNCHANGED <<world, cache, aws, used, lost, retired>>

\* Every other reconcile ends with Status().Update, which saves what Observe
\* saw and the outcome; whether it succeeds is not looked at.
UpdateStatus ==
    LET c == [cr EXCEPT !.sync = IF pc = "status" THEN "success" ELSE "error"]
    IN  /\ pc \in {"status", "failed"} /\ Return
        /\ \/ obj' = (IF Current THEN StatusWritten(c) ELSE obj) /\ UNCHANGED faults
           \/ Fault /\ UNCHANGED obj
        /\ UNCHANGED <<world, cache, aws, used, lost, retired>>

\* A reconcile of an object that is not in the cache does nothing.
Gone == pc = "idle" /\ ~cache.up /\ UNCHANGED vars

-----------------------------------------------------------------------------
(* Everybody else.                                                         *)

\* The provider process stops and starts again.
Crash ==
    /\ pc # "idle" /\ Fault /\ Return
    /\ lost' = IF pc = "persist" /\ obj.name # made THEN lost \union {made} ELSE lost
    /\ UNCHANGED <<world, obj, cache, aws, used, retired>>

\* The watch brings the informer cache up to date.
CacheSync ==
    /\ cache # obj /\ cache' = obj
    /\ UNCHANGED <<world, obj, cr, pc, obs, made, tries, aws, used, lost, retired, faults>>

\* The user changes the desired state: other values, tags added or removed.
EditSpec ==
    /\ obj.up /\ edits < MaxEdits /\ edits' = edits + 1
    /\ \E s \in Wishes \ {obj.spec} : obj' = [obj EXCEPT !.spec = s, !.rv = @ + 1]
    /\ UNCHANGED <<kind, outside, cache, cr, pc, obs, made, tries, aws, used, lost,
                   retired, faults>>

\* The user deletes the object; it stays while it has a finalizer.
DeleteObject ==
    /\ obj.up /\ ~obj.del
    /\ obj' = [obj EXCEPT !.del = TRUE, !.up = obj.fin, !.rv = @ + 1]
    /\ UNCHANGED <<world, cache, cr, pc, obs, made, tries, aws, used, lost, retired, faults>>

\* AWS finishes an operation.
AwsProgress(id) ==
    /\ aws[id].state \in {"creating", "modifying", "deleting"}
    /\ aws' = [aws EXCEPT ![id] =
                  CASE @.state # "deleting" -> [@ EXCEPT !.state = "available"]
                    [] kind.tomb -> [@ EXCEPT !.state = "deleted"]
                    [] OTHER -> Absent]
    /\ UNCHANGED <<world, obj, cache, cr, pc, obs, made, tries, used, lost, retired, faults>>

\* Somebody deletes the resource without the provider.
OutsideDelete(id) ==
    /\ Live(id) /\ outside < MaxOutside /\ outside' = outside + 1
    /\ aws' = [aws EXCEPT ![id] = Absent]
    /\ UNCHANGED <<kind, edits, obj, cache, cr, pc, obs, made, tries, used, lost,
                   retired, faults>>

Reconcile ==
    \/ Start \/ NameAsExternalName \/ Initialize
    \/ ObserveAbsent \/ Observe \/ ObserveLateInit \/ ObserveRetry \/ ObserveFails
    \/ AddFinalizer \/ CreateStatus
    \/ CreateSkipped \/ Create \/ CreateAnswerLost \/ CreateAdopts \/ CreateRefused
    \/ CreateFails \/ SaveName \/ Save
    \/ UpdateSkipped \/ Update \/ DeleteSkipped \/ UpdateBeforeDelete
    \/ DisableBeforeDelete \/ Delete
    \/ RemoveFinalizer \/ UpdateStatus

Next ==
    \/ Reconcile \/ Gone \/ Crash \/ CacheSync \/ EditSpec \/ DeleteObject
    \/ \E id \in Ids : AwsProgress(id) \/ OutsideDelete(id)

Spec == Init /\ [][Next]_vars

\* The work queue retries a failed reconcile and polls an idle object, the
\* watch delivers what it has, and AWS finishes what it started.
Fairness ==
    /\ WF_vars(Reconcile) /\ WF_vars(CacheSync)
    /\ \A id \in Ids : WF_vars(AwsProgress(id))

FairSpec == Spec /\ Fairness

-----------------------------------------------------------------------------
(* Properties.                                                             *)

\* Kinds that a stale read of the object cannot lead to a second Create: they
\* write the object before Create, or AWS knows the request is a repetition.
\* (The zone's caller reference, made of the resource version, is no such
\* protection: every save of the status changes it.)
ProtectedKind(k) ==
    k.late # "retry" /\ (k.tagger \/ k.early \/ k.reuse \in {"reject", "adopt"})
Protected == ProtectedKind(kind)

\* A live resource is named by the object that holds a finalizer for it, or its
\* name is about to be saved.
Tracked(id) ==
    \/ obj.up /\ obj.fin /\ obj.name = id
    \/ pc = "persist" /\ made = id

\* No resource is orphaned at AWS by a stale cache, a conflict, a concurrent
\* edit or deletion, or a crash at any other point: only an answer of Create
\* or a save of the name that got lost can lose one.
NoLeak == Protected => \A id \in Ids : Live(id) => Tracked(id) \/ id \in lost

\* What the object owns: the live resources whose name is not lost.
Owned == {id \in Ids : Live(id)} \ lost

\* The lifecycle of a protected kind keeps the promises of module Ownership:
\* one resource at a time, Delete only for an object the user has deleted, no
\* Create after Delete, and no object that goes before its resource.
Own == INSTANCE Ownership WITH owned <- Owned, asked <- obj.del, ended <- retired,
                               gone <- ~obj.up
OwnershipKept == Own!Spec

\* Once Delete has been called, Create never makes a resource again.
NoResurrection ==
    [][retired => \A id \in Ids : Live(id)' => Live(id)]_vars

\* Deleting an object always comes to an end.
DeletionCompletes == obj.del ~> ~obj.up

\* What Create cannot recover from: a resource that somebody deleted while the
\* saved status said "creating" is taken to be on its way; and a name that
\* AWS will not give twice is taken by a resource nobody remembers.
Stuck ==
    \/ kind.skip /\ obj.st = "creating" /\ outside > 0 /\ ~Exists(obj.name)
    \/ kind.reuse = "reject" /\ \E id \in lost : Live(id)

\* An object nobody deletes ends up with a resource, unless Create is stuck,
\* once edits, faults and interference stop.  Of what its kind's Observe
\* compares, the resource has everything the object asks for, and nothing
\* else that Update could take off.
Converges ==
    <>[](obj.up /\ ~obj.del /\ ~Stuck =>
            /\ Exists(obj.name)
            /\ obj.spec \cap kind.watched \subseteq aws[obj.name].spec
            /\ aws[obj.name].spec \cap kind.watched \cap kind.drops \subseteq obj.spec)

\* Update is called for something it can do: "IsVpcUpToDate returns true if
\* there is no update-able difference between desired and observed state of
\* the resource" (pkg/clients/ec2/vpc.go).
DifferenceIsUpdatable ==
    pc = "update" /\ Modifiable => Applied(Parts) # aws[cr.name].spec

\* The caller reference of a zone: "allows failed HostedZone create requests
\* to be retried without the risk of executing the operation twice"
\* (HostedZoneResponse.CallerReference).
RetriedCreateRunsOnce == \A i, j \in Ids : Live(i) /\ Live(j) => i = j

\* A failed call during Observe ends the reconcile with an error.
FailedLateInitIsAnError ==
    [][pc = "observe" /\ faults' # faults => pc' \in {"failed", "idle"}]_vars

=============================================================================
