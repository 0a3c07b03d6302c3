------------------------------- MODULE Bucket -------------------------------
(***************************************************************************)
(* An S3 bucket and its subresources.  Observe goes through the            *)
(* subresource clients in a fixed order, fills settings the user left open *)
(* from AWS (in memory), and stops at the first one that differs; only     *)
(* when all of them match does it save what it filled in and put the ACL.  *)
(* Update goes through them in the same order, one AWS call at a time, and *)
(* stops at the first error.  Meanwhile the user edits the object, the     *)
(* informer cache lags, somebody changes the bucket at AWS, and calls      *)
(* fail.  The object already has its finalizer and its external name, as   *)
(* the reconciler of module Lifecycle leaves it before the first Create.   *)
(*                                                                         *)
(* A setting is "none", "a" or "b".  For Versioning "a" is Enabled and "b" *)
(* Suspended; for Notification "a" fills all of its three lists and "b"    *)
(* only some; a Website has routing rules in "a" and none in "b".          *)
(***************************************************************************)
EXTENDS Naturals, Sequences

CONSTANTS
    Subs,          \* the subresources considered
    Unsupported,   \* Accelerate, in a region without it
    First,         \* bound: the settings a new object may have
    MaxEdits,      \* bound: edits by the user
    MaxOutside,    \* bound: changes at AWS without the provider
    MaxFaults      \* bound: failed calls and crashes

\* Mutant: replication comes before versioning.
ReplicationFirst ==
    <<"Replication", "Versioning", "Accelerate", "CORS", "Lifecycle", "Logging",
      "Notification", "RequestPayment", "SSE", "Tagging", "Website">>

\* The order of the clients.
NewSubresourceClients ==
    <<"Versioning", "Accelerate", "CORS", "Lifecycle", "Logging", "Notification",
      "Replication", "RequestPayment", "SSE", "Tagging", "Website">>

AllSubs == {"Versioning", "Accelerate", "CORS", "Lifecycle", "Logging", "Notification",
            "Replication", "RequestPayment", "SSE", "Tagging", "Website"}

ASSUME SubsAssumption == Subs \subseteq AllSubs /\ Unsupported \subseteq Subs
ASSUME FirstAssumption == First \subseteq {"none", "a", "b"}
ASSUME BucketBounds == MaxEdits \in Nat /\ MaxOutside \in Nat /\ MaxFaults \in Nat

VARIABLES
    obj,       \* the stored object
    cache,     \* the object in the informer cache
    cr,        \* the reconciler's copy
    current,   \* the desired state before late initialisation
    pc,        \* the next step of the reconcile, or "idle"
    left,      \* clients that the loop in progress has still to visit
    bucket,    \* the bucket at AWS
    touched,   \* history: somebody changed the bucket since the reconcile began
    edits, outside, faults   \* how much of each bound is used

local == <<cr, current, pc, left>>
bounds == <<edits, outside, faults>>
vars == <<obj, cache, local, bucket, touched, bounds>>

Values == {"none", "a", "b"}
Fields == Subs \union {"ACL"}
Specs == [Fields -> Values]
Readiness == {"none", "creating", "available", "deleting"}
Outcomes == {"none", "success", "error"}
Object == [up : BOOLEAN, rv : Nat, del : BOOLEAN, spec : Specs,
           ready : Readiness, synced : Outcomes]
Steps == {"idle", "head", "late", "look", "save", "acl", "create", "compare", "put",
          "remove", "delete", "unfinalize"}

TypeOK ==
    /\ obj \in Object /\ cache \in Object /\ cr \in Object /\ current \in Specs
    /\ pc \in Steps /\ left \subseteq Subs
    /\ bucket \in [exists : BOOLEAN, cfg : Specs] /\ touched \in BOOLEAN
    /\ edits \in 0..MaxEdits /\ outside \in 0..MaxOutside /\ faults \in 0..MaxFaults

\* A new bucket: its owner pays for requests, everything else is off.
Default == [f \in Fields |-> IF f = "RequestPayment" THEN "a" ELSE "none"]

\* Between reconciles there is no copy.
NoObject == [up |-> FALSE, rv |-> 0, del |-> FALSE, spec |-> Default,
             ready |-> "none", synced |-> "none"]

Init ==
    /\ \E spec \in Specs :
          /\ spec["ACL"] = "a" /\ \A s \in Subs : spec[s] \in First
          /\ obj = [up |-> TRUE, rv |-> 1, del |-> FALSE, spec |-> spec,
                    ready |-> "none", synced |-> "none"]
    /\ cache = obj /\ cr = NoObject /\ current = Default
    /\ pc = "idle" /\ left = {}
    /\ bucket = [exists |-> FALSE, cfg |-> Default] /\ touched = FALSE
    /\ edits = 0 /\ outside = 0 /\ faults = 0

-----------------------------------------------------------------------------
(* The subresource clients, as the choices in which they differ:           *)
(*   fills    what LateInitialize fills in: "open" a setting the user left *)
(*            open, "full" an incomplete one too, "never" nothing          *)
(*   open     what Observe reports for an open setting that AWS has        *)
(*   removes  whether Delete makes a call                                  *)
(*   differs  the settings that Observe does not recognise at AWS          *)

VersioningConfigurationClient ==
    [fills |-> "open", open |-> "Updated", removes |-> FALSE, differs |-> {}]

AccelerateConfigurationClient ==
    [fills |-> "open", open |-> "Updated", removes |-> FALSE, differs |-> {}]

LoggingConfigurationClient ==
    [fills |-> "open", open |-> "NeedsUpdate", removes |-> FALSE, differs |-> {}]

RequestPaymentConfigurationClient ==
    [fills |-> "open", open |-> "NeedsUpdate", removes |-> FALSE, differs |-> {}]

NotificationConfigurationClient ==
    [fills |-> "full", open |-> "NeedsDeletion", removes |-> FALSE, differs |-> {}]

CORSConfigurationClient ==
    [fills |-> "never", open |-> "NeedsDeletion", removes |-> TRUE, differs |-> {}]

LifecycleConfigurationClient ==
    [fills |-> "never", open |-> "NeedsDeletion", removes |-> TRUE, differs |-> {}]

ReplicationConfigurationClient ==
    [fills |-> "never", open |-> "NeedsDeletion", removes |-> TRUE, differs |-> {}]

SSEConfigurationClient ==
    [fills |-> "never", open |-> "NeedsDeletion", removes |-> TRUE, differs |-> {}]

TaggingConfigurationClient ==
    [fills |-> "never", open |-> "NeedsDeletion", removes |-> TRUE, differs |-> {}]

\* GenerateWebsiteConfiguration makes an empty list of no routing rules, which
\* is not equal to the missing list that AWS returns.
WebsiteConfigurationClient ==
    [fills |-> "never", open |-> "NeedsDeletion", removes |-> TRUE, differs |-> {"b"}]

Clients ==
    [Versioning |-> VersioningConfigurationClient, Accelerate |-> AccelerateConfigurationClient,
     CORS |-> CORSConfigurationClient, Lifecycle |-> LifecycleConfigurationClient,
     Logging |-> LoggingConfigurationClient, Notification |-> NotificationConfigurationClient,
     Replication |-> ReplicationConfigurationClient,
     RequestPayment |-> RequestPaymentConfigurationClient, SSE |-> SSEConfigurationClient,
     Tagging |-> TaggingConfigurationClient, Website |-> WebsiteConfigurationClient]

\* The order decides which client is next.
Precedes(s, t) ==
    \E m, n \in 1..11 : m < n /\ NewSubresourceClients[m] = s /\ NewSubresourceClients[n] = t
Visits(s) == s \in left /\ \A t \in left \ {s} : Precedes(s, t)

\* Mutant: a setting that AWS does not have is filled with an empty one.
LateInitializeEmpty(s, own, external) ==
    IF own # "none" THEN own ELSE IF external = "none" THEN "" ELSE external

\* LateInitialize of a client, which has nothing to do where AWS does not have
\* the subresource.
LateInitialize(s, own, external) ==
    CASE s \notin Unsupported /\ Clients[s].fills = "open" /\ own = "none" -> external
      [] s \notin Unsupported /\ Clients[s].fills = "full" /\ external = "a" -> "a"
      [] OTHER -> own

\* Mutant: what the user does not set is not compared.
StatusOfSet(s, own, external) ==
    IF own \in {"none", external} THEN "Updated" ELSE "NeedsUpdate"

\* Mutant: a region without acceleration is like any other.
StatusAnyRegion(s, own, external) ==
    CASE own = external -> "Updated"
      [] own # external /\ own = "none" -> Clients[s].open
      [] OTHER -> "NeedsUpdate"

\* Observe of a client.
Status(s, own, external) ==
    CASE s \in Unsupported \/ (own = external /\ own \notin Clients[s].differs) -> "Updated"
      [] s \notin Unsupported /\ own # external /\ own = "none" -> Clients[s].open
      [] OTHER -> "NeedsUpdate"

\* AWS takes no replication for a bucket that is not versioned, does not
\* suspend the versioning of a bucket that is replicated, and takes nothing
\* that the region does not have.
Refused(s, v) ==
    \/ s = "Replication" /\ "Versioning" \in Subs /\ bucket.cfg["Versioning"] # "a"
    \/ s = "Versioning" /\ v # "a" /\ "Replication" \in Subs
       /\ bucket.cfg["Replication"] # "none"
    \/ s \in Unsupported

\* What the calls make of the bucket.
NewBucket == [exists |-> TRUE, cfg |-> [Default EXCEPT !["ACL"] = cr.spec["ACL"]]]
NoBucket == [exists |-> FALSE, cfg |-> Default]
WithACL == [bucket EXCEPT !.cfg["ACL"] = cr.spec["ACL"]]
With(s) == IF cr.spec[s] = "none" \/ Refused(s, cr.spec[s]) THEN bucket
           ELSE [bucket EXCEPT !.cfg[s] = cr.spec[s]]
Without(s) == IF Clients[s].removes THEN [bucket EXCEPT !.cfg[s] = "none"] ELSE bucket

\* What the writes make of the object.
Filled == [obj EXCEPT !.spec = cr.spec, !.rv = @ + 1]
Released == [obj EXCEPT !.up = FALSE, !.rv = @ + 1]
-----------------------------------------------------------------------------
(* The reconcile.                                                          *)

Current == obj.up /\ cr.rv = obj.rv

\* The reconcile is over and is retried or polled later.
Stop == cr' = NoObject /\ current' = Default /\ pc' = "idle" /\ left' = {}

\* Its last act is to write the conditions; the write conflicts if the object
\* has moved on, and does nothing if the conditions are the same.
Finish(ready, synced) ==
    /\ Stop
    /\ obj' = IF Current /\ <<ready, synced>> # <<obj.ready, obj.synced>>
              THEN [obj EXCEPT !.ready = ready, !.synced = synced, !.rv = @ + 1]
              ELSE obj

\* Create and Delete set their condition before they call AWS.
Ready == CASE pc = "create" -> "creating" [] pc = "delete" -> "deleting" [] OTHER -> cr.ready

Fails == Finish(Ready, "error")

Goto(step, subs) == pc' = step /\ left' = subs /\ UNCHANGED <<cr, current>>

\* The controller reads the object from the informer cache.
Start ==
    /\ pc = "idle" /\ cache.up
    /\ cr' = cache /\ current' = cache.spec /\ pc' = "head" /\ left' = {}
    /\ touched' = FALSE
    /\ UNCHANGED <<obj, cache, bucket, bounds>>

\* A call to AWS or to the API server fails without having taken effect.
CallFails ==
    /\ pc # "idle" /\ faults < MaxFaults /\ faults' = faults + 1
    /\ Fails
    /\ UNCHANGED <<cache, bucket, touched, edits, outside>>

\* A call to AWS takes effect, but its answer never arrives.
AnswerLost ==
    /\ faults < MaxFaults /\ faults' = faults + 1
    /\ \/ pc = "create" /\ ~bucket.exists /\ bucket' = NewBucket
       \/ pc = "delete" /\ bucket' = NoBucket
       \/ pc = "acl" /\ bucket.exists /\ bucket' = WithACL
       \/ pc = "put" /\ bucket.exists /\ \E s \in Subs : Visits(s) /\ bucket' = With(s)
       \/ pc = "remove" /\ bucket.exists /\ \E s \in Subs : Visits(s) /\ bucket' = Without(s)
    /\ Fails
    /\ UNCHANGED <<cache, touched, edits, outside>>

\* So does a write of the object; the write of the conditions then conflicts.
WriteAnswerLost ==
    /\ faults < MaxFaults /\ faults' = faults + 1
    /\ Current
    /\ \/ pc = "save" /\ cr.spec # current /\ obj' = Filled
       \/ pc = "unfinalize" /\ obj' = Released
    /\ Stop
    /\ UNCHANGED <<cache, bucket, touched, edits, outside>>

\* Mutant: any error of HeadBucket means that there is no bucket.
HeadBucketAnyError ==
    /\ pc = "head"
    /\ \/ bucket.exists /\ Goto("late", Subs) /\ UNCHANGED faults
       \/ bucket.exists /\ faults < MaxFaults /\ faults' = faults + 1
          /\ Goto(IF cr.del THEN "unfinalize" ELSE "create", {})
       \/ ~bucket.exists /\ Goto(IF cr.del THEN "unfinalize" ELSE "create", {}) /\ UNCHANGED faults
    /\ UNCHANGED <<obj, cache, bucket, touched, edits, outside>>

\* HeadBucket decides whether there is a bucket.
HeadBucket ==
    /\ pc = "head"
    /\ CASE bucket.exists -> Goto("late", Subs)
         [] ~bucket.exists /\ cr.del -> Goto("unfinalize", {})
         [] OTHER -> Goto("create", {})
    /\ UNCHANGED <<obj, cache, bucket, touched, bounds>>

\* Calls for a bucket that is gone fail.
BucketGone ==
    /\ pc \in {"late", "look", "compare", "put", "remove", "acl"}
    /\ ~bucket.exists
    /\ Fails
    /\ UNCHANGED <<cache, bucket, touched, bounds>>

ObserveLate ==
    /\ pc = "late" /\ bucket.exists
    /\ \E s \in Subs :
          /\ Visits(s)
          /\ cr' = [cr EXCEPT !.spec[s] = LateInitialize(s, @, bucket.cfg[s])]
    /\ pc' = "look" /\ UNCHANGED <<current, left>>
    /\ UNCHANGED <<obj, cache, bucket, touched, bounds>>

\* Mutant: a deleted object is brought up to date before its bucket is deleted.
ObserveForUpdate ==
    /\ pc = "look" /\ bucket.exists
    /\ \E s \in Subs :
          /\ Visits(s)
          /\ IF Status(s, cr.spec[s], bucket.cfg[s]) = "Updated"
             THEN Goto(IF left = {s} THEN "save" ELSE "late", left \ {s})
             ELSE Goto("compare", Subs)
    /\ UNCHANGED <<obj, cache, bucket, touched, bounds>>

\* A deleted object needs no update; the others are updated.
ObserveStatus ==
    /\ pc = "look" /\ bucket.exists
    /\ \E s \in Subs :
          /\ Visits(s)
          /\ CASE Status(s, cr.spec[s], bucket.cfg[s]) = "Updated" ->
                     Goto(IF left = {s} THEN "save" ELSE "late", left \ {s})
               [] Status(s, cr.spec[s], bucket.cfg[s]) # "Updated" /\ cr.del ->
                     Goto("delete", {})
               [] OTHER -> Goto("compare", Subs)
    /\ UNCHANGED <<obj, cache, bucket, touched, bounds>>

\* Mutant: the save does not look at the resource version.
SaveUnchecked ==
    /\ pc = "save" /\ obj.up
    /\ obj' = Filled /\ cr' = obj'
    /\ pc' = "acl" /\ UNCHANGED <<current, left, cache, bucket, touched, bounds>>

\* kube.Update saves what late initialisation filled in.
SaveLateInitialized ==
    /\ pc = "save"
    /\ \/ cr.spec = current /\ Goto("acl", {}) /\ UNCHANGED obj
       \/ /\ cr.spec # current /\ Current
          /\ obj' = Filled /\ cr' = obj' /\ pc' = "acl" /\ UNCHANGED <<current, left>>
       \/ cr.spec # current /\ ~Current /\ Fails
    /\ UNCHANGED <<cache, bucket, touched, bounds>>

\* The end of every Observe that finds no difference.
UpdateBucketACL ==
    /\ pc = "acl" /\ bucket.exists
    /\ bucket' = WithACL
    /\ IF cr.del THEN Goto("delete", {}) /\ UNCHANGED obj
       ELSE Finish("available", "success")
    /\ UNCHANGED <<cache, touched, bounds>>

\* CreateBucket carries the ACL and nothing else; it fails for an existing bucket.
Create ==
    /\ pc = "create"
    /\ IF bucket.exists THEN Fails /\ UNCHANGED bucket
       ELSE bucket' = NewBucket /\ Finish(Ready, "success")
    /\ UNCHANGED <<cache, touched, bounds>>

\* The loop of Update, after client s is done.
NextClient(s) ==
    IF left = {s} THEN Finish(cr.ready, "success")
    ELSE Goto("compare", left \ {s}) /\ UNCHANGED obj

\* Update compares again.
UpdateObserve ==
    /\ pc = "compare" /\ bucket.exists
    /\ \E s \in Subs :
          /\ Visits(s)
          /\ LET status == Status(s, cr.spec[s], bucket.cfg[s])
             IN CASE status = "NeedsUpdate" -> Goto("put", left) /\ UNCHANGED obj
                  [] status = "NeedsDeletion" -> Goto("remove", left) /\ UNCHANGED obj
                  [] OTHER -> NextClient(s)
    /\ UNCHANGED <<cache, bucket, touched, bounds>>

\* CreateOrUpdate of a client does nothing for a setting that is not there.
CreateOrUpdate ==
    /\ pc = "put" /\ bucket.exists
    /\ \E s \in Subs :
          /\ Visits(s)
          /\ bucket' = With(s)
          /\ IF cr.spec[s] # "none" /\ Refused(s, cr.spec[s]) THEN Fails ELSE NextClient(s)
    /\ UNCHANGED <<cache, touched, bounds>>

\* Delete of a client, which is a call for some of them only.
DeleteSubresource ==
    /\ pc = "remove" /\ bucket.exists
    /\ \E s \in Subs :
          /\ Visits(s)
          /\ bucket' = Without(s) /\ NextClient(s)
    /\ UNCHANGED <<cache, touched, bounds>>

\* DeleteBucket; a bucket that is gone already is no error.
Delete ==
    /\ pc = "delete"
    /\ bucket' = NoBucket /\ Finish(Ready, "success")
    /\ UNCHANGED <<cache, touched, bounds>>

\* Without its finalizer the deleted object goes away.
RemoveFinalizer ==
    /\ pc = "unfinalize"
    /\ Stop
    /\ obj' = IF Current THEN Released ELSE obj
    /\ UNCHANGED <<cache, bucket, touched, bounds>>

Reconcile ==
    Start \/ HeadBucket \/ BucketGone \/ ObserveLate \/ ObserveStatus \/ SaveLateInitialized
    \/ UpdateBucketACL \/ Create \/ UpdateObserve \/ CreateOrUpdate \/ DeleteSubresource
    \/ Delete \/ RemoveFinalizer

-----------------------------------------------------------------------------
(* The rest of the world.                                                  *)

\* The informer catches up.
CacheSync == cache # obj /\ cache' = obj /\ UNCHANGED <<obj, local, bucket, touched, bounds>>

\* The user changes a field, or deletes the object.
Edit(f, v) ==
    /\ obj.up /\ obj.spec[f] # v /\ (f = "ACL" => v # "none")
    /\ edits < MaxEdits /\ edits' = edits + 1
    /\ obj' = [obj EXCEPT !.spec[f] = v, !.rv = @ + 1]
    /\ UNCHANGED <<cache, local, bucket, touched, outside, faults>>

DeleteObject ==
    /\ obj.up /\ ~obj.del
    /\ obj' = [obj EXCEPT !.del = TRUE, !.rv = @ + 1]
    /\ UNCHANGED <<cache, local, bucket, touched, bounds>>

\* Somebody else changes a setting at AWS, or deletes the bucket.
Outside(s, v) ==
    /\ bucket.exists /\ s \notin Unsupported /\ bucket.cfg[s] # v
    /\ s \in {"Versioning", "Accelerate", "RequestPayment"} => v # "none"
    /\ v = "none" \/ ~Refused(s, v)
    /\ outside < MaxOutside /\ outside' = outside + 1
    /\ bucket' = [bucket EXCEPT !.cfg[s] = v] /\ touched' = TRUE
    /\ UNCHANGED <<obj, cache, local, edits, faults>>

OutsideDelete ==
    /\ bucket.exists /\ outside < MaxOutside /\ outside' = outside + 1
    /\ bucket' = NoBucket /\ touched' = TRUE
    /\ UNCHANGED <<obj, cache, local, edits, faults>>

\* The provider is restarted; its cache starts with the stored object.
Crash ==
    /\ pc # "idle" /\ faults < MaxFaults /\ faults' = faults + 1
    /\ Stop /\ cache' = obj
    /\ UNCHANGED <<obj, bucket, touched, edits, outside>>

Next ==
    \/ Reconcile \/ CallFails \/ AnswerLost \/ WriteAnswerLost \/ CacheSync
    \/ DeleteObject \/ OutsideDelete \/ Crash
    \/ \E f \in Fields, v \in Values : Edit(f, v)
    \/ \E s \in Subs, v \in Values : Outside(s, v)

Spec == Init /\ [][Next]_vars

\* The reconciler is retried and polls; the informer delivers.
FairSpec == Spec /\ WF_vars(Reconcile) /\ WF_vars(CacheSync)

-----------------------------------------------------------------------------
(* Properties.                                                             *)

\* A setting the user has given is changed by the user only: the save of late
\* initialised settings (bucket.go:127-131) never overwrites a setting or an
\* edit that the reconciler's copy does not know of.
UserWins ==
    [][\A f \in Fields : obj.spec[f] # "none" /\ obj'.spec[f] # obj.spec[f] => edits' # edits]_vars

\* When Observe is about to report the bucket up to date (bucket.go:134) and
\* nobody else has changed the bucket meanwhile, every subresource at AWS is
\* what the object says, those the object left open included.
UpToDateIsReal ==
    pc = "acl" /\ ~touched =>
        /\ bucket.exists
        /\ \A s \in Subs \ Unsupported : cr.spec[s] = bucket.cfg[s]

\* Replication needs versioning.
Valid ==
    {"Versioning", "Replication"} \subseteq Subs /\ obj.spec["Replication"] # "none"
        => obj.spec["Versioning"] = "a"

\* Update stops at versioning, which AWS will not suspend while the bucket is
\* replicated, and never comes to the replication that it is to remove.
Wedged ==
    /\ {"Versioning", "Replication"} \subseteq Subs
    /\ obj.spec["Versioning"] = "b" /\ bucket.cfg["Replication"] # "none"

\* Once the user, the world and the faults are quiet, the bucket of a valid
\* object comes to exist with exactly the settings of the object, whatever
\* settings it has to pass through in the order of subresources.go:36-50,
\* unless that order wedges it.
Converges ==
    <>[](obj.up /\ ~obj.del /\ Valid /\ ~Wedged =>
            /\ bucket.exists
            /\ \A f \in Fields \ Unsupported : obj.spec[f] = bucket.cfg[f])

\* The object goes away only after its bucket, and no later reconcile, from
\* however old a copy in the cache, creates the bucket again.
NoOrphan == ~obj.up => ~bucket.exists

\* An object that is deleted goes away, whatever Update is unable to settle.
Finalizes == obj.del ~> ~obj.up

\* A bucket whose notification configuration is removed from the object ends
\* up without notifications (notificationConfiguration_types.go:21-22).
NotificationsTurnedOff ==
    <>[](obj.up /\ ~obj.del /\ obj.spec["Notification"] = "none"
            => bucket.cfg["Notification"] = "none")
=============================================================================
