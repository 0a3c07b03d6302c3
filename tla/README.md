# A verification of provider-aws

provider-aws is a Kubernetes controller manager. For every kind of AWS resource
it supports it runs a controller that keeps an external resource (a VPC, a
bucket, a database) in line with a Kubernetes object (the *managed resource*).
This directory holds TLA+ models of that behaviour, the TLC configurations that
check them on small instances, and TLAPS proofs of the main safety properties
for all instances.

## The system

### Parts and how they interact

| Part | Where | State | Operations |
|---|---|---|---|
| Managed reconciler | crossplane-runtime v0.13.0, wired up in every `Setup…` | in-memory copy of the object | one reconcile: read the object from the informer cache, run the initializers, `Connect`, `Observe`, then delete / add the finalizer and create / save late-initialised fields and update, then save the status |
| Controllers | `src/pkg/controller/<service>/<kind>` | none of their own; object, status, AWS | `Observe`, `Create`, `Update`, `Delete`, initializers (taggers) |
| Clients | `src/pkg/clients/<service>` | none | build requests, compare desired and observed state, late-initialise |
| S3 subresource clients | `src/pkg/controller/s3/bucket` | settings of a bucket at AWS | `LateInitialize`, `Observe`, `CreateOrUpdate`, `Delete`, for eleven settings in a fixed order |
| Generated controllers | `zz_controller.go` with `setup.go`/`hooks.go` | as above | the same four callbacks, with pre- and post-hooks |
| Credentials | `src/pkg/clients/aws.go` | ProviderConfig, secrets | `GetConfig`, at every `Connect` |
| API server, informer cache | Kubernetes | stored object with a resource version; a cached past version | `Update`, `Status().Update` (refused when the version is old), watch |
| AWS | external | resources, by name or identifier | create, modify, delete (at once or in stages), describe |
| User | external | | edits and deletes the object |

A controller never shares memory with another one: what they share is the API
server and AWS, one call at a time. The hard part is that a reconcile is a
sequence of calls to two services, each of which may fail with or without
having taken effect, that starts from a cached and possibly old object, while
the user, AWS and other people at AWS go on.

### The behaviours that are hard to test

* a reconcile starts from a cached object that lacks what the previous one saved;
* the process stops between the AWS call and the save that records its result;
* a create call takes effect and its answer is lost;
* two writes of the same reconcile, or a write and an edit, conflict;
* the user deletes the object while it is being created, updated or deleted;
* AWS takes its time: creating, modifying and deleting states, tombstones;
* an `Update` of many calls fails half way, again and again;
* an early return on a saved status that is no longer true.

`PROJECT.json` lists each of them with the line of code where it bites.

### What correctness means here

* **Nothing is orphaned.** A resource that exists is named by an object that
  holds a finalizer for it.
* **Nothing is duplicated or resurrected.** One object, one resource; none after
  `Delete`.
* **The user decides.** Late initialisation fills what is open and changes
  nothing else.
* **Up to date means up to date**, for all settings together.
* **Everything settles.** Desired states are reached and deletions end once
  faults and edits stop.

## Modules

| Module | Models | Lines of code |
|---|---|---|
| `Kinds` | 34 kinds as records of the choices in which their controllers differ: where the name comes from, what is saved before and after `Create`, early returns, late initialisation, asynchronous states, what the create call carries, `Observe` compares and `Update` can change | `Observe` … `Delete` of each controller |
| `Lifecycle` | one managed resource of any kind: object, cache, copy, position of the reconcile, AWS | the reconciler (external) and the callbacks |
| `Ownership` | the abstract promise: at most one resource, none after `Delete`, the object outlives it | — |
| `LifecycleProofs` | theorems about `Lifecycle` | — |
| `MCLifecycle` | the sets of kinds the runs take | — |
| `Bucket` | the S3 bucket controller, call by call, over its subresource clients | `s3/bucket.go`, `s3/bucket/*.go` |
| `BucketProofs` | theorems about `Bucket` | — |

### Lifecycle

`obj` is the stored object, `cache` the informer's, `cr` the copy the reconcile
works on; an object is a record of what the reconciler decides by (existence,
resource version, finalizer, deletion, external name, desired state, tags,
late-initialised fields, status and Synced condition). `pc` names the next call. One action is one call with all its outcomes: a write
succeeds, conflicts, fails, or fails after having been stored; `Create` makes a
resource, adopts or refuses by the rule of its API, or loses its answer.
`SaveName` is the retry loop that stores an identifier AWS assigned. The
history variables `lost` and `retired` only record, respectively, identifiers
whose create answer or save was lost and that `Delete` has been called.

The desired state has two parts, because the controllers treat them
differently: `"value"`, a setting that is one of two values (a DNS attribute, a
policy document, a node count), and `"tag"`, one entry of a list that has other
entries besides it. A desired state, like the state of a resource, is the set of
the parts it has. A kind says which parts its create call carries (`sent`: none
for a VPC, whose DNS attributes and tags come with the first `Update`), which
ones `Observe` compares (`watched`), which ones `Update` sets or adds (`puts`)
and which ones it can also reset or take off (`drops`: not the tags of VPCs,
addresses, subnets and internet gateways, which only ever get `CreateTags`).
When `Update` fails, any of the parts may have been applied (`Modifications`).
The tags that the taggers add to the object (`Initialize`) are recorded in `tags`
and not as a part.

`Update` hides some failures, which `quiet` records: several controllers return
no error when the describe call inside `Update` finds nothing, and that of SNS
topics returns only the error of the last of its calls.

A certificate authority is described before it is deleted, and disabled if it
is active (`DisableBeforeDelete`), in a step of its own; AWS goes on describing
the deleted one until the days of the deletion request have passed, which is the
`"deleting"` state of an asynchronous kind. The client's `IsErrorNotFound`
recognises only `InvalidStateException`; the model takes what AWS answers for a
missing authority as recognised, since the repository does not show that answer.

The API server is modelled with what the code relies on: a write with an old
version is refused, one that changes nothing keeps the version, `Update`
returns the stored status in the caller's copy, and an object in deletion goes
with its last finalizer.

### Bucket

The object's settings are "none", "a" or "b"; the bucket has the same. `left`
is the set of clients a loop has still to visit, and `NewSubresourceClients`
the order in which it does. A client is a record of four choices (what
`LateInitialize` fills, what `Observe` says of a setting the user left open,
whether `Delete` makes a call, which settings `Observe` does not recognise when
AWS returns them); each record is the abstraction of one file. The last choice
is there for websites: the configuration built from the object has an empty list
of routing rules where AWS returns none, and the two are not equal, so a website
without routing rules is put again by every reconcile, and its bucket is never
reported available. No run takes a website.
`ObserveLate`/`ObserveStatus` are the loop of `Observe`,
`UpdateObserve`/`CreateOrUpdate`/`DeleteSubresource` that of `Update`.

A call fails without effect (`CallFails`), or takes effect and its answer is
lost (`AnswerLost` for AWS, `WriteAnswerLost` for the API server). The failing
call and the write of the condition that reports it are one step: that write
touches only the conditions, which no step decides by, and does nothing if it
finds a newer object.
`Refused` has three rules of AWS: replication needs versioning, the versioning
of a replicated bucket cannot be suspended, and a region may lack a setting.

## Runs

| Run | Question | Bounds |
|---|---|---|
| `assigned` | kinds whose identifier AWS assigns and that guard `Create`: types, `NoLeak`, refinement of `Ownership` | 3 identifiers, 1 fault, 1 edit, 1 outside deletion, 2 retries |
| `given` | kinds named by the object: `NoLeak`, `Ownership` | 1 name, the same otherwise |
| `unprotected` | kinds without a guard: `NoResurrection`, deletion ends | 2 identifiers, no edits, 1 retry |
| `live_assigned`, `live_given` | deletion ends, what the object asks for is reached | 6 identifiers or 1 name, 1 retry |
| `rds_late_init` (violation) | a failed save in `Observe` is an error | |
| `zone_reference` (violation) | a retried zone creation runs once | |
| `removed_tag` (violation) | `Update` is called only for a difference it can do something about | 1 identifier, 1 edit |
| `bucket` | user's settings kept, "up to date" is real, nothing orphaned | 2 settings, 1 edit, 1 change at AWS, 1 fault |
| `bucket_order` | convergence and deletion with versioning and replication | 2 settings, 1 edit, 1 change at AWS |
| `bucket_region` | convergence where a setting is not supported | 2 settings, 1 edit, 1 fault |
| `bucket_notifications` (violation) | removed notifications are turned off | 1 setting, 1 edit |

**Why the bounds are enough.** The bad cases of this system take one fault, or
one stale read, at the wrong moment, not many of them: a second fault finds the
reconcile in a state a first one can also produce, since nothing but the object
and AWS survives a reconcile. Two identifiers show a duplicate and a third one
shows that it is not an artefact of running out. The cache may hold any version
it has passed through, with no bound. Liveness of assigned kinds needs more
identifiers because an exhausted quota would block `Create`; six is the number
that lets every fault and retry of the run have its own. Two retries are enough
for a save to fail, be retried and run out; with one, in the liveness runs, it
fails and runs out at once. The object starts with the tag (`First`) and the one
edit asks for the value and takes the tag off (`Wishes`): a single edit that
sets one part and removes the other, so both directions of an update are in
every run with an edit. In `bucket` the settings of a new object are open or
differ from those of a new bucket (`First`); an edit may choose any.

**Fairness.** Weak fairness of the reconciler's steps (the work queue retries a
failed reconcile and polls an idle object), of the cache (the watch delivers)
and of AWS finishing what it started. Nothing is assumed of the user, of faults
or of outside changes. `Converges` states what happens once those, which are
bounded, have stopped.

`Converges` of `Lifecycle` says that, of the parts `Observe` compares, the
resource ends up with all that the object asks for and with nothing else that
`Update` could take off. It does not say that a removed tag of a VPC or an
address goes away: it does not, which is the subject of `removed_tag`. For the
API Gateway v2 and `Activity` controllers it says only that the resource exists:
they keep the generated `alwaysUpToDate`, compare nothing, and an edit never
reaches AWS.
It exempts `Stuck`: kinds that return early from
`Create` while the saved status says "creating" never create again a resource
that somebody deleted in that window, and a name AWS gives only once stays
taken when its creation was lost. `Converges` of `Bucket` exempts `Wedged`: an
edit that suspends versioning and removes replication (or suspends versioning
when somebody has set up replication at AWS) makes `Update` stop at versioning,
which AWS refuses, before it comes to replication. Deadlock checking is off only for `Bucket`,
where a deleted object ends everything.

### Disagreements between the code and its documents

* `rds_late_init`: `rdsinstance.go:123` calls `kube.Update` a second time when
  the first one failed; if that succeeds, an existing instance is reported as
  missing without an error, which for an object in deletion removes the
  finalizer. The repository's test expects the error of the first call.
* `zone_reference`: the caller reference that is to make a retried zone creation
  safe is the resource version, which the status save of the failed attempt
  changes.
* `removed_tag`: `IsVpcUpToDate` is documented to find only differences that can
  be updated. It compares whole lists of tags, and `Update` only adds tags: an
  edit that removes one leaves a difference for which every reconcile calls
  `Update`, without effect.
* `bucket_notifications`: an empty notification configuration is documented to
  turn notifications off; `Delete` of that client does nothing.

## Proofs

All theorems hold for every value of the constants that satisfies the named
assumptions (bounds are naturals; kinds are records of `KindType`; subresources
are among the eleven).

**`LifecycleProofs`.** `NoLeak` is not inductive: to know that `Create` makes
the only resource, one must know that the copy it works on was current when it
was last written, which depends on where the reconcile stands and how the cache
relates to the stored object. `Inv` adds:
`Versions` (a copy never runs ahead, and one with the stored version agrees
with it), `Deletion` (deletion is for good and every copy learns of it in
order), `Held` (a copy with a finalizer and no deletion vouches for the stored
one), `Position` (what each step of a reconcile has already established),
`GivenNames`, `Identifiers`, and `Saving` (while a name is being saved nothing
else is owned). From `Invariance` follow `TypeCorrect`, `NothingLeaks`,
`NothingResurrects`, and `Refinement`: if all kinds guard `Create`
(`ProtectedKind`), every step of `Lifecycle` is a step or a stutter of
`Ownership`.

**`BucketProofs`.** `Inv` adds to the types `Copies` (as `Versions` above, and
while `Observe` runs on a current copy, what it started from is what is
stored), `OnlyOpen` (late initialisation has changed only what was open), and
`Deletion` (every copy from which a reconcile of a removed object may start is
marked as deleted). From it follow `BucketTypes`, `NothingOrphaned` and, if no
client fills up incomplete settings, `UserAlwaysWins`.

**Only model-checked:** everything that says *eventually* (`Converges`,
`DeletionCompletes`, `Finalizes`), because the prover handles neither fairness
nor ENABLED; and `UpToDateIsReal`.

## Not modelled, and the plan

`PROJECT.json` lists every part with its status. What is left out for good:
generated deep copies and conversions, API type declarations, flags and
start-up, the construction of SDK sessions (its failure is the failure of
`Connect`, which is an outcome of `Observe`). The contents of resources are
abstracted to what the properties tell apart.

Left out of `Lifecycle`: the reconciler's branch for `deletionPolicy: Orphan`,
which removes the finalizer of a deleted object without calling `Delete` (every
object of the model has the policy `Delete`, and the ownership properties are
about those); the states a resource passes through when somebody else deletes it
(`OutsideDelete` is the end of it); and single fields that a controller sends
wrongly, such as the healthy threshold that `Update` of a load balancer sends as
the unhealthy one (`elb/controller.go:224`).

Planned, in this order:

1. IAM policy versions: at most five, the oldest one deleted before the next.
2. Tag differences and their order of application (KMS, Secrets Manager, EC2),
   as operators against a reference definition.
3. Security group rules, route tables and internet gateway attachments: updates
   that compare with a status that may be old and apply several calls.
4. DynamoDB tables (one kind of change per call), RDS passwords and connection
   secrets, classic load balancers, Redshift renames.
5. Attachment kinds (IAM memberships, bucket policies, record sets).
6. Further kinds in `Kinds`: EFS file systems, state machines, DB clusters, IAM
   users, groups and access keys (an access key and a KMS key get the object's
   name first and an assigned one later), DynamoDB backups, SQS queues.
