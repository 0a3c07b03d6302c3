------------------------------- MODULE Kinds -------------------------------
(***************************************************************************)
(* How each managed resource kind of the provider drives the lifecycle of  *)
(* its external resource.  Every controller under pkg/controller gives the *)
(* generic managed reconciler four callbacks (Observe, Create, Update,     *)
(* Delete) and a list of initializers; the kinds differ in a handful of    *)
(* choices that decide which failures they survive.  A kind is a record of *)
(* those choices:                                                          *)
(*                                                                         *)
(*   naming    "given": the external name is the object's own name;        *)
(*             "assigned": AWS chooses an identifier that Create returns   *)
(*             and that must be saved afterwards                           *)
(*   tagger    an initializer that calls kube.Update in every reconcile    *)
(*   early     Create saves the Creating condition with                    *)
(*             kube.Status().Update before it calls AWS                    *)
(*   resave    Create calls kube.Update after it has called AWS            *)
(*   skip      Create returns early when status says "creating"            *)
(*   reuse     what AWS does with a second Create call: "new" makes        *)
(*             another resource, "reject" fails while the first exists,    *)
(*             "version" fails while one made from the same resource       *)
(*             version exists, "adopt" returns the existing one            *)
(*   late      where late-initialised fields are saved: "flag" by the      *)
(*             reconciler, "observe" by kube.Update inside Observe,        *)
(*             "retry" the same but a failed kube.Update is called again,  *)
(*             "none" nowhere                                              *)
(*   busy      when Update returns early: "modifying" while creating or    *)
(*             modifying, "unavailable" unless available, "never"          *)
(*   inUse     Update ignores the error of AWS being busy                  *)
(*   quiet     when Update hides a failure: "gone" when its describe call  *)
(*             finds no resource, "last" when any of its modify calls but  *)
(*             the last one fails, "never"                                 *)
(*   preDel    what Delete does first: "update" calls Update, "disable"    *)
(*             describes the resource and disables it, "none"              *)
(*   skipDel   Delete returns early when status says "deleting"            *)
(*   async     AWS goes through creating and deleting states               *)
(*   tomb      a deleted resource stays describable for a while            *)
(*                                                                         *)
(* The desired state has two parts that the kinds treat differently:       *)
(* "value", a setting that has one of two values, and "tag", an entry of a *)
(* list that has other entries besides it.                                 *)
(*                                                                         *)
(*   sent      the parts that the create call carries                      *)
(*   watched   the parts that Observe compares                             *)
(*   puts      the parts that Update sets, or adds to the list             *)
(*   drops     the parts that Update also resets, or takes off the list    *)
(***************************************************************************)

Parts == {"value", "tag"}
Specs == SUBSET Parts

KindType == [naming : {"given", "assigned"}, tagger : BOOLEAN, early : BOOLEAN,
             resave : BOOLEAN, skip : BOOLEAN,
             reuse : {"new", "reject", "version", "adopt"},
             late : {"flag", "observe", "retry", "none"},
             busy : {"modifying", "unavailable", "never"},
             inUse : BOOLEAN, quiet : {"gone", "last", "never"},
             preDel : {"update", "disable", "none"}, skipDel : BOOLEAN,
             async : BOOLEAN, tomb : BOOLEAN,
             sent : Specs, watched : Specs, puts : Specs, drops : Specs]

\* The plain kind whose external name is the object's name.
Given == [naming |-> "given", tagger |-> FALSE, early |-> FALSE, resave |-> FALSE,
          skip |-> FALSE, reuse |-> "reject", late |-> "none", busy |-> "never",
          inUse |-> FALSE, quiet |-> "never", preDel |-> "none", skipDel |-> FALSE,
          async |-> FALSE, tomb |-> FALSE,
          sent |-> Parts, watched |-> Parts, puts |-> Parts, drops |-> Parts]

\* The plain kind whose external name AWS assigns.
Assigned == [Given EXCEPT !.naming = "assigned", !.reuse = "new", !.late = "flag"]

\* A kind whose Observe and Update look at some parts only.
Only(k, parts) == [k EXCEPT !.watched = parts, !.puts = parts, !.drops = parts]

\* VPCs and addresses are tagged after their creation, and tags only added.
VPC == [Assigned EXCEPT !.tagger = TRUE, !.sent = {}, !.drops = {"value"}]

ElasticIP == [Only(Assigned, {"tag"}) EXCEPT !.tagger = TRUE, !.early = TRUE,
                                             !.sent = {"value"}, !.drops = {}]

InternetGateway == [Assigned EXCEPT !.early = TRUE, !.sent = {}, !.drops = {"value"}]

RouteTable == [Assigned EXCEPT !.quiet = "gone", !.sent = {}]

Subnet == [Assigned EXCEPT !.quiet = "gone", !.sent = {}, !.drops = {"value"}]

NATGateway == [Only(Assigned, {"tag"}) EXCEPT !.late = "none", !.quiet = "gone",
                                              !.skipDel = TRUE, !.async = TRUE,
                                              !.tomb = TRUE]

IAMPolicy == [Only(Assigned, {"value"}) EXCEPT !.reuse = "reject", !.late = "none"]

HostedZone == [Only(Assigned, {"value"}) EXCEPT !.reuse = "version"]

SNSTopic == [Only(Assigned, {"value"}) EXCEPT !.reuse = "adopt", !.quiet = "last",
                                              !.sent = {"tag"}]

Certificate == [Assigned EXCEPT !.late = "observe", !.quiet = "gone"]

\* A deleted authority can be restored, and is described, for some days.
CertificateAuthority == [Certificate EXCEPT !.preDel = "disable", !.async = TRUE,
                                            !.sent = {"tag"}]

\* The create call of a role sends the keys of the tags as their values.
IAMRole == [Given EXCEPT !.late = "observe", !.quiet = "gone", !.sent = {"value"}]

ELB == [Given EXCEPT !.late = "observe", !.quiet = "gone", !.sent = {"value"}]

CacheSubnetGroup == Only(Given, {"value"})

Repository == [Given EXCEPT !.tagger = TRUE, !.early = TRUE, !.resave = TRUE,
                            !.late = "observe", !.sent = {"value"}]

EKSCluster == [Given EXCEPT !.tagger = TRUE, !.skip = TRUE, !.late = "observe",
                            !.busy = "modifying", !.inUse = TRUE, !.skipDel = TRUE,
                            !.async = TRUE]

NodeGroup == EKSCluster

FargateProfile == [Only(EKSCluster, {"tag"}) EXCEPT !.late = "flag", !.busy = "never"]

ReplicationGroup == [Only(EKSCluster, {"value"}) EXCEPT !.skip = FALSE, !.reuse = "adopt",
                                                        !.busy = "unavailable",
                                                        !.inUse = FALSE]

CacheCluster == [ReplicationGroup EXCEPT !.tagger = FALSE, !.reuse = "reject"]

\* The tags of an instance are added by every Update and never compared.
RDSInstance == [EKSCluster EXCEPT !.late = "retry", !.inUse = FALSE, !.preDel = "update",
                                  !.watched = {"value"}, !.drops = {"value"}]

(* The generated controllers of API Gateway v2 and Step Functions compare  *)
(* nothing: alwaysUpToDate.                                                *)

API == [Only(Assigned, {}) EXCEPT !.late = "none"]

Authorizer == API

Deployment == API

Integration == API

VPCLink == [API EXCEPT !.async = TRUE]

\* AWS refuses a second mapping, response, model or route of the same key.
APIMapping == [API EXCEPT !.reuse = "reject"]

IntegrationResponse == APIMapping

Model == APIMapping

Route == APIMapping

RouteResponse == APIMapping

Activity == [API EXCEPT !.reuse = "adopt"]

DomainName == Only(Given, {})

Stage == DomainName

=============================================================================
