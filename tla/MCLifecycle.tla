---------------------------- MODULE MCLifecycle ----------------------------
(* Instances of Lifecycle for model checking: which kinds each run takes.  *)
EXTENDS Lifecycle

AssignedKinds == {VPC, ElasticIP, InternetGateway, IAMPolicy, SNSTopic,
                  APIMapping, IntegrationResponse, Model, Route, RouteResponse, Activity}
UnprotectedKinds == {HostedZone, RouteTable, Subnet, NATGateway, Certificate,
                     CertificateAuthority, API, Authorizer, Deployment,
                     Integration, VPCLink}
GivenKinds == {IAMRole, ELB, CacheSubnetGroup, Repository, EKSCluster, NodeGroup,
               FargateProfile, ReplicationGroup, CacheCluster, DomainName, Stage}
LiveAssignedKinds == {VPC, ElasticIP, IAMPolicy, SNSTopic}
LiveGivenKinds == {Repository, EKSCluster, ReplicationGroup, RDSInstance, Stage}
ZoneKinds == {HostedZone}
RDSKinds == {RDSInstance}
TagKinds == {VPC, ElasticIP}
=============================================================================
