------------------------------ MODULE Services ------------------------------
(***************************************************************************)
(* The smaller services of the relay and of the phone side by side.  They  *)
(* share no state - what they have in common of redis, Postgres and the    *)
(* disk is under keys of their own - so no step of one enables, disables   *)
(* or changes a step of another, and each is explored by itself:           *)
(* at_work says which one a behaviour is about.                            *)
(***************************************************************************)
EXTENDS Gateway, Groups, Rooms, Login, UploadQuota, ClientMedia, Deletions

VARIABLE at_work

ServicesVars == <<gatewayVars, groupVars, roomVars, loginVars, quotaVars, clientMediaVars,
                  deletionVars, at_work>>

Service == {"gateway", "groups", "rooms", "login", "quota", "client media", "deletions"}

\* The services that do not work start in one of their initial states.
Resting(s) == at_work # s

ServicesInit ==
    /\ at_work \in Service
    /\ GatewayInit /\ GroupsInit /\ RoomsInit /\ LoginInit /\ UploadQuotaInit
    /\ ClientMediaInit /\ DeletionsInit
    /\ Resting("gateway") => strict = {} /\ \A p \in Person : home[p] = None
    /\ Resting("login") => ~user
    /\ Resting("client media") => saver.send = "idle"
    /\ Resting("deletions") => ~online

Works(s, others) == at_work = s /\ UNCHANGED <<others, at_work>>

ServicesNext ==
    \/ /\ GatewayNext
       /\ Works("gateway", <<groupVars, roomVars, loginVars, quotaVars, clientMediaVars,
                             deletionVars>>)
    \/ /\ GroupsNext
       /\ Works("groups", <<gatewayVars, roomVars, loginVars, quotaVars, clientMediaVars,
                            deletionVars>>)
    \/ /\ RoomsNext
       /\ Works("rooms", <<gatewayVars, groupVars, loginVars, quotaVars, clientMediaVars,
                           deletionVars>>)
    \/ /\ LoginNext
       /\ Works("login", <<gatewayVars, groupVars, roomVars, quotaVars, clientMediaVars,
                           deletionVars>>)
    \/ /\ UploadQuotaNext
       /\ Works("quota", <<gatewayVars, groupVars, roomVars, loginVars, clientMediaVars,
                           deletionVars>>)
    \/ /\ ClientMediaNext
       /\ Works("client media", <<gatewayVars, groupVars, roomVars, loginVars, quotaVars,
                                  deletionVars>>)
    \/ /\ DeletionsNext
       /\ Works("deletions", <<gatewayVars, groupVars, roomVars, loginVars, quotaVars,
                               clientMediaVars>>)

ServicesSpec == ServicesInit /\ [][ServicesNext]_ServicesVars /\ GatewayFairness
-----------------------------------------------------------------------------
\* Every variable of every service has its type.
ServicesTypeOK ==
    /\ GatewayTypeOK /\ GroupsTypeOK /\ RoomsTypeOK /\ LoginTypeOK
    /\ UploadQuotaTypeOK /\ ClientMediaTypeOK /\ DeletionsTypeOK

\* Both limits of the relay are read in one step and counted in a later one: the
\* messages of a sender and the uploads of an owner pass them only together, and by
\* less than the number of calls that ever were between the two steps at once.
LimitsHold == RateBound /\ QuotaBound
=============================================================================
