-------------------------- MODULE MCNotifications --------------------------
(***************************************************************************)
(* What must end, for TLC: the messages of the outbox of notifications     *)
(* (Notifications) and the requests that wait for connections of the pool  *)
(* (Tenancy).  A behaviour is about one of them (scene).  The fairness is  *)
(* that of the two modules, asked of the scene that is played.             *)
(***************************************************************************)
EXTENDS Notifications

CONSTANTS
    Clubs, ActiveClubs, People, Nobody, NoClub,
    Posts, Grades, AppConns, PlatformConns, NoConn, Tasks

VARIABLES scene, role, token, guc, task

Tenants == INSTANCE Tenancy

ASSUME NoticesAssumption == Tenants!TenancyAssumption

tenantVars == <<role, token, guc, task>>

OnePost == {<<"s", "c1">>}

NoticesInit ==
    /\ scene \in {"notices", "tenants"}
    /\ Init
    /\ Tenants!Init

NoticesNext ==
    /\ UNCHANGED scene
    /\ \/ scene = "notices" /\ Next /\ UNCHANGED tenantVars
       \/ scene = "tenants" /\ Tenants!Next /\ UNCHANGED vars

NoticesFair ==
    /\ \A w \in Workers :
          /\ WF_vars(scene = "notices" /\ Work(w))
          /\ SF_vars(scene = "notices" /\ SendRead(w))
    /\ <>[][~Fault]_vars
    /\ \A t \in Tasks : WF_tenantVars(scene = "tenants" /\ Tenants!Step(t))

NoticesSpec ==
    NoticesInit /\ [][NoticesNext]_<<scene, vars, tenantVars>> /\ NoticesFair

\* Every row, job, connection and request keeps its type.
TypesOK ==
    /\ scene = "notices" => TypeOK
    /\ scene = "tenants" => Tenants!TypeOK

\* Tenancy: requests that wait for each other's connections end (log_action).
RequestsFinish == Tenants!RequestsFinish

=============================================================================
