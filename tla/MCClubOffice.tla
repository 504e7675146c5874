---------------------------- MODULE MCClubOffice ----------------------------
(***************************************************************************)
(* The modules of the club office, side by side: one run checks one of     *)
(* them per behaviour (scene), the others stay where they begin.  They     *)
(* share no state in the program either, except through the tables that    *)
(* each module has for itself.                                             *)
(***************************************************************************)
EXTENDS Integers, TLC

CONSTANTS
    RoomIds, StationIds, Names,
    Clubs, ActiveClubs, People, Nobody, NoClub,
    Posts, Grades, AppConns, PlatformConns, NoConn, Tasks,
    Users, Founders

VARIABLES
    scene,
    room, station, status, publishing,
    role, token, guc, task,
    todo, at, stage, workerGuc, journal, applied, mute,
    account, firm, badge, desk

MemberPosts == {<<"s", "c1">>, <<"s", "c2">>}

Catalogues == INSTANCE Catalogue
Tenants == INSTANCE Tenancy
Worker == INSTANCE WorkerPass WITH guc <- workerGuc
Staff == INSTANCE Accounts WITH
    Requests <- Tasks, user <- account, org <- firm, token <- badge, req <- desk

\* Tasks, connections and persons that only bear a name
OfficeSymmetry == Permutations(Tasks) \union Permutations(AppConns) \union Permutations(Users \ Founders)

ASSUME OfficeAssumption == Tenants!TenancyAssumption

catalogueVars == <<room, station, status, publishing>>
tenantVars == <<role, token, guc, task>>
workerVars == <<todo, at, stage, workerGuc, journal, applied, mute>>
staffVars == <<account, firm, badge, desk>>

OfficeInit ==
    /\ scene \in {"catalogue", "tenants", "worker", "staff"}
    /\ Catalogues!Init /\ Tenants!Init /\ Worker!Init /\ Staff!Init

OfficeNext ==
    /\ UNCHANGED scene
    /\ \/ /\ scene = "catalogue" /\ Catalogues!Next
          /\ UNCHANGED <<tenantVars, workerVars, staffVars>>
       \/ /\ scene = "tenants" /\ Tenants!Next
          /\ UNCHANGED <<catalogueVars, workerVars, staffVars>>
       \/ /\ scene = "worker" /\ Worker!Next
          /\ UNCHANGED <<catalogueVars, tenantVars, staffVars>>
       \/ /\ scene = "staff" /\ Staff!Next
          /\ UNCHANGED <<catalogueVars, tenantVars, workerVars>>

OfficeSpec ==
    OfficeInit /\ [][OfficeNext]_<<scene, catalogueVars, tenantVars, workerVars, staffVars>>

\* Every row of every module keeps its type.
TypesOK ==
    /\ scene = "catalogue" => Catalogues!TypeOK
    /\ scene = "tenants" => Tenants!TypeOK
    /\ scene = "worker" => Worker!TypeOK

\* Catalogue: no station changes its kind behind the owner's back (_resolve_room_id).
KindFollowsRoom == Catalogues!KindFollowsRoom

\* Tenancy and WorkerPass: a transaction opens the rows of its own club (_apply_context,
\* club_scope), whoever had the connection before.
InsideOwnClub ==
    /\ scene = "tenants" => Tenants!InsideOwnClub
    /\ scene = "worker" => Worker!OneClubAtATime

\* Tenancy: what require_role admits the policies serve.
NoBlindSpot == scene = "tenants" => Tenants!NoBlindSpot

\* WorkerPass: the journal says 'done' of stored work only (run_per_club).
DoneMeansCommitted == Worker!DoneMeansCommitted

\* Accounts: a club has one owner and nobody an account without a password
\* (auth_update_staff, create_staff).
RosterSound == scene = "staff" => Staff!RosterSound

\* Accounts: only an owner demotes or removes an administrator (memberships_write_admin).
CeilingHolds == Staff!CeilingHolds
=============================================================================
