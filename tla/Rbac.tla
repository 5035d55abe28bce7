-------------------------------- MODULE Rbac --------------------------------
(***************************************************************************)
(* Roles, the operations they open and the decision about one of them:     *)
(* packages/types/src/rbac.ts and operations.ts, and rbac/index.ts.        *)
(***************************************************************************)
Environments == {"development", "testing", "staging", "production"}
NonProduction == {"development", "testing", "staging"}

Permissions ==
  {"infra.view", "infra.manage",
   "digitalocean.view", "digitalocean.reboot", "digitalocean.power", "digitalocean.snapshot",
   "proxmox.view", "proxmox.manage",
   "application.view", "application.restart", "application.deploy",
   "application.deploy.production",
   "database.view", "database.query", "database.write", "database.admin",
   "logs.view", "logs.export", "alerts.view", "alerts.manage", "audit.view",
   "users.view", "users.manage", "settings.view", "settings.manage"}

Roles == {"owner", "infrastructure_admin", "developer", "database_admin", "viewer", "intern"}

RolePermissions(role) ==
  CASE role = "owner" -> Permissions
    [] role = "infrastructure_admin" ->
         Permissions \ {"database.write", "database.admin", "users.manage", "settings.manage"}
    [] role = "developer" ->
         {"infra.view", "digitalocean.view", "proxmox.view", "proxmox.manage",
          "application.view", "application.restart", "application.deploy",
          "database.view", "database.query", "database.write",
          "logs.view", "alerts.view", "settings.view"}
    [] role = "database_admin" ->
         {"infra.view", "digitalocean.view", "proxmox.view", "application.view",
          "database.view", "database.query", "database.write", "database.admin",
          "logs.view", "alerts.view", "audit.view"}
    [] role = "viewer" ->
         {"infra.view", "digitalocean.view", "proxmox.view", "application.view",
          "database.view", "logs.view", "alerts.view"}
    [] role = "intern" ->
         {"infra.view", "digitalocean.view", "proxmox.view", "application.view", "logs.view"}

RoleEnvironments(role) ==
  CASE role = "developer" -> NonProduction
    [] role = "intern" -> {"development", "testing"}
    [] OTHER -> Environments

\* resolveGrants: the permissions and the environments of all roles, each by themselves.
GrantedPermissions(roles) == UNION {RolePermissions(role) : role \in roles}
GrantedEnvironments(roles) == UNION {RoleEnvironments(role) : role \in roles}

\* The rows of OPERATION_DEFINITIONS. requiresSecondApproval is left out: only the list
\* of capabilities shows it, no check reads it.
Operation(kind, permission, productionPermission, impact, environments, typed) ==
  [kind |-> kind, permission |-> permission, productionPermission |-> productionPermission,
   impact |-> impact, environments |-> environments, typed |-> typed]

ApplicationOperation(key) ==
  CASE key \in {"restart_service", "restart_worker"} ->
         Operation("application", "application.restart", "application.restart",
                   "brief_interruption", Environments, TRUE)
    [] key = "start_service" ->
         Operation("application", "application.restart", "application.restart",
                   "none", Environments, FALSE)
    [] key = "stop_service" ->
         Operation("application", "application.restart", "infra.manage",
                   "service_downtime", NonProduction, TRUE)
    [] key \in {"deploy_release", "rollback_release"} ->
         Operation("deployment", "application.deploy", "application.deploy.production",
                   "brief_interruption", Environments, TRUE)
    [] key = "approve_production_deployment" ->
         Operation("deployment", "application.deploy.production",
                   "application.deploy.production", "none", {"production"}, FALSE)

DropletOperation(key) ==
  CASE key = "reboot_droplet" ->
         Operation("droplet", "digitalocean.reboot", "digitalocean.reboot",
                   "brief_interruption", Environments, TRUE)
    [] key = "power_on_droplet" ->
         Operation("droplet", "digitalocean.power", "digitalocean.power",
                   "none", Environments, FALSE)
    [] key = "power_off_droplet" ->
         Operation("droplet", "digitalocean.power", "infra.manage",
                   "service_downtime", NonProduction, TRUE)
    [] key = "snapshot_droplet" ->
         Operation("droplet", "digitalocean.snapshot", "digitalocean.snapshot",
                   "none", Environments, FALSE)

GuestOperation(key) ==
  CASE key \in {"start_vm", "snapshot_vm"} ->
         Operation("proxmox_guest", "proxmox.manage", "infra.manage",
                   "none", NonProduction, FALSE)
    [] key = "shutdown_vm" ->
         Operation("proxmox_guest", "proxmox.manage", "infra.manage",
                   "service_downtime", NonProduction, TRUE)
    [] key = "reboot_vm" ->
         Operation("proxmox_guest", "proxmox.manage", "infra.manage",
                   "brief_interruption", NonProduction, TRUE)
    [] key = "stop_vm" ->
         Operation("proxmox_guest", "proxmox.manage", "infra.manage",
                   "service_downtime", {"development", "testing"}, TRUE)

ApplicationKeys ==
  {"restart_service", "restart_worker", "start_service", "stop_service", "deploy_release",
   "rollback_release", "approve_production_deployment"}
DropletKeys == {"reboot_droplet", "power_on_droplet", "power_off_droplet", "snapshot_droplet"}
GuestKeys == {"start_vm", "shutdown_vm", "reboot_vm", "stop_vm", "snapshot_vm"}
OperationKeys ==
  ApplicationKeys \union DropletKeys \union GuestKeys
    \union {"acknowledge_alert", "activate_database_write_mode"}

OperationDefinition(key) ==
  CASE key \in ApplicationKeys -> ApplicationOperation(key)
    [] key \in DropletKeys -> DropletOperation(key)
    [] key \in GuestKeys -> GuestOperation(key)
    [] key = "acknowledge_alert" ->
         Operation("alert", "alerts.manage", "alerts.manage", "none", Environments, FALSE)
    [] key = "activate_database_write_mode" ->
         Operation("database", "database.write", "database.admin", "data_changing",
                   Environments, TRUE)

\* authoriseOperation: the operation exists in the environment, and the roles together
\* cover the environment and carry the permissions.
Allowed(roles, key, environment) ==
  LET definition == OperationDefinition(key) IN
  /\ environment \in definition.environments
  /\ environment \in GrantedEnvironments(roles)
  /\ definition.permission \in GrantedPermissions(roles)
  /\ environment = "production" =>
       definition.productionPermission \in GrantedPermissions(roles)
=============================================================================
