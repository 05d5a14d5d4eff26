------------------------------ MODULE Authorization ------------------------------
(***************************************************************************)
(* Roles and permissions (internal/auth/rbac.go) and what the middleware   *)
(* of the HTTP API (internal/auth/middleware.go) and the interceptor of    *)
(* the gRPC API (internal/api/grpc_interceptors.go) ask of a request in a  *)
(* cell.  Authentication is required, and every caller is a principal.     *)
(***************************************************************************)

CONSTANT NoRole

RoleNames == {"admin", "developer", "viewer"}

(* roles maps the users of the cell to their role.                          *)
AssignRole(roles, user, role) == [roles EXCEPT ![user] = role]

RemoveRole(roles, user) == [roles EXCEPT ![user] = NoRole]

HasPermission(role, permission) ==
    \/ role = "admin"
    \/ role = "developer" /\ permission \in {"create", "read", "update"}
    \/ role = "viewer" /\ permission = "read"

CheckPermission(roles, user, permission) ==
    roles[user] # NoRole /\ HasPermission(roles[user], permission)

(* The HTTP API decides by the method of the request.                       *)
AllowedREST(roles, user, method) ==
    CheckPermission(roles, user,
        CASE method = "GET" -> "read" [] method = "POST" -> "create"
          [] method = "PUT" -> "update" [] method = "DELETE" -> "delete")

(* The gRPC API decides by the name of the method.                          *)
PermissionFromMethod(method) ==
    CASE method \in {"CreateAgentSpec", "CreateHive", "CreateSecret"} -> "create"
      [] method \in {"UpdateAgentSpec", "UpdateHive", "UpdateSecret",
                     "ScaleAgentSpec", "ScaleHive"} -> "update"
      [] method \in {"DeleteAgentSpec", "DeleteHive", "DeleteSecret", "DeleteDrone",
                     "DrainDrone", "DrainAgentSpec"} -> "delete"
      [] OTHER -> "read"

AllowedGRPC(roles, user, method) ==
    CheckPermission(roles, user, PermissionFromMethod(method))
================================================================================
