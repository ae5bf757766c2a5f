------------------------------ MODULE MCAccess ------------------------------
(* Small instances of Access for TLC.                                       *)
EXTENDS Access, TLC

\* One core role with one core permission.
MCCorePermissions == <<RolesManage>>
MCCoreRoles == <<[name |-> "super_admin", perms |-> <<RolesManage>>]>>
=============================================================================
