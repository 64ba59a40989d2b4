---------------------------- MODULE ConsoleRights ----------------------------
(* The rights of the platform and the roles the database is seeded with:      *)
(* packages/shared/src/constants/permissions.ts and backend/prisma/seed.ts.   *)
(* A right is a pair of an area and a verb, "tasks.read" being                *)
(* <<"tasks", "read">>.                                                       *)

(* All rights.  In the source a right of engineering tasks is written         *)
(* 'engineering.tasks.create'; its area begins with 'engineering.', which is  *)
(* what the prefixes of the seed match.                                       *)
PERMISSIONS ==
  ({"users", "projects", "tasks", "milestones", "content"}
     \X {"read", "create", "update", "delete"})
  \cup ({"clients", "timesheets", "invoices", "tickets", "employees", "leave"}
     \X {"read", "create", "update"})
  \cup ({"payments", "attendance"} \X {"read", "create"})
  \cup ({"documents", "media"} \X {"read", "create", "delete"})
  \cup ({"leads", "applications"} \X {"read", "update"})
  \cup ({"portal", "audit", "notifications"} \X {"read"})
  \cup ({"roles", "engineering", "project-documentation", "github"}
     \X {"read", "manage"})
  \cup ({"engineering.tasks"} \X {"create", "review"})

(* byPrefix: every right of the areas named.                                  *)
ofAreas(areas) == {p \in PERMISSIONS : p[1] \in areas}

EngineeringAreas == {"engineering", "engineering.tasks", "project-documentation"}

ManagerAreas ==
  EngineeringAreas \cup
  {"projects", "tasks", "milestones", "leads", "applications", "timesheets",
   "invoices", "payments", "tickets", "clients", "employees", "attendance",
   "leave", "documents", "media", "audit", "notifications"}

githubRead == <<"github", "read">>

(* What every engineer may do; the roles add to it.                           *)
EngineeringRead ==
  ({"projects", "milestones", "engineering", "project-documentation", "github",
    "notifications", "tasks"} \X {"read"}) \cup {<<"tasks", "update">>}

EngineerRights ==
  EngineeringRead \cup {<<"tasks", "create">>, <<"engineering.tasks", "create">>}

staffKeys ==
  ({"projects", "tasks", "milestones", "timesheets", "tickets", "employees",
    "attendance", "leave", "notifications", "engineering",
    "project-documentation"} \X {"read"})
  \cup ({"tasks", "timesheets", "attendance", "leave", "engineering.tasks"}
     \X {"create"})
  \cup ({"tasks", "tickets"} \X {"update"})

clientKeys ==
  ({"portal", "tickets", "invoices", "payments", "documents", "notifications"}
     \X {"read"})
  \cup ({"tickets", "payments"} \X {"create"})

Role ==
  {"SUPER_ADMIN", "ADMIN", "EDITOR", "MANAGER", "PROJECT_MANAGER",
   "LEAD_ENGINEER", "ENGINEER", "QA_ENGINEER", "STAFF", "CLIENT", "GUEST"}

(* The rights of each role as the seed sets them.                             *)
RightsOf ==
  [role \in Role |->
     CASE role = "SUPER_ADMIN"     -> PERMISSIONS
       [] role = "ADMIN"           -> PERMISSIONS \ {<<"roles", "manage">>}
       [] role = "EDITOR"          -> ofAreas({"content", "media"})
       [] role = "MANAGER"         -> ofAreas(ManagerAreas) \cup {githubRead}
       [] role = "PROJECT_MANAGER" ->
            ofAreas(EngineeringAreas \cup
                    {"projects", "tasks", "milestones", "notifications"})
            \cup {githubRead}
       [] role = "LEAD_ENGINEER"   ->
            EngineerRights \cup {<<"engineering.tasks", "review">>}
       [] role = "ENGINEER"        -> EngineerRights
       [] role = "QA_ENGINEER"     -> EngineeringRead
       [] role = "STAFF"           -> staffKeys
       [] role = "CLIENT"          -> clientKeys
       [] role = "GUEST"           -> {}]

=============================================================================
