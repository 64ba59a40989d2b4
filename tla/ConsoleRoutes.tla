---------------------------- MODULE ConsoleRoutes ----------------------------
(* The routes of the API: which calls there are and which right each asks     *)
(* for.  A call is its method, the path its router is mounted at (app.ts) and *)
(* the rest of the path.  A route admits a user who holds one of its rights,  *)
(* and every signed-in user when it names none.  What a service refuses       *)
(* beyond that (a project the user is not a member of) is not a route's.      *)

Get(base, path)    == <<"GET", base, path>>
Post(base, path)   == <<"POST", base, path>>
Patch(base, path)  == <<"PATCH", base, path>>
Put(base, path)    == <<"PUT", base, path>>
Del(base, path) == <<"DELETE", base, path>>

(* rbac(permission) and rbacAny(permissions) before a handler.                *)
rbacAny(rights, requests) == {[call |-> c, rights |-> rights] : c \in requests}

rbac(area, verb, requests) == rbacAny({<<area, verb>>}, requests)

(* The authorisation check.                                                   *)
authorize(route, held) == route.rights = {} \/ route.rights \cap held # {}

-----------------------------------------------------------------------------
(* Routers *)

(* The four routes of a table with its own router: list and one row, insert,  *)
(* edit, remove.                                                              *)
TableRoutes(base) ==
  rbac(base, "read", {Get(base, "/"), Get(base, "/:id")})
  \cup rbac(base, "create", {Post(base, "/")})
  \cup rbac(base, "update", {Patch(base, "/:id")})
  \cup rbac(base, "delete", {Del(base, "/:id")})

usersRouter      == TableRoutes("users")
projectsRouter   == TableRoutes("projects")
tasksRouter      == TableRoutes("tasks")
milestonesRouter == TableRoutes("milestones")

rolesRouter ==
  rbac("roles", "read", {Get("roles", "/"), Get("roles", "/:id")})
  \cup rbac("roles", "manage", {Put("roles", "/:id/permissions")})

permissionsRouter == rbac("roles", "read", {Get("permissions", "/")})

(* The sections of the public site, each with a list of its own.              *)
CmsSection ==
  {"/services", "/posts", "/portfolio", "/careers", "/testimonials", "/team", "/faqs"}

(* A row of a section, and what is done with one.                             *)
RowOf(section) ==
  CASE section = "/services" -> "/services/:id" [] section = "/posts" -> "/posts/:id"
    [] section = "/portfolio" -> "/portfolio/:id" [] section = "/careers" -> "/careers/:id"
    [] section = "/testimonials" -> "/testimonials/:id" [] section = "/team" -> "/team/:id"
    [] section = "/faqs" -> "/faqs/:id" [] section = "/subscribers" -> "/subscribers/:id"

cmsRouter ==
  rbac("content", "read",
       {Get("cms", s) : s \in CmsSection \cup {"/categories", "/subscribers"}})
  \cup rbac("content", "create", {Post("cms", s) : s \in CmsSection})
  \cup rbac("content", "update", {Patch("cms", RowOf(s)) : s \in CmsSection})
  \cup rbac("content", "delete",
            {Del("cms", RowOf(s)) : s \in CmsSection \cup {"/subscribers"}})
  \cup rbacAny({<<"content", "create">>, <<"content", "update">>},
               {Post("cms", "/article-images")})

leadsRouter ==
  rbac("leads", "read", {Get("leads", "/")})
  \cup rbac("leads", "update", {Patch("leads", "/:id")})

applicationsRouter ==
  rbac("applications", "read", {Get("job-applications", "/")})
  \cup rbac("applications", "update", {Patch("job-applications", "/:id")})

(* Clients and timesheets: a list, insert, edit.                              *)
RecordRoutes(base) ==
  rbac(base, "read", {Get(base, "/")})
  \cup rbac(base, "create", {Post(base, "/")})
  \cup rbac(base, "update", {Patch(base, "/:id")})

clientsRouter    == RecordRoutes("clients")
timesheetsRouter == RecordRoutes("timesheets")

invoicesRouter ==
  rbac("invoices", "read", {Get("invoices", "/"), Get("invoices", "/:id")})
  \cup rbac("invoices", "create", {Post("invoices", "/")})
  \cup rbac("invoices", "update",
            {Post("invoices", "/:id/send"), Post("invoices", "/:id/void")})

ticketsRouter ==
  rbac("tickets", "read",
       {Get("support-tickets", "/"), Get("support-tickets", "/:id"),
        Post("support-tickets", "/:id/replies")})
  \cup rbac("tickets", "create", {Post("support-tickets", "/")})
  \cup rbac("tickets", "update",
            {Get("support-tickets", "/assignees"), Patch("support-tickets", "/:id")})

portalRouter ==
  rbac("portal", "read", {Get("portal", "/projects"), Get("portal", "/milestones")})

paymentsRouter ==
  rbac("payments", "read", {Get("payments", "/")})
  \cup rbac("payments", "create", {Post("payments", "/"), Post("payments", "/evc-plus")})

employeesRouter ==
  RecordRoutes("employees")
  \cup rbac("employees", "create", {Get("employees", "/candidates")})

attendanceRouter ==
  rbac("attendance", "read", {Get("attendance", "/")})
  \cup rbac("attendance", "create",
            {Post("attendance", "/check-in"), Post("attendance", "/check-out")})

leaveRouter ==
  rbac("leave", "read", {Get("leave-requests", "/")})
  \cup rbac("leave", "create", {Post("leave-requests", "/")})
  \cup rbac("leave", "update", {Patch("leave-requests", "/:id")})

(* Documents and media: a list, upload, the file, remove.                     *)
FileRoutes(base) ==
  rbac(base, "read", {Get(base, "/"), Get(base, "/:id/file")})
  \cup rbac(base, "create", {Post(base, "/")})
  \cup rbac(base, "delete", {Del(base, "/:id")})

documentsRouter == FileRoutes("documents")
mediaRouter     == FileRoutes("media")

auditRouter == rbac("audit", "read", {Get("audit-logs", "/")})

notificationsRouter ==
  rbac("notifications", "read",
       {Get("notifications", "/"), Get("notifications", "/preferences"),
        Get("notifications", "/deliveries"), Post("notifications", "/:id/read"),
        Put("notifications", "/preferences/:eventKey")})

(* Behind requireAuth alone.                                                  *)
dashboardRouter == rbacAny({}, {Get("dashboard", "/")})

authRouter ==
  rbacAny({}, {Get("auth", "/me"), Patch("auth", "/me"), Post("auth", "/logout"),
               Post("auth", "/2fa/setup"), Post("auth", "/2fa/confirm"),
               Post("auth", "/2fa/disable"), Post("auth", "/2fa/backup-codes")})

-----------------------------------------------------------------------------
(* Engineering *)

engineeringReads ==
  {Get("engineering", p) : p \in
     {"/projects", "/engineers/me/profile", "/engineers/me/availability", "/metrics",
      "/analytics", "/projects/:id/engineer-profiles", "/projects/:id/members",
      "/projects/:id/tasks", "/projects/:id/phases", "/tasks/:id/comments",
      "/tasks/:id/progress", "/tasks/:id/checklist", "/tasks/:id/dependencies",
      "/tasks/:id/transitions", "/tasks/:id/hours", "/tasks/:id/attachments",
      "/tasks/:id/attachments/:id/file"}}
  \cup {Patch("engineering", "/engineers/me/profile"),
        Post("engineering", "/engineers/me/availability"),
        Del("engineering", "/engineers/me/availability/:id")}

engineeringManages ==
  {Get("engineering", "/projects/:id/assignment-history"),
   Get("engineering", "/projects/:id/eligible-engineers"),
   Post("engineering", "/projects/:id/members"),
   Patch("engineering", "/projects/:id/members/:id"),
   Del("engineering", "/projects/:id/members/:id"),
   Post("engineering", "/projects/:id/phases"),
   Post("engineering", "/tasks/:id/dependencies"),
   Del("engineering", "/tasks/:id/dependencies/:id"),
   Patch("engineering", "/tasks/:id/schedule")}

engineeringRouter ==
  rbac("engineering", "read", engineeringReads)
  \cup rbac("engineering", "manage", engineeringManages)
  \cup rbac("engineering.tasks", "create",
       {Post("engineering", p) : p \in
          {"/projects/:id/tasks", "/tasks/:id/submit", "/tasks/:id/comments",
           "/tasks/:id/progress", "/tasks/:id/checklist", "/tasks/:id/hours",
           "/tasks/:id/attachments"}}
       \cup {Patch("engineering", "/tasks/:id/checklist/:id")})
  \cup rbac("engineering.tasks", "review",
       {Post("engineering", "/tasks/:id/review"), Post("engineering", "/tasks/:id/verify-qa")})

engineeringOperationsRouter ==
  rbac("engineering", "read",
       {Get("engineering", p) : p \in
          {"/projects/:id/systems", "/systems/:id/updates", "/systems/:id/bugs",
           "/systems/:id/maintenance", "/systems/:id/releases",
           "/projects/:id/pull-requests", "/releases/:id/deployments"}})
  \cup rbac("engineering", "manage",
       {Post("engineering", p) : p \in
          {"/projects/:id/systems", "/systems/:id/updates",
           "/updates/:id/production-approval", "/systems/:id/maintenance",
           "/systems/:id/releases", "/releases/:id/tasks",
           "/releases/:id/pull-requests", "/releases/:id/approve",
           "/releases/:id/deployments"}}
       \cup {Patch("engineering", "/updates/:id"), Patch("engineering", "/releases/:id"),
             Del("engineering", "/releases/:id/tasks/:id"),
             Del("engineering", "/releases/:id/pull-requests/:id")})
  \cup rbacAny({<<"engineering.tasks", "create">>, <<"engineering", "manage">>},
       {Post("engineering", "/systems/:id/bugs"), Patch("engineering", "/bugs/:id"),
        Patch("engineering", "/maintenance/:id")})

githubRouter ==
  rbac("github", "read",
       {Get("github", "/repositories"), Get("github", "/repositories/:id/activity/:kind"),
        Get("github", "/tasks/:id/links")})
  \cup rbac("github", "manage",
       {Get("github", "/installations"), Post("github", "/installations"),
        Del("github", "/installations/:id"), Patch("github", "/repositories/:id"),
        Post("github", "/tasks/:id/links"), Del("github", "/tasks/:id/links/:id")})

(* The documentation of a project asks for membership, in the service.        *)
projectDocumentationRouter ==
  rbacAny({},
    {Get("documentation", p) : p \in
       {"/", "/folders", "/:id", "/:id/versions", "/:id/file", "/:id/comments", "/:id/links"}}
    \cup {Post("documentation", p) : p \in
       {"/", "/:id/comments", "/:id/propose-tasks", "/:id/links/:target"}}
    \cup {Patch("documentation", p) : p \in
       {"/folders/rename", "/:id", "/:id/comments/:id", "/:id/status"}}
    \cup {Del("documentation", p) : p \in
       {"/:id", "/:id/comments/:id", "/:id/links/:target/:id"}})

-----------------------------------------------------------------------------
(* All routes, as the application mounts them.                                *)
Routes ==
  UNION {authRouter, usersRouter, rolesRouter, permissionsRouter, projectsRouter,
         projectDocumentationRouter, engineeringRouter, engineeringOperationsRouter,
         githubRouter, tasksRouter, milestonesRouter, cmsRouter, leadsRouter,
         applicationsRouter, clientsRouter, timesheetsRouter, invoicesRouter,
         paymentsRouter, ticketsRouter, portalRouter, employeesRouter,
         attendanceRouter, leaveRouter, documentsRouter, mediaRouter, auditRouter,
         notificationsRouter, dashboardRouter}

RouteOf ==
  [call \in {r.call : r \in Routes} |-> CHOOSE r \in Routes : r.call = call]

Admits(call, held) == authorize(RouteOf[call], held)

=============================================================================
