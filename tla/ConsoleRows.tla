------------------------------ MODULE ConsoleRows ------------------------------
(* Which rows a call is about: those a query answers with, those a command    *)
(* writes.  Rows are named by what they are; of a task, the row itself, its   *)
(* dates, its progress and its state (status, approval, verification) are     *)
(* told apart, since other lists show one and not the other.  Names joined    *)
(* from other rows, the audit trail and notices are left out.                 *)
EXTENDS ConsoleRoutes

Rows(rows, requests) == {[call |-> c, rows |-> rows] : c \in requests}

(* All calls of a router are about one kind of rows.                          *)
Whole(router, kind) == Rows({kind}, {r.call : r \in router})

-----------------------------------------------------------------------------
(* Services with a table of their own *)

projectService   == Whole(projectsRouter, "projects")
milestoneService == Whole(milestonesRouter, "milestones")
clientService    == Whole(clientsRouter, "clients")
timesheetService == Whole(timesheetsRouter, "timesheets")
inquiryService   == Whole(leadsRouter, "leads")
jobService       == Whole(applicationsRouter, "applications")
documentService  == Whole(documentsRouter, "documents")
mediaService     == Whole(mediaRouter, "media")
auditService     == Whole(auditRouter, "audit")
portalService    == Rows({"projects", "milestones"}, {r.call : r \in portalRouter})

(* The sections of the site; an image belongs to none until it is saved.      *)
cmsServices ==
  UNION {Rows({s}, {Get("cms", s), Post("cms", s), Patch("cms", RowOf(s)),
                    Del("cms", RowOf(s))}) : s \in CmsSection \cup {"/subscribers"}}
  \cup Rows({"categories"}, {Get("cms", "/categories")})
  \cup Rows({"media"}, {Post("cms", "/article-images")})

(* A user's roles, and a role's rights, are also what an account may do.  A   *)
(* list of roles shows their names, which no call changes.                    *)
userService ==
  Rows({"users"}, {Get("users", "/"), Post("users", "/"), Del("users", "/:id")})
  \cup Rows({"users", "accounts"}, {Patch("users", "/:id")})

roleService ==
  Rows({"role rights"}, {Get("roles", "/:id")})
  \cup Rows({"role rights", "accounts"}, {Put("roles", "/:id/permissions")})
  \cup Rows({"roles"}, {Get("roles", "/")})
  \cup Rows({"permissions"}, {Get("permissions", "/")})

authService ==
  Rows({"accounts"},
       {Get("auth", "/me"), Patch("auth", "/me"), Post("auth", "/2fa/confirm"),
        Post("auth", "/2fa/disable")})
  \cup Rows({"second factors"}, {Post("auth", "/2fa/setup"), Post("auth", "/2fa/backup-codes")})

invoiceService ==
  Rows({"invoices"},
       {Get("invoices", "/"), Post("invoices", "/"), Post("invoices", "/:id/send"),
        Post("invoices", "/:id/void")})
  \cup Rows({"invoices", "payments"}, {Get("invoices", "/:id")})

paymentService ==
  Rows({"invoices", "payments"}, {Post("payments", "/"), Post("payments", "/evc-plus")})
  \cup Rows({"payments"}, {Get("payments", "/")})

ticketService ==
  Rows({"tickets"},
       {Get("support-tickets", "/"), Post("support-tickets", "/"), Patch("support-tickets", "/:id")})
  \cup Rows({"tickets", "replies"}, {Get("support-tickets", "/:id")})
  \cup Rows({"replies"}, {Post("support-tickets", "/:id/replies")})
  \cup Rows({"assignees"}, {Get("support-tickets", "/assignees")})

(* A candidate is a user who is no employee yet.                              *)
hrService ==
  Rows({"employees"}, {Get("employees", "/"), Patch("employees", "/:id")})
  \cup Rows({"candidates"}, {Get("employees", "/candidates")})
  \cup Rows({"employees", "candidates"}, {Post("employees", "/")})
  \cup Whole(attendanceRouter, "attendance")
  \cup Whole(leaveRouter, "leave")

notificationService ==
  Rows({"notices"}, {Get("notifications", "/"), Post("notifications", "/:id/read")})
  \cup Rows({"preferences"},
            {Get("notifications", "/preferences"), Put("notifications", "/preferences/:eventKey")})
  \cup Rows({"deliveries"}, {Get("notifications", "/deliveries")})

(* A repository that is mapped, connected or cut off changes what is listed   *)
(* of it.                                                                     *)
githubService ==
  Rows({"installations"}, {Get("github", "/installations")})
  \cup Rows({"installations", "repositories"},
            {Post("github", "/installations"), Del("github", "/installations/:id")})
  \cup Rows({"repositories"}, {Get("github", "/repositories"), Patch("github", "/repositories/:id")})
  \cup Rows({"activity"}, {Get("github", "/repositories/:id/activity/:kind")})

-----------------------------------------------------------------------------
(* Engineering *)

taskService ==
  Rows({"tasks", "task states", "task dates"}, {Get("tasks", "/")})
  \cup Rows({"tasks"}, {Post("tasks", "/"), Del("tasks", "/:id")})
  \cup Rows({"task states", "task dates", "transitions"}, {Patch("tasks", "/:id")})

(* The projects one may see, their people, and the figures of the workspace.  *)
engineeringService ==
  Rows({"projects"}, {Get("engineering", "/projects")})
  \cup Rows({"projects", "members", "tasks", "task states", "task dates", "bugs",
             "maintenance", "releases"}, {Get("engineering", "/metrics")})
  \cup Rows({"members"}, {Get("engineering", "/projects/:id/members")})
  \cup Rows({"users"}, {Get("engineering", "/projects/:id/eligible-engineers")})
  \cup Rows({"members", "assignments"},
            {Post("engineering", "/projects/:id/members"),
             Del("engineering", "/projects/:id/members/:id")})
  \cup Rows({"assignments"}, {Get("engineering", "/projects/:id/assignment-history")})

analyticsService ==
  Rows({"projects", "tasks", "task states", "task dates"}, {Get("engineering", "/analytics")})

engineerProfiles ==
  Rows({"profiles"},
       {Get("engineering", "/engineers/me/profile"), Patch("engineering", "/engineers/me/profile")})
  \cup Rows({"availability"},
            {Get("engineering", "/engineers/me/availability"),
             Post("engineering", "/engineers/me/availability"),
             Del("engineering", "/engineers/me/availability/:id")})
  \cup Rows({"members", "profiles", "availability", "tasks", "task states"},
            {Get("engineering", "/projects/:id/engineer-profiles")})

(* A prerequisite is listed with its title and status.                        *)
planningService ==
  Rows({"phases"},
       {Get("engineering", "/projects/:id/phases"), Post("engineering", "/projects/:id/phases")})
  \cup Rows({"tasks", "task states", "task dates", "task progress"},
            {Get("engineering", "/projects/:id/tasks")})
  \cup Rows({"tasks"}, {Post("engineering", "/projects/:id/tasks")})
  \cup Rows({"task states"},
            {Post("engineering", "/tasks/:id/submit"), Post("engineering", "/tasks/:id/review"),
             Post("engineering", "/tasks/:id/verify-qa")})
  \cup Rows({"task dates"}, {Patch("engineering", "/tasks/:id/schedule")})
  \cup Rows({"dependencies", "task states"}, {Get("engineering", "/tasks/:id/dependencies")})
  \cup Rows({"dependencies"}, {Post("engineering", "/tasks/:id/dependencies")})
  \cup Rows({"transitions"}, {Get("engineering", "/tasks/:id/transitions")})
  \cup Rows({"reports"}, {Get("engineering", "/tasks/:id/progress")})
  \cup Rows({"reports", "task progress"}, {Post("engineering", "/tasks/:id/progress")})
  \cup Rows({"task comments"},
            {Get("engineering", "/tasks/:id/comments"), Post("engineering", "/tasks/:id/comments")})
  \cup Rows({"checklist"},
            {Get("engineering", "/tasks/:id/checklist"), Post("engineering", "/tasks/:id/checklist"),
             Patch("engineering", "/tasks/:id/checklist/:id")})
  \cup Rows({"hours"},
            {Get("engineering", "/tasks/:id/hours"), Post("engineering", "/tasks/:id/hours")})
  \cup Rows({"attachments"},
            {Get("engineering", "/tasks/:id/attachments"),
             Post("engineering", "/tasks/:id/attachments"),
             Get("engineering", "/tasks/:id/attachments/:id/file")})

(* Every edit of a document keeps a version; folders are read off documents.  *)
documentationService ==
  Rows({"project documents"}, {Get("documentation", "/")})
  \cup Rows({"folders"}, {Get("documentation", "/folders")})
  \cup Rows({"versions"}, {Get("documentation", "/:id/versions"), Get("documentation", "/:id/file")})
  \cup Rows({"project documents", "versions", "folders"},
            {Post("documentation", "/"), Patch("documentation", "/:id")})
  \cup Rows({"project documents", "versions"}, {Patch("documentation", "/:id/status")})
  \cup Rows({"project documents", "folders"}, {Patch("documentation", "/folders/rename")})
  \cup Rows({"document comments"},
            {Get("documentation", "/:id/comments"), Post("documentation", "/:id/comments"),
             Del("documentation", "/:id/comments/:id")})
  \cup Rows({"document links"},
            {Get("documentation", "/:id/links"), Post("documentation", "/:id/links/:target"),
             Del("documentation", "/:id/links/:target/:id")})
  \cup Rows({"tasks", "document links"}, {Post("documentation", "/:id/propose-tasks")})

(* A successful deployment moves its release on.                              *)
operationsService ==
  Rows({"systems"},
       {Get("engineering", "/projects/:id/systems"), Post("engineering", "/projects/:id/systems")})
  \cup Rows({"updates"},
            {Get("engineering", "/systems/:id/updates"), Post("engineering", "/systems/:id/updates"),
             Patch("engineering", "/updates/:id"),
             Post("engineering", "/updates/:id/production-approval")})
  \cup Rows({"bugs"},
            {Get("engineering", "/systems/:id/bugs"), Post("engineering", "/systems/:id/bugs"),
             Patch("engineering", "/bugs/:id")})
  \cup Rows({"maintenance"},
            {Get("engineering", "/systems/:id/maintenance"),
             Post("engineering", "/systems/:id/maintenance"),
             Patch("engineering", "/maintenance/:id")})
  \cup Rows({"releases", "release parts"}, {Get("engineering", "/systems/:id/releases")})
  \cup Rows({"release parts"},
            {Post("engineering", "/releases/:id/tasks"),
             Del("engineering", "/releases/:id/tasks/:id"),
             Post("engineering", "/releases/:id/pull-requests"),
             Del("engineering", "/releases/:id/pull-requests/:id")})
  \cup Rows({"releases"},
            {Post("engineering", "/systems/:id/releases"), Patch("engineering", "/releases/:id"),
             Post("engineering", "/releases/:id/approve")})
  \cup Rows({"pull requests"}, {Get("engineering", "/projects/:id/pull-requests")})
  \cup Rows({"deployments"}, {Get("engineering", "/releases/:id/deployments")})
  \cup Rows({"deployments", "releases"}, {Post("engineering", "/releases/:id/deployments")})

dashboardService == Rows({}, {Get("dashboard", "/")})

-----------------------------------------------------------------------------
Services ==
  UNION {projectService, milestoneService, clientService, timesheetService, inquiryService,
         jobService, documentService, mediaService, auditService, portalService, cmsServices,
         userService, roleService, authService, invoiceService, paymentService, ticketService,
         hrService, notificationService, githubService, taskService, engineeringService,
         analyticsService, engineerProfiles, planningService, documentationService,
         operationsService, dashboardService}

(* The rows of a call: none for one that touches no row a page shows.         *)
RowsOf == [c \in {r.call : r \in Routes} |-> UNION {s.rows : s \in {t \in Services : t.call = c}}]

=============================================================================
