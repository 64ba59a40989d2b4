----------------------------- MODULE ConsoleHooks -----------------------------
(* What the dashboard asks of the API, and what it tells its cache: the       *)
(* functions of features/*/api.ts and the hooks of features/*/hooks.ts.       *)
EXTENDS Naturals, Sequences, ConsoleRoutes

(* A query caches the answer of a call under a key.  What a key carries       *)
(* beyond its name (an id, a page number) is one value of the many: each is   *)
(* an entry of its own that behaves like the others.                          *)
Query(key, call) == [key |-> key, call |-> call]

(* A command is a call and, once it was answered, the keys whose entries it   *)
(* declares out of date (invalidateQueries) or sets to the answer             *)
(* (setQueryData).                                                            *)
Command(call, tells) == [call |-> call, tells |-> tells, sets |-> {}]
Setting(call, key)   == [call |-> call, tells |-> {}, sets |-> {key}]

(* A key covers every key it is a prefix of.                                  *)
Covers(told, key) ==
  Len(told) <= Len(key) /\ \A i \in 1..Len(told) : told[i] = key[i]

-----------------------------------------------------------------------------
(* Tables with the hooks of list, create, update, delete *)

tableApi(base) ==
  [list   |-> Get(base, "/"),        create |-> Post(base, "/"),
   update |-> Patch(base, "/:id"),   delete |-> Del(base, "/:id")]

tableHooks(api, key) ==
  [list   |-> Query(key, api.list),
   create |-> Command(api.create, {key}),
   update |-> Command(api.update, {key}),
   delete |-> Command(api.delete, {key})]

tasksApi   == tableApi("tasks")
tasksHooks == tableHooks(tasksApi, <<"tasks">>)

projectsApi   == tableApi("projects")
projectsHooks == tableHooks(projectsApi, <<"projects">>)

milestonesApi   == tableApi("milestones")
milestonesHooks == tableHooks(milestonesApi, <<"milestones">>)

usersApi == tableApi("users")

rolesApi ==
  [listRoles |-> Get("roles", "/"), getRole |-> Get("roles", "/:id"),
   listPermissions |-> Get("permissions", "/"),
   setRolePermissions |-> Put("roles", "/:id/permissions")]

usersHooks == tableHooks(usersApi, <<"users">>)

rolesHooks ==
  [useRoles |-> Query(<<"roles">>, rolesApi.listRoles),
   useRole |-> Query(<<"roles", "id">>, rolesApi.getRole),
   usePermissions |-> Query(<<"permissions">>, rolesApi.listPermissions),
   useSetRolePermissions |-> Command(rolesApi.setRolePermissions, {<<"roles">>})]

-----------------------------------------------------------------------------
(* The account *)

authApi ==
  [fetchCurrentUser |-> Get("auth", "/me"), updateProfile |-> Patch("auth", "/me"),
   logout |-> Post("auth", "/logout"),
   startTwoFactorSetup |-> Post("auth", "/2fa/setup"),
   confirmTwoFactorSetup |-> Post("auth", "/2fa/confirm"),
   disableTwoFactor |-> Post("auth", "/2fa/disable"),
   regenerateBackupCodes |-> Post("auth", "/2fa/backup-codes")]

CURRENT_USER_KEY == <<"auth", "me">>

authHooks ==
  [useCurrentUser |-> Query(CURRENT_USER_KEY, authApi.fetchCurrentUser),
   useUpdateProfile |-> Setting(authApi.updateProfile, CURRENT_USER_KEY),
   useStartTwoFactor |-> Command(authApi.startTwoFactorSetup, {}),
   useConfirmTwoFactor |-> Setting(authApi.confirmTwoFactorSetup, CURRENT_USER_KEY),
   useDisableTwoFactor |-> Setting(authApi.disableTwoFactor, CURRENT_USER_KEY),
   useRegenerateBackupCodes |-> Command(authApi.regenerateBackupCodes, {}),
   useLogout |-> Setting(authApi.logout, CURRENT_USER_KEY)]

dashboardHooks == [useDashboardOverview |-> Query(<<"dashboard", "overview">>, Get("dashboard", "/"))]

-----------------------------------------------------------------------------
(* The public site *)

cmsApi(section) ==
  [list   |-> Get("cms", section),          create |-> Post("cms", section),
   update |-> Patch("cms", RowOf(section)), delete |-> Del("cms", RowOf(section))]

cmsHooks(section) == tableHooks(cmsApi(section), <<"cms", section>>)

categoriesHooks == [useCmsCategories |-> Query(<<"cms", "/categories">>, Get("cms", "/categories"))]

(* Not a hook: the form posts the file and keeps the answer.                  *)
uploadArticleImage == Command(Post("cms", "/article-images"), {})

-----------------------------------------------------------------------------
(* The office *)

opsApi ==
  [listLeads |-> Get("leads", "/"), updateLead |-> Patch("leads", "/:id"),
   listApplications |-> Get("job-applications", "/"),
   updateApplication |-> Patch("job-applications", "/:id"),
   listClients |-> Get("clients", "/"), createClient |-> Post("clients", "/"),
   listTimesheets |-> Get("timesheets", "/"), createTimesheet |-> Post("timesheets", "/"),
   updateTimesheet |-> Patch("timesheets", "/:id"),
   listInvoices |-> Get("invoices", "/"), getInvoice |-> Get("invoices", "/:id"),
   createInvoice |-> Post("invoices", "/"), sendInvoice |-> Post("invoices", "/:id/send"),
   voidInvoice |-> Post("invoices", "/:id/void"), recordPayment |-> Post("payments", "/"),
   chargeEvcPayment |-> Post("payments", "/evc-plus"),
   listTickets |-> Get("support-tickets", "/"), getTicket |-> Get("support-tickets", "/:id"),
   createTicket |-> Post("support-tickets", "/"),
   updateTicket |-> Patch("support-tickets", "/:id"),
   listTicketAssignees |-> Get("support-tickets", "/assignees"),
   createTicketReply |-> Post("support-tickets", "/:id/replies"),
   listPortalProjects |-> Get("portal", "/projects"),
   listPortalMilestones |-> Get("portal", "/milestones")]

staffApi ==
  [listEmployees |-> Get("employees", "/"),
   listEmployeeCandidates |-> Get("employees", "/candidates"),
   createEmployee |-> Post("employees", "/"), listAttendance |-> Get("attendance", "/"),
   checkIn |-> Post("attendance", "/check-in"), checkOut |-> Post("attendance", "/check-out"),
   listLeave |-> Get("leave-requests", "/"), createLeave |-> Post("leave-requests", "/"),
   updateLeave |-> Patch("leave-requests", "/:id"), listDocuments |-> Get("documents", "/"),
   createDocument |-> Post("documents", "/"), deleteDocument |-> Del("documents", "/:id"),
   downloadDocument |-> Get("documents", "/:id/file"), listMedia |-> Get("media", "/"),
   createMedia |-> Post("media", "/"), deleteMedia |-> Del("media", "/:id"),
   downloadMedia |-> Get("media", "/:id/file"), listAuditLogs |-> Get("audit-logs", "/"),
   listNotifications |-> Get("notifications", "/"),
   markNotificationRead |-> Post("notifications", "/:id/read")]

customerHooks ==
  [useLeads |-> Query(<<"leads">>, opsApi.listLeads),
   useUpdateLead |-> Command(opsApi.updateLead, {<<"leads">>}),
   useApplications |-> Query(<<"applications">>, opsApi.listApplications),
   useUpdateApplication |-> Command(opsApi.updateApplication, {<<"applications">>}),
   useClients |-> Query(<<"clients">>, opsApi.listClients),
   useCreateClient |-> Command(opsApi.createClient, {<<"clients">>}),
   useTimesheets |-> Query(<<"timesheets">>, opsApi.listTimesheets),
   useCreateTimesheet |-> Command(opsApi.createTimesheet, {<<"timesheets">>}),
   useUpdateTimesheet |-> Command(opsApi.updateTimesheet, {<<"timesheets">>})]

(* The bill itself is told as well, which the list's key covers already.      *)
BillKeys == {<<"invoices">>, <<"invoices", "id">>}

invoiceHooks ==
  [useInvoices |-> Query(<<"invoices">>, opsApi.listInvoices),
   useInvoice |-> Query(<<"invoices", "id">>, opsApi.getInvoice),
   useCreateInvoice |-> Command(opsApi.createInvoice, {<<"invoices">>}),
   useSendInvoice |-> Command(opsApi.sendInvoice, BillKeys),
   useVoidInvoice |-> Command(opsApi.voidInvoice, BillKeys),
   useRecordPayment |-> Command(opsApi.recordPayment, BillKeys),
   useChargeEvcPayment |-> Command(opsApi.chargeEvcPayment, BillKeys)]

ticketHooks ==
  [useTickets |-> Query(<<"tickets">>, opsApi.listTickets),
   useTicket |-> Query(<<"tickets", "id">>, opsApi.getTicket),
   useCreateTicket |-> Command(opsApi.createTicket, {<<"tickets">>}),
   useUpdateTicket |-> Command(opsApi.updateTicket, {<<"tickets">>, <<"tickets", "id">>}),
   useTicketAssignees |-> Query(<<"ticket-assignees">>, opsApi.listTicketAssignees),
   useCreateTicketReply |-> Command(opsApi.createTicketReply, {<<"tickets", "id">>})]

portalHooks ==
  [usePortalProjects |-> Query(<<"portal-projects">>, opsApi.listPortalProjects),
   usePortalMilestones |-> Query(<<"portal-milestones">>, opsApi.listPortalMilestones)]

staffHooks ==
  [useEmployees |-> Query(<<"employees">>, staffApi.listEmployees),
   useEmployeeCandidates |-> Query(<<"employee-candidates">>, staffApi.listEmployeeCandidates),
   useCreateEmployee |->
     Command(staffApi.createEmployee, {<<"employees">>, <<"employee-candidates">>}),
   useAttendance |-> Query(<<"attendance">>, staffApi.listAttendance),
   useCheckIn |-> Command(staffApi.checkIn, {<<"attendance">>}),
   useCheckOut |-> Command(staffApi.checkOut, {<<"attendance">>}),
   useLeave |-> Query(<<"leave">>, staffApi.listLeave),
   useCreateLeave |-> Command(staffApi.createLeave, {<<"leave">>}),
   useUpdateLeave |-> Command(staffApi.updateLeave, {<<"leave">>})]

fileHooks ==
  [useDocuments |-> Query(<<"documents">>, staffApi.listDocuments),
   useCreateDocument |-> Command(staffApi.createDocument, {<<"documents">>}),
   useDeleteDocument |-> Command(staffApi.deleteDocument, {<<"documents">>}),
   useDownloadDocument |-> Command(staffApi.downloadDocument, {}),
   useMedia |-> Query(<<"media">>, staffApi.listMedia),
   useCreateMedia |-> Command(staffApi.createMedia, {<<"media">>}),
   useDeleteMedia |-> Command(staffApi.deleteMedia, {<<"media">>}),
   useDownloadMedia |-> Command(staffApi.downloadMedia, {})]

noticeHooks ==
  [useAuditLogs |-> Query(<<"audit">>, staffApi.listAuditLogs),
   useNotifications |-> Query(<<"notifications">>, staffApi.listNotifications),
   useMarkNotificationRead |-> Command(staffApi.markNotificationRead, {<<"notifications">>})]

notificationApi ==
  [preferences |-> Get("notifications", "/preferences"),
   deliveries |-> Get("notifications", "/deliveries"),
   setPreference |-> Put("notifications", "/preferences/:eventKey")]

githubApi ==
  [installations |-> Get("github", "/installations"),
   connect |-> Post("github", "/installations"),
   disconnect |-> Del("github", "/installations/:id"),
   repositories |-> Get("github", "/repositories"),
   map |-> Patch("github", "/repositories/:id"),
   activity |-> Get("github", "/repositories/:id/activity/:kind")]

-----------------------------------------------------------------------------
(* Engineering *)

engineeringApi ==
  [projects |-> Get("engineering", "/projects"), metrics |-> Get("engineering", "/metrics"),
   analytics |-> Get("engineering", "/analytics"),
   tasks |-> Get("engineering", "/projects/:id/tasks"),
   createTask |-> Post("engineering", "/projects/:id/tasks"),
   submitTask |-> Post("engineering", "/tasks/:id/submit"),
   reviewTask |-> Post("engineering", "/tasks/:id/review"),
   verifyTaskQa |-> Post("engineering", "/tasks/:id/verify-qa"),
   scheduleTask |-> Patch("engineering", "/tasks/:id/schedule"),
   updateTaskStatus |-> Patch("tasks", "/:id"),
   phases |-> Get("engineering", "/projects/:id/phases"),
   createPhase |-> Post("engineering", "/projects/:id/phases"),
   members |-> Get("engineering", "/projects/:id/members"),
   eligibleEngineers |-> Get("engineering", "/projects/:id/eligible-engineers"),
   addMember |-> Post("engineering", "/projects/:id/members"),
   removeMember |-> Del("engineering", "/projects/:id/members/:id"),
   systems |-> Get("engineering", "/projects/:id/systems"),
   createSystem |-> Post("engineering", "/projects/:id/systems")]

(* What hangs on one task.                                                    *)
taskApi ==
  [comments |-> Get("engineering", "/tasks/:id/comments"),
   addComment |-> Post("engineering", "/tasks/:id/comments"),
   progress |-> Get("engineering", "/tasks/:id/progress"),
   addProgress |-> Post("engineering", "/tasks/:id/progress"),
   checklist |-> Get("engineering", "/tasks/:id/checklist"),
   addChecklistItem |-> Post("engineering", "/tasks/:id/checklist"),
   setChecklistItem |-> Patch("engineering", "/tasks/:id/checklist/:id"),
   dependencies |-> Get("engineering", "/tasks/:id/dependencies"),
   addDependency |-> Post("engineering", "/tasks/:id/dependencies"),
   transitions |-> Get("engineering", "/tasks/:id/transitions"),
   hours |-> Get("engineering", "/tasks/:id/hours"),
   recordHours |-> Post("engineering", "/tasks/:id/hours"),
   attachments |-> Get("engineering", "/tasks/:id/attachments"),
   uploadAttachment |-> Post("engineering", "/tasks/:id/attachments"),
   downloadAttachment |-> Get("engineering", "/tasks/:id/attachments/:id/file")]

documentationApi ==
  [list |-> Get("documentation", "/"), folders |-> Get("documentation", "/folders"),
   renameFolder |-> Patch("documentation", "/folders/rename"),
   proposeTasks |-> Post("documentation", "/:id/propose-tasks"),
   create |-> Post("documentation", "/"), update |-> Patch("documentation", "/:id"),
   status |-> Patch("documentation", "/:id/status"),
   versions |-> Get("documentation", "/:id/versions"),
   download |-> Get("documentation", "/:id/file"),
   comments |-> Get("documentation", "/:id/comments"),
   addComment |-> Post("documentation", "/:id/comments"),
   removeComment |-> Del("documentation", "/:id/comments/:id"),
   links |-> Get("documentation", "/:id/links"),
   link |-> Post("documentation", "/:id/links/:target"),
   unlink |-> Del("documentation", "/:id/links/:target/:id")]

engineerApi ==
  [mine |-> Get("engineering", "/engineers/me/profile"),
   updateMine |-> Patch("engineering", "/engineers/me/profile"),
   availability |-> Get("engineering", "/engineers/me/availability"),
   addAvailability |-> Post("engineering", "/engineers/me/availability"),
   removeAvailability |-> Del("engineering", "/engineers/me/availability/:id"),
   team |-> Get("engineering", "/projects/:id/engineer-profiles"),
   history |-> Get("engineering", "/projects/:id/assignment-history")]

operationsApi ==
  [updates |-> Get("engineering", "/systems/:id/updates"),
   createUpdate |-> Post("engineering", "/systems/:id/updates"),
   transitionUpdate |-> Patch("engineering", "/updates/:id"),
   approveProduction |-> Post("engineering", "/updates/:id/production-approval"),
   bugs |-> Get("engineering", "/systems/:id/bugs"),
   createBug |-> Post("engineering", "/systems/:id/bugs"),
   updateBug |-> Patch("engineering", "/bugs/:id"),
   maintenance |-> Get("engineering", "/systems/:id/maintenance"),
   createMaintenance |-> Post("engineering", "/systems/:id/maintenance"),
   updateMaintenance |-> Patch("engineering", "/maintenance/:id"),
   releases |-> Get("engineering", "/systems/:id/releases"),
   projectPullRequests |-> Get("engineering", "/projects/:id/pull-requests"),
   createRelease |-> Post("engineering", "/systems/:id/releases"),
   linkReleaseTask |-> Post("engineering", "/releases/:id/tasks"),
   unlinkReleaseTask |-> Del("engineering", "/releases/:id/tasks/:id"),
   linkReleasePullRequest |-> Post("engineering", "/releases/:id/pull-requests"),
   unlinkReleasePullRequest |-> Del("engineering", "/releases/:id/pull-requests/:id"),
   transitionRelease |-> Patch("engineering", "/releases/:id"),
   approveRelease |-> Post("engineering", "/releases/:id/approve"),
   deployments |-> Get("engineering", "/releases/:id/deployments"),
   recordDeployment |-> Post("engineering", "/releases/:id/deployments")]

=============================================================================
