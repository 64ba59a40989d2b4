---------------------------- MODULE ConsolePages ----------------------------
(* The pages of the dashboard outside engineering: what each shows, what it   *)
(* offers to do, and which right of the user it asks before it does.  Fields, *)
(* filters, layout and the texts of errors are left out.                      *)
EXTENDS ConsoleHooks

(* useHasPermission: things every visitor of the page gets, and things shown  *)
(* only to a holder of a right.                                               *)
Always(things)         == {[gate |-> {}, does |-> t] : t \in things}
If(area, verb, things) == {[gate |-> {<<area, verb>>}, does |-> t] : t \in things}

Page(shows, offers) == [shows |-> shows, offers |-> offers]

(* A form in a modal inserts a row, or edits the row it was opened for.       *)
RowForm(hooks) == [new |-> hooks.create, edit |-> hooks.update]

(* A table with its form and a confirmed delete.                              *)
TableOffers(area, hooks, form) ==
  If(area, "create", {form.new}) \cup If(area, "update", {form.edit})
  \cup If(area, "delete", {hooks.delete})

-----------------------------------------------------------------------------
(* Projects, tasks, milestones *)

ProjectFormModal == RowForm(projectsHooks)

ProjectsPage ==
  Page(Always({projectsHooks.list}), TableOffers("projects", projectsHooks, ProjectFormModal))

TaskFormModal == RowForm(tasksHooks)

TaskKanban == If("tasks", "update", {tasksHooks.update})

TasksPage ==
  Page(Always({tasksHooks.list, projectsHooks.list}),
       TableOffers("tasks", tasksHooks, TaskFormModal) \cup TaskKanban)

MilestoneFormModal == RowForm(milestonesHooks)

MilestonesPage ==
  Page(Always({milestonesHooks.list, projectsHooks.list}),
       TableOffers("milestones", milestonesHooks, MilestoneFormModal))

-----------------------------------------------------------------------------
(* Users and roles *)

UserFormModal == RowForm(usersHooks)

UsersPage ==
  Page(Always({usersHooks.list, rolesHooks.useRoles}),
       TableOffers("users", usersHooks, UserFormModal))

(* Opened for a role; its boxes can be ticked by who may manage roles.        *)
RolePermissionsModal ==
  Page(Always({rolesHooks.useRole, rolesHooks.usePermissions}),
       If("roles", "manage", {rolesHooks.useSetRolePermissions}))

RolesPage ==
  Page(Always({rolesHooks.useRoles}) \cup RolePermissionsModal.shows,
       RolePermissionsModal.offers)

-----------------------------------------------------------------------------
(* The public site *)

FaqFormModal         == RowForm(cmsHooks("/faqs"))
JobOpeningFormModal  == RowForm(cmsHooks("/careers"))
PortfolioFormModal   == RowForm(cmsHooks("/portfolio"))
ServiceFormModal     == RowForm(cmsHooks("/services"))
TeamMemberFormModal  == RowForm(cmsHooks("/team"))
TestimonialFormModal == RowForm(cmsHooks("/testimonials"))
PostFormModal        == RowForm(cmsHooks("/posts"))

(* A page of the site's editors.                                              *)
CmsPage(section, form) ==
  Page(Always({cmsHooks(section).list}), TableOffers("content", cmsHooks(section), form))

FaqAdminPage          == CmsPage("/faqs", FaqFormModal)
CareersAdminPage      == CmsPage("/careers", JobOpeningFormModal)
PortfolioAdminPage    == CmsPage("/portfolio", PortfolioFormModal)
ServicesAdminPage     == CmsPage("/services", ServiceFormModal)
TeamAdminPage         == CmsPage("/team", TeamMemberFormModal)
TestimonialsAdminPage == CmsPage("/testimonials", TestimonialFormModal)

(* The form uploads a chosen image before it saves the article.               *)
ArticleImageField ==
  If("content", "create", {uploadArticleImage}) \cup If("content", "update", {uploadArticleImage})

PostsAdminPage ==
  LET table == CmsPage("/posts", PostFormModal)
  IN  Page(table.shows \cup Always({categoriesHooks.useCmsCategories}),
           table.offers \cup ArticleImageField)

SubscribersAdminPage ==
  Page(Always({cmsHooks("/subscribers").list}),
       If("content", "delete", {cmsHooks("/subscribers").delete}))

-----------------------------------------------------------------------------
(* Leads, applications, clients, timesheets *)

LeadsPage ==
  Page(Always({customerHooks.useLeads}), If("leads", "update", {customerHooks.useUpdateLead}))

ApplicationsPage ==
  Page(Always({customerHooks.useApplications}),
       If("applications", "update", {customerHooks.useUpdateApplication}))

ClientsPage ==
  Page(Always({customerHooks.useClients}),
       If("clients", "create", {customerHooks.useCreateClient}))

TimesheetsPage ==
  Page(Always({customerHooks.useTimesheets}),
       If("timesheets", "create", {customerHooks.useCreateTimesheet})
       \cup If("timesheets", "update", {customerHooks.useUpdateTimesheet}))

-----------------------------------------------------------------------------
(* Invoices, tickets and the portal *)

InvoicesPage ==
  Page(Always({invoiceHooks.useInvoices})
       \cup If("invoices", "create", {customerHooks.useClients}),
       If("invoices", "create", {invoiceHooks.useCreateInvoice}))

InvoiceDetailPage ==
  Page(Always({invoiceHooks.useInvoice}),
       If("invoices", "update", {invoiceHooks.useSendInvoice, invoiceHooks.useVoidInvoice})
       \cup If("payments", "create",
               {invoiceHooks.useRecordPayment, invoiceHooks.useChargeEvcPayment}))

InvoicePrintPage == Page(Always({invoiceHooks.useInvoice}), {})

(* Only a client's own user opens a ticket; the right is asked for as well.   *)
TicketsPage ==
  Page(Always({ticketHooks.useTickets}),
       If("tickets", "create", {ticketHooks.useCreateTicket})
       \cup If("tickets", "update", {ticketHooks.useUpdateTicket}))

TicketDetailPage ==
  Page(Always({ticketHooks.useTicket})
       \cup If("tickets", "update", {ticketHooks.useTicketAssignees}),
       If("tickets", "update", {ticketHooks.useUpdateTicket})
       \cup Always({ticketHooks.useCreateTicketReply}))

PortalProjectsPage   == Page(Always({portalHooks.usePortalProjects}), {})
PortalMilestonesPage == Page(Always({portalHooks.usePortalMilestones}), {})

-----------------------------------------------------------------------------
(* Staff *)

EmployeesPage ==
  Page(Always({staffHooks.useEmployees})
       \cup If("employees", "create", {staffHooks.useEmployeeCandidates}),
       If("employees", "create", {staffHooks.useCreateEmployee}))

AttendancePage ==
  Page(Always({staffHooks.useAttendance, staffHooks.useEmployees}),
       If("attendance", "create", {staffHooks.useCheckIn, staffHooks.useCheckOut}))

LeavePage ==
  Page(Always({staffHooks.useLeave, staffHooks.useEmployees}),
       If("leave", "create", {staffHooks.useCreateLeave})
       \cup If("leave", "update", {staffHooks.useUpdateLeave}))

-----------------------------------------------------------------------------
(* Files, the audit log, notifications, the account *)

DocumentsPage ==
  Page(Always({fileHooks.useDocuments}) \cup If("clients", "read", {customerHooks.useClients}),
       Always({fileHooks.useDownloadDocument})
       \cup If("documents", "create", {fileHooks.useCreateDocument})
       \cup If("documents", "delete", {fileHooks.useDeleteDocument}))

MediaPage ==
  Page(Always({fileHooks.useMedia}),
       Always({fileHooks.useDownloadMedia})
       \cup If("media", "create", {fileHooks.useCreateMedia})
       \cup If("media", "delete", {fileHooks.useDeleteMedia}))

AuditPage == Page(Always({noticeHooks.useAuditLogs}), {})

NotificationsPage ==
  Page(Always({noticeHooks.useNotifications,
               Query(<<"notification-preferences">>, notificationApi.preferences),
               Query(<<"notification-deliveries">>, notificationApi.deliveries)}),
       Always({noticeHooks.useMarkNotificationRead,
               Command(notificationApi.setPreference, {<<"notification-preferences">>})}))

TwoFactorPanel ==
  Always({authHooks.useStartTwoFactor, authHooks.useConfirmTwoFactor,
          authHooks.useDisableTwoFactor, authHooks.useRegenerateBackupCodes})

ProfilePage ==
  Page(Always({authHooks.useCurrentUser}),
       Always({authHooks.useUpdateProfile}) \cup TwoFactorPanel)

-----------------------------------------------------------------------------
(* GitHub: each command has all three lists read again.                       *)
GitHubPage ==
  LET lists == {<<"github-installations">>, <<"github-repositories">>, <<"github-activity">>}
  IN Page(Always({Query(<<"github-repositories">>, githubApi.repositories),
                  Query(<<"github-activity">>, githubApi.activity)})
          \cup If("github", "manage",
                  {Query(<<"github-installations">>, githubApi.installations),
                   Query(<<"github-projects">>, engineeringApi.projects)}),
          If("github", "manage",
             {Command(c, lists) : c \in {githubApi.connect, githubApi.disconnect, githubApi.map}}))

=============================================================================
