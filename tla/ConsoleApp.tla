------------------------------ MODULE ConsoleApp ------------------------------
(* The dashboard as a whole: its pages with their guards, the links that lead *)
(* to them, and the overview some of the links depend on.  A user is the set  *)
(* of its roles and whether it belongs to a client.                           *)
EXTENDS ConsoleEngineering, ConsoleRights

Held(user) == UNION {RightsOf[role] : role \in user.roles}

hasPermission(user, right) == right \in Held(user)

Reads(user, area) == hasPermission(user, <<area, "read">>)

(* A role that must use a second factor.                                      *)
isTwoFactorRequired(roles) ==
  roles \cap {"SUPER_ADMIN", "ADMIN", "MANAGER", "PROJECT_MANAGER"} # {}

-----------------------------------------------------------------------------
(* Pages *)

(* Behind RequirePermission, which asks for the read right of an area.        *)
Guarded(path, area, page) == [path |-> path, guard |-> {<<area, "read">>}, page |-> page]
Open(path, page)          == [path |-> path, guard |-> {}, page |-> page]

DashboardPage == Page(Always({dashboardHooks.useDashboardOverview}), {})

Screens ==
  {Open("/", DashboardPage), Open("/profile", ProfilePage),
   Guarded("/users", "users", UsersPage), Guarded("/roles", "roles", RolesPage),
   Guarded("/projects", "projects", ProjectsPage),
   Guarded("/engineering", "engineering", EngineeringWorkspacePage),
   Guarded("/engineering/documentation", "engineering", DocumentationPage),
   Guarded("/engineering/planning", "engineering", TaskPlanningPage),
   Guarded("/engineering/operations", "engineering", EngineeringOperationsPage),
   Guarded("/engineering/engineers", "engineering", EngineerManagementPage),
   Guarded("/engineering/analytics", "engineering", EngineeringAnalyticsPage),
   Guarded("/github", "github", GitHubPage),
   Guarded("/tasks", "tasks", TasksPage),
   Guarded("/milestones", "milestones", MilestonesPage),
   Guarded("/cms/services", "content", ServicesAdminPage),
   Guarded("/cms/posts", "content", PostsAdminPage),
   Guarded("/cms/portfolio", "content", PortfolioAdminPage),
   Guarded("/cms/careers", "content", CareersAdminPage),
   Guarded("/cms/testimonials", "content", TestimonialsAdminPage),
   Guarded("/cms/team", "content", TeamAdminPage),
   Guarded("/cms/faqs", "content", FaqAdminPage),
   Guarded("/cms/subscribers", "content", SubscribersAdminPage),
   Guarded("/leads", "leads", LeadsPage),
   Guarded("/applications", "applications", ApplicationsPage),
   Guarded("/clients", "clients", ClientsPage),
   Guarded("/timesheets", "timesheets", TimesheetsPage),
   Guarded("/invoices", "invoices", InvoicesPage),
   Guarded("/invoices/:id", "invoices", InvoiceDetailPage),
   Guarded("/invoices/:id/print", "invoices", InvoicePrintPage),
   Guarded("/tickets", "tickets", TicketsPage),
   Guarded("/tickets/:id", "tickets", TicketDetailPage),
   Guarded("/portal/projects", "portal", PortalProjectsPage),
   Guarded("/portal/milestones", "portal", PortalMilestonesPage),
   Guarded("/employees", "employees", EmployeesPage),
   Guarded("/attendance", "attendance", AttendancePage),
   Guarded("/leave", "leave", LeavePage),
   Guarded("/documents", "documents", DocumentsPage),
   Guarded("/media", "media", MediaPage),
   Guarded("/audit", "audit", AuditPage),
   Guarded("/notifications", "notifications", NotificationsPage)}

App == [path \in {s.path : s \in Screens} |-> CHOOSE s \in Screens : s.path = path]

(* RequirePermission renders the page, or "Permission denied".                *)
RequirePermission(user, path) == App[path].guard \subseteq Held(user)

-----------------------------------------------------------------------------
(* Navigation *)

CmsPaths ==
  {"/cms/services", "/cms/posts", "/cms/portfolio", "/cms/careers", "/cms/testimonials",
   "/cms/team", "/cms/faqs", "/cms/subscribers"}

WEBSITE_ITEMS == CmsPaths \cup {"/media"}

PORTAL_ITEMS == {"/portal/projects", "/portal/milestones", "/tickets", "/invoices", "/documents"}

OPERATIONS_ITEMS ==
  {"/projects", "/engineering", "/engineering/documentation", "/engineering/planning",
   "/engineering/operations", "/engineering/engineers", "/engineering/analytics",
   "/github", "/tasks", "/milestones", "/timesheets", "/clients", "/leads", "/tickets",
   "/invoices", "/employees", "/attendance", "/leave", "/applications", "/documents",
   "/users", "/roles", "/audit"}

(* The areas whose readers work for the house, for the overview and for the   *)
(* navigation, which counts two more.                                         *)
INTERNAL_SURFACE ==
  {"content", "projects", "tasks", "milestones", "timesheets", "clients", "leads",
   "applications", "users", "roles", "employees", "attendance", "leave", "media", "audit"}

navInternalSurface(user) ==
  \E area \in INTERNAL_SURFACE \cup {"engineering", "github"} : Reads(user, area)

(* Every item asks for the right that guards its page.                        *)
permitted(user, items) == {path \in items : RequirePermission(user, path)}

visibleNavGroups(user) ==
  permitted(user, WEBSITE_ITEMS)
  \cup {path \in permitted(user, OPERATIONS_ITEMS) : navInternalSurface(user)}
  \cup {path \in permitted(user, PORTAL_ITEMS) :
          /\ Reads(user, "portal")
          /\ path \in {"/portal/projects", "/portal/milestones"} => user.client
          /\ path \in {"/tickets", "/invoices", "/documents"} => ~navInternalSurface(user)}

(* The frame of every page: home, the groups, the bell, the account menu.     *)
AppShell(user) ==
  {"/", "/profile"} \cup visibleNavGroups(user)
  \cup {path \in {"/notifications"} : Reads(user, "notifications")}

(* Links of a list to a row and back.                                         *)
linksIn(path) ==
  CASE path = "/invoices"           -> {"/invoices/:id"}
    [] path = "/invoices/:id"       -> {"/invoices", "/invoices/:id/print"}
    [] path = "/invoices/:id/print" -> {"/invoices/:id"}
    [] path = "/tickets"            -> {"/tickets/:id"}
    [] path = "/tickets/:id"        -> {"/tickets"}
    [] OTHER                        -> {}

-----------------------------------------------------------------------------
(* The overview: computed by the API for the user's rights of the moment *)

hasInternalSurface(user) == \E area \in INTERNAL_SURFACE : Reads(user, area)

isClientSurface(user) == "CLIENT" \in user.roles /\ ~hasInternalSurface(user)

MODULES ==
  {"projects", "tasks", "milestones", "timesheets", "clients", "leads", "tickets", "invoices",
   "employees", "attendance", "leave", "applications", "documents", "content", "media",
   "users", "roles", "audit", "portal-projects", "portal-milestones"}

PortalModules == {"portal-projects", "portal-milestones"}

(* Where the card of a module leads, and the area whose readers see it.       *)
ModulePath(key) ==
  CASE key = "content"           -> "/cms/services"
    [] key = "portal-projects"   -> "/portal/projects"
    [] key = "portal-milestones" -> "/portal/milestones"
    [] OTHER                     -> "/" \o key

ModuleArea(key) == IF key \in PortalModules THEN "portal" ELSE key

readable(user, keys) == {key \in keys : Reads(user, ModuleArea(key))}

(* The deadlines of the next weeks, as the pages they link to: whether there  *)
(* is such a row is the data's affair.                                        *)
listUpcoming(user, portal) ==
  {ModulePath(key) : key \in
     IF portal THEN readable(user, PortalModules)
     ELSE readable(user, {"projects", "milestones", "tasks", "leave"})}

(* A figure's card is shown for the areas of "kpis".                          *)
getInternalOverview(user) ==
  [surface |-> "internal", modules |-> readable(user, MODULES \ PortalModules),
   kpis |-> readable(user, {"projects", "tasks", "leads", "clients", "tickets", "invoices"}),
   upcoming |-> listUpcoming(user, FALSE)]

getPortalOverview(user) ==
  LET modules == readable(user, PortalModules \cup {"tickets", "invoices", "documents"})
  IN  [surface  |-> "portal",
       modules  |-> {key \in modules : user.client},
       kpis     |-> {key \in modules : user.client /\ key \notin {"documents", "portal-milestones"}},
       upcoming |-> {path \in listUpcoming(user, TRUE) : user.client}]

getDashboardOverview(user) ==
  IF isClientSurface(user) THEN getPortalOverview(user) ELSE getInternalOverview(user)

(* Before the overview was read.                                              *)
Loading == [surface |-> "loading", modules |-> {}, kpis |-> {}, upcoming |-> {}]

-----------------------------------------------------------------------------
(* What the dashboard links to *)

(* The frames of the latest rows are drawn while they load, with their link   *)
(* to all rows, and vanish when the overview has no such figure.              *)
ViewAll(data) ==
  IF data = Loading THEN {"/projects", "/tasks"}
  ELSE {ModulePath(key) : key \in
          data.kpis \cap ({"projects", "portal-projects", "tickets"}
                          \cup IF data.surface = "internal" THEN {"tasks", "leads"} ELSE {})}

(* A card needs the right of the user, as this browser knows it, and a place  *)
(* in the overview, when that is there.                                       *)
moduleCards(user, data) ==
  {ModulePath(key) : key \in
     {k \in readable(user, MODULES) :
        data # Loading =>
          /\ k \in data.modules
          /\ data.surface = "portal" => k \in PortalModules \cup {"tickets", "invoices", "documents"}
          /\ data.surface = "internal" => k \notin PortalModules}}

(* Mutant: a quick action is drawn whatever the user's rights are.            *)
X_quickActions(user) ==
  {ModulePath(key) : key \in
     {"projects", "tasks", "clients", "invoices", "employees", "documents", "tickets"}}

quickActions(user) ==
  {ModulePath(key) : key \in
     {k \in {"projects", "tasks", "clients", "invoices", "employees", "documents", "tickets"} :
        hasPermission(user, <<k, "create">>)}}

dashboardLinks(user, data) ==
  {ModulePath(key) : key \in data.kpis} \cup ViewAll(data) \cup data.upcoming
  \cup moduleCards(user, data) \cup quickActions(user)

=============================================================================
