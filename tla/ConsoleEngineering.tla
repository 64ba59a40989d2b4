------------------------- MODULE ConsoleEngineering -------------------------
(* The engineering pages of the dashboard.  They talk to react-query without  *)
(* hooks of their own: keys are written where they are used, and most         *)
(* commands of a page share one "refresh".                                    *)
EXTENDS ConsolePages

(* Each of the calls, followed by the same refresh.                           *)
Commands(requests, tells) == {Command(c, tells) : c \in requests}

engineeringProjects == Query(<<"engineering-projects">>, engineeringApi.projects)
engineeringTasks    == Query(<<"engineering-tasks">>, engineeringApi.tasks)
engineeringMembers  == Query(<<"engineering-members">>, engineeringApi.members)
engineeringSystems  == Query(<<"engineering-systems">>, engineeringApi.systems)
engineeringPhases   == Query(<<"engineering-phases">>, engineeringApi.phases)

-----------------------------------------------------------------------------
(* The workspace *)

workspaceQueries ==
  Always({engineeringProjects, engineeringTasks, engineeringMembers, engineeringSystems,
          Query(<<"engineering-metrics">>, engineeringApi.metrics),
          Query(<<"engineering-documents">>, documentationApi.list),
          Query(<<"engineering-document-history">>, documentationApi.versions),
          Query(<<"engineering-bugs">>, operationsApi.bugs),
          Query(<<"engineering-updates">>, operationsApi.updates),
          Query(<<"engineering-releases">>, operationsApi.releases)})
  \cup If("engineering", "manage",
          {Query(<<"engineering-eligible-engineers">>, engineeringApi.eligibleEngineers)})

workspaceRefresh ==
  {<<"engineering-tasks">>, <<"engineering-documents">>, <<"engineering-metrics">>}

(* The status is offered to whoever a task is assigned to.                    *)
taskAction ==
  If("engineering.tasks", "create",
     Commands({engineeringApi.createTask, engineeringApi.submitTask}, workspaceRefresh))
  \cup If("engineering.tasks", "review", Commands({engineeringApi.reviewTask}, workspaceRefresh))
  \cup Always(Commands({engineeringApi.updateTaskStatus}, workspaceRefresh))

(* The history of a document is read again when it is open.                   *)
documentAction ==
  LET tells == workspaceRefresh \cup {<<"engineering-document-history">>}
  IN Always(Commands({documentationApi.create, documentationApi.update,
                      documentationApi.status}, tells)
            \cup {Command(documentationApi.download, {})})

systemAction ==
  If("engineering", "manage",
     {Command(engineeringApi.createSystem, {<<"engineering-systems">>})})

memberAction ==
  If("engineering", "manage",
     Commands({engineeringApi.addMember, engineeringApi.removeMember},
              {<<"engineering-members">>, <<"engineering-metrics">>}))

bugAction ==
  If("engineering.tasks", "create",
     {Command(operationsApi.createBug, {<<"engineering-bugs">>, <<"engineering-metrics">>})})

(* For managers, and for whoever a bug is assigned to.                        *)
bugUpdate ==
  Always({Command(operationsApi.updateBug, {<<"engineering-bugs">>, <<"engineering-metrics">>})})

EngineeringWorkspacePage ==
  Page(workspaceQueries,
       UNION {taskAction, documentAction, systemAction, memberAction, bugAction, bugUpdate})

-----------------------------------------------------------------------------
(* Planning *)

(* What the panel of one task shows.                                          *)
taskQueries ==
  Always({engineeringPhases,
          Query(<<"task-comments">>, taskApi.comments),
          Query(<<"task-progress">>, taskApi.progress),
          Query(<<"task-checklist">>, taskApi.checklist),
          Query(<<"task-dependencies">>, taskApi.dependencies),
          Query(<<"task-transitions">>, taskApi.transitions),
          Query(<<"task-hours">>, taskApi.hours),
          Query(<<"task-attachments">>, taskApi.attachments)})

taskRefresh ==
  {<<"engineering-tasks">>, <<"task-comments">>, <<"task-progress">>, <<"task-checklist">>,
   <<"task-dependencies">>, <<"task-transitions">>, <<"task-hours">>, <<"task-attachments">>}

(* Progress and hours are offered to whoever the task is assigned to.         *)
TaskDetail ==
  Page(taskQueries,
       If("engineering", "manage",
          Commands({engineeringApi.scheduleTask, taskApi.addDependency}, taskRefresh))
       \cup If("engineering.tasks", "review",
               Commands({engineeringApi.verifyTaskQa}, taskRefresh))
       \cup Always(Commands({taskApi.addComment, taskApi.addChecklistItem,
                             taskApi.setChecklistItem, taskApi.addProgress,
                             taskApi.recordHours, taskApi.uploadAttachment}, taskRefresh)
                   \cup {Command(taskApi.downloadAttachment, {})}))

(* A bar dragged to other days.                                               *)
Timeline ==
  If("engineering", "manage",
     {Command(engineeringApi.scheduleTask, {<<"engineering-tasks">>})})

TaskPlanningPage ==
  Page(Always({engineeringProjects, engineeringTasks, engineeringPhases, engineeringMembers,
               Query(<<"planning-milestones">>, milestonesApi.list)})
       \cup TaskDetail.shows,
       If("engineering.tasks", "create",
          {Command(engineeringApi.createTask, {<<"engineering-tasks">>})})
       \cup If("engineering", "manage",
               {Command(engineeringApi.createPhase, {<<"engineering-phases">>})})
       \cup Timeline \cup TaskDetail.offers)

-----------------------------------------------------------------------------
(* Documentation: nothing asks for a right, the service asks for membership. *)

documentationRefresh ==
  {<<"documentation">>, <<"documentation-comments">>, <<"documentation-links">>,
   <<"documentation-versions">>}

(* Saving has the list read again, then the page refreshes.                   *)
DocumentEditor ==
  Page(Always({engineeringMembers}),
       Always(Commands({documentationApi.create, documentationApi.update},
                       documentationRefresh)))

DocumentationPage ==
  Page(Always({engineeringProjects, engineeringTasks,
               Query(<<"documentation">>, documentationApi.list),
               Query(<<"documentation-folders">>, documentationApi.folders),
               Query(<<"documentation-comments">>, documentationApi.comments),
               Query(<<"documentation-versions">>, documentationApi.versions),
               Query(<<"documentation-links">>, documentationApi.links),
               Query(<<"documentation-milestones">>, milestonesApi.list)})
       \cup DocumentEditor.shows,
       Always(Commands({documentationApi.addComment, documentationApi.removeComment,
                        documentationApi.link, documentationApi.unlink,
                        documentationApi.status, documentationApi.proposeTasks},
                       documentationRefresh)
              \cup Commands({documentationApi.renameFolder},
                            documentationRefresh \cup {<<"documentation-folders">>})
              \cup {Command(documentationApi.download, {})})
       \cup DocumentEditor.offers)

-----------------------------------------------------------------------------
(* Operations *)

operationsQueries ==
  Always({engineeringProjects, engineeringSystems, engineeringMembers, engineeringTasks,
          Query(<<"operations-bugs">>, operationsApi.bugs),
          Query(<<"operations-maintenance">>, operationsApi.maintenance),
          Query(<<"operations-updates">>, operationsApi.updates),
          Query(<<"operations-releases">>, operationsApi.releases),
          Query(<<"operations-project-prs">>, operationsApi.projectPullRequests),
          Query(<<"operations-deployments">>, operationsApi.deployments)})

(* Mutant: the releases are not read again.                                   *)
X_operationsRefresh ==
  {<<"operations-bugs">>, <<"operations-maintenance">>, <<"operations-updates">>,
   <<"operations-deployments">>, <<"engineering-metrics">>}

operationsRefresh ==
  {<<"operations-bugs">>, <<"operations-maintenance">>, <<"operations-updates">>,
   <<"operations-releases">>, <<"operations-deployments">>, <<"engineering-metrics">>}

(* Reporting and working on bugs and maintenance is offered to everybody.     *)
EngineeringOperationsPage ==
  Page(operationsQueries,
       Always(Commands({operationsApi.createBug, operationsApi.updateBug,
                        operationsApi.updateMaintenance}, operationsRefresh))
       \cup If("engineering", "manage",
               Commands({operationsApi.createMaintenance, operationsApi.createUpdate,
                         operationsApi.transitionUpdate, operationsApi.approveProduction,
                         operationsApi.createRelease, operationsApi.linkReleaseTask,
                         operationsApi.unlinkReleaseTask, operationsApi.linkReleasePullRequest,
                         operationsApi.unlinkReleasePullRequest, operationsApi.transitionRelease,
                         operationsApi.approveRelease, operationsApi.recordDeployment},
                        operationsRefresh)))

-----------------------------------------------------------------------------
(* Engineers and figures *)

profileRefresh ==
  {<<"my-engineer-profile">>, <<"my-engineer-availability">>, <<"engineer-team">>}

(* For users with an engineer's role, which the service asks for too.         *)
MyProfile ==
  Page(Always({Query(<<"my-engineer-profile">>, engineerApi.mine),
               Query(<<"my-engineer-availability">>, engineerApi.availability)}),
       Always(Commands({engineerApi.updateMine, engineerApi.addAvailability,
                        engineerApi.removeAvailability}, profileRefresh)))

EngineerManagementPage ==
  Page(Always({engineeringProjects, Query(<<"engineer-team">>, engineerApi.team)})
       \cup If("engineering", "manage",
               {Query(<<"engineer-assignment-history">>, engineerApi.history)})
       \cup MyProfile.shows,
       MyProfile.offers)

EngineeringAnalyticsPage ==
  Page(Always({Query(<<"engineering-analytics">>, engineeringApi.analytics)}), {})

=============================================================================
