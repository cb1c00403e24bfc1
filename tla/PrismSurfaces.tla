---------------------------- MODULE PrismSurfaces ----------------------------
(***************************************************************************)
(* What the reads of the Prism app derive from, and what a write makes     *)
(* PrismStore forget.                                                      *)
(*                                                                         *)
(* Facts are the kinds of objects, relations and tags the store commits.   *)
(* app.ts derives surfaces from facts and from other surfaces; here a      *)
(* surface is only the set of what its definition names in from and join.  *)
(* The store caches rows per surface, matcher results, the instructions    *)
(* that match, and the label definitions of a project.                     *)
(***************************************************************************)
EXTENDS FiniteSets, TLC

Objects == {"Project", "Task", "Comment", "Track", "Instruction", "SavedSelector", "ActivityEvent"}

RelationsAndTags ==
  {"TaskDependsOnTask", "TaskContainsTask", "TaskAssignedToTrack",
   "task.label", "project.label_definition"}

AppFact == Objects \cup RelationsAndTags

-----------------------------------------------------------------------------
(* The surfaces of app.ts and what each is derived from. *)

WorkRows ==
  [projectRows   |-> {"Project"},
   taskRows      |-> {"Task"},
   taskLabelRows |-> {"task.label"},
   commentRows   |-> {"Comment"},
   trackRows     |-> {"Track"}]

RecordRows ==
  [instructionRows    |-> {"Instruction"},
   savedSelectorRows  |-> {"SavedSelector"},
   activityRows       |-> {"ActivityEvent"}]

EdgeSurfaces ==
  [taskDependencyRows    |-> {"TaskDependsOnTask"},
   taskHierarchyRows     |-> {"TaskContainsTask"},
   taskAssignmentRows    |-> {"TaskAssignedToTrack"},
   taskDependencyClosure |-> {"TaskDependsOnTask", "TaskContainsTask"},
   hierarchyClosure      |-> {"TaskContainsTask"}]

DependencySummaries ==
  [directDependencySummary           |-> {"TaskDependsOnTask"},
   directDependentSummary            |-> {"TaskDependsOnTask"},
   unfinishedDirectDependencySummary |-> {"TaskDependsOnTask", "Task"},
   taskDependencySummary             |-> {"taskDependencyClosure"},
   taskUnblockSummary                |-> {"taskDependencyClosure"}]

HierarchySummaries ==
  [childSummary                |-> {"TaskContainsTask"},
   descendantSummary           |-> {"hierarchyClosure"},
   unfinishedDescendantSummary |-> {"hierarchyClosure", "Task"},
   parentSummary               |-> {"TaskContainsTask"}]

TaskSummaries ==
  [commentSummary    |-> {"Comment"},
   assignmentSummary |-> {"TaskAssignedToTrack", "Track"},
   taskStatus        |-> {"Task", "unfinishedDirectDependencySummary"},
   hierarchyStatus   |-> {"Task", "descendantSummary", "unfinishedDescendantSummary"}]

ReadModels ==
  [taskReadModel           |-> {"Task", "taskStatus"},
   taskCommentMatcherModel |-> {"taskReadModel", "commentSummary"}]

MatcherModels ==
  [taskAssignmentMatcherModel |-> {"taskCommentMatcherModel", "assignmentSummary"},
   taskMatcherReadModel       |-> {"taskAssignmentMatcherModel", "taskDependencySummary",
                                   "taskUnblockSummary", "parentSummary", "hierarchyStatus"}]

Catalogs ==
  [readyTasks                 |-> {"taskReadModel"},
   instructionSelectorCatalog |-> {"Instruction"},
   savedSelectorCatalog       |-> {"SavedSelector"}]

(* What else the store keeps: matchTaskIds, the materialized rows of a     *)
(* matcher, matchingInstructionIds, readTags of a project and findTags.    *)
OtherReads ==
  [matcherResults     |-> {"taskMatcherReadModel", "taskLabelRows", "taskDependencyClosure",
                           "hierarchyClosure", "commentRows"},
   matcherRows        |-> {"matcherResults"},
   instructionMatches |-> {"instructionSelectorCatalog", "matcherRows"},
   labelDefinitions   |-> {"project.label_definition"},
   labelAssignments   |-> {"task.label"}]

From == WorkRows @@ RecordRows @@ EdgeSurfaces @@ DependencySummaries @@ HierarchySummaries
          @@ TaskSummaries @@ ReadModels @@ MatcherModels @@ Catalogs @@ OtherReads

(* The facts a read derives from in the end. *)
AppDependsOn[e \in DOMAIN From] ==
  UNION {IF x \in AppFact THEN {x} ELSE AppDependsOn[x] : x \in From[e]}

-----------------------------------------------------------------------------
(* invalidateReadCaches: what a committed write of a fact makes the store  *)
(* forget.                                                                 *)

TaskDerived ==
  {"taskRows", "taskReadModel", "taskCommentMatcherModel", "taskAssignmentMatcherModel",
   "taskMatcherReadModel", "readyTasks", "taskStatus", "hierarchyStatus",
   "unfinishedDirectDependencySummary", "unfinishedDescendantSummary"}

DependencyDerived ==
  {"taskDependencyRows", "directDependencySummary", "directDependentSummary",
   "unfinishedDirectDependencySummary", "taskDependencySummary", "taskUnblockSummary",
   "taskStatus", "taskReadModel", "taskMatcherReadModel", "readyTasks"}

HierarchyDerived ==
  {"taskHierarchyRows", "childSummary", "descendantSummary", "unfinishedDescendantSummary",
   "parentSummary", "hierarchyStatus", "taskMatcherReadModel"}

LabelDerived == {"taskLabelRows", "taskMatcherReadModel"}

CommentDerived == {"commentRows", "commentSummary", "taskCommentMatcherModel", "taskMatcherReadModel"}

AssignmentDerived ==
  {"taskAssignmentRows", "assignmentSummary", "taskAssignmentMatcherModel", "taskMatcherReadModel"}

(* deleteMatcherRowCaches, matcherResultCache.clear *)
MatcherReads == {"matcherResults", "matcherRows"}

(* tagReadCache.clear *)
TagReads == {"labelDefinitions", "labelAssignments"}

AppInvalidatedBy ==
  [f \in AppFact |->
     CASE f = "Project"                  -> {"projectRows"} \cup TagReads
       [] f = "Task"                     -> TaskDerived \cup MatcherReads
       [] f = "Comment"                  -> CommentDerived \cup MatcherReads
       [] f = "Track"                    -> AssignmentDerived \cup {"trackRows"} \cup MatcherReads
       [] f = "Instruction"              -> {"instructionRows", "instructionSelectorCatalog", "instructionMatches"}
       [] f = "SavedSelector"            -> {"savedSelectorRows", "savedSelectorCatalog"}
       [] f = "ActivityEvent"            -> {"activityRows"}
       [] f = "TaskDependsOnTask"        -> DependencyDerived \cup MatcherReads
       [] f = "TaskContainsTask"         -> HierarchyDerived \cup MatcherReads
       [] f = "TaskAssignedToTrack"      -> AssignmentDerived \cup MatcherReads
       [] f = "task.label"               -> LabelDerived \cup MatcherReads \cup {"labelAssignments"}
       [] f = "project.label_definition" -> {"taskLabelRows"} \cup MatcherReads \cup TagReads]

-----------------------------------------------------------------------------
(* What the repositories read through the caches, in either read mode.     *)

(* Lists of rows, tags and matches, and single rows of the same surfaces. *)
ListReads ==
  {"projectRows", "taskRows", "taskHierarchyRows", "taskDependencyRows", "commentRows",
   "taskLabelRows", "trackRows", "taskAssignmentRows", "instructionRows",
   "savedSelectorRows", "activityRows", "instructionSelectorCatalog"}
    \cup MatcherReads \cup TagReads

(* hasHierarchyPath; inspectAdd and hasDependencyPath. *)
PathReads ==
  {"descendantSummary", "taskDependencyClosure", "hierarchyClosure", "taskDependencySummary"}

CachedReads == ListReads \cup PathReads \cup {"instructionMatches"}

(* A write of any fact the read derives from makes the store forget it. *)
Forgotten(e) == \A f \in AppDependsOn[e] : e \in AppInvalidatedBy[f]

(* No write forgets the closures, no reparenting the dependency summary,   *)
(* and only writes of instructions the instructions that match: these stay *)
(* as they are until their time to live is over.                           *)
StaleReads ==
  {"taskDependencyClosure", "hierarchyClosure", "taskDependencySummary", "instructionMatches"}

=============================================================================
