---------------------------- MODULE Administration ----------------------------
(***************************************************************************)
(* What operators and members do with the system itself: the release that  *)
(* runs and what it migrates, who may do what, what is recorded, under     *)
(* which topics and how long it is kept, how its collection is judged, and *)
(* the designs and favorites of members.  Each is described in a module of *)
(* its own; here are their parameters and what they keep.                  *)
(***************************************************************************)
EXTENDS Integers, Sequences, FiniteSets

CONSTANTS
  Service, NoService, Monitors, Form, Legacy, Revision, MaxBreaks, MaxAborts,  \* ReleaseDeployment
  User, Custom, Secret, MaxVersion, MaxRequests,                               \* Membership
  Editor, Documents, FirstCatalogue, RuleScopes, Monitor, MaxWrites,           \* Catalogue
  Starrable, Addition, MaxFavorites,                                           \* Favorites
  Table, Settings, Schedule, Default, MaxDay, MaxRows, MaxTouches,             \* Retention
  Author, Draft, Compiles, Histories, Limit, MaxEdits,                                 \* PipelineLibrary
  Releases, Baseline, Maintenance, System, Conversion, Reads, MaxRuns, MaxRetries, \* Migration
  Owner, Requested, Earlier, Level, MaxLevels, AcceptedTopic, Malformed, MaxActive, \* TopicClaims
  ReportAge, ReportSkew, RateWindow, RateSamples, EndOfTime, MaxMessages, MaxUpsets \* CollectionHealth

VARIABLES
  op, service, captured, command, halted, told, untold, breaks, aborts,
  users, roles, sessions, signin, rotation, revoking, requests,
  written, runtime, viewed, edit, monitors, reserved,
  favorites, additions,
  today, rows, jobs, capping, settings, arrived, touches,
  row, revisions, layout, loaded, write, edits, page,
  db, was, tx, runs, sync,
  claims, refused,
  time, collection, collector, controller, traffic, lately, upsets

RD == INSTANCE ReleaseDeployment
ME == INSTANCE Membership
CA == INSTANCE Catalogue WITH
        saved <- written, seen <- viewed, pending <- reserved,
        Scopes <- RuleScopes, Begin <- FirstCatalogue
FV == INSTANCE Favorites
RT == INSTANCE Retention
PL == INSTANCE PipelineLibrary
MI == INSTANCE Migration WITH Release <- Releases
TC == INSTANCE TopicClaims
CH == INSTANCE CollectionHealth

ASSUME AdministrationAssumption ==
  /\ RD!ReleaseAssumption /\ ME!MembersAssumption /\ CA!CatalogueAssumption
  /\ FV!FavoritesAssumption /\ RT!RetentionAssumption /\ PL!LibraryAssumption
  /\ MI!MigrationAssumption /\ TC!TopicsAssumption /\ CH!HealthAssumption
=============================================================================
