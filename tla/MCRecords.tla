------------------------------ MODULE MCRecords ------------------------------
(***************************************************************************)
(* The services that keep records: six components that share no state in   *)
(* the models, checked in one run.  A behaviour follows one of them.       *)
(***************************************************************************)
EXTENDS ProcessingJobs, PackageStore, ActionCandidates,
        CapabilityBroker, PluginUpdate, CourseOrganizer

CONSTANTS v1, v2

VARIABLE part

RecordsInit ==
  /\ part \in {"jobs", "packages", "candidates", "broker", "update", "course"}
  /\ JobsInit /\ PackagesInit /\ CandidatesInit
  /\ BrokerInit /\ UpdateInit /\ CourseInit

JobsPart ==
  /\ part = "jobs" /\ JobsNext
  /\ UNCHANGED <<part, packageVars, candidateVars, brokerVars, updateVars, courseVars>>

PackagesPart ==
  /\ part = "packages" /\ PackagesNext
  /\ UNCHANGED <<part, jobVars, candidateVars, brokerVars, updateVars, courseVars>>

CandidatesPart ==
  /\ part = "candidates" /\ CandidatesNext
  /\ UNCHANGED <<part, jobVars, packageVars, brokerVars, updateVars, courseVars>>

BrokerPart ==
  /\ part = "broker" /\ BrokerNext
  /\ UNCHANGED <<part, jobVars, packageVars, candidateVars, updateVars, courseVars>>

UpdatePart ==
  /\ part = "update" /\ UpdateNext
  /\ UNCHANGED <<part, jobVars, packageVars, candidateVars, brokerVars, courseVars>>

CoursePart ==
  /\ part = "course" /\ CourseNext
  /\ UNCHANGED <<part, jobVars, packageVars, candidateVars, brokerVars, updateVars>>

RecordsNext ==
  \/ JobsPart \/ PackagesPart \/ CandidatesPart \/ BrokerPart
  \/ UpdatePart \/ CoursePart

RecordsSpec ==
  RecordsInit /\ [][RecordsNext]_<<part, jobVars, packageVars, candidateVars, brokerVars, updateVars, courseVars>>

\* One job may become any artifact of the package, the other a script or a review.
mcJobKinds ==
  [j \in Jobs |-> IF j = "j1"
     THEN {"clean_script", "refined_translation", "summary", "chapter_outline"}
     ELSE {"clean_script", "timeline_fact_review"}]
mcItemChars == <<1, 2>>

\* The records of the granted host may change between two resolutions.
mcResolves == [good |-> {"public", "private"}, other |-> {"public"}]

mcSegments == <<"s1", "s2">>
mcMaxCaption == [a |-> 2, b |-> 1]
mcCourseLog ==
  <<[kind |-> "final", stream |-> "a", revision |-> 1],
    [kind |-> "final", stream |-> "a", revision |-> 2],
    [kind |-> "end", stream |-> "a", revision |-> 1]>>

=============================================================================
