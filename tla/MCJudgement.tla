---------------------------- MODULE MCJudgement -----------------------------
(***************************************************************************)
(* Requests on the HTTP API, and beside them the four instances of         *)
(* MCReports: how reports come about and how they are judged.  A behaviour *)
(* is of one of the five.                                                  *)
(***************************************************************************)
EXTENDS MCApi

CONSTANTS r1, r2, r3, q1, q2

VARIABLES mode, ivs, pending, rows, thresholds, nextId, reports, at, listed, results,
          slos, creating, now, faults, due, missed

M == INSTANCE MCReports

reportVars == <<ivs, pending, rows, thresholds, nextId, reports, at, listed, results,
                slos, creating, now, faults, due, missed>>

FirstStart == CHOOSE start \in Starts : TRUE

MCInit == \/ mode = "api" /\ Init /\ M!S!Init /\ M!NoReport
          \/ M!Init /\ Init /\ <<cookie, grants>> = FirstStart
MCNext == \/ mode = "api" /\ Next /\ UNCHANGED <<mode, reportVars>>
          \/ mode # "api" /\ M!Next /\ UNCHANGED vars
MCSpec == MCInit /\ [][MCNext]_<<mode, vars, reportVars>>

----------------------------------------------------------------------------
(* The properties of reports and grading, by name.                         *)
ReportFaithful == M!ReportFaithful
GradesFaithful == M!GradesFaithful
=============================================================================
