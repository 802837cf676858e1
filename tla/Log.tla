-------------------------------- MODULE Log --------------------------------
(***************************************************************************)
(* services/log/log.c: the level filter and the output callback.  The only *)
(* callback the repository installs is core.c's coreLogOutput, the bridge  *)
(* to the packet bus; FALSE stands for a NULL callback.                    *)
(***************************************************************************)
EXTENDS Naturals

\* The levels setLevel is called with, a part of K_SPP_LOG_NONE .. _VERBOSE.
CONSTANT Levels

LogERROR   == 1
LogWARN    == 2
LogINFO    == 3
LogVERBOSE == 5

ASSUME LevelsAssumption == Levels \subseteq 0 .. LogVERBOSE

VARIABLES s_level, s_outFn

logVars == <<s_level, s_outFn>>

LogTypeOK == s_level \in 0 .. LogVERBOSE /\ s_outFn \in BOOLEAN

LogInit == s_level = LogVERBOSE /\ s_outFn = FALSE

setLevel(level) == s_level' = level /\ UNCHANGED s_outFn

setOutput(installed) == s_outFn' = installed /\ UNCHANGED s_level

\* SPP_SERVICES_LOG_emit gets past its filter and calls s_outFn.
Emits(level) == level <= s_level /\ s_outFn
=============================================================================
