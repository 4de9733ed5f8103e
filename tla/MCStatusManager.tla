---------------------------- MODULE MCStatusManager ----------------------------
(* Small instances of StatusManager for TLC. *)
EXTENDS StatusManager

\* A controller that reports Degraded, one that reports Progressing and the
\* level of a crash: the smallest instance in which a level can hide another.
MCProgressLevels == {OperatorRender}
MCFewLevels == {PanicLevel, OperatorConfig, OperatorRender}
MCFewDegradedLevels == {OperatorConfig}

\* When network.operator cannot be read the results of the calls that depend
\* on it make no difference, so one of them stands for all.
MCFailures ==
  {o \in Outcome : (~o.getOper => o.readCO /\ o.apply) /\ o.writeHCP}

\* At most one of the calls of a publication fails; the failures of several
\* publications in a row add up.
MCSingleFailures ==
  {AllOk} \cup {[AllOk EXCEPT !.getOper = FALSE], [AllOk EXCEPT !.readCO = FALSE],
                [AllOk EXCEPT !.apply = FALSE], [AllOk EXCEPT !.writeCO = FALSE],
                [AllOk EXCEPT !.writeHCP = FALSE]}
================================================================================
