------------------------------ MODULE MCPodStatus ------------------------------
(* Small instances of PodStatus for TLC. *)
EXTENDS PodStatus

CONSTANTS node, console

MCLevels == {PanicLevel} \cup PodLevels

\* The states of a workload of one pod.
Count(desired, current, updated, ready, available, unavailable) ==
  [desired |-> desired, current |-> current, updated |-> updated, ready |-> ready,
   available |-> available, unavailable |-> unavailable, observed |-> NoVersion]
NoPods == Count(0, 0, 0, 0, 0, 0)
RollingOut == Count(1, 1, 0, 1, 1, 0)
PodDown == Count(1, 1, 1, 0, 0, 1)
Done == Count(1, 1, 1, 1, 1, 0)
\* One of the two pods of a StatefulSet is not ready.
HalfReady == Count(2, 2, 2, 1, 1, 0)

MCStatuses ==
  [o \in Operands |-> IF o \in StatefulSets THEN {HalfReady, Done}
                      ELSE IF o \in NonCritical THEN {PodDown, Done}
                      ELSE {RollingOut, PodDown, Done}]

\* Nothing fails, or Available and the version reach only one of the objects.
Failing(i, o) == [AllCallsOk EXCEPT !.sets = [@ EXCEPT ![i] = o]]
MCCalls == {AllCallsOk,
            Failing(3, [AllOk EXCEPT !.writeCO = FALSE]),
            Failing(3, [AllOk EXCEPT !.apply = FALSE])}
MCReadFails == {AllCallsOk, [AllCallsOk EXCEPT !.read = FALSE]}
MCAllOk == {AllCallsOk}
MCNoFailures == {AllOk}
================================================================================
