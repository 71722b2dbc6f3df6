--------------------------- MODULE CollapseVerifier ---------------------------
(****************************************************************************)
(* The replay of a collapse certificate (collapse/verify/): it recomputes   *)
(* every level from the graph left by the steps before, shares no code with *)
(* the schedules, and knows their orders only by the rules of the three     *)
(* certificate versions.  And the schedules, each in a behaviour of its     *)
(* own, with the certificates that they return.                             *)
(*                                                                          *)
(* A certificate is a record of the version, the steps, whether it claims a *)
(* fixed point, and the work limit and use of version 3.                    *)
(****************************************************************************)
EXTENDS OrderedCollapse, RoundsCollapse

CONSTANTS Schedules, Objectives, WorkLimits

\* The value of a work limit that was not set.
NoLimit == -1

ASSUME WorkLimitsAssumption == WorkLimits \subseteq Nat \cup {NoLimit}

\* edge_removable: at every critical value some candidate dominates.
CriticalValues(list, kept, i) ==
  LET birth == Candidates(Distances(list, kept), list[i])
  IN  {list[i].value} \cup {birth[x] : x \in DOMAIN birth}

DominatingAt(list, kept, i, t) ==
  LET dist == Distances(list, kept)
  IN  Dominating(dist, Candidates(dist, list[i]), t)

Removable(list, kept, i) ==
  \A t \in CriticalValues(list, kept, i) : DominatingAt(list, kept, i, t) # {}

\* check_witnesses: the segments start at critical values in rising order, the
\* active apex dominates at every critical value, and where a segment starts
\* its apex is the first that dominates and was needed.
ActiveSegment(segments, t) == Max({k \in DOMAIN segments : segments[k].level <= t})

CheckWitnesses(list, kept, i, segments) ==
  LET critical == CriticalValues(list, kept, i)
  IN  /\ segments # <<>>
      /\ segments[1].level = list[i].value
      /\ \A k \in DOMAIN segments : segments[k].level \in critical
      /\ \A k \in 2 .. Len(segments) : segments[k - 1].level < segments[k].level
      /\ \A t \in critical :
           LET dominating == DominatingAt(list, kept, i, t)
               k          == ActiveSegment(segments, t)
           IN  /\ segments[k].apex \in dominating
               /\ segments[k].level = t =>
                    /\ segments[k].apex = Min(dominating)
                    /\ k > 1 => segments[k - 1].apex \notin dominating

\* The graph that the first k removals leave.
LeftBy(list, removals, k) == (1 .. Len(list)) \ {removals[j].edge : j \in 1 .. k}

CheckStep(list, kept, step) ==
  /\ step.edge \in kept
  /\ CheckWitnesses(list, kept, step.edge, step.witnesses)

\* Passes and rounds count from 1, never skip a number, and keep the schedule
\* order inside.
GroupsInOrder(removals) ==
  /\ removals # <<>> => removals[1].epoch = 1
  /\ \A k \in 2 .. Len(removals) :
       \/ removals[k].epoch = removals[k - 1].epoch + 1
       \/ /\ removals[k].epoch = removals[k - 1].epoch
          /\ removals[k].edge > removals[k - 1].edge

\* replay_serial
ReplaySerial(list, removals) ==
  /\ GroupsInOrder(removals)
  /\ \A k \in DOMAIN removals : CheckStep(list, LeftBy(list, removals, k - 1), removals[k])

\* replay_rounds: a round is checked against the graph before it, and no step
\* of it lies in the closed common neighbourhood of another.
ReplayRounds(list, removals) ==
  /\ GroupsInOrder(removals)
  /\ \A k \in DOMAIN removals :
       LET before == {j \in DOMAIN removals : removals[j].epoch < removals[k].epoch}
           kept   == (1 .. Len(list)) \ {removals[j].edge : j \in before}
           round  == {j \in DOMAIN removals : removals[j].epoch = removals[k].epoch}
       IN  /\ CheckStep(list, kept, removals[k])
           /\ \A j \in round \ {k} :
                ~(Ends(list[removals[j].edge]) \subseteq ClosedCommon(list, kept, removals[k].edge))

\* replay_adaptive: any order, numbered in sequence.
ReplayAdaptive(list, removals) ==
  \A k \in DOMAIN removals :
    /\ removals[k].epoch = k
    /\ CheckStep(list, LeftBy(list, removals, k - 1), removals[k])

\* check_version_metadata
CheckMetadata(cert) ==
  IF cert.version = 3
  THEN /\ cert.limit # NoLimit => cert.used <= cert.limit
       /\ ~cert.complete => cert.limit # NoLimit /\ cert.used = cert.limit
  ELSE cert.complete /\ cert.limit = NoLimit /\ cert.used = 0

\* verify_common: the replay ends with the graph of the output, and a claimed
\* fixed point is one.
Verifies(list, output, cert) ==
  /\ CheckMetadata(cert)
  /\ CASE cert.version = 1 -> ReplaySerial(list, cert.steps)
       [] cert.version = 2 -> ReplayRounds(list, cert.steps)
       [] cert.version = 3 -> ReplayAdaptive(list, cert.steps)
  /\ output = LeftBy(list, cert.steps, Len(cert.steps))
  /\ cert.complete => \A i \in output : ~Removable(list, output, i)

-----------------------------------------------------------------------------
(* The schedules *)

VARIABLES
  schedule,                        \* which of the schedules runs
  objective, limit, used, queue    \* the adaptive schedule

orderedOnly  == <<window, removedAny, position, members, cached, stale>>
roundsOnly   == <<results, selected>>
adaptiveOnly == <<objective, limit, used, queue>>
passes       == <<dirty, testAll, testAllNext, epochs>>
collapseVars == <<schedule, runVars, phase, orderedOnly, roundsOnly, adaptiveOnly>>

Adaptive == INSTANCE AdaptiveCollapse

OrderedIdle ==
  /\ window = 0
  /\ position = 1
  /\ removedAny = FALSE
  /\ members = {} /\ cached = <<>> /\ stale = {}

RoundsIdle == results = <<>> /\ selected = {}

AdaptiveIdle == objective = "H1" /\ limit = NoLimit /\ used = 0 /\ queue = <<>>

PassesIdle == dirty = {} /\ testAll = TRUE /\ testAllNext = FALSE /\ epochs = 1

CollapseInit ==
  /\ schedule \in Schedules
  /\ \/ schedule = "ordered" /\ OrderedInit /\ RoundsIdle /\ AdaptiveIdle
     \/ schedule = "rounds" /\ RoundsInit /\ OrderedIdle /\ AdaptiveIdle
     \/ schedule = "adaptive" /\ Adaptive!Init /\ OrderedIdle /\ RoundsIdle /\ PassesIdle

CollapseNext ==
  \/ schedule = "ordered" /\ OrderedNext /\ UNCHANGED <<schedule, roundsOnly, adaptiveOnly>>
  \/ schedule = "rounds" /\ RoundsNext /\ UNCHANGED <<schedule, orderedOnly, adaptiveOnly>>
  \/ /\ schedule = "adaptive" /\ Adaptive!Next
     /\ UNCHANGED <<schedule, orderedOnly, passes, roundsOnly>>

CollapseSpec == CollapseInit /\ [][CollapseNext]_collapseVars

Returned ==
  [version  |-> CASE schedule = "ordered" -> 1
                  [] schedule = "rounds" -> 2
                  [] schedule = "adaptive" -> 3,
   steps    |-> steps,
   complete |-> phase = "done",
   limit    |-> limit,
   used     |-> used]

(* What a schedule returns, the verifier accepts: every removal with its    *)
(* witnesses on the graph the replay has at that point, the order and the   *)
(* independence of the removals, the work of a limited run, and that no     *)
(* edge of a complete run can still be removed, although later passes test  *)
(* only the dirty edges (collapse/verify/validate.rs, verify_common).       *)
VerifierAccepts == phase \in {"done", "limited"} => Verifies(edges, live, Returned)

(* The collapse keeps the shape: at every level, the graph that is left,    *)
(* also by a run that the work limit stopped or in the middle of a round,   *)
(* has the components and the Euler characteristic of the input             *)
(* (domination.rs, test_edge: an edge goes only when a vertex dominates it  *)
(* at every level).                                                         *)
KeepsShape ==
  phase \in {"commit", "done", "limited"} =>
    SameShape(Distances(edges, live), Distances(edges, Positions))
=============================================================================
