----------------------------- MODULE StepScaling -----------------------------
(***************************************************************************)
(* awsx-classic StepScalingPolicy: up to two policies with their alarms,   *)
(* made from lists of steps the user gives in any order.  A step states    *)
(* the value of the metric at which it takes effect; AWS wants intervals   *)
(* relative to an alarm's threshold.  The steps are converted in an apply, *)
(* when their values are known, while the engine creates what was          *)
(* registered; afterwards CloudWatch evaluates the alarms that exist.      *)
(*                                                                         *)
(* Values are integers here.                                               *)
(***************************************************************************)
EXTENDS Integers, Sequences, FiniteSets

CONSTANTS
  Scalings,     \* the arguments considered
  Metric,       \* the values the metric takes
  Adjustments,  \* the adjustments of steps
  MaxFailures,  \* bound on the creations that AWS refuses
  Undefined

ASSUME MetricAssumption == Metric \subseteq Int /\ MaxFailures \in Nat

ScalingStep == [value : Int, adjustment : Adjustments]

ASSUME ScalingsAssumption ==
  \A a \in Scalings : \A steps \in {a.upper, a.lower} \ {Undefined} :
    steps \in Seq(ScalingStep)

ASSUME BoundsAssumption == Undefined \notin Int

Policies == {"upperPolicy", "lowerPolicy"}
Kinds == Policies \cup {"upperAlarm", "lowerAlarm"}

VARIABLES
  args,        \* [upper, lower, statistic], a list being a sequence of steps
               \* [value, adjustment]
  step,        \* of the constructor: "steps", "done" or "failed"
  known,       \* have the values of the steps resolved?
  registered,
  created,
  refused,
  failures,
  policy       \* [threshold, stepAdjustments], of a policy created

scalingVars == <<args, step, known, registered, created, refused, failures,
                policy>>

-----------------------------------------------------------------------------
(* sortSteps, which is stable: the place of a step is how many do not come *)
(* after it.                                                               *)
Precedes(steps, i, j) ==
  steps[i].value < steps[j].value \/ (steps[i].value = steps[j].value /\ i < j)

PlaceOf(steps, i) ==
  Cardinality({j \in DOMAIN steps : j = i \/ Precedes(steps, j, i)})

SortSteps(steps) ==
  [k \in DOMAIN steps |->
     steps[CHOOSE i \in DOMAIN steps : PlaceOf(steps, i) = k]]

HasEqualValues(sorted) ==
  \E i \in 2..Len(sorted) : sorted[i - 1].value = sorted[i].value

Interval(lower, upper, adjustment) ==
  [lower |-> lower, upper |-> upper, adjustment |-> adjustment]

(* convertUpperSteps, convertLowerSteps.                                   *)
ConvertUpperSteps(steps) ==
  LET sorted == SortSteps(steps)
      threshold == sorted[1].value
  IN  [threshold |-> threshold,
       stepAdjustments |->
         {Interval(sorted[i].value - threshold,
                   IF i = Len(sorted) THEN Undefined
                   ELSE sorted[i + 1].value - threshold,
                   sorted[i].adjustment) : i \in DOMAIN sorted}]

LowerFromOwnValue(steps) ==
  LET sorted == SortSteps(steps)
      threshold == sorted[Len(sorted)].value
  IN  [threshold |-> threshold,
       stepAdjustments |->
         {Interval(IF i = 1 THEN Undefined ELSE sorted[i].value - threshold,
                   IF i = Len(sorted) THEN 0 ELSE sorted[i + 1].value - threshold,
                   sorted[i].adjustment) : i \in DOMAIN sorted}]
ConvertLowerSteps(steps) ==
  LET sorted == SortSteps(steps)
      threshold == sorted[Len(sorted)].value
  IN  [threshold |-> threshold,
       stepAdjustments |->
         {Interval(IF i = 1 THEN Undefined
                   ELSE sorted[i - 1].value - threshold,
                   sorted[i].value - threshold,
                   sorted[i].adjustment) : i \in DOMAIN sorted}]

(* What convertSteps refuses.                                              *)
ListThrows(steps) ==
  steps # Undefined /\ (steps = <<>> \/ HasEqualValues(SortSteps(steps)))

StepsOverlap ==
  /\ args.upper # Undefined
  /\ args.lower # Undefined
  /\ SortSteps(args.lower)[Len(args.lower)].value
       >= SortSteps(args.upper)[1].value

ConversionThrows ==
  ListThrows(args.upper) \/ ListThrows(args.lower) \/ StepsOverlap

StatisticThrows == args.statistic \notin {"Minimum", "Maximum", "Average"}

-----------------------------------------------------------------------------
ScalingInit ==
  /\ args \in Scalings
  /\ step = "steps"
  /\ known = FALSE
  /\ registered = {}
  /\ created = {}
  /\ refused = {}
  /\ failures = 0
  /\ policy = [kind \in Policies |-> Undefined]

(* The constructor.                                                        *)
RegisterPolicies ==
  /\ step = "steps"
  /\ step' = IF args.upper = Undefined /\ args.lower = Undefined
             THEN "failed" ELSE "done"
  /\ registered' =
       (IF args.upper = Undefined THEN {} ELSE {"upperPolicy", "upperAlarm"})
         \cup
       (IF args.lower = Undefined THEN {} ELSE {"lowerPolicy", "lowerAlarm"})
  /\ UNCHANGED <<args, known, created, refused, failures, policy>>

(* Values of steps may be outputs of other resources.                      *)
StepsAreKnown ==
  /\ ~known
  /\ step # "failed"
  /\ known' = TRUE
  /\ UNCHANGED <<args, step, registered, created, refused, failures,
                 policy>>

(* alarmActions: [policy.arn].                                             *)
NeedsNothing(kind) == {}
Needs(kind) ==
  CASE kind = "upperAlarm" -> {"upperPolicy"}
    [] kind = "lowerAlarm" -> {"lowerPolicy"}
    [] OTHER -> {}

InputRejects(kind) ==
  \/ ConversionThrows
  \/ kind \in Policies /\ StatisticThrows

IsReady(kind) ==
  /\ kind \in registered \ (created \cup refused)
  /\ known
  /\ Needs(kind) \subseteq created

Create(kind) ==
  /\ IsReady(kind)
  /\ ~InputRejects(kind)
  /\ created' = created \cup {kind}
  /\ policy' =
       CASE kind = "upperPolicy" ->
              [policy EXCEPT ![kind] = ConvertUpperSteps(args.upper)]
         [] kind = "lowerPolicy" ->
              [policy EXCEPT ![kind] = ConvertLowerSteps(args.lower)]
         [] OTHER -> policy
  /\ UNCHANGED <<args, step, known, registered, refused, failures>>

Refuse(kind) ==
  /\ IsReady(kind)
  /\ IF InputRejects(kind) THEN UNCHANGED failures
     ELSE failures < MaxFailures /\ failures' = failures + 1
  /\ refused' = refused \cup {kind}
  /\ UNCHANGED <<args, step, known, registered, created, policy>>

Engine == \E kind \in Kinds : Create(kind) \/ Refuse(kind)

-----------------------------------------------------------------------------
(* AWS: an alarm compares the metric with its threshold, and its policy    *)
(* takes the interval the difference is in.  Intervals above the threshold *)
(* contain their lower bound, those below contain their upper bound.       *)
Breaches(kind, v) ==
  IF kind = "upperPolicy" THEN v >= policy[kind].threshold
                          ELSE v <= policy[kind].threshold

Within(interval, kind, breach) ==
  IF kind = "upperPolicy"
  THEN /\ interval.lower # Undefined => interval.lower <= breach
       /\ interval.upper # Undefined => breach < interval.upper
  ELSE /\ interval.lower # Undefined => interval.lower < breach
       /\ interval.upper # Undefined => breach <= interval.upper

AlarmOf(kind) == IF kind = "upperPolicy" THEN "upperAlarm" ELSE "lowerAlarm"

(* The policies whose alarm fires, and the intervals they are in.          *)
Fired(v) ==
  {kind \in Policies \cap created : AlarmOf(kind) \in created /\ Breaches(kind, v)}

IntervalsAt(kind, v) ==
  {interval \in policy[kind].stepAdjustments :
     Within(interval, kind, v - policy[kind].threshold)}

Responses(v) ==
  UNION {{<<kind, interval.adjustment>> : interval \in IntervalsAt(kind, v)} :
           kind \in Fired(v)}

-----------------------------------------------------------------------------
ScalingNext == RegisterPolicies \/ StepsAreKnown \/ Engine

ScalingSpec == ScalingInit /\ [][ScalingNext]_scalingVars
-----------------------------------------------------------------------------
(* Properties.                                                             *)

(* Every variable has its type.                                            *)
ScalingTypeOK ==
  /\ args \in Scalings
  /\ step \in {"steps", "done", "failed"}
  /\ known \in BOOLEAN
  /\ registered \in SUBSET Kinds
  /\ created \in SUBSET registered
  /\ refused \in SUBSET (registered \ created)
  /\ failures \in 0..MaxFailures
  /\ DOMAIN policy = Policies

(* The steps of a list.                                                    *)
StepsOf(steps) == IF steps = Undefined THEN {} ELSE {steps[i] : i \in DOMAIN steps}

(* "If this is an `upperStep` then values `>=` to this will trigger this   *)
(* step's [scalingAdjustment].  If this is a `lowerStep` then values `<=`":*)
(* of the steps the metric has reached, the one it reached last.           *)
TriggeredUpper(v) ==
  {s \in StepsOf(args.upper) :
     s.value <= v
       /\ \A t \in StepsOf(args.upper) : t.value <= v => t.value <= s.value}

TriggeredLower(v) ==
  {s \in StepsOf(args.lower) :
     s.value >= v
       /\ \A t \in StepsOf(args.lower) : t.value >= v => t.value >= s.value}

(* Whatever the order of the lists, once both alarms that were asked for   *)
(* exist the group answers every value of the metric with the adjustment   *)
(* of the step it triggers, and with nothing else: intervals and           *)
(* thresholds fit together with no gap, and the two policies never both    *)
(* answer.                                                                 *)
AnswerIsTheStep ==
  registered # {} /\ registered \subseteq created =>
    \A v \in Metric :
      /\ Responses(v) =
           {<<"upperPolicy", s.adjustment>> : s \in TriggeredUpper(v)}
             \cup {<<"lowerPolicy", s.adjustment>> : s \in TriggeredLower(v)}
      /\ Cardinality(Responses(v)) <= 1

(* The arguments the documentation asks for: no list empty, no value twice *)
(* in a list, every lower step below every upper one, and a statistic that *)
(* AWS aggregates by.                                                      *)
IsAcceptable ==
  /\ \A steps \in {args.upper, args.lower} \ {Undefined} :
       steps # <<>> /\ \A i, j \in DOMAIN steps :
                         steps[i].value = steps[j].value => i = j
  /\ \A s \in StepsOf(args.lower), t \in StepsOf(args.upper) :
       s.value < t.value
  /\ args.statistic \in {"Minimum", "Maximum", "Average"}

(* The refusals are thrown in applies, after all four resources were       *)
(* registered; still none of them is ever created, not the alarm that      *)
(* needs no statistic, nor the policy whose own list is in order.          *)
RefusalIsTotal == ScalingTypeOK /\ (created # {} => IsAcceptable)
=============================================================================
