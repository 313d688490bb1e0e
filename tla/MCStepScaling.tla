--------------------------- MODULE MCStepScaling ---------------------------
(* Instances of StepScaling for TLC: two short lists of steps in any order,*)
(* the adjustment of a step telling it from the others.                    *)
EXTENDS StepScaling

Values == 1..4

Step(list) == [value : Values, adjustment : list]

(* Up to three upper and two lower steps, with values that may coincide.   *)
Upper ==
  {Undefined, <<>>} \cup [1..1 -> Step({1})]
    \cup {<<[value |-> v, adjustment |-> 1], [value |-> w, adjustment |-> 2]>> :
            v \in Values, w \in Values}
    \cup {<<[value |-> v, adjustment |-> 1], [value |-> w, adjustment |-> 2],
            [value |-> x, adjustment |-> 3]>> :
            v \in Values, w \in Values, x \in Values}

Lower ==
  {Undefined, <<>>} \cup [1..1 -> Step({-1})]
    \cup {<<[value |-> v, adjustment |-> -1], [value |-> w, adjustment |-> -2]>> :
            v \in Values, w \in Values}

LongerLower ==
  {<<[value |-> v, adjustment |-> -1], [value |-> w, adjustment |-> -2],
     [value |-> x, adjustment |-> -3]>> :
     v \in Values, w \in Values, x \in Values}

MCAdjustments == -3..3

MCScalings ==
  [upper : Upper, lower : Lower, statistic : {"Average"}]
    \cup [upper : {Undefined} \cup [1..1 -> Step({1})], lower : LongerLower,
          statistic : {"Average"}]
    \cup [upper : {Undefined, <<[value |-> 3, adjustment |-> 1]>>},
          lower : {Undefined, <<[value |-> 2, adjustment |-> -1]>>},
          statistic : {"Sum", "Minimum"}]
============================================================================
