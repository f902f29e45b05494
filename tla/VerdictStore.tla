---------------------------- MODULE VerdictStore -----------------------------
(* The verdict store of nthlayer_learn, as the code uses it: a file that several  *)
(* processes share.  put commits one verdict, in place of an earlier one of the    *)
(* same id; get finds it.  The evaluation verdicts come from nthlayer-measure,     *)
(* which may note a Slack thread on them later.                                   *)
(* A thread has the id of the verdict whose message started it.                   *)
CONSTANTS
  Evaluations,  \* ids of evaluation verdicts
  None

VARIABLE verdicts   \* id -> [context, children, thread, causes]

Stored == DOMAIN verdicts

Put(id, v) == verdicts' = [i \in Stored \cup {id} |-> IF i = id THEN v ELSE verdicts[i]]

Verdict(context, children, causes) ==
  [context |-> context, children |-> children, thread |-> None, causes |-> causes]

\* The evaluation may be one of a series.
Evaluate(e) ==
  /\ e \notin Stored
  /\ \E context \in {{}} \cup {{f} : f \in Evaluations \cap Stored} :
       Put(e, Verdict(context, {}, {}))

PostEvaluation(e) ==
  /\ e \in Stored /\ verdicts[e].thread = None
  /\ Put(e, [verdicts[e] EXCEPT !.thread = e])
=============================================================================
