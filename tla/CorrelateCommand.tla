-------------------------- MODULE CorrelateCommand ---------------------------
(* The second half of correlate_command (cli.py), from the groups the engine found *)
(* to the exit code: the model's reasoning (reasoning.py), the verdict, its         *)
(* decision record, its Slack message (notifications.py) and nthlayer-respond.      *)
(* Every invocation is a process of its own that may be killed between any two      *)
(* effects; all of them share the verdict store.  The verdict of run r has id r.    *)
(* Gathering models the first half, of which only the outcome matters here.         *)
EXTENDS VerdictStore, SequencesExt

CONSTANTS
  Runs,         \* invocations of the command
  Options,      \* run -> its arguments and environment may be any of a set
  FoundSets,    \* the sets of groups the engine may find
  Answers       \* the model's: sequences of [group, cause], cause None for none

\* model: it is asked for and a provider is configured.  respond: --respond-args is
\* not given, no JSON, JSON that is no object, or an object.
OptionType == [trigger : Evaluations \cup Runs, model : BOOLEAN, records : BOOLEAN,
               slack : BOOLEAN, respond : {"none", "bad", "list", "good"}]

ASSUME OptionsAssumption == Options \in [Runs -> SUBSET OptionType]

Assessments == UNION {ToSet(a) : a \in Answers}

ASSUME AnswersAssumption == Answers \subseteq Seq(Assessments)

VARIABLES
  pc, option,
  found,        \* the groups
  answer,       \* the model's answer, or None
  thread,       \* the thread the message goes to, or None
  recorded,     \* runs with a decision record
  posted,       \* messages handed to Slack, [run, thread]: None for a thread of its
                \* own, if it was delivered at all, that the command never learned of
  responders    \* runs whose responder was started

runVars == <<pc, option, found, answer, thread, recorded, posted, responders>>

Exits == {"exit 0", "exit 1", "died"}
Steps == {"lookup", "gather", "reason", "store", "record", "find", "context", "send",
          "annotate", "respond", "wait"}

CommandInit ==
  /\ pc = [r \in Runs |-> "lookup"]
  /\ option \in {o \in [Runs -> OptionType] : \A r \in Runs : o[r] \in Options[r]}
  /\ found = [r \in Runs |-> {}]
  /\ answer = [r \in Runs |-> None] /\ thread = [r \in Runs |-> None]
  /\ recorded = {} /\ posted = {} /\ responders = {}

Go(r, from, to) == pc[r] = from /\ pc' = [pc EXCEPT ![r] = to]

Trigger(r) == option[r].trigger

\* Variant: a trigger that is not in the store is let pass.
LookUpAny(r) ==
  /\ Go(r, "lookup", "gather")
  /\ UNCHANGED <<verdicts, option, found, answer, thread, recorded, posted, responders>>

LookUp(r) ==
  /\ Go(r, "lookup", IF Trigger(r) \in Stored THEN "gather" ELSE "exit 1")
  /\ UNCHANGED <<verdicts, option, found, answer, thread, recorded, posted, responders>>

\* No events, or no groups.
NothingFound(r) ==
  /\ Go(r, "gather", "exit 0")
  /\ UNCHANGED <<verdicts, option, found, answer, thread, recorded, posted, responders>>

GroupsFound(r) ==
  /\ Go(r, "gather", "reason")
  /\ \E groups \in FoundSets \ {{}} : found' = [found EXCEPT ![r] = groups]
  /\ UNCHANGED <<verdicts, option, answer, thread, recorded, posted, responders>>

\* Not asked for, not configured, or degraded: the call or the parsing failed.
NoModel(r) ==
  /\ Go(r, "reason", "store")
  /\ UNCHANGED <<verdicts, option, found, answer, thread, recorded, posted, responders>>

ModelReasons(r) ==
  /\ option[r].model /\ Go(r, "reason", "store")
  /\ \E a \in Answers : answer' = [answer EXCEPT ![r] = a]
  /\ UNCHANGED <<verdicts, option, found, thread, recorded, posted, responders>>

\* Variant: the first word about a group counts.
ReasoningByGroupFirst(r) ==
  FoldLeft(LAMBDA d, a : IF a.group \in found[r] /\ d[a.group] = None
                         THEN [d EXCEPT ![a.group] = a.cause] ELSE d,
           [g \in found[r] |-> None], answer[r])

\* Assessments of unknown groups are dropped, later ones of a group replace earlier.
ReasoningByGroup(r) ==
  FoldLeft(LAMBDA d, a : IF a.group \in found[r] THEN [d EXCEPT ![a.group] = a.cause] ELSE d,
           [g \in found[r] |-> None], answer[r])

\* What the heuristic takes for causes: nothing that is gathered is a change.
ChangeCandidates(g) == {}

\* Each group by the model's word on it, else by its change candidates.
RootCauses(r) ==
  UNION {IF answer[r] # None /\ ReasoningByGroup(r)[g] # None
         THEN {<<g, ReasoningByGroup(r)[g]>>} ELSE {<<g, c>> : c \in ChangeCandidates(g)} :
           g \in found[r]}

CorrVerdict(r) == Verdict({Trigger(r)}, {}, RootCauses(r))

\* What is left to do once the verdict is stored, and once it is recorded.
AfterRecord(r) == IF option[r].slack THEN "find" ELSE "respond"

\* Variant: with Slack on, the record is not written.
AfterStoreEither(r) ==
  IF option[r].slack THEN "find" ELSE IF option[r].records THEN "record" ELSE "respond"

AfterStore(r) == IF option[r].records THEN "record" ELSE AfterRecord(r)

\* Variant: a store that fails is passed over.
StoreVerdictOrNot(r) ==
  /\ Go(r, "store", AfterStore(r))
  /\ Put(r, CorrVerdict(r)) \/ UNCHANGED verdicts
  /\ UNCHANGED <<option, found, answer, thread, recorded, posted, responders>>

StoreVerdict(r) ==
  /\ Go(r, "store", AfterStore(r))
  /\ Put(r, CorrVerdict(r))
  /\ UNCHANGED <<option, found, answer, thread, recorded, posted, responders>>

WriteRecord(r) ==
  /\ Go(r, "record", AfterRecord(r))
  /\ recorded' = recorded \cup {r}
  /\ UNCHANGED <<verdicts, option, found, answer, thread, posted, responders>>

\* find_slack_thread_ts: the trigger's own thread, else one of a verdict the trigger
\* refers to.  A read that fails is taken for no thread.
FindOwn(r) ==
  /\ pc[r] = "find"
  /\ LET own == verdicts[Trigger(r)].thread
     IN  \/ own # None /\ Go(r, "find", "send") /\ thread' = [thread EXCEPT ![r] = own]
         \/ own = None /\ Go(r, "find", "context") /\ UNCHANGED thread
  /\ UNCHANGED <<verdicts, option, found, answer, recorded, posted, responders>>

FindInContext(r) ==
  /\ Go(r, "context", "send")
  /\ LET threads == {verdicts[v].thread : v \in verdicts[Trigger(r)].context} \ {None}
     IN  \/ threads = {} /\ UNCHANGED thread
         \/ \E t \in threads : thread' = [thread EXCEPT ![r] = t]
  /\ UNCHANGED <<verdicts, option, found, answer, recorded, posted, responders>>

FindFails(r) ==
  /\ Go(r, "find", "send") \/ Go(r, "context", "send")
  /\ UNCHANGED <<verdicts, option, found, answer, thread, recorded, posted, responders>>

\* Variant: the message that starts a thread is forgotten.
PostForgotten(r) ==
  /\ Go(r, "send", "respond")
  /\ posted' = posted \cup {[run |-> r, thread |-> IF thread[r] = None THEN r ELSE thread[r]]}
  /\ UNCHANGED <<verdicts, option, found, answer, thread, recorded, responders>>

\* Slack answers with the message's timestamp: a new thread is yet to be noted.
Post(r) ==
  /\ Go(r, "send", IF thread[r] = None THEN "annotate" ELSE "respond")
  /\ posted' = posted \cup {[run |-> r, thread |-> IF thread[r] = None THEN r ELSE thread[r]]}
  /\ UNCHANGED <<verdicts, option, found, answer, thread, recorded, responders>>

\* No timestamp comes back, whether or not the message was delivered.
PostUnanswered(r) ==
  /\ Go(r, "send", "respond")
  /\ posted' = posted \cup {[run |-> r, thread |-> thread[r]]}
  /\ UNCHANGED <<verdicts, option, found, answer, thread, recorded, responders>>

\* Variant: the verdict is made anew, without what it refers to.
NoteThreadOnly(r) ==
  /\ Go(r, "annotate", "respond")
  /\ Put(r, [Verdict({}, {}, RootCauses(r)) EXCEPT !.thread = r])
  /\ UNCHANGED <<option, found, answer, thread, recorded, posted, responders>>

\* The whole verdict again, from memory.
NoteThread(r) ==
  /\ Go(r, "annotate", "respond")
  /\ Put(r, [CorrVerdict(r) EXCEPT !.thread = r])
  /\ UNCHANGED <<option, found, answer, thread, recorded, posted, responders>>

\* Nothing to start, arguments that are no JSON, or no such program.  Of arguments
\* that are no object, the command dies.
NoResponder(r) ==
  /\ option[r].respond # "list"
  /\ Go(r, "respond", IF option[r].respond = "bad" THEN "exit 1" ELSE "exit 0")
  /\ UNCHANGED <<verdicts, option, found, answer, thread, recorded, posted, responders>>

StartResponder(r) ==
  /\ option[r].respond = "good" /\ Go(r, "respond", "wait")
  /\ responders' = responders \cup {r}
  /\ UNCHANGED <<verdicts, option, found, answer, thread, recorded, posted>>

\* Without a time limit; its failure is only logged.
ResponderEnds(r) ==
  /\ Go(r, "wait", "exit 0")
  /\ UNCHANGED <<verdicts, option, found, answer, thread, recorded, posted, responders>>

\* A store that fails, prompts that cannot be read, a record or a message that
\* cannot be written: nothing of this is caught, but for the reads for the thread.
\* Killed, the command may end anywhere.
Dies(r) ==
  /\ \E s \in Steps : Go(r, s, "died")
  /\ UNCHANGED <<verdicts, option, found, answer, thread, recorded, posted, responders>>

Command(r) ==
  \/ LookUp(r) \/ NothingFound(r) \/ GroupsFound(r) \/ NoModel(r) \/ ModelReasons(r)
  \/ StoreVerdict(r) \/ WriteRecord(r)
  \/ FindOwn(r) \/ FindInContext(r) \/ FindFails(r)
  \/ Post(r) \/ PostUnanswered(r) \/ NoteThread(r)
  \/ NoResponder(r) \/ StartResponder(r) \/ ResponderEnds(r)
  \/ Dies(r)
-----------------------------------------------------------------------------
(* Properties                                                                 *)

\* No record, message or responder is about a verdict that is not in the store,
\* wherever the command raised or was killed; and none is without a group.
EffectsOfStored ==
  /\ recorded \cup responders \cup {m.run : m \in posted} \subseteq Stored
  /\ \A r \in Runs \cap Stored : found[r] # {} /\ Trigger(r) \in Stored

MessagesOf(r) == {m \in posted : m.run = r}

\* The verdict is stored, and recorded and handed to Slack if that was asked for; a
\* thread that Slack said the message started is noted on the verdict.
AllTold(r) ==
  /\ r \in Stored
  /\ option[r].records => r \in recorded
  /\ option[r].slack => \E m \in MessagesOf(r) : m.thread = r => verdicts[r].thread = r

\* Exit code 0 means that nothing was found, or that all of the above was done and the
\* responder's arguments could be followed; exit code 1 with a verdict stored, that all
\* was done and the arguments were no JSON.  No responder starts before all was done.
\* That Slack took the message, or the responder its call, no exit code tells.
ExitCodesTell ==
  \A r \in Runs :
    /\ pc[r] = "exit 0" /\ found[r] # {} => AllTold(r) /\ option[r].respond \in {"none", "good"}
    /\ pc[r] = "exit 1" /\ r \in Stored => AllTold(r) /\ option[r].respond = "bad"
    /\ r \in responders => AllTold(r)

\* What find_slack_thread_ts makes of verdict v when its reads succeed.
ThreadsFrom(v) ==
  IF verdicts[v].thread # None THEN {verdicts[v].thread}
  ELSE {verdicts[u].thread : u \in verdicts[v].context} \ {None}

\* A later command on the verdict of a run looks up the very thread its message is in,
\* if the run started that thread or found it on its trigger.  A thread that was found
\* one verdict further up is still there, where the later look-up does not reach.  (Of a
\* message without an answer, or a run that died before its note, nothing is promised.)
ThreadIsKept ==
  \A m \in posted :
    m.thread # None /\ pc[m.run] \notin {"annotate", "died"} =>
      IF m.thread \in {m.run, verdicts[Trigger(m.run)].thread}
      THEN ThreadsFrom(m.run) = {m.thread}
      ELSE \E v \in verdicts[Trigger(m.run)].context : verdicts[v].thread = m.thread

\* The causes a verdict names are the model's last words on the groups that were
\* found, all of them, and they stay when the thread is noted.
CausesAreTheModels ==
  \A r \in Runs \cap Stored :
    verdicts[r].causes =
      IF answer[r] = None THEN {}
      ELSE {<<answer[r][i].group, answer[r][i].cause>> : i \in
              {j \in DOMAIN answer[r] :
                 /\ answer[r][j].cause # None /\ answer[r][j].group \in found[r]
                 /\ \A k \in DOMAIN answer[r] : k > j => answer[r][k].group # answer[r][j].group}}
=============================================================================
