--------------------------- MODULE ViewingCommands ---------------------------
(***************************************************************************)
(* How a command reaches the viewing workflow (execute() of                *)
(* src/application-viewings/viewing-workflow-command.service.ts).          *)
(*                                                                         *)
(* A client builds a command on what it was shown and sends it under a     *)
(* request key; the network delivers it late, and again when the answer    *)
(* was lost.  The answer to a command that committed anything, the expiry  *)
(* of something overdue included, is kept as the receipt of its key.       *)
(* One key is followed here; the steps of ViewingWorkflow beside it are    *)
(* the commands of everybody else.  The texts and dates of a command are   *)
(* left out, and so is reconcile, which is a command of legacy workflows.  *)
(***************************************************************************)
EXTENDS ViewingWorkflow

VARIABLES
  request,  \* the command last sent under the key
  seen,     \* the workflow its client was shown, until the key is used up
  receipt,  \* the row of viewing_command_receipts of the key
  answer    \* what the last delivery was answered

delivery == <<request, seen, receipt, answer>>

commandVars == <<vars, delivery>>

-----------------------------------------------------------------------------
CalendarActions ==
  {"invite", "accept", "reject", "withdraw", "counterproposal", "alternative-proposal",
   "replacement", "alternative-appointment", "cancel", "close"}

DecisionActions == {"outcome", "interest", "consideration"}

NoRequest == [action |-> "none", side |-> "PROVIDER", target |-> NoRound, revision |-> 0]

\* Refusals leave nothing behind, and are answered as if nothing had been sent.
NoAnswer == [kind |-> "NONE", revision |-> 0]

NoReceipt == [request |-> NoRequest, answer |-> NoAnswer]

InitCommands ==
  Init /\ request = NoRequest /\ seen = {} /\ receipt = NoReceipt /\ answer = NoAnswer

\* The offer or appointment a command names: the one its client was shown.
Target(action, r) ==
  CASE action \in {"accept", "reject", "withdraw", "counterproposal", "alternative-proposal"} ->
         r = wf.pending /\ r # NoRound
    [] action \in {"replacement", "alternative-appointment", "cancel"} ->
         r = wf.confirmed /\ r # NoRound
    [] action \in DecisionActions -> r # NoRound /\ wf.visits[r].status # "NONE"
    [] action \in {"invite", "close"} -> r = NoRound

\* The hash of a command is the command itself.
Send ==
  /\ request = NoRequest
  /\ \E action \in CalendarActions \cup DecisionActions, side \in Sides, r \in Rounds \cup {NoRound} :
       /\ Target(action, r)
       /\ side = "PROVIDER" => ProviderVisible
       /\ request' = [action |-> action, side |-> side, target |-> r, revision |-> wf.revision]
  /\ seen' = {wf}
  /\ UNCHANGED <<vars, receipt, answer>>

\* A client takes the key of a command that was answered for another one.
Reuse ==
  /\ receipt.request = request /\ request # NoRequest
  /\ request' = [request EXCEPT !.revision = @ + 1]
  /\ answer' = NoAnswer
  /\ UNCHANGED <<vars, seen, receipt>>

-----------------------------------------------------------------------------
\* Mutated form of Passes: any revision will do.
PassesAnyRevision(q) == CanMutate \/ q.action = "outcome"

\* What is refused before anything is done.
Passes(q) ==
  /\ CanMutate \/ q.action = "outcome"
  /\ q.revision = wf.revision

\* The exact target is validated before an expiry may change anything.
TargetStands(q) ==
  CASE q.action \in {"accept", "reject", "withdraw", "counterproposal", "alternative-proposal"} ->
         q.target = wf.pending
    [] q.action \in {"replacement", "alternative-appointment", "cancel"} -> q.target = wf.confirmed
    [] q.action \in {"invite", "close"} \cup DecisionActions -> TRUE

\* apply(), of a command of the right side
Apply(q) ==
  \/ q.action = "invite" /\ q.side = "PROVIDER" /\ Invite
  \/ q.action = "accept" /\ Accept(q.side)
  \/ q.action = "reject" /\ Decline(q.side)
  \/ q.action = "withdraw" /\ q.side = "APPLICANT" /\ WithdrawOffer
  \/ q.action = "counterproposal" /\ q.side = "PROVIDER" /\ Counterpropose
  \/ q.action = "alternative-proposal" /\ q.side = "APPLICANT" /\ ProposeAlternative
  \/ q.action = "replacement" /\ q.side = "PROVIDER" /\ Reschedule("PROVIDER")
  \/ q.action = "alternative-appointment" /\ q.side = "APPLICANT" /\ Reschedule("APPLICANT")
  \/ q.action = "cancel" /\ q.side = "APPLICANT" /\ CancelAppointment
  \/ q.action = "close" /\ q.side = "PROVIDER" /\ CloseCalendar
  \/ q.action = "outcome" /\ q.side = "PROVIDER" /\ \E o \in Outcomes : RecordOutcome(q.target, o)
  \/ q.action = "interest" /\ q.side = "APPLICANT" /\ \E a \in Answers : Answer(q.target, a)
  \/ /\ q.action = "consideration" /\ q.side = "PROVIDER"
     /\ \/ \E c \in Considerations : Consider(q.target, c)
        \/ DoNotContinue(q.target)

\* The workflowRevision of the result: a calendar command has advanced it by one,
\* after a decision, and what it ended, it is read again.
ResultRevision(q) == IF q.action \in CalendarActions THEN wf.revision + 1 ELSE wf'.revision

\* save() and the answer
Receipted(q, kind, revision) ==
  /\ receipt' = [request |-> q, answer |-> [kind |-> kind, revision |-> revision]]
  /\ answer' = receipt'.answer
  /\ seen' = {}
  /\ UNCHANGED request

\* An overdue interest ends the application, whatever the command was about.
FailedByInterest(q) ==
  /\ \E v \in Rounds : ExpireInterest(v)
  /\ Receipted(q, "FAILED", wf'.revision)

FailedByOffer(q) ==
  /\ q.action \in CalendarActions
  /\ \A v \in Rounds : ~InterestOverdue(wf, v)
  /\ ExpireOffer
  /\ Receipted(q, "FAILED", wf.revision + 1)

Succeeded(q) == Apply(q) /\ Receipted(q, "OK", ResultRevision(q))

Perform(q) ==
  /\ Passes(q)
  /\ \/ FailedByInterest(q)
     \/ TargetStands(q) /\ FailedByOffer(q)
     \/ TargetStands(q) /\ Succeeded(q)

\* receiptOutcome()
ReceiptOutcome == receipt.answer

\* The key was used before: for this command, or for another one, which is an error.
Replay(q) ==
  /\ answer' = IF receipt.request = q THEN ReceiptOutcome ELSE NoAnswer
  /\ UNCHANGED <<vars, request, seen, receipt>>

\* Mutated form of Execute: whether the command is still possible is asked first.
ExecutePassing(q) ==
  /\ q # NoRequest
  /\ q.side = "PROVIDER" => ProviderVisible
  /\ \/ Passes(q) /\ receipt # NoReceipt /\ Replay(q)
     \/ ~Passes(q) /\ answer' = NoAnswer /\ UNCHANGED <<vars, request, seen, receipt>>
     \/ receipt = NoReceipt /\ Perform(q)

\* execute(): one delivery of the command.  A refusal changes nothing.
Execute(q) ==
  /\ q # NoRequest
  /\ q.side = "PROVIDER" => ProviderVisible
  /\ \/ receipt # NoReceipt /\ Replay(q)
     \/ receipt = NoReceipt /\ Perform(q)

NextCommands ==
  \/ Send \/ Reuse
  \/ Execute(request)
  \/ Next /\ wf'.revision <= MaxRevision /\ UNCHANGED delivery

SpecCommands == InitCommands /\ [][NextCommands]_commandVars

-----------------------------------------------------------------------------
(***************************************************************************)
(* Properties.                                                             *)
(***************************************************************************)
\* g is f but for interest denied meanwhile: the withdrawal that follows leaves a closed
\* calendar, and its revision, as they are.
SameButDenied(f, g) ==
  /\ g = [f EXCEPT !.visits = g.visits]
  /\ \A r \in Rounds :
       \/ g.visits[r] = f.visits[r]
       \/ /\ f.visits[r].interest = "PENDING"
          /\ g.visits[r] = WithInterest(f.visits[r], "NOT_INTERESTED")

\* A command is applied to the workflow its client was shown, however late it arrives
\* and whatever was done and undone meanwhile, an applicant's disinterest after the
\* calendar was closed excepted; and once under its key.
AppliedToWhatWasSeen ==
  [][receipt' # receipt => receipt = NoReceipt /\ \E f \in seen : SameButDenied(f, wf)]_commandVars

\* A client may go on from its answer: it names the revision the workflow then has,
\* a command that was answered is answered the same ever after, and no command is
\* answered with what became of another one.
AnswersAreTrue ==
  [][/\ receipt' # receipt => receipt'.answer.revision = wf'.revision
     /\ answer # NoAnswer /\ request' = request => answer' = answer
     /\ answer' # NoAnswer => receipt'.request = request']_commandVars
=============================================================================
