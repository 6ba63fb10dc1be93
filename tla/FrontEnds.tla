------------------------------ MODULE FrontEnds ------------------------------
(***************************************************************************)
(* How the payment gate is reached: the MCP server (agent/src/mcp.ts), the  *)
(* command line (agent/src/cli.ts), the settings both are started with       *)
(* (agent/src/config.ts) and the approver's tool (agent/src/approver.ts).    *)
(*                                                                         *)
(* A server is launched once and answers the lines on its input one after   *)
(* the other.  A command is a process of its own: it makes one call, tells    *)
(* its caller by its exit code and forgets what it knew of spent nonces.      *)
(* Either reads its settings when it starts.  An attempt is one line or one   *)
(* command, whether it gets as far as the gate or not.                       *)
(*                                                                         *)
(* What a client is shown: "ok" (a result that is not marked as an error;     *)
(* exit code 0), "no" (a refusal marked as an error; exit code 1), "error"     *)
(* (anything else), "silent" (a notification), or nothing because the process  *)
(* was "killed" from outside or the line "ended" it.                          *)
(***************************************************************************)
EXTENDS PaymentGate, Sequences, SequencesExt

CONSTANTS
  Servers,       \* the processes that are MCP servers; the others run commands
  Requests,      \* what the lines and commands of a run ask for, per attempt
  Secrets,       \* approval secrets that are long enough
  ApproverSecret, \* the one the approver signs with
  Setups         \* the settings the processes may be started under, per process

Kinds == {"pay", "check", "policy", "audit", "hello", "invalid", "notice", "null"}

\* Per setting, the values loadConfig takes; an absent one may have a default.
Acceptable ==
  [tail |-> {"set"}, did |-> {"hex"}, secret |-> Secrets,
   review |-> {"absent", "true", "false"}, ttl |-> {"absent", "positive"}]

\* Everything that is wrong with the settings, reported in one error.
Problems(s) == {f \in DOMAIN Acceptable : s[f] \notin Acceptable[f]}

\* What the invoker needs: the agent's key, and a node URL it may send that to.
CanBuildInvoker(s) == s.apiKey = "set" /\ s.url \in {"https", "localhost"}

CanBuildGate(s) == Problems(s) = {} /\ CanBuildInvoker(s)

\* AllowReview is what the admissible settings say; an absent one means no.
ASSUME FrontEndAssumption ==
  /\ Servers \subseteq Procs
  /\ Requests \subseteq [Attempts -> Kinds]
  /\ \A setup \in Setups, p \in Procs :
       Problems(setup[p]) = {} => AllowReview = (setup[p].review = "true")

VARIABLES
  kind,      \* per attempt: what it asks for
  settings,  \* per process: the environment it is started under
  up,        \* the processes that are running
  queue,     \* per process: the attempts it was given and has not answered
  shown,     \* per attempt: what its client was shown
  spentBefore  \* per process, for a property only: the nonces the log held as
               \* spent when it was started

frontVars == <<kind, settings, up, queue, shown, spentBefore>>
allVars == <<vars, frontVars>>

FrontInit ==
  /\ Init
  /\ kind \in Requests
  /\ settings \in Setups
  /\ up = {}
  /\ queue = [p \in Procs |-> <<>>]
  /\ shown = [a \in Attempts |-> "none"]
  /\ spentBefore = [p \in Procs |-> {}]

-----------------------------------------------------------------------------
(* Starting and ending processes.                                           *)

\* A process starts, with an empty memory.
Run(p) ==
  /\ up' = up \cup {p}
  /\ spentBefore' = [spentBefore EXCEPT ![p] = LoggedPaid]

LaunchServer(p) ==
  /\ p \in Servers \ up
  /\ CanBuildGate(settings[p])
  /\ Run(p)
  /\ UNCHANGED <<vars, kind, settings, queue, shown>>

\* The process ends, and with it what it held in memory.
Exit(p) ==
  /\ up' = up \ {p}
  /\ cache' = [cache EXCEPT ![p] = Unread]
  /\ spentBefore' = [spentBefore EXCEPT ![p] = {}]
  /\ UNCHANGED <<clock, minted, phase, callVars, decision, event, outcome, log, torn, sent>>

\* The input closes and every line on it has been answered.
CloseServer(p) ==
  /\ p \in Servers \cap up /\ queue[p] = <<>>
  /\ Exit(p)
  /\ UNCHANGED <<kind, settings, queue, shown>>

\* The process dies; what it was given and had not answered stays unanswered.
Die(p, how) ==
  /\ Crash(p)
  /\ up' = up \ {p}
  /\ shown' = [a \in Attempts |-> IF a \in ToSet(queue[p]) THEN how ELSE shown[a]]
  /\ queue' = [queue EXCEPT ![p] = <<>>]
  /\ spentBefore' = [spentBefore EXCEPT ![p] = {}]
  /\ UNCHANGED <<kind, settings>>

Kill(p) == p \in up /\ Die(p, "killed")

\* The approver's tool hands a token to whoever is to pay.
Sign(n, i, ttl, ahead) == Mint(n, i, ttl, ahead) /\ UNCHANGED frontVars
-----------------------------------------------------------------------------
(* Requests.                                                                *)

Given(a) == shown[a] # "none" \/ \E p \in Procs : a \in ToSet(queue[p])

\* A line is written to a server's input.
SendLine(p, a) ==
  /\ p \in Servers \cap up
  /\ ~Given(a)
  /\ queue' = [queue EXCEPT ![p] = Append(@, a)]
  /\ UNCHANGED <<vars, kind, settings, up, shown, spentBefore>>

\* The settings a command needs: help none, the log only the file's own.
Configured(p, a) ==
  \/ kind[a] = "hello"
  \/ kind[a] = "audit" /\ Problems(settings[p]) = {}
  \/ CanBuildGate(settings[p])

\* A command is run; without the settings it needs it exits at once.
Command(p, a) ==
  /\ p \notin Servers \cup up
  /\ kind[a] \notin {"notice", "null"} /\ ~Given(a)
  /\ \/ /\ Configured(p, a)
        /\ Run(p)
        /\ queue' = [queue EXCEPT ![p] = <<a>>]
        /\ UNCHANGED shown
     \/ /\ ~Configured(p, a)
        /\ shown' = [shown EXCEPT ![a] = "error"]
        /\ UNCHANGED <<queue, up, spentBefore>>
  /\ UNCHANGED <<vars, kind, settings>>

\* The request a process is at.
Turn(p, a) == queue[p] # <<>> /\ a = Head(queue[p])

\* A well-formed payment or check enters the gate.
Begin(p, a, t) ==
  /\ Turn(p, a)
  /\ kind[a] \in {"pay", "check"} /\ (t = NoToken <=> kind[a] = "check")
  /\ Start(p, a, t)
  /\ UNCHANGED frontVars

\* The client is shown s, and the next request is taken up.
Show(p, a, s) ==
  /\ shown' = [shown EXCEPT ![a] = s]
  /\ queue' = [queue EXCEPT ![p] = Tail(@)]

\* A malformed line, an unknown method, tool or command, or arguments that do not
\* check out: an amount that is no positive integer, a flag or field that is missing.
Invalid(a) == kind[a] = "invalid"

\* What is answered to what never enters the gate: what is invalid;
\* initialize, ping, tools/list ("hello"); the log, if it parses; a listing the
\* contract may fail to give.
AnswersAtOnce(a) ==
  CASE Invalid(a)          -> {"error"}
    [] kind[a] = "hello"   -> {"ok"}
    [] kind[a] = "notice"  -> {"silent"}
    [] kind[a] = "audit"   -> {IF torn THEN "error" ELSE "ok"}
    [] kind[a] = "policy"  -> {"ok", "error"}
    [] OTHER -> {}

ServerAtOnce(p, a) ==
  /\ p \in Servers /\ Turn(p, a)
  /\ \E s \in AnswersAtOnce(a) : Show(p, a, s)
  /\ UNCHANGED <<vars, kind, settings, up, spentBefore>>

\* A line that holds the JSON value null parses, has no method to look at, and
\* ends the server.
ServerDies(p, a) ==
  /\ p \in Servers /\ Turn(p, a) /\ kind[a] = "null"
  /\ Die(p, "ended")

\* Commands with bad arguments exit like those with bad settings.
CommandAtOnce(p, a) ==
  /\ p \notin Servers /\ Turn(p, a)
  /\ \E s \in AnswersAtOnce(a) : Show(p, a, s)
  /\ Exit(p)
  /\ UNCHANGED <<kind, settings>>

\* A server marks a refusal, and only that, as an error.
ServerShows(a) ==
  CASE outcome[a] = "error"   -> "error"
    [] outcome[a] = "refused" -> "no"
    [] OTHER -> "ok"

\* Variant: only a refusal fails the command.
CommandShowsRefusals(a) ==
  CASE outcome[a] = "error" -> "error"
    [] outcome[a] = "refused" \/ (outcome[a] = "checked" /\ decision[a] # "allow") -> "no"
    [] OTHER -> "ok"

\* A command succeeds on a payment made and on a check that allows.
CommandShows(a) ==
  CASE outcome[a] = "error" -> "error"
    [] outcome[a] = "paid" \/ (outcome[a] = "checked" /\ decision[a] = "allow") -> "ok"
    [] OTHER -> "no"

ServerReplies(p, a) ==
  /\ p \in Servers /\ Turn(p, a) /\ phase[a] = "done"
  /\ Show(p, a, ServerShows(a))
  /\ UNCHANGED <<vars, kind, settings, up, spentBefore>>

CommandExits(p, a) ==
  /\ p \notin Servers /\ Turn(p, a) /\ phase[a] = "done"
  /\ Show(p, a, CommandShows(a))
  /\ Exit(p)
  /\ UNCHANGED <<kind, settings>>

\* Variant: an error the gate throws is not turned into a reply.
AnswerUnlessThrown(p, a) ==
  \/ outcome[a] # "error" /\ (ServerReplies(p, a) \/ CommandExits(p, a))
  \/ ServerAtOnce(p, a) \/ CommandAtOnce(p, a) \/ ServerDies(p, a)

Answer(p, a) ==
  \/ ServerReplies(p, a) \/ CommandExits(p, a)
  \/ ServerAtOnce(p, a) \/ CommandAtOnce(p, a) \/ ServerDies(p, a)
-----------------------------------------------------------------------------
(* The gate's own steps.                                                    *)

\* Variant: the MAC is not compared.
ForeignNever(a) == token[a] = NoToken /\ phase[a] = "verifying"

\* A MAC made with another secret does not verify.
Foreign(a) == token[a] \in MintedTokens /\ settings[owner[a]].secret # ApproverSecret

RejectForeign(a) ==
  /\ phase[a] = "verifying" /\ Foreign(a)
  /\ ToLog(a, "approval_rejected")
  /\ UNCHANGED <<clock, minted, callVars, decision, outcome, cache, log, torn, sent>>

GateStep(a) ==
  /\ \/ Answered(a) \/ LogCheck(a) \/ Finish(a) \/ AppendFails(a)
     \/ ~Foreign(a) /\ (Approve(a) \/ RejectApproval(a))
     \/ RejectForeign(a)
  /\ UNCHANGED frontVars

FrontNext ==
  \/ \E n \in Nonces, i \in Intents, ttl \in TtlChoices, ahead \in AheadChoices :
       Sign(n, i, ttl, ahead)
  \/ \E p \in Procs : LaunchServer(p) \/ CloseServer(p) \/ Kill(p)
  \/ \E p \in Procs, a \in Attempts :
       \/ SendLine(p, a) \/ Command(p, a) \/ Answer(p, a)
       \/ \E t \in MintedTokens \cup {NoToken, BadToken} : Begin(p, a, t)
  \/ \E a \in Attempts : GateStep(a)

FrontSpec == FrontInit /\ [][FrontNext]_allVars

\* What a process does next with the request it is at.
Continue(p) ==
  /\ queue[p] # <<>>
  /\ LET a == Head(queue[p]) IN
       \/ Answer(p, a) \/ GateStep(a)
       \/ \E t \in MintedTokens \cup {NoToken, BadToken} : Begin(p, a, t)

\* A process goes on with the request it is at, and an invocation ends, with an
\* answer or an error.
FairFrontSpec == FrontSpec /\ \A p \in Procs : WF_allVars(Continue(p))
-----------------------------------------------------------------------------
\* What a client is shown can be relied on, whichever front end it came by.  A
\* payment shown as a success was sent, and the log has it, as paid if it was a
\* command that succeeded.  One shown as refused is in the log too, and if a
\* server showed it nothing was paid.  What a front end turned away never
\* reached the log or the contract (mcp.ts:192-195, cli.ts:186).
AnswersAreTrue ==
  \A a \in Attempts :
    LET Logged(events) == \E e \in log : e.attempt = a /\ e.event \in events
        server == owner[a] \in Servers
    IN  /\ kind[a] = "pay" /\ shown[a] = "ok" =>
             a \in sent /\ Logged(IF server THEN {"paid", "upstream_error"} ELSE {"paid"})
        /\ kind[a] = "pay" /\ shown[a] = "no" =>
             /\ Logged({"refused", "approval_rejected", "upstream_error"})
             /\ ~Logged({"paid"}) /\ (server => ~Logged({"upstream_error"}))
        /\ kind[a] # "pay" => a \notin sent
        /\ kind[a] \notin {"pay", "check"} => ~Logged(Events)

\* Settings that went apart fail closed: a process that verifies with another
\* secret than the approver signs with, or with settings that lack something,
\* never sends a payout (docs/HANDOVER.md:46-48).
OnlySharedSecretPays ==
  \A a \in sent : LET s == settings[owner[a]] IN
    s.secret = ApproverSecret /\ Problems(s) = {} /\ s.apiKey = "set"

\* A fresh process knows every payment made before it: none sends a payout on a
\* token that the log held as spent when the process was started, whoever spent
\* it.  This is what is left of "single use" when processes share a log.
LaunchForgetsNothing ==
  [][\A a \in sent' \ sent : token[a].nonce \notin spentBefore[owner[a]]]_allVars

Unanswered == {"none", "ended"}

\* Every line and command is answered, or its process was killed from outside, as
\* long as no line holds null: whatever the gate, the log or the contract throws
\* becomes an answer, and nothing queued behind it waits for ever (mcp.ts:208-212).
EveryRequestAnswered ==
  \A a \in Attempts :
    (Given(a) /\ \A b \in Attempts : kind[b] # "null") ~> shown[a] \notin Unanswered

\* mcp.ts:223-226: "Malformed input gets a JSON-RPC parse error rather than
\* crashing the process": every line is answered, whatever the lines hold.
EveryLineAnswered ==
  \A a \in Attempts : Given(a) ~> shown[a] \notin Unanswered
=============================================================================
