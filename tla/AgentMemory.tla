----------------------------- MODULE AgentMemory -----------------------------
(***************************************************************************)
(* plugin/agent: the turns of one session.  A turn loads the history,      *)
(* trims it by the agent's policy, asks the model, and saves the history   *)
(* with its own two messages: Run collects the response first, RunStream   *)
(* relays it to the caller from a goroutine of its own.  The agent does    *)
(* not keep two turns of a session apart, and the store may fail, before   *)
(* or after a Save has taken effect.                                       *)
(*                                                                         *)
(* The provider's stream is the environment: it may end early in an error, *)
(* and a provider whose context has ended may close it without one.        *)
(***************************************************************************)
EXTENDS Integers, Sequences, FiniteSetsExt

CONSTANTS
  Turns,      \* calls of Run and RunStream, numbered as they are made
  Setups,     \* agents, and what is asked of each
  OutSize,    \* niro.DefaultStreamBuffer
  MaxText     \* bound: text frames in a response

\* window: SlidingWindow(last); ends: KeepFirstAndLast(first, last); tokens:
\* SlidingWindowTokens, with a counter that counts messages; nothing: NoHistory.
Policy == [kind : {"window", "ends", "tokens", "nothing"}, first : Nat, last : Nat]

\* policies: none, one, or a Chain; bounded: Memory is a BoundedLoader; attempts:
\* memoryRetryAttempts; the bounds: how many turns, and how many at the same time.
Setup == [policies : Seq(Policy), bounded : BOOLEAN, attempts : Nat \ {0},
          turns : Nat, atOnce : Nat \ {0}]

ASSUME SetupAssumption == Setups \subseteq Setup
ASSUME AgentBounds == Turns \subseteq Nat /\ OutSize \in Nat \ {0} /\ MaxText \in Nat

VARIABLES
  setup,      \* of this agent
  memory,     \* the stored history of the session
  turn,       \* the turns
  log,        \* history: what would be stored if nothing was ever trimmed
  saved,      \* history: the turns whose Save has taken effect
  alone       \* history: no two turns have been active at the same time

vars == <<setup, memory, turn, log, saved, alone>>

Message == [by : {"user", "assistant"}, turn : Turns, whole : BOOLEAN]

Turn == [pc : {"idle", "load", "loadWait", "generate", "reading", "emit", "usage", "save", "saveWait", "done"},
         stream : BOOLEAN, cancelled : BOOLEAN, msgs : Seq(Message), tries : Nat,
         got : 0 .. MaxText, cut : BOOLEAN, room : 0 .. OutSize,
         err : {"nil", "ctx", "load", "source", "save", "dropped"}]

TypeOK ==
  /\ setup \in Setups
  /\ memory \in Seq(Message)
  /\ turn \in [Turns -> Turn] /\ \A t \in Turns : turn[t].tries < setup.attempts
  /\ log \in Seq(Message)
  /\ saved \subseteq Turns
  /\ alone \in BOOLEAN

NewTurn == [pc |-> "idle", stream |-> FALSE, cancelled |-> FALSE, msgs |-> <<>>, tries |-> 0,
            got |-> 0, cut |-> FALSE, room |-> OutSize, err |-> "nil"]

Init ==
  /\ setup \in Setups
  /\ memory = <<>> /\ log = <<>> /\ saved = {} /\ alone = TRUE
  /\ turn = [t \in Turns |-> NewTurn]

(***************************************************************************)
(* Policies.                                                               *)
(***************************************************************************)
\* The last n messages, or all if n = 0.
Latest(h, n) == IF n = 0 \/ Len(h) <= n THEN h ELSE SubSeq(h, Len(h) - n + 1, Len(h))

Ends(h, p) ==
  CASE p.first = 0 -> Latest(h, p.last)
    [] p.first > 0 /\ p.last = 0 -> SubSeq(h, 1, Min({p.first, Len(h)}))
    [] OTHER -> IF Len(h) <= p.first + p.last THEN h
                ELSE SubSeq(h, 1, p.first) \o Latest(h, p.last)

\* TrimForRequest of one policy, and of the agent's.
Trimmed(h, p) ==
  CASE p.kind \in {"window", "tokens"} -> Latest(h, p.last)
    [] p.kind = "ends" -> Ends(h, p)
    [] p.kind = "nothing" -> <<>>

TrimForRequest(h) ==
  LET kept[n \in 0 .. Len(setup.policies)] ==
        IF n = 0 THEN h ELSE Trimmed(kept[n - 1], setup.policies[n])
  IN  kept[Len(setup.policies)]

MaxMessages(p) == CASE p.kind = "window" -> p.last [] p.kind = "ends" -> p.first + p.last [] OTHER -> 0

\* Of the agent's policies: 0 if one of them is unbounded.
Bound ==
  IF setup.policies = <<>> THEN 0
  ELSE Min({MaxMessages(setup.policies[i]) : i \in DOMAIN setup.policies})

\* HistorySavePolicy, which SlidingWindow implements and a Chain does not.
TrimForSave(h) ==
  IF Len(setup.policies) = 1 /\ setup.policies[1].kind = "window" THEN TrimForRequest(h) ELSE h

(***************************************************************************)
(* The steps of a turn.                                                    *)
(***************************************************************************)
OnlyTurn == UNCHANGED <<setup, memory, log, saved, alone>>

Active == {t \in Turns : turn[t].pc \notin {"idle", "done"}}

User(t) == [by |-> "user", turn |-> t, whole |-> TRUE]

\* What is left in the buffer is the caller's.
Finish(t, e) ==
  turn' = [turn EXCEPT ![t] = [NewTurn EXCEPT !.pc = "done", !.err = e, !.cancelled = turn[t].cancelled]]

\* The caller's stream takes one more.
HasRoom(t) == turn[t].room > 0

\* Run or RunStream is called.
Begin(t) ==
  /\ turn[t].pc = "idle" /\ t <= setup.turns /\ Cardinality(Active) < setup.atOnce
  /\ \A u \in Turns : u < t => turn[u].pc # "idle"
  /\ \E s \in BOOLEAN : turn' = [turn EXCEPT ![t].pc = "load", ![t].stream = s]
  /\ alone' = (alone /\ Active = {})
  /\ UNCHANGED <<setup, memory, log, saved>>

Cancel(t) ==
  /\ t \in Active /\ ~turn[t].cancelled
  /\ turn' = [turn EXCEPT ![t].cancelled = TRUE]
  /\ OnlyTurn

\* LoadLast(n) or Load.  Mutant: one message less.
Loaded_OneLess(n) == IF n > 1 THEN Latest(memory, n - 1) ELSE memory
Loaded(n) == Latest(memory, n)

LoadMessages(t) ==
  /\ turn[t].pc = "load"
  /\ LET history == Loaded(IF setup.bounded THEN Bound ELSE 0)
     IN  turn' = [turn EXCEPT ![t].pc = "generate", ![t].tries = 0,
                              ![t].msgs = Append(TrimForRequest(history), User(t))]
  /\ OnlyTurn

\* Another attempt, or the error.
Retries(t, wait, e) ==
  IF turn[t].tries + 1 < setup.attempts
  THEN turn' = [turn EXCEPT ![t].pc = wait, ![t].tries = @ + 1]
  ELSE Finish(t, e)

LoadFails(t) == turn[t].pc = "load" /\ Retries(t, "loadWait", "load") /\ OnlyTurn

\* The timer of the backoff fires, or the context ends.
Backoff(t) ==
  /\ turn[t].pc \in {"loadWait", "saveWait"}
  /\ \/ turn' = [turn EXCEPT ![t].pc = IF @ = "loadWait" THEN "load" ELSE "save"]
     \/ turn[t].cancelled /\ Finish(t, "ctx")
  /\ OnlyTurn

Generate(t) ==
  /\ turn[t].pc = "generate"
  /\ turn' = [turn EXCEPT ![t].pc = "reading"]
  /\ OnlyTurn

GenerateFails(t) == turn[t].pc = "generate" /\ Finish(t, "source") /\ OnlyTurn

\* A text frame: Run keeps it, RunStream passes it on too.
ReadText(t) ==
  /\ turn[t].pc = "reading" /\ turn[t].got < MaxText
  /\ turn' = [turn EXCEPT ![t].got = @ + 1, ![t].pc = IF turn[t].stream THEN "emit" ELSE @]
  /\ OnlyTurn

AfterText(t) == IF turn[t].stream THEN "usage" ELSE "save"

\* The response is over, or it looks so: the provider gave it up when the context
\* ended.
ReadEnd(t) ==
  /\ turn[t].pc = "reading"
  /\ \E c \in {FALSE, turn[t].cancelled} : turn' = [turn EXCEPT ![t].pc = AfterText(t), ![t].cut = c]
  /\ OnlyTurn

\* The error of the provider's stream.
Broken(t) == Finish(t, "source")

ReadFails(t) == turn[t].pc = "reading" /\ Broken(t) /\ OnlyTurn

ReadCancelled(t) == turn[t].pc = "reading" /\ turn[t].cancelled /\ Finish(t, "ctx") /\ OnlyTurn

Emit(t) ==
  /\ turn[t].pc = "emit" /\ HasRoom(t)
  /\ turn' = [turn EXCEPT ![t].pc = "reading", ![t].room = @ - 1]
  /\ OnlyTurn

\* Emit's own look at the context.  Mutant: it waits for room only.
GivesUp_Never(t) == FALSE
GivesUp(t) == turn[t].cancelled

\* The goroutine returns ("Do not save partial history"), and its stream is closed
\* without an error.
EmitFails(t) == turn[t].pc = "emit" /\ GivesUp(t) /\ Finish(t, "dropped") /\ OnlyTurn

\* RunStream: usage is passed on if there is any, and if its Emit fails that is ignored.
EmitUsage(t) ==
  /\ turn[t].pc = "usage"
  /\ \/ HasRoom(t) /\ turn' = [turn EXCEPT ![t].pc = "save", ![t].room = @ - 1]
     \/ turn' = [turn EXCEPT ![t].pc = "save"]   \* none, or no Emit
  /\ OnlyTurn

Response(t) == [by |-> "assistant", turn |-> t, whole |-> ~turn[t].cut]

\* What Save stores.
NextHistory(t) == Append(turn[t].msgs, Response(t))

\* Save takes effect.
Stores(t) ==
  /\ memory' = TrimForSave(NextHistory(t))
  /\ log' = IF t \in saved THEN log ELSE log \o <<User(t), Response(t)>>
  /\ saved' = saved \cup {t}
  /\ UNCHANGED <<setup, alone>>

Save(t) == turn[t].pc = "save" /\ Stores(t) /\ Finish(t, "nil")

\* What a turn makes of an attempt to save that has failed.  Mutant: no more
\* attempts, no error.
SaveError_Dropped(t) == Finish(t, "nil")
SaveError(t) == Retries(t, "saveWait", "save")

SaveFails(t) ==
  /\ turn[t].pc = "save"
  /\ SaveError(t)
  /\ Stores(t) \/ OnlyTurn

\* The caller reads what RunStream emits.
Receive(t) ==
  /\ turn[t].room < OutSize
  /\ turn' = [turn EXCEPT ![t].room = @ + 1]
  /\ OnlyTurn

(***************************************************************************)
(* The specification.                                                      *)
(***************************************************************************)
\* The model and the store answer, one way or another.
Turning(t) ==
  \/ LoadMessages(t) \/ LoadFails(t) \/ Backoff(t)
  \/ Generate(t) \/ GenerateFails(t)
  \/ ReadText(t) \/ ReadEnd(t) \/ ReadFails(t) \/ ReadCancelled(t)
  \/ Emit(t) \/ EmitFails(t) \/ EmitUsage(t)
  \/ Save(t) \/ SaveFails(t)

Next == \E t \in Turns : Begin(t) \/ Cancel(t) \/ Turning(t) \/ Receive(t)

Spec == Init /\ [][Next]_vars

FairSpec == Spec /\ \A t \in Turns : WF_vars(Turning(t))

(***************************************************************************)
(* Properties.                                                             *)
(***************************************************************************)
\* "Memory still stores full history; the policy only limits what is sent": a turn
\* that nobody interrupts is asked with what its policy makes of everything that was
\* said before, though what is stored has been trimmed and what is loaded is
\* bounded (loadMessages).  A policy that is to keep the first messages is left
\* out: with a memory that can load the last ones it gets only those.
Promised(t) == Append(TrimForRequest(log), User(t))

ContextExact ==
  (\A i \in DOMAIN setup.policies : setup.policies[i].kind # "ends") =>
    \A t \in Turns : turn[t].pc = "generate" /\ alone => turn[t].msgs = Promised(t)

\* Only a turn whose context ended can leave a part of a response in the memory.
WholeInMemory == \A i \in DOMAIN memory : memory[i].whole \/ turn[memory[i].turn].cancelled

\* A turn whose provider failed, whose history could not be loaded, or whose stream
\* the agent gave up, leaves no trace, cancelled or not; one that reports success is
\* stored, once, with all that came before it, however often Save is tried, whenever
\* it takes effect and whenever the caller hangs up.
TurnAtomic ==
  /\ TypeOK /\ WholeInMemory
  /\ \A t \in Turns : turn[t].pc = "done" =>
       /\ turn[t].err \in {"load", "source", "dropped"} => t \notin saved
       /\ turn[t].err = "nil" => t \in saved
  /\ alone /\ setup.policies = <<>> => memory = log

\* "If the context is canceled mid-stream, the partial response is discarded and
\* memory is NOT updated" (RunStream): a response that the cancellation cut is not
\* saved.  The code breaks this: a provider that is cancelled may close its stream
\* before the agent looks at the context.
PartialDiscarded ==
  [][\A t \in Turns : turn[t].stream /\ turn[t].cut /\ t \notin saved => t \notin saved']_vars

\* A turn that is cancelled comes to its end, even if the caller has stopped
\* reading and the store keeps failing.
CancelledTurnEnds == \A t \in Turns : turn[t].cancelled ~> turn[t].pc = "done"

\* "KeepFirstAndLast keeps the first keepFirst and the last keepLast messages"
\* (history.go:70): a turn with that policy too is asked with what the policy
\* makes of everything that was said.  Its MaxMessages lets the memory load only
\* the last ones.
FirstAreKept == \A t \in Turns : turn[t].pc = "generate" /\ alone => turn[t].msgs = Promised(t)


=============================================================================
