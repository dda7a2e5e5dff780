--------------------------- MODULE SessionHistory ---------------------------
(***************************************************************************)
(* What agents of one session remember (internal/session, the context      *)
(* guard of internal/llm and the message loop of cmd/subagent).  A run     *)
(* reads the newest messages of its session, hands the older part of them  *)
(* to the model for a summary, prompts the model with the rest, and, once  *)
(* it has succeeded, stores its question and its answer with two inserts   *)
(* before it sends the result.  Agents are processes of their own on one   *)
(* SQLite file, so the runs of a session interleave at every call.         *)
(*                                                                         *)
(* Prompts hold the messages' row numbers; texts are left out.  AddMessage *)
(* reads the clock before the insert, which may have to wait for another   *)
(* process.  A message without a session id neither reads nor stores;      *)
(* ClearHistory has no caller.                                             *)
(***************************************************************************)
EXTENDS Naturals, Sequences, SequencesExt

CONSTANTS
  Run,         \* messages agents take from their queues
  Session,
  SessionOf,   \* the session of each run
  Past,        \* the runs that have ended before, one after the other
  Limit,       \* messages GetHistory is asked for: 10 in the code
  KeepRecent,  \* messages the context guard keeps verbatim: 6 in the code
  MaxTime,     \* bound on the clock, in its ticks of a millisecond
  MaxFaults    \* bound on the calls that fail and the agents that die

ASSUME HistoryAssumption ==
  /\ SessionOf \in [Run -> Session]
  /\ Past \in Seq(Run) /\ \A i, j \in DOMAIN Past : i # j => Past[i] # Past[j]
  /\ Limit \in Nat /\ Limit % 2 = 0
  /\ KeepRecent \in 0..Limit /\ KeepRecent % 2 = 0
  /\ MaxTime \in Nat /\ MaxFaults \in Nat

Role == {"user", "assistant"}

Row == [run : Run, role : Role, at : 0..MaxTime]

VARIABLES
  now,      \* the clock
  table,    \* session_history in the order of insertion, the rowid
  pc,       \* where each run is
  stamp,    \* CreatedAt of the message a run is inserting
  prompt,   \* what it was prompted with: rows kept, rows summarised
  faults,   \* failures so far
  seen,     \* per run, the length of the table it read, 0 if it could not (history)
  before,   \* per run, the runs whose result was out when it read the whole of
            \* its history, none if it did not (history)
  damaged   \* runs with a failed insert, or dead between the two (history)

vars == <<now, table, pc, stamp, prompt, faults, seen, before, damaged>>

PCs == {"idle", "running", "user", "insertUser", "assistant", "insertAssistant",
        "reply", "done", "failed"}

Empty == [kept |-> <<>>, summary |-> <<>>]

\* Type invariant: rows of runs, stamped by the clock, and prompts made of rows
\* (history_store.go ChatMessage, subagent Run).
TypeOK ==
  /\ now \in 0..MaxTime
  /\ table \in Seq(Row)
  /\ pc \in [Run -> PCs]
  /\ stamp \in [Run -> 0..MaxTime]
  /\ prompt \in [Run -> [kept : Seq(Nat), summary : Seq(Nat)]]
  /\ faults \in 0..MaxFaults
  /\ seen \in [Run -> Nat]
  /\ before \in [Run -> SUBSET Run]
  /\ damaged \subseteq Run

\* Every past run has stored its question and its answer.
Init ==
  /\ now = 0
  /\ table = [i \in 1..(2 * Len(Past)) |->
                [run |-> Past[(i + 1) \div 2], role |-> IF i % 2 = 1 THEN "user" ELSE "assistant",
                 at |-> 0]]
  /\ pc = [r \in Run |-> IF r \in Range(Past) THEN "done" ELSE "idle"]
  /\ stamp = [r \in Run |-> 0]
  /\ prompt = [r \in Run |-> Empty]
  /\ faults = 0
  /\ seen = [r \in Run |-> 0]
  /\ before = [r \in Run |-> {Past[j] : j \in {k \in DOMAIN Past :
                                   \E i \in DOMAIN Past : Past[i] = r /\ k < i}}]
  /\ damaged = {}

-----------------------------------------------------------------------------
(* The store and the context guard *)

RowsOf(s) == {i \in DOMAIN table : SessionOf[table[i].run] = s}

\* Row i comes before row j in the index on (session_id, created_at); equal
\* times are in the order of insertion.
Older(i, j) == table[i].at < table[j].at \/ (table[i].at = table[j].at /\ i < j)

NewerThan(i, rows) == {j \in rows : Older(i, j)}

\* Mutant of SelectNewest: the oldest rows are taken.
SelectOldest(s) ==
  LET rows == RowsOf(s)
      n == Cardinality(rows)
      m == IF n < Limit THEN n ELSE Limit
  IN  [k \in 1..m |-> CHOOSE i \in rows : Cardinality(NewerThan(i, rows)) = n - m + k - 1]

\* The query, newest first and cut at the limit.
SelectNewest(s) ==
  LET rows == RowsOf(s)
      n == Cardinality(rows)
  IN  [k \in 1..(IF n < Limit THEN n ELSE Limit) |->
         CHOOSE i \in rows : Cardinality(NewerThan(i, rows)) = k - 1]

\* GetHistory turns the rows round, oldest first.
GetHistory(s) == Reverse(SelectNewest(s))

\* Mutant of CompactHistory: one message too many is kept.
CompactOneMore(h) ==
  LET split == IF Len(h) <= KeepRecent + 1 THEN 0 ELSE Len(h) - KeepRecent - 1
  IN  [summary |-> SubSeq(h, 1, split), kept |-> SubSeq(h, split + 1, Len(h))]

CompactHistory(h) ==
  LET split == IF Len(h) <= KeepRecent THEN 0 ELSE Len(h) - KeepRecent
  IN  [summary |-> SubSeq(h, 1, split), kept |-> SubSeq(h, split + 1, Len(h))]

\* SemanticCompact: without a summary the older messages are left out.
SemanticCompact(h, summarised) ==
  IF summarised THEN CompactHistory(h) ELSE [CompactHistory(h) EXCEPT !.summary = <<>>]

-----------------------------------------------------------------------------
(* A run of the subagent *)

Goto(r, l) == pc' = [pc EXCEPT ![r] = l]

\* A call fails, or a process.
Fault == faults < MaxFaults /\ faults' = faults + 1

\* The history is read and the prompt made from it, with a summary if the
\* model gives one.
BuildMessages(r) ==
  /\ pc[r] = "idle"
  /\ \E summarised \in BOOLEAN :
       /\ IF summarised THEN UNCHANGED faults ELSE Fault
       /\ prompt' = [prompt EXCEPT ![r] = SemanticCompact(GetHistory(SessionOf[r]), summarised)]
  /\ seen' = [seen EXCEPT ![r] = Len(table)]
  /\ before' = [before EXCEPT ![r] = {q \in Run : pc[q] = "done"}]
  /\ Goto(r, "running")
  /\ UNCHANGED <<now, table, stamp, damaged>>

\* The rows break off after n of them: rows.Err() is not looked at and what came
\* so far, the newest messages, passes for the history.
BuildMessagesCut(r) ==
  LET newest == SelectNewest(SessionOf[r])
  IN  /\ pc[r] = "idle"
      /\ Fault
      /\ \E n \in 0..(Len(newest) - 1), summarised \in BOOLEAN :
           prompt' = [prompt EXCEPT ![r] =
                        SemanticCompact(Reverse(SubSeq(newest, 1, n)), summarised)]
      /\ seen' = [seen EXCEPT ![r] = Len(table)]
      /\ before' = [before EXCEPT ![r] = {}]
      /\ Goto(r, "running")
      /\ UNCHANGED <<now, table, stamp, damaged>>

\* The error of the query is ignored: a prompt without a history.
BuildMessagesBlind(r) ==
  /\ pc[r] = "idle"
  /\ Fault
  /\ Goto(r, "running")
  /\ UNCHANGED <<now, table, stamp, prompt, seen, before, damaged>>

\* The runtime returns an error: it is reported and nothing is stored.
RunFails(r) ==
  /\ pc[r] = "running"
  /\ Goto(r, "failed")
  /\ UNCHANGED <<now, table, stamp, prompt, faults, seen, before, damaged>>

RunSucceeds(r) ==
  /\ pc[r] = "running"
  /\ Goto(r, "user")
  /\ UNCHANGED <<now, table, stamp, prompt, faults, seen, before, damaged>>

\* AddMessage takes the time ...
Stamp(r, from, to) ==
  /\ pc[r] = from
  /\ stamp' = [stamp EXCEPT ![r] = now]
  /\ Goto(r, to)
  /\ UNCHANGED <<now, table, prompt, faults, seen, before, damaged>>

\* ... and inserts; an error is ignored and the loop goes on.
Insert(r, from, role, to) ==
  /\ pc[r] = from
  /\ Goto(r, to)
  /\ \/ /\ table' = Append(table, [run |-> r, role |-> role, at |-> stamp[r]])
        /\ UNCHANGED <<faults, damaged>>
     \/ /\ Fault
        /\ damaged' = damaged \cup {r}
        /\ UNCHANGED table
  /\ UNCHANGED <<now, stamp, prompt, seen, before>>

StampUser(r) == Stamp(r, "user", "insertUser")
InsertUser(r) == Insert(r, "insertUser", "user", "assistant")

\* Mutant of StampAssistant: the missing CreatedAt is not filled in.
StampAssistantEarly(r) ==
  /\ pc[r] = "assistant"
  /\ stamp' = [stamp EXCEPT ![r] = 0]
  /\ Goto(r, "insertAssistant")
  /\ UNCHANGED <<now, table, prompt, faults, seen, before, damaged>>

StampAssistant(r) == Stamp(r, "assistant", "insertAssistant")
InsertAssistant(r) == Insert(r, "insertAssistant", "assistant", "reply")

SendResult(r) ==
  /\ pc[r] = "reply"
  /\ Goto(r, "done")
  /\ UNCHANGED <<now, table, stamp, prompt, faults, seen, before, damaged>>

\* The agent's process dies, and no result is sent.
Die(r) ==
  /\ Fault
  /\ pc[r] \notin {"idle", "done", "failed"}
  /\ damaged' = IF pc[r] \in {"assistant", "insertAssistant"} THEN damaged \cup {r} ELSE damaged
  /\ Goto(r, "failed")
  /\ UNCHANGED <<now, table, stamp, prompt, seen, before>>

Tick ==
  /\ now < MaxTime
  /\ now' = now + 1
  /\ UNCHANGED <<table, pc, stamp, prompt, faults, seen, before, damaged>>

-----------------------------------------------------------------------------
Step(r) ==
  \/ BuildMessages(r) \/ BuildMessagesCut(r) \/ BuildMessagesBlind(r)
  \/ RunFails(r) \/ RunSucceeds(r)
  \/ StampUser(r) \/ InsertUser(r) \/ StampAssistant(r) \/ InsertAssistant(r)
  \/ SendResult(r)

Next == Tick \/ \E r \in Run : Step(r) \/ Die(r)

Spec == Init /\ [][Next]_vars

-----------------------------------------------------------------------------
(* Safety *)

\* The runs of this behaviour.
Live == Run \ Range(Past)

\* What run q was prompted with, oldest first.
Remembered(q) == prompt[q].summary \o prompt[q].kept

\* Rows of the session of q that were there when q read it.
Visible(q) == {i \in 1..seen[q] : SessionOf[table[i].run] = SessionOf[q]}

\* A follow-up sees the turn it follows: when the result of a run was out before
\* q read the history to its end, both messages of that run are in the prompt of
\* q, unless their insert failed or newer messages fill the window, or the part of
\* it that is kept when the summary failed (subagent Run stores before it replies;
\* GetHistory takes the newest).
AnswerIsRemembered ==
  \A q \in Live : \A r \in before[q] \ damaged : SessionOf[r] = SessionOf[q] =>
    \A role \in Role : \E i \in Visible(q) :
      /\ table[i].run = r /\ table[i].role = role
      /\ \/ i \in Range(Remembered(q))
         \/ Cardinality(NewerThan(i, Visible(q))) >=
              IF prompt[q].summary = <<>> THEN KeepRecent ELSE Limit

\* However the runs of a session interleave, a prompt tells them in order: the
\* oldest message first, a question before its answer, and none twice
\* (AddMessage's stamps, GetHistory's order and its reversal).
QuestionBeforeAnswer ==
  \A q \in Live : \A i, j \in DOMAIN Remembered(q) : i < j =>
    LET a == table[Remembered(q)[i]]
        b == table[Remembered(q)[j]]
    IN  a.at <= b.at /\ (a.run = b.run => a.role = "user" /\ b.role = "assistant")

\* The runs of the session of q that stored something q could read followed one
\* another, and all their inserts succeeded.
Serial(q) ==
  LET runs == {table[i].run : i \in Visible(q)}
  IN  /\ runs \cap damaged = {} /\ runs \subseteq before[q]
      /\ \A r, s \in runs : r # s => r \in before[s] \/ s \in before[r]

\* A session used by one run at a time keeps whole turns: what the guard keeps
\* starts with a question, and every question is followed by its own answer
\* (the limits are even; CompactHistory cuts between turns).
WholeTurns ==
  \A q \in Live : Serial(q) =>
    \A i \in DOMAIN prompt[q].kept : i % 2 = 1 =>
      /\ table[prompt[q].kept[i]].role = "user"
      /\ i < Len(prompt[q].kept)
      /\ table[prompt[q].kept[i + 1]].role = "assistant"
      /\ table[prompt[q].kept[i + 1]].run = table[prompt[q].kept[i]].run
=============================================================================
