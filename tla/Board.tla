------------------------------- MODULE Board -------------------------------
(***************************************************************************)
(* What the session store promises to process_request (server.cxx:17-96):  *)
(* one log of batches per session and calls that take effect at one        *)
(* instant between being made and being answered.  A posted batch goes to  *)
(* the end of its session's log; a read answers from the log of that       *)
(* instant; nothing else changes a log but its deletion as a whole.        *)
(***************************************************************************)
EXTENDS Integers, Sequences

CONSTANTS
  Sessions, Texts, NoText,  \* as in SessionHost
  Threads,                  \* the callers
  Calls,                    \* what a caller may ask
  None                      \* no call

VARIABLES
  up,      \* the store is there to be called
  log,     \* session -> its batches
  call,    \* caller -> its call
  status,  \* caller -> how far the call is
  answer   \* caller -> what it is to be told

vars == <<up, log, call, status, answer>>

Statuses == {"idle", "pending", "answered", "failed"}

Init ==
  /\ up = TRUE
  /\ log = [s \in Sessions |-> << >>]
  /\ call = [t \in Threads |-> None]
  /\ status = [t \in Threads |-> "idle"]
  /\ answer = [t \in Threads |-> NoText]

Ask(t) ==
  /\ up /\ status[t] = "idle"
  /\ \E c \in Calls : call' = [call EXCEPT ![t] = c]
  /\ status' = [status EXCEPT ![t] = "pending"]
  /\ UNCHANGED <<up, log, answer>>

Pending(t, ops) == up /\ status[t] = "pending" /\ call[t].op \in ops

Answered(t, r) ==
  /\ status' = [status EXCEPT ![t] = "answered"]
  /\ answer' = [answer EXCEPT ![t] = r]
  /\ UNCHANGED <<up, call>>

\* The batch is appended; an empty one, like a keep-alive, changes no log.
Post(t) ==
  /\ Pending(t, {"dequeue"}) /\ call[t].text # NoText
  /\ log' = [log EXCEPT ![call[t].ses] = Append(@, call[t].text)]
  /\ Answered(t, NoText)

KeepAlive(t) ==
  /\ Pending(t, {"dequeue", "keepAlive"}) /\ call[t].text = NoText
  /\ UNCHANGED log
  /\ Answered(t, NoText)

Range(t) ==
  LET b == log[call[t].ses]
  IN  /\ Pending(t, {"getRange"})
      /\ UNCHANGED log
      /\ Answered(t, SubSeq(b, call[t].index + 1, Len(b)))

Depth(t) ==
  /\ Pending(t, {"getDepth"})
  /\ UNCHANGED log
  /\ Answered(t, Len(log[call[t].ses]))

\* One batch, or nothing beyond the log.  About the index right after the
\* last batch the store promises nothing but that it answers with a string.
Fetch(t) ==
  LET b == log[call[t].ses]
      i == call[t].index
  IN  /\ Pending(t, {"getAt"})
      /\ UNCHANGED log
      /\ \E r \in Texts \cup {NoText} :
           /\ i < Len(b) => r = b[i + 1]
           /\ i > Len(b) => r = NoText
           /\ Answered(t, r)

\* A call that fails has changed no log.
Fail(t) ==
  /\ up /\ status[t] = "pending"
  /\ status' = [status EXCEPT ![t] = "failed"]
  /\ UNCHANGED <<up, log, call, answer>>

Hear(t) ==
  /\ up /\ status[t] \in {"answered", "failed"}
  /\ status' = [status EXCEPT ![t] = "idle"]
  /\ call' = [call EXCEPT ![t] = None]
  /\ answer' = [answer EXCEPT ![t] = NoText]
  /\ UNCHANGED <<up, log>>

Expire(s) ==
  /\ up
  /\ log' = [log EXCEPT ![s] = << >>]
  /\ UNCHANGED <<up, call, status, answer>>

GoDown ==
  /\ up /\ up' = FALSE
  /\ UNCHANGED <<log, call, status, answer>>

Next ==
  \/ \E t \in Threads :
       \/ Ask(t) \/ Hear(t) \/ Fail(t)
       \/ Post(t) \/ KeepAlive(t) \/ Range(t) \/ Depth(t) \/ Fetch(t)
  \/ \E s \in Sessions : Expire(s)
  \/ GoDown

Spec == Init /\ [][Next]_vars
=============================================================================
